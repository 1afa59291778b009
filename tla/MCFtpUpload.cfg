CONSTANTS
    FileSize = 8
    ChannelSize = 1
    BatchSize = 2
    SocketSize = 2
    MaxIdleCount = 2
    Servers = {"reads", "echoes", "hangs"}
SPECIFICATION FairSpec
INVARIANTS UploadWhole AuditConserved SavedClean
PROPERTIES EndsUnlessIcapHolds
CHECK_DEADLOCK FALSE
