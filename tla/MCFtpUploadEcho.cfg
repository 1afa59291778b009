CONSTANTS
    FileSize = 6
    ChannelSize = 1
    BatchSize = 2
    SocketSize = 1
    MaxIdleCount = 2
    Servers = {"echoes"}
SPECIFICATION FairSpec
PROPERTY UploadEnds
CHECK_DEADLOCK FALSE
