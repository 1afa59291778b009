SPECIFICATION FairSpec
CONSTANTS
    MaxCommands = 4
    FileSize = 2
    Kinds = {"noop", "pasv", "epsv", "stor", "retr"}
INVARIANTS RepliesKept TransfersWhole
PROPERTIES CommandAnswered LeaverLetGo
CHECK_DEADLOCK FALSE
