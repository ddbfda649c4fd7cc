CONSTANTS
    MaxHost = 2
    MaxFile = 2
    Owner <- MCOwner
    Room = 1
    MaxFaults = 1
    MaxCrashes = 1
SPECIFICATION Spec
INVARIANTS
    TypeOK
    RepliesAreInStep
    
    WholeFilesCanBeDeleted
PROPERTIES
    DownloaderComesBack
CHECK_DEADLOCK FALSE
