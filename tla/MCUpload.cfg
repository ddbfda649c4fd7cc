CONSTANTS
    Files = {f1}
    MaxHosts = 2
    MaxCalls = 4
    Capacity = 3
    MaxFaults = 1
    NoFile = NoFile
SPECIFICATION Spec
INVARIANTS
    TypeOK
    EveryUploadIsSettled
    NothingIsMissing
    LoopsMatchUploads
PROPERTIES
    StoppedUploadsLeaveTheWorker
CHECK_DEADLOCK FALSE
