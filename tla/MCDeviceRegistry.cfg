CONSTANTS
    Devices = {d1, d2}
    Sockets = {s1, s2}
    MaxHosts = 3
    MaxCalls = 1
    MaxUploads = 1
    MaxSilences = 1
    NoSocket = NoSocket
    NoDevice = NoDevice
SPECIFICATION Spec
SYMMETRY Symmetry
INVARIANTS
    TypeOK
    TablesHoldLiveHosts
    RegisteredHostsAreWatched
    RegisteredHostsAreFound
CHECK_DEADLOCK FALSE
