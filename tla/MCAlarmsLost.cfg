CONSTANTS
    Clients = {c1}
    Viewers = {c1}
    Hosts = {h1}
    NoHost = NoHost
    MaxPlays = 1
    MaxLoops = 1
    MaxRequests = 1
SPECIFICATION Spec
INVARIANTS
    OpenedAlarmsArrive
