CONSTANTS
    Clients = {c1, c2}
    Viewers = {c1}
    Hosts = {h1, h2}
    NoHost = NoHost
    MaxPlays = 2
    MaxLoops = 2
    MaxRequests = 2
SPECIFICATION Spec
INVARIANTS
    TypeOK
    PlaysAreServed
    AlarmsAreServed
    AlarmsGoWhereTheyAreWanted
    OneRcdLoopWhenBusy
PROPERTY UnusedLoopsEnd
