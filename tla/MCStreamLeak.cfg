CONSTANTS
    Clients = {c1, c2}
    Hosts = {h1}
    Channels = {ch}
    NoHost = NoHost
    NoClient = NoClient
    MaxJoins = 2
    MaxLogins = 1
SPECIFICATION Spec
SYMMETRY Symmetry
INVARIANT StreamClosedWhenUnwatched
CHECK_DEADLOCK FALSE
