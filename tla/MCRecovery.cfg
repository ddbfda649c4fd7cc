CONSTANTS
    Clients = {c1}
    Hosts = {h1, h2}
    Channels = {ch}
    NoHost = NoHost
    NoClient = NoClient
    MaxJoins = 3
    MaxLogins = 1
SPECIFICATION Spec
PROPERTY ViewsRecover
CHECK_DEADLOCK FALSE
