CONSTANTS
    Clients = {c1, c2}
    Hosts = {h1}
    Channels = {ch}
    NoHost = NoHost
    NoClient = NoClient
    MaxJoins = 2
    MaxLogins = 1
SPECIFICATION Spec
SYMMETRY Symmetry
INVARIANTS
    TypeOK
    StreamingMatchesRefs
    RefsHaveRings
    ConnectedViewsAreAttached
    AnnouncedHostsFeedTheirViews
CHECK_DEADLOCK FALSE
