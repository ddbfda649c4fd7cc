CONSTANTS
    Users = {u1, u2}
    Conns = {c1, c2, c3}
    NoUser = NoUser
    NoConn = NoConn
    Handles = {h1, h2}
    NoHandle = NoHandle
    MaxCommands = 2
    MaxFaults = 1
    MaxRestarts = 1
SPECIFICATION Spec
SYMMETRY Symmetry
INVARIANTS
    TypeOK
    EntriesAreCleared
    NoGhostOnline
CHECK_DEADLOCK FALSE
