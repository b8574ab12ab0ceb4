CONSTANTS
    h1 = h1
    h2 = h2
    h3 = h3
    p1 = p1
    p2 = p2
    p3 = p3
    Hosts <- MCHosts
    Home = h1
    Procs <- MCProcs
    StreamFlags = {"WRITE"}
    MigEndMayFail = TRUE
SYMMETRY Symmetry
SPECIFICATION Spec
CONSTRAINT MovesBound
INVARIANT MigratedStreamUsable
CHECK_DEADLOCK FALSE
