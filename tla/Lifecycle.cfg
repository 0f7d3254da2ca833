CONSTANT
    Handler = {h1, h2, h3}
SPECIFICATION FairSpec
INVARIANTS
    FrontendsQuiet
    SocketOpen
    ReloadKeepsStore
PROPERTY
    ShutdownCompletes
CHECK_DEADLOCK FALSE
