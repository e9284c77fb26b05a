CONSTANTS
    Client = {c1, c2}
    Path = {"/haha", "/index"}
    CachedPath = "/haha"
    Streams <- Inputs

SPECIFICATION Spec

INVARIANTS
    TypeOK
    ReadersHoldW
    TunnelsMatch

PROPERTIES
    RefusedIsStuck
    EndsTogether

CHECK_DEADLOCK FALSE
