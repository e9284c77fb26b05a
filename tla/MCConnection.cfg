\* Two connections share the IO loop, so that its batches and polls mix them.
\* readFd may report a close that did not happen, or an error, because it does
\* not return its result.
CONSTANTS
    Conn = {c1, c2}
    MaxMessages = 1
    ReadResults = {"zero", "negative"}
SPECIFICATION Spec
SYMMETRY Symmetry
INVARIANTS
    TypeOK
    NoDanglingConnection
    FlushBeforeFin
    FinNotForgotten
PROPERTIES
    ClosedStaysOut
    ImplementsCallbacks
CHECK_DEADLOCK FALSE
