\* One connection, two messages, and a readFd that returns the byte count.  No
\* symmetry: the properties are liveness properties.
CONSTANTS
    Conn = {c1}
    MaxMessages = 2
    ReadResults = {}
SPECIFICATION Spec
PROPERTIES
    ClosedIsReleased
    IdleIsShutDown
CHECK_DEADLOCK FALSE
