\* A close seen between shutdown and shutdownInloop.
CONSTANTS
    Conn = {c1}
    MaxMessages = 1
    ReadResults = {}
SPECIFICATION Spec
INVARIANT
    FinMeansFlushed
CHECK_DEADLOCK FALSE
