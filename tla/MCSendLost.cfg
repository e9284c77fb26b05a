\* send drops a message the socket would not take at once.
CONSTANTS
    Conn = {c1}
    MaxMessages = 1
    ReadResults = {}
SPECIFICATION Spec
INVARIANT
    SendKeepsMessage
CHECK_DEADLOCK FALSE
