CONSTANTS
    Heading <- ShortHeading
    Messages <- ShortAndLong
    kSmallBuffer = 4
    kMaxNumericSize = 2
    kLargeBuffer = 4
    MaxBacklog = 3
    KeptBuffers = 2
    Null = Null
    MaxLines = 5
    MaxErrors = 1
SPECIFICATION Spec
INVARIANTS
    TypeOK
    BuffersAtHand
    OnceInOrder
    StopKeepsLines
PROPERTIES
    LineIsWritten
    StopReturns
CHECK_DEADLOCK FALSE
