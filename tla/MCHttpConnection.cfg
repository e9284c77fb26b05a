CONSTANTS
    kcheapPrepend = 1
    kInitialSize = 3
    ExtraSize = 4
    Blank = "blank"
    Word <- Words
    Streams <- TwoRequests
SPECIFICATION Spec
INVARIANTS
    TypeOK
    BuffersInOrder
    InputIsStream
    OutputIsAnswers
    AnswersAreTheParse
    WaitsOnlyAfterAnswer
CHECK_DEADLOCK FALSE
