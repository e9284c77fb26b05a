\* Two functors, so that the loop can be running one with another pending when
\* the destructor comes.
CONSTANTS
    Task = {t1, t2}
    Channel = {c1}
    WakeupChannel = wakeup
    IoThread = io
    Owner = owner
    User = user
SPECIFICATION Spec
INVARIANTS
    TypeOK
    StartLoopReturnsLoop
    MembersOutliveThread
PROPERTIES
    StartLoopReturns
    JoinReturns
CHECK_DEADLOCK FALSE
