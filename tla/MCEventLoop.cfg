\* Two foreign threads so that a wakeup of one can hide that of the other, and
\* three functors so that one can be in the batch, one pending and one be
\* queued by the functor that runs.
CONSTANTS
    Task = {t1, t2, t3}
    IoThread = io
    OtherThread = {a, b}
    Channel = {c1}
    WakeupChannel = wakeup
SPECIFICATION Spec
INVARIANTS
    TypeOK
    NoLostWakeup
    QuitWakesPoll
PROPERTIES
    ImplementsExecutor
    QuitStopsRunningLoop
CHECK_DEADLOCK FALSE
