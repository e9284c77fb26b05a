\* The loop sees the destructor's flag and is gone before its wakeup.
CONSTANTS
    Task = {t1}
    Channel = {}
    WakeupChannel = wakeup
    IoThread = io
    Owner = owner
    User = user
SPECIFICATION Spec
INVARIANT
    LoopOutlivesQuit
CHECK_DEADLOCK FALSE
