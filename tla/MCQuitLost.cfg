\* A quit that comes before loop() has reset the flag.
CONSTANTS
    Task = {t1}
    IoThread = io
    OtherThread = {a}
    Channel = {}
    WakeupChannel = wakeup
SPECIFICATION Spec
PROPERTY
    QuitStopsLoop
CHECK_DEADLOCK FALSE
