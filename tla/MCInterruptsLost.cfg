SPECIFICATION ISpec
CONSTANTS
    QueuePoolLen = 6
    TaskPoolLen = 7
    MaxEvents = 0
    A = A
    B = B
    Boot = Boot
    Idle = Idle
    Context <- MCContext
SYMMETRY Threads
CHECK_DEADLOCK FALSE
INVARIANT
    Served
