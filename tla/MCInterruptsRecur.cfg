SPECIFICATION ISpec
CONSTANTS
    QueuePoolLen = 3
    TaskPoolLen = 4
    MaxEvents = 2
    A = A
    B = B
    Boot = Boot
    Idle = Idle
    Context <- MCContext
CHECK_DEADLOCK FALSE
INVARIANT
    UartHandledOnce
