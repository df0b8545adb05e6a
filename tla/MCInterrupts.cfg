SPECIFICATION ISpec
CONSTANTS
    QueuePoolLen = 3
    TaskPoolLen = 3
    MaxEvents = 2
    A = A
    B = B
    Boot = Boot
    Idle = Idle
    Context <- MCContext
SYMMETRY Threads
CHECK_DEADLOCK FALSE
INVARIANTS
    IrqTypeOK
    ShellServed
    ShellHandledOnce
    ShellNoInversion
    QueuesInOnePlace
    TasksConserved
