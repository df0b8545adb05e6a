SPECIFICATION TSpec
CONSTANTS
    MaxThreads = 5
    Node <- MCNode
    QueueName <- MCQueueName
    Nil = Nil
    SizeWrap = 16
    KillPreemptible = FALSE
INVARIANTS
    ThreadsTypeOK
    InOnePlace
PROPERTIES
    DeadNeverRuns
    ReapedOnce
    OneWay
    RunnableRuns
    SignalTaken
    AllReaped
