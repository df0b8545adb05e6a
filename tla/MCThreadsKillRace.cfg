SPECIFICATION TSpec
CONSTANTS
    MaxThreads = 5
    Node <- MCNode
    QueueName <- MCQueueName
    Nil = Nil
    SizeWrap = 16
    KillPreemptible = TRUE
INVARIANT
    TargetStillThere
