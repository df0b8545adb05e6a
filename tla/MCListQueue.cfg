SPECIFICATION QSpec
CONSTANTS
    n1 = n1
    n2 = n2
    n3 = n3
    n4 = n4
    run = run
    dead = dead
    Node <- MCNode
    QueueName <- MCQueueName
    Nil = Nil
    SizeWrap = 8
INVARIANTS
    ChainsAreSound
    LooseNodesAreUnlinked
PROPERTY
    KeepsOrder
