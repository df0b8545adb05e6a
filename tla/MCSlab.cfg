SPECIFICATION SSpec
CONSTANTS
    p0 = p0
    p1 = p1
    p2 = p2
    p3 = p3
    NullPage = p0
    Pages <- MCPages
    Node <- MCNode
    QueueName <- MCNone
    Nil = Nil
    SizeWrap = 8
    IntBits = 3
    Rows = 1
    Capacity = 3
INVARIANTS
    SlabTypeOK
    AvailIsExact
    BitmapIsExact
    LiveIsOwned
    NoIdleSlab
