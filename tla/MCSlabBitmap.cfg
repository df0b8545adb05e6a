SPECIFICATION SSpec
CONSTANTS
    p0 = p0
    p1 = p1
    p2 = p2
    p3 = p3
    NullPage = p0
    Pages <- MCPages
    Node <- MCNode
    QueueName <- MCNone
    Nil = Nil
    SizeWrap = 8
    IntBits = 2
    Rows = 2
    Capacity = 7
INVARIANT
    BitmapIsExact
