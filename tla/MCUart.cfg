SPECIFICATION USpec
CONSTANTS
    Size = 2
    FifoSize = 2
    MaxIn = 3
    MaxOut = 3
INVARIANTS
    LenInBounds
    ReadInOrder
    SentInOrder
PROPERTIES
    BytesMove
CHECK_DEADLOCK FALSE
