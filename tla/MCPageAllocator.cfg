SPECIFICATION Spec
CONSTANTS
    MaxOrder = 2
    TopBlocks = 4
    PageSize = 4
    SizeBits = 7
    Sizes <- MCSizes
    Regions <- MCRegions
INVARIANTS
    TypeOK
    FreeListsAgree
    BlocksTile
    Coalesced
    BuddyNeverGrouped
    RegionsStayReserved
    IsAllocatedIsExact
    StoreInv
PROPERTIES
    Implements
    CallsReturn
