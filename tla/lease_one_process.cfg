SPECIFICATION Spec
CONSTANTS
    s1 = s1
    s2 = s2
    p1 = p1
    p2 = p2
    Slot <- TwoSlots
    Proc <- OneProcess
    NumAddresses = 6
    Gateway = 4
    MaxGen = 1
    Ops <- AllOps
    MaxKills = 2
SYMMETRY Interchangeable
INVARIANTS
    TypeOK
    LeaseFileSound
    NoSharedAddress
    GivesUpOnlyWhenFull
PROPERTIES
    ImplementsTable
    RotationMoves
