SPECIFICATION Spec
CONSTANTS
    s1 = s1
    s2 = s2
    p1 = p1
    p2 = p2
    Slot <- TwoSlots
    Proc <- TwoProcesses
    NumAddresses = 6
    Gateway = 1
    MaxGen = 1
    Ops <- AllocateOnly
    MaxKills = 0
INVARIANT NoSharedAddress
