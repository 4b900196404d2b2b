SPECIFICATION Spec
CONSTANTS
    N = 2
    Cli = {"c1"}
    Commands = {"up", "down"}
    Counts = {2}
    Faults = {"broker"}
    MaxFaults = 1
    MaxLease = 1
    MaxId = 8
INVARIANT SingleAgents
