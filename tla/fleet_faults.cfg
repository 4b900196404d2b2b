SPECIFICATION Spec
CONSTANTS
    N = 2
    Cli = {"c1"}
    Commands = {"up", "acceptance", "down", "purge", "recover", "restart", "rotate"}
    Counts = {1, 2}
    Faults = {"command", "reboot", "agent"}
    MaxFaults = 2
    MaxLease = 2
    MaxId = 9
INVARIANTS
    TypeOK
    OneAgentPerSlot
    UpIsHealthy
    DownIsClean
    FailedUpIsContained
