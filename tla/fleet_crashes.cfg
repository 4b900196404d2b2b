SPECIFICATION FairSpec
CONSTANTS
    N = 2
    Cli = {"c1"}
    Commands = {"up", "purge", "recover"}
    Counts = {1, 2}
    Faults = {"down", "silent", "file", "kill", "reboot", "agent", "broker"}
    MaxFaults = 2
    MaxLease = 1
    MaxId = 9
INVARIANT BrokerMapCurrent
PROPERTY RecoverWorks
