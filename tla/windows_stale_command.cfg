CONSTANTS
    N = 2
    Slot = {1, 2}
    Id = {1, 2}
    Types = {"start-agent", "agent-command", "scenario", "shutdown"}
    StartAnswers = {"ok", "error"}
    Pid = {1, 2}
    Root = {1, 2}
    Commands <- FewCommands
    Faults = {"slow"}
    MaxFaults = 1
    MaxAsked = 3
SPECIFICATION FleetSpec
PROPERTY BrokerBeforeAgents
CHECK_DEADLOCK FALSE
