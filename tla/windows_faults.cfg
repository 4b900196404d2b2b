CONSTANTS
    N = 2
    Slot = {1, 2}
    Id = {1, 2}
    Types = {"start-agent", "agent-command", "scenario", "shutdown"}
    StartAnswers = {"ok", "error"}
    Pid = {1, 2}
    Root = {1, 2}
    Commands <- MCCommands
    Faults = {"slow", "race", "command", "ignored", "crash", "agent", "broker", "kill", "reboot", "remove"}
    MaxFaults = 1
    MaxAsked = 2
SPECIFICATION FleetSpec
INVARIANTS FleetTypeOK UpIsServed DownIsClean ScriptsWithinRuns
PROPERTIES AgentsAfterBroker OthersSpared ForeignNetworkKept
CHECK_DEADLOCK FALSE
