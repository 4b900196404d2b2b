CONSTANTS
    Slot = {s1}
    Id = {1, 2}
    Types = {"start-agent", "stop-agent", "scenario", "shutdown"}
    StartAnswers = {"ok", "error"}
    Faults = {"remove", "crash", "agent"}
    MaxFaults = 2
    s1 = s1
SPECIFICATION FairSpec
INVARIANTS HistoryTypeOK NothingLost
PROPERTIES ImplementsCalls ServedInTurn
CHECK_DEADLOCK FALSE
