SPECIFICATION FairSpec
CONSTANTS
    Faults = {"command", "undo", "link", "file", "kill", "reboot", "broker", "foreign"}
    MaxFaults = 3
    Modes = {"nat", "plain"}
INVARIANTS
    TypeOK
    RulesAreRecorded
    DownRestores
    FailedUpRestores
PROPERTIES
    ForeignBridgeSafe
    RecoverWorks
