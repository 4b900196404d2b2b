SPECIFICATION FairSpec
CONSTANTS
    Faults = {"kill"}
    MaxFaults = 1
    Modes = {"plain"}
PROPERTY RecoverWorksAfterKill
