SPECIFICATION Spec
CONSTANTS
    Faults = {"broker"}
    MaxFaults = 1
    Modes = {"nat"}
INVARIANT DownRestoresForwarding
