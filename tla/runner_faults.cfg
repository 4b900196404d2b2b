SPECIFICATION FairSpec
CONSTANTS
    N = 2
    NumPorts = 2
    Hash <- SamePort
    Kinds = {"beacon", "exact", "default"}
    MaxWorkers = 2
    MaxProbes = 1
    Faults = {"peer", "script", "file", "kill", "killStart", "foreign", "down"}
    MaxFaults = 1
INVARIANTS
    TypeOK
    OwnPeer
    PassMeansServed
    PortsReturned
    PeersStopped
    DownStopsPeers
    GroundTruthAgrees
PROPERTY EveryRunEnds
CHECK_DEADLOCK FALSE
