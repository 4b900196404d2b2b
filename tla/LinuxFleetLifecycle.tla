------------------------- MODULE LinuxFleetLifecycle -------------------------
(***************************************************************************)
(* What up, down and restart leave of a fleet, for every number of slots   *)
(* and every mix of commands, as long as one of them runs at a time.       *)
(*                                                                         *)
(* Four invariants; the second and the last need the first, and admit      *)
(* fewer kinds of faults than it does:                                     *)
(*   Contained  everything that runs is in the records of the command that *)
(*              is at work, or in the files when none is;                  *)
(*   Found      every namespace has an endpoint.json, so that down has it  *)
(*              in its list;                                               *)
(*   Owned      the bridge has the ownership file with which down finds it; *)
(*   Healthful  what up has made so far is what status will call healthy.  *)
(***************************************************************************)
EXTENDS LinuxFleetProofs

Gentle == Only({"command", "reboot", "agent", "purge"})

(* Everything that runs is in these records: a runtime.json and a list of  *)
(* endpoints.                                                               *)
Known(r, e) ==
    /\ \A b \in brokers : b.pid = r.broker
    /\ \A a \in agents : a.pid = r.agents[a.slot]
    /\ \A k \in keepers : e[k.slot] # NoEndpoint

(* Between commands: in the files. *)
Settled ==
    /\ Known(runtime, EndpointList)
    /\ brokers = {} => agents = {} /\ keepers = {}

(* The slots in up's list of endpoints, with the one it is creating. *)
Created(m, s) ==
    \/ m.pc = "prepare" /\ s < m.at
    \/ m.pc \in Creating \ {"prepare"} /\ s <= m.at
    \/ m.pc \in {"enroll", "broker"} \cup WithBroker \cup AgentLoop /\ s <= m.count

(* While up creates the fleet: in its memory. *)
UpKnows(m) ==
    /\ \A s \in Slot : m.endpoints[s] # NoEndpoint <=> Created(m, s)
    /\ \A s \in Slot : Created(m, s) => endpoint[s] # NoEndpoint
    /\ \A s \in Slot : Created(m, s) /\ ~ (m.pc \in {"netns", "keeper"} /\ s = m.at)
          => m.endpoints[s].keeper # None
    /\ m.pc \in BeforeBroker => brokers = {} /\ agents = {}
    /\ m.pc \in {"saveBroker", "awaitBroker"} => agents = {}
    /\ m.pc \in BridgeSteps => keepers = {}
    /\ m.pc \in {"prepare", "netns", "keeper"} => \A k \in keepers : k.slot < m.at
    /\ m.pc \in {"keeper", "endpoint"} => netns[m.at] # None
    /\ Known(m.runtime, m.endpoints)
    /\ m.pc = "agent" => \A a \in agents : a.slot < m.at
    /\ m.pc \in {"saveAgent", "checkAgent"} => \A a \in agents : a.slot <= m.at
    /\ m.pc \in {"awaitBroker", "agent", "checkAgent", "manifest"} => runtime = m.runtime
    /\ m.pc \in AgentLoop \cup {"manifest"} => brokers # {}

(* While restart replaces an agent: in its memory, and in the files unless  *)
(* the new agent is not saved yet.                                         *)
RestartKnows(m) ==
    /\ Known(m.runtime, EndpointList)
    /\ m.pc # "saveAgent" => Known(runtime, EndpointList)
    /\ brokers = {} => agents = {} /\ keepers = {}
    /\ m.endpoints[m.at] # NoEndpoint
    /\ m.pc \in (Rotation \ {"stopAgent"}) \cup {"agent"} => \A a \in agents : a.slot # m.at

(* While the fleet is taken down: in memory, less what is gone. *)
UndoKnows(m) ==
    /\ Known(m.runtime, m.endpoints)
    /\ m.pc # "stopAgents" => agents = {}
    /\ m.pc \notin {"stopAgents", "stopBroker"} => brokers = {}
    /\ m.pc \in {"deleteBridge", "unlinkOwner", "unlink"} => keepers = {} /\ Pending(m) = {}

Knows(m) ==
    /\ m.pc \in {"idle", "check", "scenario"} => Settled
    /\ m.cmd \in Ups /\ m.pc \in BeforeBroker \cup WithBroker \cup AgentLoop => UpKnows(m)
    /\ m.pc \in Rotation \cup AgentLoop /\ m.cmd \in Restarts => RestartKnows(m)
    /\ m.pc \in Undoing => UndoKnows(m)

AloneInSlot == \A a, b \in agents : a.slot = b.slot => a = b

Contained ==
    Gentle => /\ AloneInSlot
              /\ \A c \in Cli : Knows(cli[c])
              /\ last \in {"down_ok", "up_failed"} => NothingRuns

LEMMA ContainedInit == Init => Contained
<1> SUFFICES ASSUME Init PROVE Contained
  OBVIOUS
<1>1. Settled
  BY DEF Init, Settled, Known
<1>2. \A c \in Cli : cli[c].pc = "idle"
  BY IdleTyped DEF Init
<1> QED
  BY <1>1, <1>2 DEF Init, Contained, Knows, AloneInSlot, BeforeBroker, BridgeSteps, Creating,
     WithBroker, AgentLoop, Rotation, Undoing

(* A fault of a kind that happened stays in the account. *)
LEMMA KindsGrow ==
    ASSUME TypeOK, [Next]_vars
    PROVE  faults.kinds \subseteq faults'.kinds
<1>1. ASSUME NEW kind, Fault(kind) PROVE faults.kinds \subseteq faults'.kinds
  BY <1>1 DEF Fault
<1>2. ASSUME NEW c \in Cli,
             UpStepFails(c) \/ RestartStepFails(c) \/ DownStepFails(c) \/ StaysBehind(c) \/ Kill(c)
      PROVE  faults.kinds \subseteq faults'.kinds
  BY <1>1, <1>2 DEF UpStepFails, RestartStepFails, DownStepFails, StaysBehind, Kill
<1>3. CASE Reboot \/ AgentDies \/ BrokerDies
  BY <1>1, <1>3 DEF Reboot, AgentDies, BrokerDies
<1>4. ASSUME NEW c \in Cli, StartUp(c) \/ StartDown(c) \/ StartRestart(c)
      PROVE  faults.kinds \subseteq faults'.kinds
  BY <1>4, StartingUp, StartingDown, StartingRestart
<1>5. ASSUME NEW c \in Cli, UpStep(c)
      PROVE  faults.kinds \subseteq faults'.kinds
  BY <1>5, EnsuringBridge DEF UpStep, Quiet, Check, Prepare, CreateNetns, StartKeeper,
     RecordEndpoint, SaveKeeper, Enroll, StartBroker, SaveBroker, AwaitBroker, StartAgent,
     SaveAgent, CheckAgent, WriteManifest, RunScenario
<1>6. ASSUME NEW c \in Cli, UnlinkRuntime(c)
      PROVE  faults.kinds \subseteq faults'.kinds
  BY <1>6 DEF UnlinkRuntime, TypeOK
<1>7. ASSUME NEW c \in Cli, DownStep(c), ~ UnlinkRuntime(c)
      PROVE  faults.kinds \subseteq faults'.kinds
  BY <1>7, DeletingBridge DEF DownStep, Quiet, StopAgents, StopBroker, CleanEndpoint,
     EndpointsClean
<1>8. ASSUME NEW c \in Cli, RestartStep(c)
      PROVE  faults.kinds \subseteq faults'.kinds
  BY <1>8 DEF RestartStep, Quiet, StopAgent, RotateLease, FlushAddress, AddAddress,
     SaveAddress, NoKeeper
<1>9. CASE UNCHANGED vars
  BY <1>9 DEF vars
<1> QED
  BY <1>2, <1>3, <1>4, <1>5, <1>6, <1>7, <1>8, <1>9 DEF Next, Step

(* A fault that happens is of a kind that Only still admits after it. *)
LEMMA FaultKind ==
    ASSUME TypeOK, NEW kind, Fault(kind), NEW kinds, Only(kinds)'
    PROVE  kind \in kinds
BY DEF Fault, Only, TypeOK

(* What the list of endpoints shows. *)
LEMMA ListFact ==
    \A s \in Slot : EndpointList[s] # NoEndpoint <=> Listed(s)
BY DEF EndpointList, Listed

(* Which part of Knows is at issue after a step. *)
LEMMA KnowsThen ==
    ASSUME NEW c \in Cli
    PROVE  LET m == cli[c]  r == cli'[c] IN
           /\ r.pc \in {"idle", "check", "scenario"} /\ Settled' => Knows(m)'
           /\ r.pc \in BeforeBroker \cup WithBroker \cup AgentLoop /\ r.cmd \in Ups
                 /\ UpKnows(m)' => Knows(m)'
           /\ r.pc \in Rotation \cup AgentLoop /\ r.cmd \in Restarts
                 /\ RestartKnows(m)' => Knows(m)'
           /\ r.pc \in Undoing /\ UndoKnows(m)' => Knows(m)'
<1> DEFINE m == cli[c]
           r == cli'[c]
<1> USE DEF Knows, BeforeBroker, BridgeSteps, Creating, WithBroker, AgentLoop, Rotation, Undoing, Ups, Restarts
<1>1. ASSUME r.pc \in {"idle", "check", "scenario"}, Settled' PROVE Knows(m)'
  BY <1>1
<1>2. ASSUME r.pc \in BeforeBroker \cup WithBroker \cup AgentLoop, r.cmd \in Ups, UpKnows(m)'
      PROVE  Knows(m)'
  BY <1>2
<1>3. ASSUME r.pc \in Rotation \cup AgentLoop, r.cmd \in Restarts, RestartKnows(m)'
      PROVE  Knows(m)'
  BY <1>3
<1>4. ASSUME r.pc \in Undoing, UndoKnows(m)' PROVE Knows(m)'
  BY <1>4
<1> QED
  BY <1>1, <1>2, <1>3, <1>4

LEMMA SettledStays ==
    ASSUME Settled, UNCHANGED <<brokers, agents, keepers, runtime, endpoint, manifest>>
    PROVE  Settled'
BY DEF Settled, Known, EndpointList, Listed

(* down, and acceptance, load what is settled. *)
LEMMA LoadedKnows ==
    ASSUME Settled, UNCHANGED <<brokers, agents, keepers>>,
           NEW c \in Cli, cli'[c].pc = "stopAgents",
           cli'[c].runtime = runtime, cli'[c].endpoints = EndpointList
    PROVE  Knows(cli[c])'
<1>1. UndoKnows(cli[c])'
  BY DEF UndoKnows, Settled, Known
<1> QED
  BY <1>1, KnowsThen DEF Undoing

(* The exception handler has all of it in memory, unless it interrupted     *)
(* create_endpoint after the keeper was started.                           *)
LEMMA FailedKnows ==
    ASSUME TypeOK, NEW c \in Cli, UpKnows(cli[c]), Becomes(c, Failed(Appended(cli[c]))),
           UNCHANGED <<brokers, agents, keepers>>,
           cli[c].pc \notin {"endpoint", "saveKeeper"}
    PROVE  Knows(cli[c])'
<1> DEFINE m == cli[c]
           r == cli'[c]
<1>1. r.pc = "stopAgents" /\ r.runtime = m.runtime /\ r.endpoints = InList(m)
  BY FailingUp
<1>2. m.at \in Slot /\ m.endpoints \in [Slot -> Endpoint] /\ keepers \subseteq [pid : Id, slot : Slot]
  BY DEF TypeOK, Memory
<1>3. ASSUME NEW k \in keepers PROVE r.endpoints[k.slot] # NoEndpoint
  <2>1. m.endpoints[k.slot] # NoEndpoint /\ k.slot \in Slot
    BY <1>2 DEF UpKnows, Known
  <2>2. CASE m.pc \in Creating
    <3>1. k.slot < m.at
      BY <2>2 DEF UpKnows, Creating
    <3> QED
      BY <1>1, <1>2, <2>1, <2>2, <3>1 DEF InList, Slot
  <2>3. CASE m.pc \notin Creating
    BY <1>1, <2>1, <2>3 DEF InList
  <2> QED
    BY <2>2, <2>3
<1>4. UndoKnows(m)'
  BY <1>1, <1>3 DEF UndoKnows, UpKnows, Known
<1> QED
  BY <1>1, <1>4, KnowsThen DEF Undoing

(* The steps of up, of down and of restart keep their command's records    *)
(* complete.                                                               *)
LEMMA UpStepKnows ==
    ASSUME OneCommand, TypeOK, NEW c \in Cli, UpStep(c),
           Control(cli[c]), Knows(cli[c]), AloneInSlot
    PROVE  AloneInSlot' /\ Knows(cli[c])'
<1> DEFINE m == cli[c]
           r == cli'[c]
<1>0. /\ \A d \in Cli : d = c
      /\ Control(m) /\ Knows(m)
      /\ m \in Memory /\ m.at \in Slot /\ m.count \in Slot
      /\ m.endpoints \in [Slot -> Endpoint]
      /\ m.runtime \in RuntimeFile
      /\ agents \subseteq [pid : Id, slot : Slot, ns : Id]
      /\ keepers \subseteq [pid : Id, slot : Slot]
  BY DEF OneCommand, TypeOK, Memory, RuntimeFile
<1>a. ASSUME UpKnows(m)', r.pc \in BeforeBroker \cup WithBroker \cup AgentLoop, r.cmd \in Ups
      PROVE  Knows(m)'
  BY <1>a, KnowsThen
<1>b. ASSUME Settled', r.pc \in {"idle", "check", "scenario"}
      PROVE  Knows(m)'
  BY <1>b, KnowsThen
<1>c. ASSUME RestartKnows(m)', r.pc \in AgentLoop, r.cmd \in Restarts
      PROVE  Knows(m)'
  BY <1>c, KnowsThen
<1>d. ASSUME UNCHANGED agents PROVE AloneInSlot'
  BY <1>d DEF AloneInSlot
<1>e. ASSUME m.pc \in BeforeBroker \cup WithBroker \/ (m.pc \in AgentLoop /\ m.cmd \in Ups)
      PROVE  UpKnows(m) /\ m.cmd \in Ups /\ m.at <= m.count
  BY <1>0, <1>e DEF Knows, Control
<1> USE DEF BeforeBroker, BridgeSteps, Creating, WithBroker, AgentLoop, Same
<1>1. CASE Check(c)
  <2>0. m.pc = "check" /\ Settled /\ UNCHANGED <<kernel, files>> /\ m.cmd \in Ups
    BY <1>1, <1>0 DEF Check, At, Knows, Control
  <2>1. CASE ~ BrokerAlive(runtime.broker)
    <3>1. brokers = {} /\ agents = {} /\ keepers = {}
      BY <2>0, <2>1 DEF Settled, Known, BrokerAlive, Pids
    <3>2. /\ r.cmd = m.cmd /\ r.pc = "bridge" /\ r.at = 1
          /\ \A s \in Slot : r.endpoints[s] = NoEndpoint
      BY <1>1, <2>1, Checking DEF NoEndpoints
    <3>3. UpKnows(m)'
      BY <2>0, <3>1, <3>2 DEF UpKnows, Created, Known, kernel, files
    <3> QED
      BY <1>a, <1>d, <2>0, <3>2, <3>3 DEF kernel
  <2>2. CASE BrokerAlive(runtime.broker)
    <3>1. Becomes(c, Loaded(m)) \/ Over(c, "none")
      BY <1>1, <2>2 DEF Check
    <3>2. CASE Becomes(c, Loaded(m))
      BY <1>0, <1>d, <2>0, <3>2, Loading, LoadedKnows DEF kernel
    <3>3. CASE Over(c, "none")
      BY <1>b, <1>d, <2>0, <3>3, Ending, SettledStays DEF kernel, files
    <3> QED
      BY <3>1, <3>2, <3>3
  <2> QED
    BY <2>1, <2>2
<1>2. CASE EnsureBridge(c)
  <2>1. /\ m.pc \in BridgeSteps /\ m.at = 1 /\ UpKnows(m) /\ m.cmd \in Ups
        /\ UNCHANGED <<brokers, agents, keepers, netns, runtime, endpoint>>
    BY <1>2, <1>0, <1>e, EnsuringBridge DEF Control
  <2>2. ASSUME NEW p \in (BridgeSteps \ {"bridge"}) \cup {"prepare"}, Goto(c, p)
        PROVE  AloneInSlot' /\ Knows(m)'
    <3>1. /\ r.pc = p /\ r.cmd = m.cmd /\ r.count = m.count /\ r.at = m.at
          /\ r.runtime = m.runtime /\ r.endpoints = m.endpoints
      BY <2>2, GoingTo DEF Steps
    <3>2. keepers = {}
      BY <2>1 DEF UpKnows
    <3>3. UpKnows(m)'
      BY <1>0, <2>1, <2>2, <3>1, <3>2 DEF UpKnows, Created, Known, Slot
    <3> QED
      BY <1>a, <1>d, <2>1, <2>2, <3>1, <3>3
  <2>3. CASE Becomes(c, Failed(m))
    <3>1. Appended(m) = m
      BY <2>1 DEF Appended
    <3> QED
      BY <1>d, <2>1, <2>3, <3>1, FailedKnows
  <2> QED
    BY <1>2, <2>2, <2>3, EnsuringBridge
<1>3. CASE Prepare(c)
  <2>1. PICK e \in Endpoint : /\ e # NoEndpoint
                              /\ endpoint' = [endpoint EXCEPT ![m.at] = e]
                              /\ r.endpoints = [m.endpoints EXCEPT ![m.at] = e]
    BY <1>3, Preparing
  <2>2. /\ m.pc = "prepare" /\ r.pc = "netns" /\ r.at = m.at /\ r.runtime = m.runtime
        /\ r.cmd = m.cmd /\ r.count = m.count
        /\ UNCHANGED <<brokers, agents, keepers, netns, runtime>>
    BY <1>3, Preparing DEF kernel
  <2>3. /\ r.endpoints[m.at] # NoEndpoint /\ endpoint'[m.at] # NoEndpoint
        /\ \A s \in Slot \ {m.at} : r.endpoints[s] = m.endpoints[s] /\ endpoint'[s] = endpoint[s]
    BY <1>0, <2>1 DEF TypeOK
  <2>4. UpKnows(m)'
    BY <1>0, <1>e, <2>2, <2>3 DEF UpKnows, Created, Known, Slot
  <2> QED
    BY <1>a, <1>d, <1>e, <2>2, <2>4
<1>4. CASE CreateNetns(c)
  <2>1. PICK ns \in FreshNs : netns' = [netns EXCEPT ![m.at] = ns]
    BY <1>4 DEF CreateNetns
  <2>2. netns'[m.at] # None
    BY <1>0, <2>1 DEF FreshNs, Fresh, TypeOK, Id, None
  <2>3. Goto(c, "keeper") /\ m.pc = "netns" /\ "keeper" \in Steps
        /\ UNCHANGED <<brokers, agents, keepers, files>>
    BY <1>4 DEF CreateNetns, At, Steps
  <2>4. UpKnows(m)'
    BY <1>0, <1>e, <2>2, <2>3, GoingTo DEF UpKnows, Created, Known, files
  <2> QED
    BY <1>a, <1>d, <1>e, <2>3, <2>4, GoingTo
<1>5. CASE StartKeeper(c)
  <2>1. PICK pid \in FreshKeeper : keepers' = keepers \cup {[pid |-> pid, slot |-> m.at]}
    BY <1>5, CreatingKeeper
  <2>2. /\ m.pc = "keeper" /\ r.pc = "endpoint" /\ r.at = m.at /\ r.runtime = m.runtime
        /\ r.cmd = m.cmd /\ r.count = m.count
        /\ r.endpoints[m.at] # NoEndpoint
        /\ \A s \in Slot \ {m.at} : r.endpoints[s] = m.endpoints[s]
        /\ UNCHANGED <<brokers, agents, netns, endpoint, runtime>>
        /\ r.endpoints[m.at].keeper # None
    BY <1>5, CreatingKeeper DEF files, FreshKeeper, Fresh, Id, None
  <2>3. /\ m.endpoints[m.at] # NoEndpoint
        /\ \A k \in keepers' : k.slot <= m.at /\ (k \in keepers \/ k.slot = m.at)
    BY <1>0, <1>e, <2>1, <2>2 DEF UpKnows, Created, Slot
  <2>4. UpKnows(m)'
    BY <1>0, <1>e, <2>2, <2>3 DEF UpKnows, Created, Known
  <2> QED
    BY <1>a, <1>d, <1>e, <2>2, <2>4
<1>6. CASE RecordEndpoint(c)
  <2>0. m.pc = "endpoint" /\ netns[m.at] # None
    BY <1>6, <1>e DEF RecordEndpoint, At, UpKnows
  <2>1. PICK e \in Endpoint : /\ e # NoEndpoint /\ e.keeper = m.endpoints[m.at].keeper
                              /\ endpoint' = [endpoint EXCEPT ![m.at] = e]
                              /\ r.endpoints = [m.endpoints EXCEPT ![m.at] = e]
    BY <1>6, <2>0, RecordingEndpoint
  <2>2. /\ r.pc = "saveKeeper" /\ r.at = m.at /\ r.runtime = m.runtime
        /\ r.cmd = m.cmd /\ r.count = m.count
        /\ UNCHANGED <<brokers, agents, keepers, netns, runtime>>
    BY <1>6, <2>0, RecordingEndpoint DEF kernel
  <2>3. /\ r.endpoints[m.at] # NoEndpoint /\ endpoint'[m.at] # NoEndpoint
        /\ r.endpoints[m.at].keeper = m.endpoints[m.at].keeper
        /\ \A s \in Slot \ {m.at} : r.endpoints[s] = m.endpoints[s] /\ endpoint'[s] = endpoint[s]
    BY <1>0, <2>1 DEF TypeOK
  <2>4. UpKnows(m)'
    BY <1>0, <1>e, <2>0, <2>2, <2>3 DEF UpKnows, Created, Known, Slot
  <2> QED
    BY <1>a, <1>d, <1>e, <2>0, <2>2, <2>4
<1>7. CASE SaveKeeper(c)
  <2>1. /\ Becomes(c, Advance(m, "prepare", "enroll")) /\ m.pc = "saveKeeper"
        /\ "prepare" \in Steps /\ "enroll" \in Steps
        /\ UNCHANGED <<brokers, agents, keepers, netns, endpoint>>
    BY <1>7 DEF SaveKeeper, At, Steps, kernel
  <2>2. UpKnows(m) /\ m.cmd \in Ups /\ m.at <= m.count
    BY <1>e, <2>1
  <2>3. /\ r.cmd = m.cmd /\ r.count = m.count /\ r.runtime = m.runtime /\ r.endpoints = m.endpoints
        /\ \/ m.at < m.count /\ r.pc = "prepare" /\ r.at = m.at + 1
           \/ m.at = m.count /\ r.pc = "enroll" /\ r.at = 1
    BY <1>0, <2>1, <2>2, Advancing DEF Slot
  <2>4. \A s \in Slot : Created(m, s) <=> Created(r, s)
    BY <1>0, <2>1, <2>3 DEF Created, Slot
  <2>5. \A k \in keepers : k.slot <= m.at /\ k.slot \in Slot
    <3>1. \A k \in keepers : Created(m, k.slot) /\ k.slot \in Slot
      BY <1>0, <2>2 DEF UpKnows, Known
    <3> QED
      BY <2>1, <3>1 DEF Created
  <2>6. UpKnows(m)'
    <3>1. /\ \A s \in Slot : r.endpoints[s] # NoEndpoint <=> Created(r, s)
          /\ \A s \in Slot : Created(r, s) => endpoint'[s] # NoEndpoint
          /\ \A s \in Slot : Created(r, s) => r.endpoints[s].keeper # None
      BY <2>1, <2>2, <2>3, <2>4 DEF UpKnows
    <3>2. r.pc = "prepare" => \A k \in keepers : k.slot < r.at
      BY <1>0, <2>3, <2>5 DEF Slot
    <3>3. Known(m.runtime, m.endpoints)' /\ brokers' = {} /\ agents' = {}
      BY <2>1, <2>2, <2>3 DEF UpKnows, Known
    <3>4. r.pc \in {"prepare", "enroll"} /\ keepers' = keepers
      BY <2>1, <2>3
    <3> QED
      BY <3>1, <3>2, <3>3, <3>4 DEF UpKnows, Created
  <2> QED
    BY <1>a, <1>d, <2>1, <2>2, <2>3, <2>6
<1>8. CASE Enroll(c)
  <2>1. Goto(c, "broker") /\ m.pc = "enroll" /\ "broker" \in Steps
        /\ UNCHANGED <<kernel, files>>
    BY <1>8 DEF Enroll, At, Steps
  <2>2. UpKnows(m)'
    BY <1>0, <1>e, <2>1, GoingTo DEF UpKnows, Created, Known, kernel, files
  <2> QED
    BY <1>a, <1>d, <1>e, <2>1, <2>2, GoingTo DEF kernel
<1>9. CASE StartBroker(c)
  <2>1. PICK pid \in FreshBroker :
             /\ m.pc = "broker" /\ r.pc = "saveBroker" /\ r.at = m.at
             /\ r.cmd = m.cmd /\ r.count = m.count
             /\ r.runtime.broker = pid /\ r.runtime.agents = m.runtime.agents
             /\ r.endpoints = m.endpoints
             /\ brokers' = brokers
                    \cup {[pid |-> pid, map |-> [s \in Slot |-> m.endpoints[s].ns]]}
             /\ UNCHANGED <<agents, keepers, netns, files>>
    BY <1>9, CreatingBroker
  <2>2. brokers = {} /\ agents = {}
    BY <1>e, <2>1 DEF UpKnows
  <2>3. \A b \in brokers' : b.pid = pid
    BY <2>1, <2>2
  <2>4. UpKnows(m)'
    BY <1>0, <1>e, <2>1, <2>2, <2>3 DEF UpKnows, Created, Known, files
  <2> QED
    BY <1>a, <1>d, <1>e, <2>1, <2>4
<1>10. CASE SaveBroker(c)
  <2>1. Goto(c, "awaitBroker") /\ m.pc = "saveBroker" /\ "awaitBroker" \in Steps
        /\ runtime' = m.runtime /\ UNCHANGED <<kernel, endpoint>>
    BY <1>10 DEF SaveBroker, At, Steps
  <2>2. UpKnows(m)'
    BY <1>0, <1>e, <2>1, GoingTo DEF UpKnows, Created, Known, kernel
  <2> QED
    BY <1>a, <1>d, <1>e, <2>1, <2>2, GoingTo DEF kernel
<1>11. CASE AwaitBroker(c)
  <2>0. m.pc = "awaitBroker" /\ UNCHANGED <<kernel, files>>
    BY <1>11 DEF AwaitBroker, At
  <2>1. CASE BrokerAlive(m.runtime.broker)
    <3>1. /\ r.pc = "agent" /\ r.cmd = m.cmd /\ r.count = m.count /\ r.at = 1
          /\ r.runtime = m.runtime /\ r.endpoints = m.endpoints
      BY <1>11, <2>1, Awaiting
    <3>2. brokers # {}
      BY <2>1 DEF BrokerAlive, Pids
    <3>3. UpKnows(m)'
      BY <1>0, <1>e, <2>0, <3>1, <3>2 DEF UpKnows, Created, Known, kernel, files
    <3> QED
      BY <1>a, <1>d, <1>e, <2>0, <3>1, <3>3 DEF kernel
  <2>2. CASE ~ BrokerAlive(m.runtime.broker)
    <3>1. Becomes(c, Failed(m))
      BY <1>11, <2>2, Zenon DEF AwaitBroker
    <3>2. Appended(m) = m
      BY <2>0 DEF Appended
    <3> QED
      BY <1>d, <1>e, <2>0, <3>1, <3>2, FailedKnows DEF kernel
  <2> QED
    BY <2>1, <2>2
<1>12. CASE StartAgent(c)
  <2> DEFINE s == m.at
  <2>1. PICK pid \in FreshAgent :
             /\ m.pc = "agent" /\ r.pc = "saveAgent" /\ r.at = s /\ r.endpoints = m.endpoints
             /\ r.cmd = m.cmd /\ r.count = m.count
             /\ agents' = IF CanEnter(s, m.endpoints[s])
                       THEN agents \cup {[pid |-> pid, slot |-> s, ns |-> netns[s]]}
                       ELSE agents
             /\ r.runtime.broker = m.runtime.broker
             /\ r.runtime.agents = [m.runtime.agents EXCEPT ![s] = pid]
             /\ UNCHANGED <<brokers, keepers, netns, files>>
    BY <1>12, CreatingAgent
  <2>2. /\ r.runtime.agents[s] = pid
        /\ \A x \in Slot \ {s} : r.runtime.agents[x] = m.runtime.agents[x]
    BY <1>0, <2>1 DEF RuntimeFile
  <2>3. \A a \in agents' : a \in agents
            \/ (a = [pid |-> pid, slot |-> s, ns |-> netns[s]] /\ CanEnter(s, m.endpoints[s]))
    BY <2>1
  <2>4. CASE m.cmd \in Ups
    <3>1. UpKnows(m)
      BY <1>e, <2>1, <2>4
    <3>2. \A a \in agents : a.slot < s /\ a.slot \in Slot \ {s}
      BY <1>0, <2>1, <3>1 DEF UpKnows, Slot
    <3>3. AloneInSlot'
      BY <2>3, <3>2 DEF AloneInSlot
    <3>4. \A a \in agents' : a.pid = r.runtime.agents[a.slot] /\ a.slot <= s
      BY <1>0, <2>2, <2>3, <3>1, <3>2 DEF UpKnows, Known, Slot
    <3>5. UpKnows(m)'
      BY <1>0, <2>1, <3>1, <3>4 DEF UpKnows, Created, Known, files
    <3> QED
      BY <1>a, <2>1, <2>4, <3>3, <3>5
  <2>5. CASE m.cmd \notin Ups
    <3>1. m.cmd \in Restarts /\ RestartKnows(m)
      BY <1>0, <2>1, <2>5 DEF Control, Knows
    <3>2. \A a \in agents : a.slot # s /\ a.slot \in Slot
      BY <1>0, <2>1, <3>1 DEF RestartKnows
    <3>3. AloneInSlot'
      BY <2>3, <3>2 DEF AloneInSlot
    <3>4. \A a \in agents' : a.pid = r.runtime.agents[a.slot]
      BY <1>0, <2>2, <2>3, <3>1, <3>2 DEF RestartKnows, Known
    <3>5. brokers' = {} => agents' = {} /\ keepers' = {}
      BY <2>1, <3>1 DEF RestartKnows, CanEnter, Pids
    <3>6. RestartKnows(m)'
      BY <2>1, <3>1, <3>4, <3>5
         DEF RestartKnows, Known, EndpointList, Listed, files, Rotation
    <3> QED
      BY <1>c, <2>1, <3>1, <3>3, <3>6
  <2> QED
    BY <2>4, <2>5
<1>13. CASE SaveAgent(c)
  <2>1. Goto(c, "checkAgent") /\ m.pc = "saveAgent" /\ "checkAgent" \in Steps
        /\ endpoint' = [endpoint EXCEPT ![m.at] = m.endpoints[m.at]]
        /\ runtime' = m.runtime /\ UNCHANGED <<kernel, manifest>>
    BY <1>13 DEF SaveAgent, At, Steps
  <2>2. endpoint'[m.at] = m.endpoints[m.at] /\ \A s \in Slot \ {m.at} : endpoint'[s] = endpoint[s]
    BY <1>0, <2>1 DEF TypeOK
  <2>3. CASE m.cmd \in Ups
    <3>1. UpKnows(m) /\ m.at <= m.count
      BY <1>e, <2>1, <2>3
    <3>2. UpKnows(m)'
      BY <1>0, <2>1, <2>2, <3>1, GoingTo DEF UpKnows, Created, Known, kernel
    <3> QED
      BY <1>a, <1>d, <2>1, <2>3, <3>2, GoingTo DEF kernel
  <2>4. CASE m.cmd \notin Ups
    <3>1. m.cmd \in Restarts /\ RestartKnows(m)
      BY <1>0, <2>1, <2>4 DEF Control, Knows
    <3>2. \A k \in keepers : EndpointList'[k.slot] # NoEndpoint
      BY <1>0, <2>1, <2>2, <3>1 DEF RestartKnows, Known, EndpointList, Listed
    <3>3. RestartKnows(m)'
      BY <2>1, <3>1, <3>2, GoingTo DEF RestartKnows, Known, kernel, Rotation
    <3> QED
      BY <1>c, <1>d, <2>1, <3>1, <3>3, GoingTo DEF kernel
  <2> QED
    BY <2>3, <2>4
<1>14. CASE CheckAgent(c)
  <2>0. m.pc = "checkAgent" /\ UNCHANGED <<kernel, files>>
        /\ "agent" \in Steps /\ "manifest" \in Steps
    BY <1>14 DEF CheckAgent, At, Steps
  <2>1. CASE m.cmd \in Ups
    <3>0. UpKnows(m) /\ m.at <= m.count
      BY <1>e, <2>0, <2>1
    <3>1. CASE Becomes(c, Advance(m, "agent", "manifest"))
      <4>1. /\ r.cmd = m.cmd /\ r.count = m.count
            /\ r.runtime = m.runtime /\ r.endpoints = m.endpoints
            /\ \/ m.at < m.count /\ r.pc = "agent" /\ r.at = m.at + 1
               \/ m.at = m.count /\ r.pc = "manifest" /\ r.at = 1
        BY <1>0, <2>0, <3>0, <3>1, Advancing DEF Slot
      <4>2. r.pc = "agent" => \A a \in agents : a.slot < r.at
        BY <1>0, <2>0, <3>0, <4>1 DEF UpKnows, Slot
      <4>3. UpKnows(m)'
        BY <2>0, <3>0, <4>1, <4>2 DEF UpKnows, Created, Known, kernel, files
      <4> QED
        BY <1>a, <1>d, <2>0, <2>1, <4>1, <4>3 DEF kernel
    <3>2. CASE Becomes(c, Failed(m))
      <4>1. Appended(m) = m
        BY <2>0 DEF Appended
      <4> QED
        BY <1>d, <2>0, <3>0, <3>2, <4>1, FailedKnows DEF kernel
    <3> QED
      BY <1>14, <2>1, <3>1, <3>2 DEF CheckAgent
  <2>2. CASE m.cmd \notin Ups
    <3>1. m.cmd \in Restarts /\ RestartKnows(m)
      BY <1>0, <2>0, <2>2 DEF Control, Knows
    <3>2. Settled
      BY <2>0, <3>1 DEF RestartKnows, Settled
    <3>3. Over(c, "restart_ok") \/ Over(c, "none")
      BY <1>14, <2>2 DEF CheckAgent
    <3> QED
      BY <1>b, <1>d, <2>0, <3>2, <3>3, Ending, SettledStays DEF kernel, files
  <2> QED
    BY <2>1, <2>2
<1>15. CASE WriteManifest(c)
  <2>0. m.pc = "manifest" /\ manifest' = 1 .. m.count /\ "scenario" \in Steps
        /\ UNCHANGED <<kernel, runtime, endpoint>>
    BY <1>15 DEF WriteManifest, At, Steps
  <2>1. UpKnows(m)
    BY <1>e, <2>0
  <2>2. \A k \in keepers : EndpointList'[k.slot] # NoEndpoint
    <3>1. \A k \in keepers : k.slot \in Slot /\ Created(m, k.slot) /\ endpoint[k.slot] # NoEndpoint
      BY <1>0, <2>1 DEF UpKnows, Known
    <3>2. \A k \in keepers : k.slot \in Slot /\ k.slot \in 1 .. m.count
      BY <1>0, <2>0, <3>1 DEF Created, Slot
    <3> QED
      BY <2>0, <3>1, <3>2 DEF EndpointList, Listed
  <2>3. Settled'
    BY <2>0, <2>1, <2>2 DEF Settled, UpKnows, Known, kernel
  <2>4. Goto(c, "scenario") \/ Over(c, "up_ok")
    BY <1>15 DEF WriteManifest
  <2> QED
    BY <1>b, <1>d, <2>0, <2>3, <2>4, GoingTo, Ending DEF kernel
<1>16. CASE RunScenario(c)
  <2>1. Becomes(c, Loaded(m)) /\ m.pc = "scenario" /\ Settled /\ UNCHANGED kernel
    BY <1>16, <1>0 DEF RunScenario, At, Knows
  <2> QED
    BY <1>0, <1>d, <2>1, Loading, LoadedKnows DEF kernel
<1> QED
  BY <1>1, <1>2, <1>3, <1>4, <1>5, <1>6, <1>7, <1>8, <1>9, <1>10, <1>11, <1>12, <1>13, <1>14, <1>15, <1>16
     DEF UpStep

LEMMA DownStepKnows ==
    ASSUME OneCommand, TypeOK, NEW c \in Cli, DownStep(c), Knows(cli[c]), AloneInSlot
    PROVE  AloneInSlot' /\ Knows(cli[c])'
<1> DEFINE m == cli[c]
           r == cli'[c]
<1>0. /\ m \in Memory /\ m.endpoints \in [Slot -> Endpoint]
      /\ agents \subseteq [pid : Id, slot : Slot, ns : Id]
      /\ keepers \subseteq [pid : Id, slot : Slot]
  BY DEF TypeOK, Memory
<1>a. ASSUME agents' \subseteq agents PROVE AloneInSlot'
  BY <1>a DEF AloneInSlot
<1>b. ASSUME UndoKnows(m)', r.pc \in Undoing PROVE Knows(m)'
  BY <1>b, KnowsThen
<1>c. ASSUME m.pc \in Undoing PROVE UndoKnows(m)
  BY <1>c DEF Knows
<1> USE DEF Undoing, Same
<1>1. CASE StopAgents(c)
  <2>1. /\ Goto(c, "stopBroker") /\ m.pc = "stopAgents" /\ "stopBroker" \in Steps
        /\ agents' = {a \in agents : a.pid \notin Values(m.runtime.agents)}
        /\ UNCHANGED <<brokers, keepers>>
    BY <1>1 DEF StopAgents, At, Steps
  <2>2. agents' = {}
    BY <1>0, <1>c, <2>1 DEF UndoKnows, Known, Values
  <2>3. UndoKnows(m)'
    BY <1>c, <2>1, <2>2, GoingTo DEF UndoKnows, Known
  <2> QED
    BY <1>a, <1>b, <2>1, <2>2, <2>3, GoingTo
<1>2. CASE StopBroker(c)
  <2>1. /\ Goto(c, "cleanup") /\ m.pc = "stopBroker" /\ "cleanup" \in Steps
        /\ brokers' = {b \in brokers : b.pid # m.runtime.broker}
        /\ UNCHANGED <<agents, keepers>>
    BY <1>2 DEF StopBroker, At, Steps
  <2>2. brokers' = {}
    BY <1>c, <2>1 DEF UndoKnows, Known
  <2>3. UndoKnows(m)'
    BY <1>c, <2>1, <2>2, GoingTo DEF UndoKnows, Known
  <2> QED
    BY <1>a, <1>b, <2>1, <2>3, GoingTo
<1>3. CASE CleanEndpoint(c)
  <2>1. PICK s \in Slot :
             /\ agents' = {a \in agents : a.slot # s}
             /\ keepers' = {k \in keepers : k.slot # s}
             /\ r.endpoints = [m.endpoints EXCEPT ![s] = NoEndpoint]
    BY <1>3, CleaningEndpoint
  <2>2. /\ m.pc = "cleanup" /\ r.pc = "cleanup" /\ r.runtime = m.runtime
        /\ UNCHANGED <<brokers>>
    BY <1>3, CleaningEndpoint
  <2>3. \A x \in Slot \ {s} : r.endpoints[x] = m.endpoints[x]
    BY <1>0, <2>1
  <2>4. Known(m.runtime, m.endpoints)'
    BY <1>0, <1>c, <2>1, <2>2, <2>3 DEF UndoKnows, Known
  <2>5. UndoKnows(m)'
    BY <1>c, <2>1, <2>2, <2>4 DEF UndoKnows
  <2> QED
    BY <1>a, <1>b, <2>1, <2>2, <2>5
<1>4. CASE EndpointsClean(c)
  <2>1. /\ Goto(c, "deleteBridge") /\ m.pc = "cleanup" /\ "deleteBridge" \in Steps
        /\ Pending(m) = {} /\ UNCHANGED <<brokers, agents, keepers>>
    BY <1>4 DEF EndpointsClean, At, Steps, kernel
  <2>2. keepers = {}
    BY <1>0, <1>c, <2>1 DEF UndoKnows, Known, Pending
  <2>3. UndoKnows(m)'
    BY <1>c, <2>1, <2>2, GoingTo DEF UndoKnows, Known, Pending
  <2> QED
    BY <1>a, <1>b, <2>1, <2>3, GoingTo
<1>5. CASE DeleteBridge(c)
  <2>1. PICK p \in {"unlinkOwner", "unlink"} : Goto(c, p)
    BY <1>5, DeletingBridge
  <2>2. /\ m.pc \in {"deleteBridge", "unlinkOwner"} /\ p \in Steps
        /\ UNCHANGED <<brokers, agents, keepers>>
    BY <1>5, DeletingBridge DEF Steps
  <2>3. UndoKnows(m)'
    BY <1>c, <2>1, <2>2, GoingTo DEF UndoKnows, Known, Pending
  <2> QED
    BY <1>a, <1>b, <2>1, <2>2, <2>3, GoingTo
<1>6. CASE UnlinkRuntime(c)
  <2>1. m.pc = "unlink" /\ UNCHANGED kernel /\ "check" \in Steps
    BY <1>6 DEF UnlinkRuntime, At, Steps
  <2>2. brokers' = {} /\ agents' = {} /\ keepers' = {}
    BY <1>c, <2>1 DEF UndoKnows, kernel
  <2>3. Settled'
    BY <2>2 DEF Settled, Known
  <2>4. r.pc \in {"idle", "check"}
    <3>1. CASE Goto(c, "check")
      BY <2>1, <3>1, GoingTo
    <3>2. CASE ~ Goto(c, "check")
      BY <1>6, <3>2, Ending DEF UnlinkRuntime
    <3> QED
      BY <3>1, <3>2
  <2> QED
    BY <1>a, <2>2, <2>3, <2>4, KnowsThen
<1> QED
  BY <1>1, <1>2, <1>3, <1>4, <1>5, <1>6 DEF DownStep

LEMMA RestartStepKnows ==
    ASSUME OneCommand, TypeOK, NEW c \in Cli, RestartStep(c), cli[c].cmd \in Restarts,
           Knows(cli[c]), AloneInSlot
    PROVE  AloneInSlot' /\ Knows(cli[c])'
<1> DEFINE m == cli[c]
           r == cli'[c]
<1>0. /\ m \in Memory /\ m.at \in Slot /\ m.runtime \in RuntimeFile
      /\ m.endpoints \in [Slot -> Endpoint]
      /\ agents \subseteq [pid : Id, slot : Slot, ns : Id]
      /\ keepers \subseteq [pid : Id, slot : Slot]
  BY DEF TypeOK, Memory, RuntimeFile
<1>a. ASSUME agents' \subseteq agents PROVE AloneInSlot'
  BY <1>a DEF AloneInSlot
<1>b. ASSUME RestartKnows(m)', r.pc \in Rotation \cup AgentLoop, r.cmd = m.cmd
      PROVE  Knows(m)'
  BY <1>b, KnowsThen
<1>c. ASSUME m.pc \in Rotation \cup AgentLoop PROVE RestartKnows(m)
  BY <1>c DEF Knows
<1>d. ASSUME Over(c, "none"), UNCHANGED <<brokers, agents, keepers, runtime, endpoint, manifest>>,
             m.pc \in Rotation \cup AgentLoop, m.pc # "saveAgent"
      PROVE  AloneInSlot' /\ Knows(m)'
  <2>1. Settled
    BY <1>c, <1>d DEF RestartKnows, Settled
  <2>2. Settled'
    BY <1>d, <2>1, SettledStays
  <2> QED
    BY <1>a, <1>d, <2>2, Ending, KnowsThen
<1> USE DEF Rotation, AgentLoop, Same
<1>1. CASE StopAgent(c)
  <2>1. /\ m.pc = "stopAgent" /\ r.pc \in {"lease", "agent"} /\ r.cmd = m.cmd
        /\ r.at = m.at /\ r.endpoints = m.endpoints /\ r.runtime.broker = m.runtime.broker
        /\ agents' = {a \in agents : a.pid # m.runtime.agents[m.at]}
        /\ r.runtime.agents = [m.runtime.agents EXCEPT ![m.at] = None]
        /\ UNCHANGED <<brokers, keepers, files>>
    BY <1>1, StoppingAgent
  <2>2. \A s \in Slot \ {m.at} : r.runtime.agents[s] = m.runtime.agents[s]
    BY <1>0, <2>1 DEF RuntimeFile
  <2>3. \A a \in agents' : a \in agents /\ a.slot \in Slot \ {m.at}
    BY <1>0, <1>c, <2>1 DEF RestartKnows, Known
  <2>4. RestartKnows(m)'
    BY <1>0, <1>c, <2>1, <2>2, <2>3 DEF RestartKnows, Known, files, EndpointList, Listed
  <2> QED
    BY <1>a, <1>b, <2>1, <2>3, <2>4
<1>2. CASE RotateLease(c)
  <2>1. m.pc = "lease" /\ UNCHANGED <<brokers, agents, keepers, runtime, endpoint, manifest>>
    BY <1>2 DEF RotateLease, At, kernel
  <2>2. CASE lease[m.at] < MaxLease
    <3>1. /\ r.pc = "flush" /\ r.cmd = m.cmd /\ r.at = m.at /\ r.runtime = m.runtime
          /\ r.endpoints[m.at] # NoEndpoint
      BY <1>2, <2>2, RotatingLease
    <3>2. RestartKnows(m)'
      BY <1>c, <2>1, <3>1 DEF RestartKnows, Known, EndpointList, Listed
    <3> QED
      BY <1>a, <1>b, <2>1, <3>1, <3>2
  <2>3. CASE ~ (lease[m.at] < MaxLease)
    BY <1>2, <1>d, <2>1, <2>3 DEF RotateLease
  <2> QED
    BY <2>2, <2>3
<1>3. CASE FlushAddress(c) \/ AddAddress(c)
  <2>1. /\ m.pc \in {"flush", "addAddress"}
        /\ UNCHANGED <<brokers, agents, keepers, runtime, endpoint, manifest>>
        /\ "addAddress" \in Steps /\ "saveAddress" \in Steps
    BY <1>3 DEF FlushAddress, AddAddress, At, files, Steps
  <2>2. CASE Over(c, "none")
    BY <1>d, <2>1, <2>2
  <2>3. ASSUME NEW p \in {"addAddress", "saveAddress"}, Goto(c, p)
        PROVE  AloneInSlot' /\ Knows(m)'
    <3>1. /\ r.pc = p /\ r.cmd = m.cmd /\ r.at = m.at /\ r.runtime = m.runtime
          /\ r.endpoints = m.endpoints
      BY <2>1, <2>3, GoingTo
    <3>2. RestartKnows(m)'
      BY <1>c, <2>1, <2>3, <3>1 DEF RestartKnows, Known, EndpointList, Listed
    <3> QED
      BY <1>a, <1>b, <2>1, <3>1, <3>2
  <2> QED
    BY <1>3, <2>2, <2>3 DEF FlushAddress, AddAddress
<1>4. CASE SaveAddress(c)
  <2>1. /\ Goto(c, "agent") /\ m.pc = "saveAddress" /\ "agent" \in Steps
        /\ endpoint' = [endpoint EXCEPT ![m.at] = m.endpoints[m.at]]
        /\ UNCHANGED <<brokers, agents, keepers, runtime, manifest>>
    BY <1>4 DEF SaveAddress, At, Steps, kernel
  <2>2. RestartKnows(m)
    BY <1>c, <2>1
  <2>3. endpoint'[m.at] = m.endpoints[m.at] /\ \A s \in Slot \ {m.at} : endpoint'[s] = endpoint[s]
    BY <1>0, <2>1 DEF TypeOK
  <2>4. \A k \in keepers : EndpointList'[k.slot] # NoEndpoint
    BY <1>0, <2>1, <2>2, <2>3 DEF RestartKnows, Known, EndpointList, Listed
  <2>5. RestartKnows(m)'
    BY <2>1, <2>2, <2>4, GoingTo DEF RestartKnows, Known
  <2> QED
    BY <1>a, <1>b, <2>1, <2>5, GoingTo
<1>5. CASE NoKeeper(c)
  BY <1>5, <1>d DEF NoKeeper, At, kernel, files
<1> QED
  BY <1>1, <1>2, <1>3, <1>4, <1>5 DEF RestartStep

(* A command begins. *)
LEMMA StartKnows ==
    ASSUME OneCommand, TypeOK, NEW c \in Cli, StartUp(c) \/ StartDown(c) \/ StartRestart(c),
           Knows(cli[c]), AloneInSlot
    PROVE  AloneInSlot' /\ Knows(cli[c])'
<1>1. /\ cli[c].pc = "idle" /\ UNCHANGED <<kernel, files>>
  BY StartingUp, StartingDown, StartingRestart
<1>2. Settled
  BY <1>1 DEF Knows
<1>3. Settled'
  BY <1>1, <1>2, SettledStays DEF kernel, files
<1>4. AloneInSlot'
  BY <1>1 DEF AloneInSlot, kernel
<1>5. CASE StartUp(c)
  BY <1>3, <1>4, <1>5, StartingUp, KnowsThen
<1>6. CASE StartDown(c)
  BY <1>1, <1>2, <1>4, <1>6, StartingDown, LoadedKnows DEF kernel
<1>7. CASE StartRestart(c)
  <2>1. LET r == cli'[c] IN
        /\ r.pc = "stopAgent" /\ r.cmd \in Restarts /\ Listed(r.at)
        /\ r.runtime = runtime /\ r.endpoints = EndpointList
    BY <1>7, StartingRestart DEF Restarts
  <2>2. cli'[c].at \in Slot
    BY <1>7, StartingRestart DEF Memory
  <2>3. EndpointList[cli'[c].at] # NoEndpoint
    BY <2>1, <2>2, ListFact
  <2>4. RestartKnows(cli[c])'
    BY <1>1, <1>2, <2>1, <2>3
       DEF RestartKnows, Settled, Known, EndpointList, Listed, kernel, files, Rotation
  <2> QED
    BY <1>4, <2>1, <2>4, KnowsThen DEF Rotation
<1> QED
  BY <1>5, <1>6, <1>7

(* A command fails that up or restart runs. *)
LEMMA FaultKnows ==
    ASSUME OneCommand, TypeOK, NEW c \in Cli, UpStepFails(c) \/ RestartStepFails(c),
           Gentle', Control(cli[c]), Knows(cli[c]), AloneInSlot
    PROVE  AloneInSlot' /\ Knows(cli[c])'
<1> DEFINE m == cli[c]
<1>1. Fault("command") /\ m.pc \in StepsThatFail("command")
  BY FaultKind DEF Gentle, UpStepFails, RestartStepFails
<1>2. m.pc \in {"addBridge", "setAddress", "netns", "keeper", "enroll", "broker",
                "awaitBroker", "agent", "flush", "addAddress"}
  BY <1>1 DEF StepsThatFail
<1>3. AloneInSlot'
  BY DEF UpStepFails, RestartStepFails, kernel, AloneInSlot
<1>4. CASE UpStepFails(c)
  <2>1. /\ Becomes(c, Failed(Appended(m))) /\ m.cmd \in Ups
        /\ UNCHANGED <<brokers, agents, keepers>>
    BY <1>4 DEF UpStepFails
  <2>2. m.pc \in BeforeBroker \cup WithBroker \cup AgentLoop
    BY <1>2, <2>1 DEF Control, Ups, Restarts, Rotation, BeforeBroker, BridgeSteps, Creating,
       WithBroker, AgentLoop
  <2>3. UpKnows(m) /\ m.pc \notin {"endpoint", "saveKeeper"}
    BY <1>2, <2>1, <2>2 DEF Knows
  <2> QED
    BY <1>3, <2>1, <2>3, FailedKnows
<1>5. CASE RestartStepFails(c)
  <2>1. /\ Over(c, "none") /\ m.cmd \in Restarts
        /\ UNCHANGED <<brokers, agents, keepers, runtime, endpoint, manifest>>
    BY <1>5 DEF RestartStepFails, kernel, files, Restarts
  <2>2. m.pc \in {"agent", "flush", "addAddress"}
    BY <1>2, <2>1 DEF Control, Ups, Restarts, BeforeBroker, BridgeSteps, Creating, WithBroker
  <2>3. Settled
    BY <2>1, <2>2 DEF Knows, RestartKnows, Settled, Rotation, AgentLoop
  <2>4. Settled'
    BY <2>1, <2>3, SettledStays
  <2> QED
    BY <1>3, <2>1, <2>4, Ending, KnowsThen
<1> QED
  BY <1>4, <1>5

(* A command's end is announced by three steps. *)
LEMMA Ended ==
    ASSUME TypeOK, Controlled, [Next]_vars, last' # "none"
    PROVE  \/ UNCHANGED vars
           \/ \E c \in Cli : \/ UnlinkRuntime(c) /\ last' \in {"down_ok", "up_failed"}
                             \/ WriteManifest(c) /\ last' = "up_ok"
                             \/ CheckAgent(c) /\ last' = "restart_ok"
<1>1. ASSUME ~ UNCHANGED vars, Next
      PROVE  \E c \in Cli : \/ UnlinkRuntime(c) /\ last' \in {"down_ok", "up_failed"}
                            \/ WriteManifest(c) /\ last' = "up_ok"
                            \/ CheckAgent(c) /\ last' = "restart_ok"
  <2>1. PICK c \in Cli : Step(c) \/ UpStepFails(c) \/ DownStepFails(c) \/ StaysBehind(c)
    BY <1>1, StartingUp, StartingDown, StartingRestart
       DEF Next, Reboot, AgentDies, BrokerDies, RestartStepFails, Kill, Over
  <2>a. \A kind \in {"command", "file"} : "idle" \notin StepsThatFail(kind)
    BY DEF StepsThatFail
  <2>2. cli[c].pc # "idle"
    BY <2>1, <2>a, EnsuringBridge, DeletingBridge, DownFailing, StayingBehind
       DEF Step, UpStep, DownStep, RestartStep, UpStepFails, At, BridgeSteps,
       Check, Prepare, CreateNetns, StartKeeper,
       RecordEndpoint, SaveKeeper, Enroll, StartBroker, SaveBroker, AwaitBroker, StartAgent,
       SaveAgent, CheckAgent, WriteManifest, RunScenario, StopAgents, StopBroker,
       CleanEndpoint, EndpointsClean, UnlinkRuntime, StopAgent, RotateLease,
       FlushAddress, AddAddress, SaveAddress, NoKeeper
  <2>3. last = "none" /\ last' # last
    BY <1>1, <2>2 DEF Controlled
  <2>4. UnlinkRuntime(c) \/ WriteManifest(c) \/ CheckAgent(c)
    BY <1>1, <2>1, <2>3, EnsuringBridge, DeletingBridge, DownFailing, StayingBehind
       DEF Step, UpStep, DownStep, RestartStep, UpStepFails, Quiet, Over,
       Check, Prepare, CreateNetns, StartKeeper,
       RecordEndpoint, SaveKeeper, Enroll, StartBroker, SaveBroker, AwaitBroker, StartAgent,
       SaveAgent, RunScenario, StopAgents, StopBroker,
       CleanEndpoint, EndpointsClean, StopAgent, RotateLease,
       FlushAddress, AddAddress, SaveAddress, NoKeeper
  <2> QED
    BY <2>3, <2>4 DEF UnlinkRuntime, WriteManifest, CheckAgent, Over
<1> QED
  BY <1>1

LEMMA ContainedNext ==
    ASSUME OneCommand, TypeOK, Controlled, Contained, [Next]_vars
    PROVE  Contained'
<1> SUFFICES ASSUME Gentle'
             PROVE  /\ AloneInSlot'
                    /\ \A c \in Cli : Knows(cli[c])'
                    /\ last' \in {"down_ok", "up_failed"} => NothingRuns'
  BY DEF Contained
<1>0. Gentle /\ AloneInSlot /\ \A c \in Cli : Knows(cli[c])
  BY KindsGrow DEF Gentle, Only, Contained
<1>1. CASE UNCHANGED vars
  <2>1. Contained'
    BY <1>1 DEF vars, kernel, files, Contained, Gentle, Only, AloneInSlot, Knows, UpKnows,
       RestartKnows, UndoKnows, Settled, Known, Created, EndpointList, Listed, Pending,
       NothingRuns
  <2> QED
    BY <2>1 DEF Contained
<1>2. ASSUME last' \in {"down_ok", "up_failed"}, ~ UNCHANGED vars
      PROVE  NothingRuns'
  <2>1. PICK c \in Cli : UnlinkRuntime(c)
    BY <1>2, Ended
  <2>2. cli[c].pc = "unlink" /\ UNCHANGED kernel
    BY <2>1 DEF UnlinkRuntime, At
  <2>3. UndoKnows(cli[c])
    BY <1>0, <2>2 DEF Knows, Undoing
  <2> QED
    BY <2>2, <2>3 DEF UndoKnows, NothingRuns, kernel
<1>3. CASE Next
  <2>1. CASE Reboot
    <3>1. Settled' /\ AloneInSlot'
      BY <2>1 DEF Reboot, Settled, Known, AloneInSlot
    <3>2. \A c \in Cli : cli'[c].pc = "idle"
      BY <2>1, IdleTyped DEF Reboot
    <3> QED
      BY <1>2, <2>1, <3>1, <3>2, KnowsThen DEF Reboot
  <2>2. CASE AgentDies
    <3>1. agents' \subseteq agents
          /\ UNCHANGED <<brokers, keepers, netns, bridge, files, cli>> /\ last' = "none"
      BY <2>2 DEF AgentDies
    <3> QED
      BY <1>0, <3>1 DEF files, AloneInSlot, Knows, UpKnows, RestartKnows, UndoKnows, Settled,
         Known, Created, EndpointList, Listed, Pending
  <2>3. CASE BrokerDies \/ \E c \in Cli : Kill(c) \/ DownStepFails(c) \/ StaysBehind(c)
    BY <2>3, FaultKind DEF BrokerDies, Kill, DownStepFails, StaysBehind, Gentle
  <2>4. ASSUME NEW c \in Cli,
               StartUp(c) \/ StartDown(c) \/ StartRestart(c) \/ Step(c)
                  \/ UpStepFails(c) \/ RestartStepFails(c)
        PROVE  AloneInSlot' /\ Knows(cli[c])'
    <3>1. Control(cli[c]) /\ Knows(cli[c]) /\ AloneInSlot
      BY <1>0 DEF Controlled
    <3>2. CASE RestartStep(c)
      <4>1. CASE NoKeeper(c) /\ cli[c].cmd \in Ups
        <5>1. UpKnows(cli[c]) /\ cli[c].at <= cli[c].count /\ cli[c].at \in Slot
              /\ cli[c].pc = "agent" /\ cli[c].endpoints[cli[c].at].keeper = None
          BY <3>1, <4>1 DEF Knows, Control, NoKeeper, At, AgentLoop, TypeOK, Memory
        <5> QED
          BY <5>1 DEF UpKnows, Created, AgentLoop
      <4>2. CASE cli[c].cmd \in Restarts
        BY <3>1, <3>2, <4>2, RestartStepKnows
      <4>3. cli[c].cmd \in Restarts \/ (NoKeeper(c) /\ cli[c].cmd \in Ups)
        BY <3>1, <3>2 DEF Control, RestartStep, StopAgent, RotateLease, FlushAddress,
           AddAddress, SaveAddress, NoKeeper, At, Rotation, AgentLoop
      <4> QED
        BY <4>1, <4>2, <4>3
    <3> QED
      BY <2>4, <3>1, <3>2, UpStepKnows, DownStepKnows, StartKnows, FaultKnows DEF Step
  <2>5. ASSUME NEW c \in Cli,
               StartUp(c) \/ StartDown(c) \/ StartRestart(c) \/ Step(c)
                  \/ UpStepFails(c) \/ RestartStepFails(c)
        PROVE  AloneInSlot' /\ \A d \in Cli : Knows(cli[d])'
    <3>1. \A d \in Cli : d = c
      BY DEF OneCommand
    <3> QED
      BY <2>4, <2>5, <3>1
  <2>6. CASE UNCHANGED vars
    BY <1>1, <2>6
  <2> QED
    BY <1>2, <1>3, <2>1, <2>2, <2>3, <2>5, <2>6 DEF Next
<1> QED
  BY <1>1, <1>3

LEMMA AlwaysContained ==
    ASSUME OneCommand
    PROVE  Spec => [](TypeOK /\ Controlled /\ Contained)
<1>1. TypeOK /\ Controlled /\ Contained /\ [Next]_vars => Controlled' /\ Contained'
  BY ControlledNext, ContainedNext
<1> QED
  BY <1>1, ControlledInit, ContainedInit, TypeCorrect, PTL DEF Spec

(* Whatever up, down, recover and restart do in whatever order, failing at  *)
(* any command they run: a slot has one agent at most (phase 2 document,    *)
(* line 33; fleet_manager.py up, restart, _cleanup_partial).                *)
THEOREM OneAgentPerSlotAlways ==
    ASSUME OneCommand
    PROVE  Spec => []OneAgentPerSlot
<1>1. Contained => OneAgentPerSlot
  <2> SUFFICES ASSUME Gentle, AloneInSlot, NEW s \in Slot
               PROVE  Cardinality(OfSlot(agents, s)) <= 1
    BY DEF Contained, Gentle, OneAgentPerSlot, SingleAgents
  <2>1. CASE OfSlot(agents, s) = {}
    BY <2>1, FS_EmptySet
  <2>2. CASE OfSlot(agents, s) # {}
    <3>1. PICK a : a \in OfSlot(agents, s)
      BY <2>2
    <3>2. OfSlot(agents, s) = {a}
      BY <3>1 DEF OfSlot, AloneInSlot
    <3>3. Cardinality({a}) = 1
      BY FS_Singleton, Zenon
    <3> QED
      BY <3>2, <3>3
  <2> QED
    BY <2>1, <2>2
<1> QED
  BY <1>1, AlwaysContained, PTL

-----------------------------------------------------------------------------
(***************************************************************************)
(* A namespace that exists has an endpoint.json, because up writes it      *)
(* first; so a down that begins has every namespace in its list, but for   *)
(* those that fleet.json hides.                                            *)
(***************************************************************************)
Calm == Only({"command", "reboot", "agent"})

Findable == \A s \in Slot : netns[s] # None => endpoint[s] # NoEndpoint

Reaches(m) ==
    m.pc \in Undoing /\ m.then = "return" =>
        \A s \in Slot : netns[s] # None => m.endpoints[s] # NoEndpoint \/ Hidden(s)

Found ==
    Calm => /\ Findable
            /\ \A c \in Cli : Reaches(cli[c])
            /\ last = "down_ok" => \A s \in Slot : netns[s] # None => Hidden(s)

LEMMA CalmSteps ==
    ASSUME TypeOK, [Next]_vars, Calm'
    PROVE  Calm /\ Gentle /\ Gentle'
BY KindsGrow DEF Calm, Gentle, Only

LEMMA FoundInit == Init => Found
<1> SUFFICES ASSUME Init PROVE Found
  OBVIOUS
<1> QED
  BY IdleTyped DEF Init, Found, Findable, Reaches, Undoing

(* The last step of a down. *)
LEMMA FoundAtTheEnd ==
    ASSUME TypeOK, Controlled, Contained, Found, NEW c \in Cli, UnlinkRuntime(c), Calm', Calm, Gentle
    PROVE  /\ Findable'
           /\ last' = "down_ok" => \A s \in Slot : netns'[s] # None => Hidden(s)'
<1> DEFINE m == cli[c]
<1>1. m.pc = "unlink" /\ netns' = netns /\ m \in Memory
  BY DEF UnlinkRuntime, At, kernel, TypeOK
<1>2. Pending(m) = {}
  BY <1>1 DEF Contained, Knows, UndoKnows, Undoing
<1>3. CASE m.cmd = "purge"
  <2>1. \A s \in Slot : netns[s] = None
    <3>1. "purge" \notin faults'.kinds
      BY DEF Calm, Only
    <3>2. ASSUME \E s \in Slot : netns[s] # None PROVE FALSE
      <4>1. faults' = [faults EXCEPT !.kinds = @ \cup {"purge"}]
        BY <1>3, <3>2 DEF UnlinkRuntime
      <4> QED
        BY <3>1, <4>1 DEF TypeOK
    <3> QED
      BY <3>2
  <2> QED
    BY <1>1, <2>1 DEF Findable
<1>4. CASE m.cmd # "purge"
  <2>1. endpoint' = endpoint /\ manifest' = manifest
    BY <1>4 DEF UnlinkRuntime
  <2>2. Findable'
    BY <1>1, <2>1 DEF Findable, Found
  <2>3. last' = "down_ok" => m.then = "return"
    BY <1>1 DEF UnlinkRuntime, Controlled, Over, Memory
  <2> QED
    BY <1>1, <1>2, <2>1, <2>2, <2>3 DEF Found, Reaches, Undoing, Pending, Hidden
<1> QED
  BY <1>3, <1>4

LEMMA FoundNext ==
    ASSUME OneCommand, TypeOK, Controlled, Contained, Found, [Next]_vars
    PROVE  Found'
<1> SUFFICES ASSUME Calm'
             PROVE  /\ Findable' /\ \A c \in Cli : Reaches(cli[c])'
                    /\ last' = "down_ok" => \A s \in Slot : netns'[s] # None => Hidden(s)'
  BY DEF Found
<1>0. Calm /\ Gentle /\ Findable /\ \A c \in Cli : Reaches(cli[c])
  BY CalmSteps DEF Found
<1>1. CASE UNCHANGED vars
  <2>1. Found'
    BY <1>1 DEF vars, kernel, files, Found, Calm, Only, Findable, Reaches, Hidden
  <2> QED
    BY <2>1 DEF Found
<1>2. ASSUME last' = "down_ok", ~ UNCHANGED vars
      PROVE  \A s \in Slot : netns'[s] # None => Hidden(s)'
  <2>1. PICK c \in Cli : UnlinkRuntime(c)
    BY <1>2, Ended
  <2> QED
    BY <1>0, <1>2, <2>1, FoundAtTheEnd
<1>3. CASE Reboot
  BY <1>2, <1>3, IdleTyped DEF Reboot, Findable, Reaches, Undoing
<1>4. CASE AgentDies \/ BrokerDies
  BY <1>0, <1>2, <1>4 DEF AgentDies, BrokerDies, files, Findable, Reaches, Hidden
<1>6. CASE \E c \in Cli : DownStepFails(c) \/ StaysBehind(c)
  BY <1>6, FaultKind DEF DownStepFails, StaysBehind, Calm
<1>5. ASSUME NEW c \in Cli,
             StartUp(c) \/ StartDown(c) \/ StartRestart(c) \/ Step(c)
                \/ UpStepFails(c) \/ RestartStepFails(c) \/ Kill(c)
      PROVE  Findable' /\ \A d \in Cli : Reaches(cli[d])'
  <2> DEFINE m == cli[c]
             r == cli'[c]
  <2>0. /\ \A d \in Cli : d = c
        /\ Control(m) /\ Knows(m) /\ Reaches(m)
        /\ m \in Memory /\ m.at \in Slot /\ m.endpoints \in [Slot -> Endpoint]
    BY <1>0 DEF OneCommand, Controlled, Contained, TypeOK, Memory
  <2>a. ASSUME Findable', Reaches(m)' PROVE Findable' /\ \A d \in Cli : Reaches(cli[d])'
    BY <2>0, <2>a
  (* A step that does not leave the command taking the fleet down. *)
  <2>b. ASSUME Findable', r.pc \notin Undoing \/ r.then = "raise"
        PROVE  Findable' /\ \A d \in Cli : Reaches(cli[d])'
    BY <2>a, <2>b DEF Reaches
  <2>c. ASSUME UNCHANGED <<netns, endpoint>> PROVE Findable'
    BY <1>0, <2>c DEF Findable
  <2>d. ASSUME netns' = netns, NEW e \in Endpoint, e # NoEndpoint,
               endpoint' = [endpoint EXCEPT ![m.at] = e]
        PROVE  Findable'
    BY <1>0, <2>0, <2>d DEF Findable, TypeOK
  (* down, and acceptance, begin to take the fleet down. *)
  <2>e. ASSUME UNCHANGED <<netns, endpoint, manifest>>, r.endpoints = EndpointList
        PROVE  Findable' /\ \A d \in Cli : Reaches(cli[d])'
    BY <1>0, <2>a, <2>e DEF Findable, Reaches, EndpointList, Listed, Hidden
  (* They go on. *)
  <2>f. ASSUME UNCHANGED <<netns, endpoint, manifest>>, m.pc \in Undoing, NEW p \in Steps, Goto(c, p)
        PROVE  Findable' /\ \A d \in Cli : Reaches(cli[d])'
    BY <2>0, <2>a, <2>c, <2>f, GoingTo DEF Reaches, Hidden, Same
  <2>g. ASSUME NEW how, Over(c, how), UNCHANGED <<netns, endpoint>>
        PROVE  Findable' /\ \A d \in Cli : Reaches(cli[d])'
    BY <2>b, <2>c, <2>g, Ending DEF Undoing
  <2>h. ASSUME NEW p \in Steps \ Undoing, Goto(c, p), UNCHANGED <<netns, endpoint>>
        PROVE  Findable' /\ \A d \in Cli : Reaches(cli[d])'
    BY <2>b, <2>c, <2>h, GoingTo
  <2>1. CASE StartUp(c) \/ StartRestart(c)
    <3>1. r.pc \notin Undoing /\ UNCHANGED <<kernel, files>>
      BY <2>1, StartingUp, StartingRestart DEF Undoing
    <3> QED
      BY <2>b, <2>c, <3>1 DEF kernel, files
  <2>2. CASE StartDown(c)
    BY <2>2, <2>e, StartingDown DEF kernel, files
  <2>3. CASE Check(c)
    <3>1. UNCHANGED <<kernel, files>>
      BY <2>3 DEF Check
    <3>2. CASE ~ BrokerAlive(runtime.broker)
      <4>1. r.pc = "bridge"
        BY <2>3, <3>2, Checking
      <4> QED
        BY <2>b, <2>c, <3>1, <4>1 DEF kernel, files, Undoing
    <3>3. CASE BrokerAlive(runtime.broker)
      <4>1. Becomes(c, Loaded(m)) \/ Over(c, "none")
        BY <2>3, <3>3 DEF Check
      <4> QED
        BY <2>0, <2>e, <2>g, <3>1, <4>1, Loading DEF kernel, files
    <3> QED
      BY <3>2, <3>3
  <2>4. CASE Enroll(c) \/ SaveBroker(c)
    <3>1. UNCHANGED <<netns, endpoint>> /\ {"broker", "awaitBroker"} \subseteq Steps \ Undoing
      BY <2>4 DEF Enroll, SaveBroker, kernel, files, Steps, Undoing
    <3>2. Goto(c, "broker") \/ Goto(c, "awaitBroker")
      BY <2>4 DEF Enroll, SaveBroker
    <3> QED
      BY <2>h, <3>1, <3>2
  <2>26. CASE EnsureBridge(c)
    <3>1. UNCHANGED <<netns, endpoint>> /\ BridgeSteps \cup {"prepare"} \subseteq Steps \ Undoing
      BY <2>26, EnsuringBridge DEF BridgeSteps, Steps, Undoing
    <3>2. CASE Becomes(c, Failed(m))
      BY <2>0, <2>b, <2>c, <3>1, <3>2, Failing
    <3> QED
      BY <2>26, <2>h, <3>1, <3>2, EnsuringBridge
  <2>5. CASE Prepare(c)
    <3>1. PICK e \in Endpoint : e # NoEndpoint /\ endpoint' = [endpoint EXCEPT ![m.at] = e]
      BY <2>5, Preparing
    <3>2. r.pc = "netns" /\ netns' = netns
      BY <2>5, Preparing DEF kernel
    <3> QED
      BY <2>b, <2>d, <3>1, <3>2 DEF Undoing
  <2>6. CASE CreateNetns(c)
    <3>1. /\ Goto(c, "keeper") /\ m.pc = "netns" /\ "keeper" \in Steps
          /\ endpoint' = endpoint
          /\ \E ns \in FreshNs : netns' = [netns EXCEPT ![m.at] = ns]
      BY <2>6 DEF CreateNetns, At, Steps, files
    <3>2. UpKnows(m)
      BY <2>0, <3>1 DEF Knows, Control, BeforeBroker, Creating
    <3>3. endpoint[m.at] # NoEndpoint
      BY <2>0, <3>1, <3>2 DEF UpKnows, Created, Creating, Slot
    <3>4. Findable'
      BY <1>0, <2>0, <3>1, <3>3 DEF Findable, TypeOK
    <3> QED
      BY <2>b, <3>1, <3>4, GoingTo DEF Undoing
  <2>7. CASE StartKeeper(c)
    <3>1. r.pc = "endpoint" /\ UNCHANGED <<netns, endpoint>>
      BY <2>7, CreatingKeeper DEF files
    <3> QED
      BY <2>b, <2>c, <3>1 DEF Undoing
  <2>8. CASE RecordEndpoint(c)
    <3>1. CASE netns[m.at] # None
      <4>1. PICK e \in Endpoint : e # NoEndpoint /\ endpoint' = [endpoint EXCEPT ![m.at] = e]
        BY <2>8, <3>1, RecordingEndpoint
      <4>2. r.pc = "saveKeeper" /\ netns' = netns
        BY <2>8, <3>1, RecordingEndpoint DEF kernel
      <4> QED
        BY <2>b, <2>d, <4>1, <4>2 DEF Undoing
    <3>2. CASE netns[m.at] = None
      <4>1. Becomes(c, Failed(Appended(m))) /\ UNCHANGED <<netns, endpoint>>
        BY <2>8, <3>2 DEF RecordEndpoint, kernel
      <4> QED
        BY <2>b, <2>c, <4>1, FailingUp
    <3> QED
      BY <3>1, <3>2
  <2>9. CASE SaveKeeper(c)
    <3>1. /\ Becomes(c, Advance(m, "prepare", "enroll")) /\ UNCHANGED <<netns, endpoint>>
          /\ "prepare" \in Steps /\ "enroll" \in Steps
      BY <2>9 DEF SaveKeeper, kernel, Steps
    <3>2. r.pc \in {"prepare", "enroll"}
      BY <3>1, Advancing
    <3> QED
      BY <2>b, <2>c, <3>1, <3>2 DEF Undoing
  <2>10. CASE StartBroker(c)
    <3>1. r.pc = "saveBroker" /\ UNCHANGED <<netns, endpoint>>
      BY <2>10, CreatingBroker DEF files
    <3> QED
      BY <2>b, <2>c, <3>1 DEF Undoing
  <2>11. CASE AwaitBroker(c)
    <3>1. UNCHANGED <<netns, endpoint>>
      BY <2>11 DEF AwaitBroker, kernel, files
    <3>2. CASE BrokerAlive(m.runtime.broker)
      <4>1. r.pc = "agent"
        BY <2>11, <3>2, Awaiting
      <4> QED
        BY <2>b, <2>c, <3>1, <4>1 DEF Undoing
    <3>3. CASE ~ BrokerAlive(m.runtime.broker)
      <4>1. Becomes(c, Failed(m))
        BY <2>11, <3>3, Zenon DEF AwaitBroker
      <4> QED
        BY <2>0, <2>b, <2>c, <3>1, <4>1, Failing
    <3> QED
      BY <3>2, <3>3
  <2>12. CASE StartAgent(c)
    <3>1. r.pc = "saveAgent" /\ UNCHANGED <<netns, endpoint>>
      BY <2>12, CreatingAgent DEF files
    <3> QED
      BY <2>b, <2>c, <3>1 DEF Undoing
  <2>13. CASE SaveAgent(c)
    <3>1. /\ Goto(c, "checkAgent") /\ m.pc = "saveAgent" /\ "checkAgent" \in Steps \ Undoing
          /\ netns' = netns /\ endpoint' = [endpoint EXCEPT ![m.at] = m.endpoints[m.at]]
      BY <2>13 DEF SaveAgent, At, Steps, kernel, Undoing
    <3>2. m.endpoints[m.at] # NoEndpoint
      BY <2>0, <3>1 DEF Knows, Control, AgentLoop, UpKnows, Created, Creating, RestartKnows
    <3> QED
      BY <2>0, <2>b, <2>d, <3>1, <3>2, GoingTo
  <2>14. CASE CheckAgent(c)
    <3>1. UNCHANGED <<netns, endpoint>> /\ "agent" \in Steps /\ "manifest" \in Steps
      BY <2>14 DEF CheckAgent, kernel, files, Steps
    <3>2. CASE Becomes(c, Advance(m, "agent", "manifest"))
      <4>1. r.pc \in {"agent", "manifest"}
        BY <3>1, <3>2, Advancing
      <4> QED
        BY <2>b, <2>c, <3>1, <4>1 DEF Undoing
    <3>3. CASE Becomes(c, Failed(m))
      BY <2>0, <2>b, <2>c, <3>1, <3>3, Failing
    <3>4. CASE Over(c, "restart_ok") \/ Over(c, "none")
      BY <2>g, <3>1, <3>4
    <3> QED
      BY <2>14, <3>2, <3>3, <3>4 DEF CheckAgent
  <2>15. CASE WriteManifest(c)
    <3>1. UNCHANGED <<netns, endpoint>> /\ "scenario" \in Steps \ Undoing
          /\ (Goto(c, "scenario") \/ Over(c, "up_ok"))
      BY <2>15 DEF WriteManifest, kernel, Steps, Undoing
    <3> QED
      BY <2>g, <2>h, <3>1
  <2>16. CASE RunScenario(c)
    <3>1. Becomes(c, Loaded(m)) /\ UNCHANGED <<netns, endpoint, manifest>>
      BY <2>16 DEF RunScenario, kernel, files
    <3> QED
      BY <2>0, <2>e, <3>1, Loading
  <2>17. CASE StopAgents(c) \/ StopBroker(c) \/ EndpointsClean(c) \/ DeleteBridge(c)
    <3>1. m.pc \in Undoing /\ UNCHANGED <<netns, endpoint, manifest>> /\ Undoing \subseteq Steps
      BY <2>17, DeletingBridge DEF StopAgents, StopBroker, EndpointsClean, At, kernel, files,
         Undoing, Steps
    <3>2. \E p \in Undoing : Goto(c, p)
      BY <2>17, DeletingBridge DEF StopAgents, StopBroker, EndpointsClean, Undoing
    <3> QED
      BY <2>f, <3>1, <3>2
  <2>18. CASE CleanEndpoint(c)
    <3>1. PICK s \in Slot : /\ netns' = [netns EXCEPT ![s] = None]
                            /\ r.endpoints = [m.endpoints EXCEPT ![s] = NoEndpoint]
      BY <2>18, CleaningEndpoint
    <3>2. /\ r.then = m.then /\ m.pc = "cleanup" /\ UNCHANGED <<endpoint, manifest>>
      BY <2>18, CleaningEndpoint DEF files, Same
    <3>3. netns'[s] = None
          /\ \A x \in Slot \ {s} : netns'[x] = netns[x] /\ r.endpoints[x] = m.endpoints[x]
      BY <2>0, <3>1 DEF TypeOK
    <3> QED
      BY <1>0, <2>0, <2>a, <3>2, <3>3 DEF Findable, Reaches, Undoing, Hidden
  <2>19. CASE UnlinkRuntime(c)
    <3>1. Findable'
      BY <1>0, <2>19, FoundAtTheEnd
    <3>2. r.pc \in {"idle", "check"}
      <4>1. CASE Goto(c, "check")
        BY <4>1, GoingTo DEF Steps
      <4>2. CASE ~ Goto(c, "check")
        BY <2>19, <4>2, Ending DEF UnlinkRuntime
      <4> QED
        BY <4>1, <4>2
    <3> QED
      BY <2>b, <3>1, <3>2 DEF Undoing
  <2>20. CASE StopAgent(c)
    <3>1. r.pc \in {"lease", "agent"} /\ UNCHANGED <<netns, endpoint>>
      BY <2>20, StoppingAgent DEF files
    <3> QED
      BY <2>b, <2>c, <3>1 DEF Undoing
  <2>21. CASE RotateLease(c)
    <3>1. UNCHANGED <<netns, endpoint>>
      BY <2>21 DEF RotateLease, kernel
    <3>2. CASE lease[m.at] < MaxLease
      <4>1. r.pc = "flush"
        BY <2>21, <3>2, RotatingLease
      <4> QED
        BY <2>b, <2>c, <3>1, <4>1 DEF Undoing
    <3>3. CASE ~ (lease[m.at] < MaxLease)
      BY <2>21, <2>g, <3>1, <3>3 DEF RotateLease
    <3> QED
      BY <3>2, <3>3
  <2>22. CASE FlushAddress(c) \/ AddAddress(c)
    <3>1. UNCHANGED <<netns, endpoint>> /\ {"addAddress", "saveAddress"} \subseteq Steps \ Undoing
      BY <2>22 DEF FlushAddress, AddAddress, files, Steps, Undoing
    <3> QED
      BY <2>22, <2>g, <2>h, <3>1 DEF FlushAddress, AddAddress
  <2>23. CASE SaveAddress(c)
    <3>1. /\ Goto(c, "agent") /\ m.pc = "saveAddress" /\ "agent" \in Steps \ Undoing
          /\ netns' = netns /\ endpoint' = [endpoint EXCEPT ![m.at] = m.endpoints[m.at]]
      BY <2>23 DEF SaveAddress, At, Steps, kernel, Undoing
    <3>2. m.endpoints[m.at] # NoEndpoint
      BY <2>0, <3>1 DEF Knows, Control, Rotation, RestartKnows
    <3> QED
      BY <2>0, <2>b, <2>d, <3>1, <3>2, GoingTo
  <2>24. CASE NoKeeper(c) \/ RestartStepFails(c) \/ Kill(c)
    <3>1. UNCHANGED <<netns, endpoint>> /\ Over(c, "none")
      BY <2>24 DEF NoKeeper, RestartStepFails, Kill, kernel, files
    <3> QED
      BY <2>g, <3>1
  <2>25. CASE UpStepFails(c)
    <3>1. /\ Becomes(c, Failed(Appended(m))) /\ endpoint' = endpoint
          /\ \A s \in Slot : netns'[s] \in {netns[s], None}
      BY <2>25, <2>0 DEF UpStepFails, files, TypeOK
    <3>2. Findable'
      BY <1>0, <3>1 DEF Findable
    <3> QED
      BY <2>b, <3>1, <3>2, FailingUp
  <2> QED
    BY <1>5, <2>1, <2>2, <2>3, <2>4, <2>5, <2>6, <2>7, <2>8, <2>9, <2>10, <2>11, <2>12, <2>13,
       <2>14, <2>15, <2>16, <2>17, <2>18, <2>19, <2>20, <2>21, <2>22, <2>23, <2>24, <2>25,
       <2>26
       DEF Step, UpStep, DownStep, RestartStep
<1> QED
  BY <1>1, <1>2, <1>3, <1>4, <1>5, <1>6 DEF Next

LEMMA AlwaysFound ==
    ASSUME OneCommand
    PROVE  Spec => [](TypeOK /\ Contained /\ Found)
<1>1. TypeOK /\ Controlled /\ Contained /\ Found /\ [Next]_vars => Found'
  BY FoundNext
<1> QED
  BY <1>1, FoundInit, AlwaysContained, PTL DEF Spec

-----------------------------------------------------------------------------
(***************************************************************************)
(* A bridge has its ownership file, but for the moment in which up is      *)
(* about to write it; so a down finds the file, and deletes the bridge.    *)
(***************************************************************************)
Writing == {"openOwner", "writeOwner"}
Forgetting == {"unlinkOwner", "unlink"}

BridgeOf(m) ==
    /\ bridge => owner = "written" \/ m.pc \in Writing
    /\ m.pc \in Forgetting => ~ bridge

Owned ==
    Gentle => /\ \A c \in Cli : BridgeOf(cli[c])
              /\ last \in {"down_ok", "up_failed"} => ~ bridge

LEMMA OwnedInit == Init => Owned
BY IdleTyped DEF Init, Owned, BridgeOf, Forgetting

(* Three of the steps of ensure_bridge and two of down touch the bridge or *)
(* its file; what a step leaves alone stays as it was.                     *)
LEMMA BridgeAlone ==
    ASSUME NEW c \in Cli, BridgeOf(cli[c]), UNCHANGED <<bridge, owner>>,
           cli[c].pc \notin Writing, cli'[c].pc \notin Forgetting
    PROVE  BridgeOf(cli[c])'
BY DEF BridgeOf

LEMMA UpStepBridge ==
    ASSUME TypeOK, NEW c \in Cli, UpStep(c), BridgeOf(cli[c])
    PROVE  BridgeOf(cli[c])'
<1> DEFINE m == cli[c]
           r == cli'[c]
<1>0. m \in Memory
  BY DEF TypeOK
<1> USE DEF Writing, Forgetting
<1>1. CASE Check(c)
  <2>1. m.pc = "check" /\ UNCHANGED <<bridge, owner>>
    BY <1>1 DEF Check, At, kernel, files
  <2>2. CASE ~ BrokerAlive(runtime.broker)
    BY <1>1, <2>1, <2>2, Checking, BridgeAlone
  <2>3. CASE BrokerAlive(runtime.broker)
    <3>1. Becomes(c, Loaded(m)) \/ Over(c, "none")
      BY <1>1, <2>3 DEF Check
    <3> QED
      BY <1>0, <2>1, <3>1, Loading, Ending, BridgeAlone
  <2> QED
    BY <2>2, <2>3
<1>2. CASE CheckBridge(c)
  <2>1. m.pc = "bridge" /\ UNCHANGED <<bridge, owner>>
    BY <1>2 DEF CheckBridge, At, kernel, files
  <2>2. r.pc \in {"stopAgents", "setAddress", "addBridge"}
    <3>1. CASE bridge /\ owner = "absent"
      <4>1. Becomes(c, Failed(m))
        BY <1>2, <3>1, Zenon DEF CheckBridge
      <4> QED
        BY <1>0, <4>1, Failing
    <3>2. CASE bridge /\ owner # "absent"
      <4>1. Goto(c, "setAddress") /\ "setAddress" \in Steps
        BY <1>2, <3>2 DEF CheckBridge, Goto, Steps
      <4> QED
        BY <4>1, GoingTo
    <3>3. CASE ~ bridge
      <4>1. Goto(c, "addBridge") /\ "addBridge" \in Steps
        BY <1>2, <3>3 DEF CheckBridge, Goto, Steps
      <4> QED
        BY <4>1, GoingTo
    <3> QED
      BY <3>1, <3>2, <3>3
  <2> QED
    BY <2>1, <2>2, BridgeAlone
<1>3. CASE AddBridge(c)
  <2>1. m.pc = "addBridge" /\ owner' = owner
    BY <1>3 DEF AddBridge, At, files
  <2>2. CASE bridge
    <3>1. Becomes(c, Failed(m)) /\ bridge' = bridge
      BY <1>3, <2>2, Zenon DEF AddBridge, TypeOK
    <3> QED
      BY <1>0, <2>1, <3>1, Failing, BridgeAlone
  <2>3. CASE ~ bridge
    <3>1. Goto(c, "openOwner") /\ "openOwner" \in Steps
      BY <1>3, <2>3 DEF AddBridge, Goto, Steps
    <3> QED
      BY <3>1, GoingTo DEF BridgeOf
  <2> QED
    BY <2>2, <2>3
<1>4. CASE OpenOwner(c)
  <2>1. Goto(c, "writeOwner") /\ "writeOwner" \in Steps
    BY <1>4 DEF OpenOwner, Steps
  <2> QED
    BY <2>1, GoingTo DEF BridgeOf
<1>5. CASE WriteOwner(c)
  <2>1. Goto(c, "setAddress") /\ "setAddress" \in Steps /\ owner' = "written"
    BY <1>5 DEF WriteOwner, Steps
  <2> QED
    BY <2>1, GoingTo DEF BridgeOf
<1>6. CASE SetBridgeAddress(c)
  <2>1. m.pc = "setAddress" /\ UNCHANGED <<bridge, owner>>
    BY <1>6 DEF SetBridgeAddress, At, kernel, files
  <2>2. CASE bridge
    <3>1. Goto(c, "prepare") /\ "prepare" \in Steps
      BY <1>6, <2>2 DEF SetBridgeAddress, Goto, Steps
    <3> QED
      BY <2>1, <3>1, GoingTo, BridgeAlone
  <2>3. CASE ~ bridge
    <3>1. Becomes(c, Failed(m))
      BY <1>6, <2>3, Zenon DEF SetBridgeAddress
    <3> QED
      BY <1>0, <2>1, <3>1, Failing, BridgeAlone
  <2> QED
    BY <2>2, <2>3
<1>7. CASE Prepare(c)
  BY <1>7, Preparing, BridgeAlone DEF kernel
<1>8. CASE CreateNetns(c) \/ Enroll(c) \/ SaveBroker(c) \/ SaveAgent(c)
  <2>1. /\ m.pc \in {"netns", "enroll", "saveBroker", "saveAgent"}
        /\ UNCHANGED <<bridge, owner>>
        /\ {"keeper", "broker", "awaitBroker", "checkAgent"} \subseteq Steps
    BY <1>8 DEF CreateNetns, Enroll, SaveBroker, SaveAgent, At, kernel, files, Steps
  <2>2. \E p \in {"keeper", "broker", "awaitBroker", "checkAgent"} : Goto(c, p)
    BY <1>8 DEF CreateNetns, Enroll, SaveBroker, SaveAgent
  <2> QED
    BY <2>1, <2>2, GoingTo, BridgeAlone
<1>9. CASE StartKeeper(c)
  <2>1. m.pc = "keeper" /\ r.pc = "endpoint" /\ UNCHANGED <<bridge, owner>>
    BY <1>9, CreatingKeeper DEF StartKeeper, files
  <2> QED
    BY <2>1, BridgeAlone
<1>10. CASE RecordEndpoint(c)
  <2>1. m.pc = "endpoint" /\ UNCHANGED <<bridge, owner>>
    BY <1>10 DEF RecordEndpoint, At, kernel
  <2>2. CASE netns[m.at] # None
    BY <1>10, <2>1, <2>2, RecordingEndpoint, BridgeAlone
  <2>3. CASE netns[m.at] = None
    <3>1. Becomes(c, Failed(Appended(m)))
      BY <1>10, <2>3 DEF RecordEndpoint
    <3> QED
      BY <2>1, <3>1, FailingUp, BridgeAlone
  <2> QED
    BY <2>2, <2>3
<1>11. CASE SaveKeeper(c)
  <2>1. /\ m.pc = "saveKeeper" /\ UNCHANGED <<bridge, owner>>
        /\ Becomes(c, Advance(m, "prepare", "enroll"))
        /\ "prepare" \in Steps /\ "enroll" \in Steps
    BY <1>11 DEF SaveKeeper, At, kernel, Steps
  <2> QED
    BY <2>1, Advancing, BridgeAlone
<1>12. CASE StartBroker(c)
  <2>1. m.pc = "broker" /\ r.pc = "saveBroker" /\ UNCHANGED <<bridge, owner>>
    BY <1>12, CreatingBroker DEF StartBroker, At, files
  <2> QED
    BY <2>1, BridgeAlone
<1>13. CASE AwaitBroker(c)
  <2>1. m.pc = "awaitBroker" /\ UNCHANGED <<bridge, owner>>
    BY <1>13 DEF AwaitBroker, At, kernel, files
  <2>2. CASE BrokerAlive(m.runtime.broker)
    BY <1>13, <2>1, <2>2, Awaiting, BridgeAlone
  <2>3. CASE ~ BrokerAlive(m.runtime.broker)
    <3>1. Becomes(c, Failed(m))
      BY <1>13, <2>3, Zenon DEF AwaitBroker
    <3> QED
      BY <1>0, <2>1, <3>1, Failing, BridgeAlone
  <2> QED
    BY <2>2, <2>3
<1>14. CASE StartAgent(c)
  <2>1. m.pc = "agent" /\ r.pc = "saveAgent" /\ UNCHANGED <<bridge, owner>>
    BY <1>14, CreatingAgent DEF StartAgent, files
  <2> QED
    BY <2>1, BridgeAlone
<1>15. CASE CheckAgent(c)
  <2>1. m.pc = "checkAgent" /\ UNCHANGED <<bridge, owner>> /\ "agent" \in Steps /\ "manifest" \in Steps
    BY <1>15 DEF CheckAgent, At, kernel, files, Steps
  <2>2. r.pc \in {"agent", "manifest", "stopAgents", "idle"}
    <3>1. CASE Becomes(c, Advance(m, "agent", "manifest"))
      BY <2>1, <3>1, Advancing
    <3>2. CASE Becomes(c, Failed(m))
      BY <1>0, <3>2, Failing
    <3>3. CASE Over(c, "restart_ok") \/ Over(c, "none")
      BY <3>3, Ending
    <3> QED
      BY <1>15, <3>1, <3>2, <3>3 DEF CheckAgent
  <2> QED
    BY <2>1, <2>2, BridgeAlone
<1>16. CASE WriteManifest(c)
  <2>1. m.pc = "manifest" /\ UNCHANGED <<bridge, owner>> /\ "scenario" \in Steps
        /\ (Goto(c, "scenario") \/ Over(c, "up_ok"))
    BY <1>16 DEF WriteManifest, At, kernel, Steps
  <2> QED
    BY <2>1, GoingTo, Ending, BridgeAlone
<1>17. CASE RunScenario(c)
  <2>1. m.pc = "scenario" /\ UNCHANGED <<bridge, owner>> /\ Becomes(c, Loaded(m))
    BY <1>17 DEF RunScenario, At, kernel, files
  <2> QED
    BY <1>0, <2>1, Loading, BridgeAlone
<1> QED
  BY <1>1, <1>2, <1>3, <1>4, <1>5, <1>6, <1>7, <1>8, <1>9, <1>10, <1>11, <1>12, <1>13, <1>14,
     <1>15, <1>16, <1>17 DEF UpStep, EnsureBridge

LEMMA DownStepBridge ==
    ASSUME TypeOK, NEW c \in Cli, DownStep(c), BridgeOf(cli[c])
    PROVE  BridgeOf(cli[c])'
<1> DEFINE m == cli[c]
           r == cli'[c]
<1> USE DEF Writing, Forgetting
<1>1. CASE StopAgents(c) \/ StopBroker(c) \/ EndpointsClean(c)
  <2>1. /\ m.pc \in {"stopAgents", "stopBroker", "cleanup"} /\ UNCHANGED <<bridge, owner>>
        /\ {"stopBroker", "cleanup", "deleteBridge"} \subseteq Steps
    BY <1>1 DEF StopAgents, StopBroker, EndpointsClean, At, kernel, files, Steps
  <2>2. \E p \in {"stopBroker", "cleanup", "deleteBridge"} : Goto(c, p)
    BY <1>1 DEF StopAgents, StopBroker, EndpointsClean
  <2> QED
    BY <2>1, <2>2, GoingTo, BridgeAlone
<1>2. CASE CleanEndpoint(c)
  <2>1. m.pc = "cleanup" /\ r.pc = "cleanup" /\ UNCHANGED <<bridge, owner>>
    BY <1>2, CleaningEndpoint DEF files
  <2> QED
    BY <2>1, BridgeAlone
<1>3. CASE DeleteLink(c)
  BY <1>3 DEF DeleteLink, At, BridgeOf, TypeOK
<1>4. CASE ForgetOwner(c)
  BY <1>4 DEF ForgetOwner, At, BridgeOf, kernel
<1>5. CASE UnlinkRuntime(c)
  BY <1>5 DEF UnlinkRuntime, At, BridgeOf, kernel
<1> QED
  BY <1>1, <1>2, <1>3, <1>4, <1>5 DEF DownStep, DeleteBridge

LEMMA RestartStepBridge ==
    ASSUME TypeOK, NEW c \in Cli, RestartStep(c), BridgeOf(cli[c])
    PROVE  BridgeOf(cli[c])'
<1> DEFINE m == cli[c]
           r == cli'[c]
<1> USE DEF Writing, Forgetting
<1>1. CASE StopAgent(c)
  <2>1. m.pc = "stopAgent" /\ r.pc \in {"lease", "agent"} /\ UNCHANGED <<bridge, owner>>
    BY <1>1, StoppingAgent DEF StopAgent, files
  <2> QED
    BY <2>1, BridgeAlone
<1>2. CASE RotateLease(c) /\ lease[m.at] < MaxLease
  <2>1. m.pc = "lease" /\ r.pc = "flush" /\ UNCHANGED <<bridge, owner>>
    BY <1>2, RotatingLease DEF kernel
  <2> QED
    BY <2>1, BridgeAlone
<1>3. CASE ~ StopAgent(c) /\ ~ (RotateLease(c) /\ lease[m.at] < MaxLease)
  <2>1. m.pc \in Rotation \cup AgentLoop /\ UNCHANGED <<bridge, owner>>
    BY <1>3 DEF RestartStep, RotateLease, FlushAddress, AddAddress, SaveAddress, NoKeeper, At,
       kernel, files, Rotation, AgentLoop
  <2>2. Over(c, "none") \/ \E p \in {"addAddress", "saveAddress", "agent"} : Goto(c, p)
    BY <1>3 DEF RestartStep, RotateLease, FlushAddress, AddAddress, SaveAddress, NoKeeper
  <2>3. r.pc \in {"idle", "addAddress", "saveAddress", "agent"}
    BY <2>2, GoingTo, Ending DEF Steps
  <2> QED
    BY <2>1, <2>3, BridgeAlone DEF Rotation, AgentLoop
<1> QED
  BY <1>1, <1>2, <1>3

LEMMA OwnedNext ==
    ASSUME OneCommand, TypeOK, Controlled, Owned, [Next]_vars
    PROVE  Owned'
<1> SUFFICES ASSUME Gentle'
             PROVE  /\ \A c \in Cli : BridgeOf(cli[c])'
                    /\ last' \in {"down_ok", "up_failed"} => ~ bridge'
  BY DEF Owned
<1>0. Gentle /\ \A c \in Cli : BridgeOf(cli[c])
  BY KindsGrow DEF Gentle, Only, Owned
<1>1. CASE UNCHANGED vars
  BY <1>0, <1>1 DEF Owned, BridgeOf, vars, kernel, files
<1>2. ASSUME last' \in {"down_ok", "up_failed"}, ~ UNCHANGED vars
      PROVE  ~ bridge'
  <2>1. PICK c \in Cli : UnlinkRuntime(c)
    BY <1>2, Ended
  <2> QED
    BY <1>0, <2>1 DEF UnlinkRuntime, At, BridgeOf, Forgetting, kernel
<1>3. CASE Reboot
  BY <1>2, <1>3 DEF Reboot, BridgeOf
<1>4. CASE AgentDies
  BY <1>0, <1>2, <1>4 DEF AgentDies, BridgeOf, files
<1>5. CASE BrokerDies \/ \E c \in Cli : Kill(c) \/ DownStepFails(c) \/ StaysBehind(c)
  BY <1>5, FaultKind DEF BrokerDies, Kill, DownStepFails, StaysBehind, Gentle
<1>6. ASSUME NEW c \in Cli,
             StartUp(c) \/ StartDown(c) \/ StartRestart(c) \/ Step(c)
                \/ UpStepFails(c) \/ RestartStepFails(c)
      PROVE  \A d \in Cli : BridgeOf(cli[d])'
  <2>0. BridgeOf(cli[c]) /\ \A d \in Cli : d = c
    BY <1>0 DEF OneCommand
  <2>1. CASE StartUp(c) \/ StartDown(c) \/ StartRestart(c)
    <3>1. /\ cli[c].pc = "idle" /\ cli'[c].pc \in {"check", "stopAgents", "stopAgent"}
          /\ UNCHANGED <<bridge, owner>>
      BY <2>1, StartingUp, StartingDown, StartingRestart DEF kernel, files
    <3> QED
      BY <2>0, <3>1, BridgeAlone DEF Writing, Forgetting
  <2>2. CASE UpStepFails(c) \/ RestartStepFails(c)
    <3>1. cli[c].pc \in StepsThatFail("command")
      BY <2>2, FaultKind DEF Gentle, UpStepFails, RestartStepFails
    <3>2. cli[c].pc \notin Writing /\ UNCHANGED <<bridge, owner>>
      BY <2>2, <3>1 DEF StepsThatFail, Writing, UpStepFails, RestartStepFails, kernel, files
    <3>3. cli'[c].pc \in {"idle", "stopAgents"}
      BY <2>2, FailingUp, Ending DEF UpStepFails, RestartStepFails
    <3> QED
      BY <2>0, <3>2, <3>3, BridgeAlone DEF Forgetting
  <2> QED
    BY <1>6, <2>0, <2>1, <2>2, UpStepBridge, DownStepBridge, RestartStepBridge DEF Step
<1> QED
  BY <1>1, <1>2, <1>3, <1>4, <1>5, <1>6 DEF Next

LEMMA AlwaysOwned ==
    ASSUME OneCommand
    PROVE  Spec => []Owned
<1>1. TypeOK /\ Controlled /\ Contained /\ Owned /\ [Next]_vars => Owned'
  BY OwnedNext
<1> QED
  BY <1>1, OwnedInit, AlwaysContained, PTL DEF Spec

(* down, and acceptance at its end, leaves no process and no bridge, and no *)
(* namespace but one that fleet.json hides (fleet_manager.py down, and      *)
(* endpoints at line 105).                                                  *)
THEOREM DownAlwaysCleans ==
    ASSUME OneCommand
    PROVE  Spec => []DownIsClean
<1>1. Contained /\ Found /\ Owned => DownIsClean
  BY DEF Contained, Found, Owned, Gentle, Calm, Only, DownIsClean
<1> QED
  BY <1>1, AlwaysFound, AlwaysOwned, PTL

(* An up that fails leaves no process and no bridge, and no namespace that  *)
(* the next down would not find or fleet.json not hide (fleet_manager.py    *)
(* _cleanup_partial).                                                       *)
THEOREM FailedUpAlwaysContained ==
    ASSUME OneCommand
    PROVE  Spec => []FailedUpIsContained
<1>1. Contained /\ Found /\ Owned => FailedUpIsContained
  <2> SUFFICES ASSUME Contained, Found, Owned, last = "up_failed", Calm
               PROVE  NothingRuns /\ ~ bridge
                      /\ \A s \in Slot : netns[s] # None => Listed(s) \/ Hidden(s)
    BY DEF FailedUpIsContained, Calm
  <2>1. Gentle
    BY DEF Gentle, Calm, Only
  <2> QED
    BY <2>1 DEF Contained, Found, Owned, Findable, Listed, Hidden
<1> QED
  BY <1>1, AlwaysFound, AlwaysOwned, PTL

-----------------------------------------------------------------------------
(***************************************************************************)
(* While no agent dies either, an up makes one slot after another complete, *)
(* then starts a broker whose map is the namespaces', then one agent after *)
(* another in the slot's namespace; nothing it did is undone before it     *)
(* returns.                                                                *)
(***************************************************************************)
Orderly == Only({"command", "reboot", "purge"})

Made(m, s) ==
    /\ endpoint[s] = m.endpoints[s]
    /\ endpoint[s].keeper \in Pids(keepers)
    /\ endpoint[s].ns = netns[s] /\ netns[s] # None
    /\ endpoint[s].ip = address[s] /\ address[s] = lease[s]

Attended(m, s) ==
    \E a \in agents : a.slot = s /\ a.pid = m.runtime.agents[s] /\ a.ns = netns[s]

Mapped(m) ==
    \E b \in brokers : /\ b.pid = m.runtime.broker
                       /\ \A s \in Slot : s <= m.count => b.map[s] = netns[s]

(* The slots that up is done with: the endpoint, and the agent. *)
Complete(m, s) ==
    \/ m.pc \in Creating \ {"saveKeeper"} /\ s < m.at
    \/ m.pc = "saveKeeper" /\ s <= m.at
    \/ m.pc \in {"enroll", "broker"} \cup WithBroker \cup AgentLoop /\ s <= m.count

Manned(m, s) ==
    \/ m.pc = "agent" /\ s < m.at
    \/ m.pc \in {"saveAgent", "checkAgent"} /\ s <= m.at
    \/ m.pc = "manifest" /\ s <= m.count

Progress(m) ==
    m.cmd \in Ups =>
        /\ \A s \in Slot : Complete(m, s) => Made(m, s)
        /\ \A s \in Slot : Manned(m, s) => Attended(m, s)
        /\ m.pc \in {"netns", "keeper", "endpoint"} => m.endpoints[m.at].ip = lease[m.at]
        /\ m.pc \in {"keeper", "endpoint"} => address[m.at] = lease[m.at] /\ netns[m.at] # None
        /\ m.pc = "endpoint" => m.endpoints[m.at].keeper \in Pids(keepers)
        /\ m.pc \in WithBroker \cup AgentLoop => Mapped(m)

Healthful ==
    Orderly => /\ \A c \in Cli : Progress(cli[c])
               /\ last = "up_ok" => manifest # NoManifest /\ \A s \in manifest : Healthy(s)

LEMMA OrderlySteps ==
    ASSUME TypeOK, [Next]_vars, Orderly'
    PROVE  Orderly /\ Gentle
BY KindsGrow DEF Orderly, Gentle, Only

LEMMA HealthfulInit == Init => Healthful
<1> SUFFICES ASSUME Init PROVE Healthful
  OBVIOUS
<1> QED
  BY IdleTyped DEF Init, Healthful, Progress, Ups

(* A step after which the command is not creating a fleet. *)
LEMMA NotCreating ==
    ASSUME NEW c \in Cli,
           cli'[c].pc \in Undoing \cup BridgeSteps \cup {"idle", "check", "scenario"} \/ cli'[c].cmd \notin Ups
    PROVE  Progress(cli[c])'
<1>1. CASE cli'[c].cmd \notin Ups
  BY <1>1 DEF Progress
<1>2. CASE cli'[c].pc \in Undoing \cup BridgeSteps \cup {"idle", "check", "scenario"}
  BY <1>2 DEF Progress, Complete, Manned, Undoing, BridgeSteps, Creating, WithBroker, AgentLoop
<1> QED
  BY <1>1, <1>2

LEMMA UpStepProgress ==
    ASSUME OneCommand, TypeOK, NEW c \in Cli, UpStep(c),
           Control(cli[c]), Knows(cli[c]), Progress(cli[c])
    PROVE  Progress(cli[c])'
<1> DEFINE m == cli[c]
           r == cli'[c]
<1>0. /\ m \in Memory /\ m.at \in Slot /\ m.count \in Slot
      /\ m.endpoints \in [Slot -> Endpoint]
      /\ m.runtime \in RuntimeFile
  BY DEF TypeOK, Memory, RuntimeFile
<1>a. ASSUME r.pc \in Undoing \cup BridgeSteps \cup {"idle", "check", "scenario"} \/ r.cmd \notin Ups
      PROVE  Progress(m)'
  BY <1>a, NotCreating
<1>b. CASE m.cmd \in Restarts
  <2>1. StartAgent(c) \/ SaveAgent(c) \/ CheckAgent(c)
    BY <1>b, EnsuringBridge
       DEF UpStep, Control, At, BeforeBroker, BridgeSteps, Creating, WithBroker, Ups, Restarts,
       Check, Prepare, CreateNetns, StartKeeper, RecordEndpoint, SaveKeeper,
       Enroll, StartBroker, SaveBroker, AwaitBroker, WriteManifest, RunScenario
  <2>2. CASE StartAgent(c)
    <3>1. r.cmd = m.cmd
      BY <2>2, CreatingAgent DEF Same
    <3> QED
      BY <1>a, <1>b, <3>1 DEF Restarts, Ups
  <2>3. CASE SaveAgent(c)
    <3>1. Goto(c, "checkAgent") /\ "checkAgent" \in Steps
      BY <2>3 DEF SaveAgent, Steps
    <3>2. r.cmd = m.cmd
      BY <3>1, GoingTo DEF Same
    <3> QED
      BY <1>a, <1>b, <3>2 DEF Restarts, Ups
  <2>4. CASE CheckAgent(c)
    <3>1. Over(c, "restart_ok") \/ Over(c, "none")
      BY <1>b, <2>4 DEF CheckAgent, Restarts, Ups
    <3> QED
      BY <1>a, <3>1, Ending
  <2> QED
    BY <2>1, <2>2, <2>3, <2>4
<1>c. ASSUME m.pc \in BeforeBroker \cup WithBroker \/ (m.pc \in AgentLoop /\ m.cmd \notin Restarts)
      PROVE  UpKnows(m) /\ m.cmd \in Ups /\ m.at <= m.count
  BY <1>c DEF Knows, Control
<1>d. CASE m.cmd \notin Restarts
  <2> USE DEF BeforeBroker, BridgeSteps, Creating, WithBroker, AgentLoop, Same
  <2>1. CASE Check(c)
    <3>1. CASE ~ BrokerAlive(runtime.broker)
      BY <1>a, <2>1, <3>1, Checking
    <3>2. CASE BrokerAlive(runtime.broker)
      <4>1. Becomes(c, Loaded(m)) \/ Over(c, "none")
        BY <2>1, <3>2 DEF Check
      <4> QED
        BY <1>0, <1>a, <4>1, Loading, Ending DEF Undoing
    <3> QED
      BY <3>1, <3>2
  <2>2. CASE EnsureBridge(c)
    <3>1. m.at = 1 /\ "prepare" \in Steps /\ BridgeSteps \subseteq Steps
      BY <2>2, EnsuringBridge DEF Steps, Control
    <3>2. CASE Goto(c, "prepare")
      <4>1. r.pc = "prepare" /\ r.at = 1
        BY <3>1, <3>2, GoingTo
      <4> QED
        BY <4>1 DEF Progress, Complete, Manned, Slot
    <3>3. CASE \E p \in BridgeSteps : Goto(c, p)
      BY <1>a, <3>1, <3>3, GoingTo
    <3>4. CASE Becomes(c, Failed(m))
      BY <1>0, <1>a, <3>4, Failing DEF Undoing
    <3> QED
      BY <2>2, <3>2, <3>3, <3>4, EnsuringBridge
  <2>3. CASE Prepare(c)
    <3>1. PICK e \in Endpoint : /\ e.ip = lease'[m.at]
                                /\ endpoint' = [endpoint EXCEPT ![m.at] = e]
                                /\ r.endpoints = [m.endpoints EXCEPT ![m.at] = e]
      BY <2>3, Preparing
    <3>2. /\ m.pc = "prepare" /\ r.pc = "netns" /\ r.at = m.at /\ r.cmd = m.cmd
          /\ \A x \in Slot \ {m.at} : lease'[x] = lease[x]
          /\ UNCHANGED <<keepers, netns, address>>
      BY <2>3, Preparing DEF kernel
    <3>3. /\ r.endpoints[m.at].ip = lease'[m.at]
          /\ \A s \in Slot \ {m.at} : r.endpoints[s] = m.endpoints[s] /\ endpoint'[s] = endpoint[s]
      BY <1>0, <3>1 DEF TypeOK
    <3>4. \A s \in Slot : s < m.at => s \in Slot \ {m.at}
      BY <1>0 DEF Slot
    <3> QED
      BY <1>0, <1>c, <3>2, <3>3, <3>4 DEF Progress, Complete, Manned, Made
  <2>4. CASE CreateNetns(c)
    <3>1. PICK ns \in FreshNs : netns' = [netns EXCEPT ![m.at] = ns]
      BY <2>4 DEF CreateNetns
    <3>2. /\ Goto(c, "keeper") /\ m.pc = "netns" /\ "keeper" \in Steps
          /\ address' = [address EXCEPT ![m.at] = m.endpoints[m.at].ip]
          /\ UNCHANGED <<keepers, files>>
      BY <2>4 DEF CreateNetns, At, Steps
    <3>3. /\ netns'[m.at] # None /\ address'[m.at] = m.endpoints[m.at].ip
          /\ \A s \in Slot \ {m.at} : netns'[s] = netns[s] /\ address'[s] = address[s]
      BY <1>0, <3>1, <3>2 DEF FreshNs, Fresh, TypeOK, Id, None
    <3>4. \A s \in Slot : s < m.at => s \in Slot \ {m.at}
      BY <1>0 DEF Slot
    <3> QED
      BY <1>0, <1>c, <3>2, <3>3, <3>4, GoingTo DEF Progress, Complete, Manned, Made, files
  <2>5. CASE StartKeeper(c)
    <3>1. PICK pid \in FreshKeeper :
             /\ keepers' = keepers \cup {[pid |-> pid, slot |-> m.at]}
             /\ r.endpoints[m.at].keeper = pid
      BY <2>5, CreatingKeeper
    <3>2. /\ m.pc = "keeper" /\ r.pc = "endpoint" /\ r.at = m.at /\ r.cmd = m.cmd
          /\ r.endpoints[m.at].ip = m.endpoints[m.at].ip
          /\ \A s \in Slot \ {m.at} : r.endpoints[s] = m.endpoints[s]
          /\ UNCHANGED <<netns, address, endpoint, lease>>
      BY <2>5, CreatingKeeper DEF files
    <3>3. r.endpoints[m.at].keeper \in Pids(keepers') /\ Pids(keepers) \subseteq Pids(keepers')
      <4> DEFINE k == [pid |-> pid, slot |-> m.at]
      <4>1. k \in keepers' /\ k.pid = pid
        BY <3>1
      <4> HIDE DEF k
      <4> QED
        BY <3>1, <4>1 DEF Pids
    <3>4. \A s \in Slot : s < m.at => s \in Slot \ {m.at}
      BY <1>0 DEF Slot
    <3> QED
      BY <1>0, <1>c, <3>2, <3>3, <3>4 DEF Progress, Complete, Manned, Made
  <2>6. CASE RecordEndpoint(c)
    <3>0. m.pc = "endpoint" /\ netns[m.at] # None
      BY <1>c, <2>6 DEF RecordEndpoint, At, UpKnows
    <3>1. PICK e \in Endpoint : /\ e.ns = netns[m.at] /\ e.ip = m.endpoints[m.at].ip
                                /\ e.keeper = m.endpoints[m.at].keeper
                                /\ endpoint' = [endpoint EXCEPT ![m.at] = e]
                                /\ r.endpoints = [m.endpoints EXCEPT ![m.at] = e]
      BY <2>6, <3>0, RecordingEndpoint
    <3>2. /\ r.pc = "saveKeeper" /\ r.at = m.at /\ r.cmd = m.cmd
          /\ UNCHANGED <<keepers, netns, address, lease>>
      BY <2>6, <3>0, RecordingEndpoint DEF kernel
    <3>3. /\ r.endpoints[m.at] = e /\ endpoint'[m.at] = e
          /\ \A s \in Slot \ {m.at} : r.endpoints[s] = m.endpoints[s] /\ endpoint'[s] = endpoint[s]
      BY <1>0, <3>1 DEF TypeOK
    <3>4. Made(m, m.at)'
      BY <1>c, <3>0, <3>1, <3>2, <3>3 DEF Progress, Made
    <3>5. \A s \in Slot : s < m.at => Made(m, s)'
      BY <1>0, <1>c, <3>0, <3>2, <3>3 DEF Progress, Complete, Made, Slot
    <3>6. \A s \in Slot : s <= m.at => s < m.at \/ s = m.at
      BY <1>0 DEF Slot
    <3> QED
      BY <3>2, <3>4, <3>5, <3>6 DEF Progress, Complete, Manned
  <2>7. CASE SaveKeeper(c)
    <3>1. /\ Becomes(c, Advance(m, "prepare", "enroll")) /\ m.pc = "saveKeeper"
          /\ "prepare" \in Steps /\ "enroll" \in Steps
          /\ UNCHANGED <<keepers, netns, address, endpoint, lease>>
      BY <2>7 DEF SaveKeeper, At, Steps, kernel
    <3>2. m.cmd \in Ups /\ m.at <= m.count
      BY <1>c, <3>1
    <3>3. /\ r.cmd = m.cmd /\ r.count = m.count /\ r.endpoints = m.endpoints
          /\ \/ m.at < m.count /\ r.pc = "prepare" /\ r.at = m.at + 1
             \/ m.at = m.count /\ r.pc = "enroll" /\ r.at = 1
      BY <1>0, <3>1, <3>2, Advancing DEF Slot
    <3>4. \A s \in Slot : Complete(r, s) <=> Complete(m, s)
      BY <1>0, <3>1, <3>3 DEF Complete, Slot
    <3>5. \A s \in Slot : Complete(r, s) => Made(m, s)'
      BY <3>1, <3>2, <3>3, <3>4 DEF Progress, Made
    <3>6. \A s \in Slot : ~ Manned(r, s)
      BY <3>3 DEF Manned
    <3>7. r.pc \in {"prepare", "enroll"}
      BY <3>3
    <3> QED
      BY <3>5, <3>6, <3>7 DEF Progress, Complete, Manned
  <2>8. CASE Enroll(c)
    <3>1. Goto(c, "broker") /\ m.pc = "enroll" /\ "broker" \in Steps /\ UNCHANGED <<kernel, files>>
      BY <2>8 DEF Enroll, At, Steps
    <3> QED
      BY <1>c, <3>1, GoingTo DEF Progress, Complete, Manned, Made, kernel, files
  <2>9. CASE StartBroker(c)
    <3>1. PICK pid \in FreshBroker :
             /\ m.pc = "broker" /\ r.pc = "saveBroker" /\ r.cmd = m.cmd /\ r.count = m.count
             /\ r.runtime.broker = pid /\ r.endpoints = m.endpoints
             /\ brokers' = brokers
                    \cup {[pid |-> pid, map |-> [s \in Slot |-> m.endpoints[s].ns]]}
             /\ UNCHANGED <<keepers, netns, address, files>>
      BY <2>9, CreatingBroker
    <3>2. \A s \in Slot : s <= m.count => Made(m, s)
      BY <1>c, <3>1 DEF Progress, Complete
    <3>3. Mapped(m)'
      <4> DEFINE b == [pid |-> pid, map |-> [s \in Slot |-> m.endpoints[s].ns]]
      <4>1. b \in brokers' /\ b.pid = pid /\ \A s \in Slot : b.map[s] = m.endpoints[s].ns
        BY <3>1
      <4>2. \A s \in Slot : s <= r.count => b.map[s] = netns'[s]
        BY <3>1, <3>2, <4>1 DEF Made
      <4> HIDE DEF b
      <4> QED
        BY <3>1, <4>1, <4>2 DEF Mapped
    <3>4. \A s \in Slot : s <= m.count => Made(m, s)'
      BY <3>1, <3>2 DEF Made, files
    <3> QED
      BY <3>1, <3>3, <3>4 DEF Progress, Complete, Manned
  <2>10. CASE SaveBroker(c)
    <3>1. /\ Goto(c, "awaitBroker") /\ m.pc = "saveBroker" /\ "awaitBroker" \in Steps
          /\ UNCHANGED <<kernel, endpoint, lease>>
      BY <2>10 DEF SaveBroker, At, Steps
    <3> QED
      BY <1>c, <3>1, GoingTo DEF Progress, Complete, Manned, Made, Mapped, kernel
  <2>11. CASE AwaitBroker(c)
    <3>0. m.pc = "awaitBroker" /\ UNCHANGED <<kernel, files>>
      BY <2>11 DEF AwaitBroker, At
    <3>1. CASE BrokerAlive(m.runtime.broker)
      <4>1. /\ r.pc = "agent" /\ r.cmd = m.cmd /\ r.count = m.count /\ r.at = 1
            /\ r.runtime = m.runtime /\ r.endpoints = m.endpoints
        BY <2>11, <3>1, Awaiting
      <4>2. \A s \in Slot : ~ (s < 1)
        BY DEF Slot
      <4> QED
        BY <1>c, <3>0, <4>1, <4>2 DEF Progress, Complete, Manned, Made, Mapped, kernel, files
    <3>2. CASE ~ BrokerAlive(m.runtime.broker)
      <4>1. Becomes(c, Failed(m))
        BY <2>11, <3>2, Zenon DEF AwaitBroker
      <4> QED
        BY <1>0, <1>a, <4>1, Failing DEF Undoing
    <3> QED
      BY <3>1, <3>2
  <2>12. CASE StartAgent(c)
    <3> DEFINE s == m.at
    <3>1. PICK pid \in FreshAgent :
             /\ m.pc = "agent" /\ r.pc = "saveAgent" /\ r.at = s /\ r.endpoints = m.endpoints
             /\ r.cmd = m.cmd /\ r.count = m.count
             /\ agents' = IF CanEnter(s, m.endpoints[s])
                       THEN agents \cup {[pid |-> pid, slot |-> s, ns |-> netns[s]]}
                       ELSE agents
             /\ r.runtime.broker = m.runtime.broker
             /\ r.runtime.agents = [m.runtime.agents EXCEPT ![s] = pid]
             /\ UNCHANGED <<brokers, keepers, netns, address, files>>
      BY <2>12, CreatingAgent
    <3>2. /\ r.runtime.agents[s] = pid
          /\ \A x \in Slot \ {s} : r.runtime.agents[x] = m.runtime.agents[x]
      BY <1>0, <3>1 DEF RuntimeFile
    <3>3. m.cmd \in Ups /\ s <= m.count
      BY <1>c, <1>d, <3>1
    <3>4. Made(m, s)
      BY <1>0, <3>1, <3>3 DEF Progress, Complete
    <3>5. agents' = agents \cup {[pid |-> pid, slot |-> s, ns |-> netns[s]]}
      BY <3>1, <3>4 DEF Made, CanEnter
    <3>6. Attended(m, s)'
      <4> DEFINE a == [pid |-> pid, slot |-> s, ns |-> netns[s]]
      <4>1. a \in agents' /\ a.pid = pid /\ a.slot = s /\ a.ns = netns'[s]
        BY <3>1, <3>5
      <4> HIDE DEF a
      <4> QED
        BY <3>1, <3>2, <4>1 DEF Attended
    <3>7. ASSUME NEW x \in Slot, x < s PROVE Attended(m, x)'
      <4>1. Attended(m, x) /\ x \in Slot \ {s}
        BY <1>0, <3>1, <3>3, <3>7 DEF Progress, Manned, Slot
      <4> QED
        BY <3>1, <3>2, <3>5, <4>1 DEF Attended
    <3>8. \A x \in Slot : x <= s => x < s \/ x = s
      BY <1>0 DEF Slot
    <3>9. \A x \in Slot : x <= m.count => Made(m, x)'
      BY <3>1, <3>3 DEF Progress, Complete, Made, files
    <3>10. Mapped(m)'
      BY <3>1, <3>3 DEF Progress, Mapped
    <3> QED
      BY <3>1, <3>6, <3>7, <3>8, <3>9, <3>10 DEF Progress, Complete, Manned
  <2>13. CASE SaveAgent(c)
    <3>1. /\ Goto(c, "checkAgent") /\ m.pc = "saveAgent" /\ "checkAgent" \in Steps
          /\ endpoint' = [endpoint EXCEPT ![m.at] = m.endpoints[m.at]]
          /\ UNCHANGED <<kernel, lease>>
      BY <2>13 DEF SaveAgent, At, Steps
    <3>2. m.cmd \in Ups /\ m.at <= m.count
      BY <1>c, <1>d, <3>1
    <3>3. endpoint' = endpoint
      <4>1. endpoint[m.at] = m.endpoints[m.at]
        BY <1>0, <3>1, <3>2 DEF Progress, Complete, Made
      <4> QED
        BY <3>1, <4>1 DEF TypeOK
    <3> QED
      BY <3>1, <3>2, <3>3, GoingTo
         DEF Progress, Complete, Manned, Made, Mapped, Attended, kernel
  <2>14. CASE CheckAgent(c)
    <3>0. /\ m.pc = "checkAgent" /\ UNCHANGED <<kernel, files>>
          /\ "agent" \in Steps /\ "manifest" \in Steps
      BY <2>14 DEF CheckAgent, At, Steps
    <3>1. m.cmd \in Ups /\ m.at <= m.count
      BY <1>c, <1>d, <3>0
    <3>2. CASE Becomes(c, Advance(m, "agent", "manifest"))
      <4>1. /\ r.cmd = m.cmd /\ r.count = m.count
            /\ r.runtime = m.runtime /\ r.endpoints = m.endpoints
            /\ \/ m.at < m.count /\ r.pc = "agent" /\ r.at = m.at + 1
               \/ m.at = m.count /\ r.pc = "manifest" /\ r.at = 1
        BY <1>0, <3>0, <3>1, <3>2, Advancing DEF Slot
      <4>2. \A s \in Slot : Manned(r, s) <=> Manned(m, s)
        BY <1>0, <3>0, <4>1 DEF Manned, Slot
      <4>3. \A s \in Slot : Complete(r, s) <=> Complete(m, s)
        BY <3>0, <4>1 DEF Complete
      <4>4. \A s \in Slot : Manned(r, s) => Attended(m, s)'
        BY <3>0, <3>1, <4>1, <4>2 DEF Progress, Attended, kernel
      <4>5. \A s \in Slot : Complete(r, s) => Made(m, s)'
        BY <3>0, <3>1, <4>1, <4>3 DEF Progress, Made, kernel, files
      <4>6. Mapped(m)'
        BY <3>0, <3>1, <4>1 DEF Progress, Mapped, kernel
      <4>7. r.pc \in {"agent", "manifest"}
        BY <4>1
      <4> QED
        BY <4>4, <4>5, <4>6, <4>7 DEF Progress, Complete, Manned
    <3>3. CASE Becomes(c, Failed(m))
      BY <1>0, <1>a, <3>3, Failing DEF Undoing
    <3> QED
      BY <2>14, <3>1, <3>2, <3>3 DEF CheckAgent
  <2>15. CASE WriteManifest(c)
    <3>1. "scenario" \in Steps /\ (Goto(c, "scenario") \/ Over(c, "up_ok"))
      BY <2>15 DEF WriteManifest, Steps
    <3> QED
      BY <1>a, <3>1, GoingTo, Ending
  <2>16. CASE RunScenario(c)
    <3>1. Becomes(c, Loaded(m))
      BY <2>16 DEF RunScenario
    <3> QED
      BY <1>0, <1>a, <3>1, Loading DEF Undoing
  <2> QED
    BY <2>1, <2>2, <2>3, <2>4, <2>5, <2>6, <2>7, <2>8, <2>9, <2>10, <2>11, <2>12, <2>13,
       <2>14, <2>15, <2>16 DEF UpStep
<1> QED
  BY <1>b, <1>d

(* When up returns, what it made is what status calls healthy. *)
LEMMA HealthyAtTheEnd ==
    ASSUME TypeOK, NEW c \in Cli, WriteManifest(c), Control(cli[c]), Knows(cli[c]),
           AloneInSlot, Progress(cli[c])
    PROVE  manifest' # NoManifest /\ \A s \in manifest' : Healthy(s)'
<1> DEFINE m == cli[c]
<1>0. /\ m.pc = "manifest" /\ m.count \in Slot /\ manifest' = 1 .. m.count
      /\ UNCHANGED <<kernel, runtime, endpoint, lease>>
  BY DEF WriteManifest, At, TypeOK, Memory
<1>1. m.cmd \in Ups /\ UpKnows(m) /\ runtime = m.runtime
  BY <1>0 DEF Control, Knows, UpKnows, WithBroker
<1>2. 0 \notin manifest' /\ \A s \in manifest' : s \in Slot /\ s <= m.count
  BY <1>0, SlotAssumption DEF Slot
<1>3. ASSUME NEW s \in manifest' PROVE Healthy(s)'
  <2>1. s \in Slot /\ Made(m, s) /\ Attended(m, s) /\ Mapped(m)
    BY <1>0, <1>1, <1>2, <1>3 DEF Progress, Complete, Manned, WithBroker
  <2>2. PICK a \in agents : a.slot = s /\ a.pid = runtime.agents[s] /\ a.ns = netns[s]
    BY <1>1, <2>1 DEF Attended
  <2>3. OfSlot(agents, s) = {a}
    BY <2>2 DEF OfSlot, AloneInSlot
  <2>4. \E b \in brokers : b.pid = runtime.broker /\ b.map[s] = netns[s]
    BY <1>1, <1>2, <1>3, <2>1 DEF Mapped
  <2>5. Healthy(s)
    BY <2>1, <2>2, <2>3, <2>4 DEF Healthy, Made
  <2> QED
    BY <1>0, <2>5 DEF Healthy, OfSlot, kernel
<1> QED
  BY <1>2, <1>3 DEF NoManifest, None

LEMMA HealthfulNext ==
    ASSUME OneCommand, TypeOK, Controlled, Contained, Healthful, [Next]_vars
    PROVE  Healthful'
<1> SUFFICES ASSUME Orderly'
             PROVE  /\ \A c \in Cli : Progress(cli[c])'
                    /\ last' = "up_ok" =>
                          manifest' # NoManifest /\ \A s \in manifest' : Healthy(s)'
  BY DEF Healthful
<1>0. Orderly /\ Gentle /\ AloneInSlot
      /\ \A c \in Cli : Progress(cli[c]) /\ Control(cli[c]) /\ Knows(cli[c])
  BY OrderlySteps DEF Healthful, Contained, Controlled
<1>1. CASE UNCHANGED vars
  <2>1. Healthful'
    BY <1>1 DEF vars, kernel, files, Healthful, Orderly, Only, Progress, Complete, Manned,
       Made, Attended, Mapped, Healthy, OfSlot
  <2> QED
    BY <2>1 DEF Healthful
<1>2. ASSUME last' = "up_ok", ~ UNCHANGED vars
      PROVE  manifest' # NoManifest /\ \A s \in manifest' : Healthy(s)'
  <2>1. PICK c \in Cli : WriteManifest(c)
    BY <1>2, Ended
  <2> QED
    BY <1>0, <2>1, HealthyAtTheEnd
<1>3. CASE Reboot
  <2>1. \A c \in Cli : cli'[c].pc = "idle"
    BY <1>3, IdleTyped DEF Reboot
  <2> QED
    BY <1>2, <1>3, <2>1, NotCreating DEF Reboot
<1>4. CASE AgentDies \/ BrokerDies \/ \E c \in Cli : Kill(c) \/ DownStepFails(c) \/ StaysBehind(c)
  BY <1>4, FaultKind DEF AgentDies, BrokerDies, Kill, DownStepFails, StaysBehind, Orderly
<1>5. ASSUME NEW c \in Cli,
             StartUp(c) \/ StartDown(c) \/ StartRestart(c) \/ Step(c)
                \/ UpStepFails(c) \/ RestartStepFails(c)
      PROVE  \A d \in Cli : Progress(cli[d])'
  <2> DEFINE m == cli[c]
             r == cli'[c]
  <2>0. /\ \A d \in Cli : d = c
        /\ Control(m) /\ Knows(m) /\ Progress(m) /\ m \in Memory
    BY <1>0 DEF OneCommand, TypeOK
  <2>1. CASE UpStep(c)
    BY <2>0, <2>1, UpStepProgress
  <2>2. ASSUME r.pc \in Undoing \cup BridgeSteps \cup {"idle", "check", "scenario"} \/ r.cmd \notin Ups
        PROVE  \A d \in Cli : Progress(cli[d])'
    BY <2>0, <2>2, NotCreating
  <2>3. CASE StartUp(c) \/ StartDown(c)
    <3>1. r.pc \in {"check", "stopAgents"}
      BY <2>3, StartingUp, StartingDown
    <3> QED
      BY <2>2, <3>1 DEF Undoing
  <2>4. CASE StartRestart(c)
    <3>1. r.cmd \in {"restart", "rotate"}
      BY <2>4, StartingRestart
    <3> QED
      BY <2>2, <3>1 DEF Ups
  <2>5. CASE UpStepFails(c)
    <3>1. Becomes(c, Failed(Appended(m)))
      BY <2>5 DEF UpStepFails
    <3> QED
      BY <2>2, <3>1, FailingUp DEF Undoing
  <2>6. CASE RestartStepFails(c)
    <3>1. Over(c, "none")
      BY <2>6 DEF RestartStepFails
    <3> QED
      BY <2>2, <3>1, Ending
  <2>7. CASE DownStep(c)
    <3>1. CASE CleanEndpoint(c)
      BY <2>2, <3>1, CleaningEndpoint DEF Undoing
    <3>2. CASE ~ CleanEndpoint(c)
      <4>1. \/ \E p \in {"stopBroker", "cleanup", "deleteBridge", "unlinkOwner", "unlink",
                          "check"} : Goto(c, p)
            \/ \E how \in {"up_failed", "down_ok"} : Over(c, how)
        BY <2>7, <3>2, DeletingBridge DEF DownStep, StopAgents, StopBroker, EndpointsClean,
           UnlinkRuntime
      <4> QED
        BY <2>2, <4>1, GoingTo, Ending DEF Undoing, Steps
    <3> QED
      BY <3>1, <3>2
  <2>8. CASE RestartStep(c)
    <3>1. CASE StopAgent(c)
      <4>1. m.cmd \notin Ups /\ r.cmd = m.cmd
        BY <2>0, <3>1, StoppingAgent DEF Control, Rotation, Restarts, Ups, Same
      <4> QED
        BY <2>2, <4>1
    <3>2. CASE RotateLease(c) /\ lease[m.at] < MaxLease
      <4>1. m.cmd \notin Ups /\ r.cmd = m.cmd
        BY <2>0, <3>2, RotatingLease DEF Control, Rotation, Restarts, Ups, Same
      <4> QED
        BY <2>2, <4>1
    <3>3. CASE ~ StopAgent(c) /\ ~ (RotateLease(c) /\ lease[m.at] < MaxLease)
      <4>1. \/ Over(c, "none")
            \/ /\ \E p \in {"addAddress", "saveAddress", "agent"} : Goto(c, p)
               /\ m.pc \in {"flush", "addAddress", "saveAddress"}
        BY <2>8, <3>3 DEF RestartStep, RotateLease, FlushAddress, AddAddress, SaveAddress,
           NoKeeper, At
      <4>2. CASE Over(c, "none")
        BY <2>2, <4>2, Ending
      <4>3. ASSUME NEW p \in {"addAddress", "saveAddress", "agent"}, Goto(c, p),
                   m.pc \in {"flush", "addAddress", "saveAddress"}
            PROVE  \A d \in Cli : Progress(cli[d])'
        <5>1. m.cmd \notin Ups
          BY <2>0, <4>3 DEF Control, Rotation, Restarts, Ups
        <5>2. r.cmd = m.cmd
          BY <4>3, GoingTo DEF Steps, Same
        <5> QED
          BY <2>2, <5>1, <5>2
      <4> QED
        BY <4>1, <4>2, <4>3
    <3> QED
      BY <3>1, <3>2, <3>3
  <2> QED
    BY <1>5, <2>1, <2>3, <2>4, <2>5, <2>6, <2>7, <2>8 DEF Step
<1> QED
  BY <1>1, <1>2, <1>3, <1>4, <1>5 DEF Next

(* When up or recover returns, every endpoint of fleet.json has one agent,  *)
(* the recorded one, in the namespace that endpoint.json and the broker's   *)
(* map name, a keeper, and its leased address (fleet_manager.py up, status).*)
THEOREM UpAlwaysHealthy ==
    ASSUME OneCommand
    PROVE  Spec => []UpIsHealthy
<1>1. TypeOK /\ Controlled /\ Contained /\ Healthful /\ [Next]_vars => Healthful'
  BY HealthfulNext
<1>2. Healthful => UpIsHealthy
  BY DEF Healthful, Orderly, UpIsHealthy
<1> QED
  BY <1>1, <1>2, HealthfulInit, AlwaysContained, PTL DEF Spec

=============================================================================
