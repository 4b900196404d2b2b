--------------------------- MODULE ScenarioRunner ---------------------------
(***************************************************************************)
(* Scenario runs of one command (fleet/orchestrator/scenario_scheduler.py, *)
(* ScenarioRunner, PortAllocator and the pool of ScenarioScheduler.execute) *)
(* with the controlled peer each of them starts on the gateway's address   *)
(* (common/server), the script that connects to it (common/client,         *)
(* scenarios/*/linux/run.sh) and the two ground truth files                *)
(* (fleet/orchestrator/ground_truth.py).                                   *)
(*                                                                         *)
(* Runs are threads of one process, so that any of their steps interleave; *)
(* a peer is a process that must still bind its port when it was started,  *)
(* and may hold it for a while after it was killed.  Runs name neither a   *)
(* target nor a port of their own.                                         *)
(***************************************************************************)
EXTENDS Integers, FiniteSets, Sequences

CONSTANTS N,           \* runs 1 .. N, in the order of the plan
          NumPorts,    \* ports 1 .. NumPorts
          Hash,        \* the hash of a run: the port its search begins at
          Kinds,       \* the kinds of scenarios in the plan
          MaxWorkers,  \* scenario_max_concurrent
          MaxProbes,   \* bound on the readiness probes before the deadline
          Faults,      \* the kinds of faults that may happen
          MaxFaults    \* bound on their number

Run == 1 .. N
Port == 1 .. NumPorts

(* A beacon (001) asks a server that serves for ever; the client of exact   *)
(* (008, and 014 and 015 with a count) makes as many connections as the     *)
(* peer expects; that of default (014 and 015 without a count) fewer.      *)
ScenarioKinds == {"beacon", "exact", "default"}

FaultKinds ==
    {"peer",       \* a peer dies
     "script",     \* a script fails of itself
     "file",       \* a file of a run cannot be written
     "kill",       \* the command is killed, but not ...
     "killStart",  \* ... between starting a peer and recording it
     "foreign",    \* another program starts to listen on a port
     "down"}       \* the fleet is taken down meanwhile

ASSUME KindsAssumption == Kinds \subseteq ScenarioKinds
ASSUME FaultsAssumption == Faults \subseteq FaultKinds
ASSUME BoundsAssumption ==
    N \in Nat /\ NumPorts \in Nat /\ MaxWorkers \in Nat \ {0} /\ MaxProbes \in Nat
    /\ MaxFaults \in Nat

None == 0
ASSUME HashAssumption == Hash \in [Run -> Port]

(* Connections, scaled down: what the script makes, and what the peer is   *)
(* told to serve without the readiness probe.                              *)
ScriptCount == [beacon |-> 1, exact |-> 1, default |-> 1]
PeerCount == [beacon |-> 0, exact |-> 1, default |-> 2]

(* Definitions called Mutant... are plausible mistakes in the definition    *)
(* after them; a run under each shows that its property would notice.      *)
(* The readiness probe is not counted. *)
MutantLimit(k) == PeerCount[k]

Limit(k) == PeerCount[k] + 1

VARIABLES
    kind,       \* the scenario of each run
    pc,         \* the step each run is at
    port,       \* the port each run was given
    probes,     \* the readiness probes it has made
    made,       \* the connections its script has made
    result,     \* the result it has computed
    allocated,  \* the allocator's set
    peer,       \* the peer process of each run
    served,     \* the connections each peer has accepted
    recorded,   \* the runs whose peer-process.json exists
    foreign,    \* the ports other programs listen on
    fleetLog,   \* per run, its records in the fleet's ground truth file
    slotLog,    \* and in its endpoint's
    down,       \* the progress of a concurrent down
    orphans,    \* the runs whose command was killed before it began
    faults      \* how many faults happened, and of which kinds

thread == <<pc, probes, result>>
peers == <<peer, served>>
logs == <<fleetLog, slotLog>>
world == <<foreign, down, orphans>>
vars == <<kind, thread, port, made, allocated, peers, recorded, logs, world, faults>>

Steps ==
    {"submitted", "startFleet", "startSlot", "popen", "record", "poll",
     "connect", "script", "stop", "wait", "unlink", "finishFleet", "finishSlot"}
Ends == {"done", "raised", "lost"}
Results == {"FAILED", "PASS", "FAIL", "ERROR"}

TypeOK ==
    /\ kind \in [Run -> Kinds]
    /\ pc \in [Run -> Steps \cup Ends]
    /\ port \in [Run -> Port \cup {None}]
    /\ probes \in [Run -> 0 .. MaxProbes]
    /\ made \in [Run -> 0 .. 1]
    /\ result \in [Run -> Results]
    /\ allocated \subseteq Port
    /\ peer \in [Run -> {"none", "starting", "listening", "dying", "exited"}]
    /\ served \in [Run -> 0 .. 3]
    /\ recorded \subseteq Run
    /\ foreign \subseteq Port
    /\ \A r \in Run : \A file \in {fleetLog, slotLog} :
          file[r] \in {<<>>, <<"started">>} \cup {<<"started", x>> : x \in Results}
    /\ down \in {"none", "peers", "over"}
    /\ orphans \subseteq Run
    /\ faults \in [count : 0 .. MaxFaults, kinds : SUBSET FaultKinds]

Init ==
    /\ kind \in [Run -> Kinds]
    /\ pc = [r \in Run |-> "submitted"]
    /\ port = [r \in Run |-> None]
    /\ probes = [r \in Run |-> 0]
    /\ made = [r \in Run |-> 0]
    /\ result = [r \in Run |-> "FAILED"]
    /\ allocated = {}
    /\ peer = [r \in Run |-> "none"]
    /\ served = [r \in Run |-> 0]
    /\ recorded = {}
    /\ foreign = {}
    /\ fleetLog = [r \in Run |-> <<>>] /\ slotLog = [r \in Run |-> <<>>]
    /\ down = "none" /\ orphans = {}
    /\ faults = [count |-> 0, kinds |-> {}]

-----------------------------------------------------------------------------
At(r, step) == pc[r] = step
Goto(r, step) == pc' = [pc EXCEPT ![r] = step]
Active(r) == pc[r] \notin {"submitted"} \cup Ends

Fault(k) ==
    /\ k \in Faults
    /\ faults.count < MaxFaults
    /\ faults' = [count |-> faults.count + 1, kinds |-> faults.kinds \cup {k}]

(* The down that follows a killed command is not counted. *)
TakenDown ==
    IF faults.kinds \cap {"kill", "killStart"} = {} THEN Fault("down")
    ELSE /\ "down" \in Faults
         /\ faults' = [faults EXCEPT !.kinds = @ \cup {"down"}]

(* Whose listening sockets a port has: a killed peer's until it is gone. *)
Listeners(p) == {r \in Run : port[r] = p /\ peer[r] \in {"listening", "dying"}}
Answered(p) == p \in foreign \/ Listeners(p) # {}

(* A bounded peer accepts up to its limit; 3 bounds what is counted of a    *)
(* beacon's.  A connection to a dying one is lost.                         *)
Bound(r) == IF kind[r] = "beacon" THEN 3 ELSE Limit(kind[r])
Accepts(r) == peer[r] = "listening" /\ served[r] < Bound(r)
Served(p) == [r \in Run |-> IF r \in Listeners(p) /\ Accepts(r)
                            THEN served[r] + 1 ELSE served[r]]

(* The peer is not killed. *)
MutantSignalled(state) == state

(* What a signal that ends a process leaves of it at once. *)
Signalled(state) ==
    IF state = "starting" THEN "exited" ELSE IF state = "listening" THEN "dying" ELSE state

(* The result a run goes on with. *)
Becomes(r, res, step) ==
    /\ result' = [result EXCEPT ![r] = res]
    /\ Goto(r, step)

-----------------------------------------------------------------------------
(* A run, up to its script.                                                *)

(* A worker of the pool takes the first run of its queue. *)
Turn(r) ==
    /\ At(r, "submitted")
    /\ \A x \in 1 .. r - 1 : ~ At(x, "submitted")
    /\ Cardinality({x \in Run : Active(x)}) < MaxWorkers

(* The port is not probed. *)
MutantFreePorts == Port \ allocated

FreePorts == {p \in Port \ allocated : ~ Answered(p)}

(* How far the circular search of acquire goes to reach a port. *)
Distance(r, p) == (p - Hash[r]) % NumPorts

(* acquire, under its lock. *)
Acquire(r) ==
    /\ Turn(r)
    /\ \E p \in FreePorts :
          /\ \A q \in FreePorts : Distance(r, p) <= Distance(r, q)
          /\ port' = [port EXCEPT ![r] = p]
          /\ allocated' = allocated \cup {p}
    /\ Goto(r, "startFleet")
    /\ UNCHANGED <<kind, probes, result, made, peers, recorded, logs, world, faults>>

NoPort(r) ==
    /\ Turn(r)
    /\ FreePorts = {}
    /\ Goto(r, "raised")
    /\ UNCHANGED <<kind, probes, result, port, made, allocated, peers, recorded, logs, world, faults>>

(* start_run appends to the fleet's file, then to the endpoint's. *)
StartFleet(r) ==
    /\ At(r, "startFleet")
    /\ fleetLog' = [fleetLog EXCEPT ![r] = Append(@, "started")]
    /\ Goto(r, "startSlot")
    /\ UNCHANGED <<kind, probes, result, port, made, allocated, peers, recorded, slotLog, world, faults>>

StartSlot(r) ==
    /\ At(r, "startSlot")
    /\ slotLog' = [slotLog EXCEPT ![r] = Append(@, "started")]
    /\ Goto(r, "popen")
    /\ UNCHANGED <<kind, probes, result, port, made, allocated, peers, recorded, fleetLog, world, faults>>

StartPeer(r) ==
    /\ At(r, "popen")
    /\ peer' = [peer EXCEPT ![r] = "starting"]
    /\ Goto(r, "record")
    /\ UNCHANGED <<kind, probes, result, port, made, allocated, served, recorded, logs, world, faults>>

RecordPeer(r) ==
    /\ At(r, "record")
    /\ recorded' = recorded \cup {r}
    /\ Goto(r, "poll")
    /\ UNCHANGED <<kind, probes, result, port, made, allocated, peers, logs, world, faults>>

(* The loop has no deadline. *)
MutantPoll(r) ==
    /\ At(r, "poll")
    /\ probes' = [probes EXCEPT ![r] = @ + 1]
    /\ \/ peer[r] # "exited" /\ Goto(r, "connect") /\ UNCHANGED result
       \/ peer[r] = "exited" /\ Becomes(r, "ERROR", "unlink")
    /\ UNCHANGED <<kind, port, made, allocated, peers, recorded, logs, world, faults>>

(* The readiness loop: the deadline, the peer's exit status, a connection. *)
Poll(r) ==
    /\ At(r, "poll")
    /\ \/ /\ probes[r] < MaxProbes /\ peer[r] # "exited"
          /\ probes' = [probes EXCEPT ![r] = @ + 1]
          /\ Goto(r, "connect")
          /\ UNCHANGED <<peer, result>>
       \/ /\ probes[r] < MaxProbes /\ peer[r] = "exited"
          /\ Becomes(r, "ERROR", "unlink")
          /\ UNCHANGED <<probes, peer>>
       \/ /\ probes[r] = MaxProbes                \* terminated and given up
          /\ peer' = [peer EXCEPT ![r] = Signalled(@)]
          /\ Becomes(r, "ERROR", "unlink")
          /\ UNCHANGED probes
    /\ UNCHANGED <<kind, port, made, allocated, served, recorded, logs, world, faults>>

(* Whatever listens there makes the peer ready. *)
Connect(r) ==
    /\ At(r, "connect")
    /\ served' = Served(port[r])
    /\ Goto(r, IF Answered(port[r]) THEN "script" ELSE "poll")
    /\ UNCHANGED <<kind, probes, result, port, made, allocated, peer, recorded, logs, world, faults>>

-----------------------------------------------------------------------------
(* The script, in the endpoint's namespace.                                *)

(* A connection of the client is a thread whose failure the client's exit  *)
(* status does not show; curl's failure ends the beacon.  What another     *)
(* program answers may be anything.                                        *)
Request(r) ==
    LET p == port[r] IN
    /\ At(r, "script")
    /\ made[r] < ScriptCount[kind[r]]
    /\ down # "over"
    /\ made' = [made EXCEPT ![r] = @ + 1]
    /\ served' = Served(p)
    /\ \/ /\ kind[r] = "beacon"
          /\ \A x \in Listeners(p) : peer[x] = "dying"
          /\ Becomes(r, "FAIL", "stop")
       \/ /\ kind[r] = "beacon" => \/ p \in foreign
                                   \/ \E x \in Listeners(p) : peer[x] = "listening"
          /\ UNCHANGED <<pc, result>>
    /\ UNCHANGED <<kind, probes, port, allocated, peer, recorded, logs, world, faults>>

ScriptEnds(r) ==
    /\ At(r, "script")
    /\ down # "over"
    /\ made[r] = ScriptCount[kind[r]]
    /\ Becomes(r, "PASS", "stop")
    /\ UNCHANGED <<kind, probes, port, made, allocated, peers, recorded, logs, world, faults>>

(* down has killed it, or it cannot enter the endpoint's namespaces. *)
ScriptKilled(r) ==
    /\ At(r, "script")
    /\ down = "over"
    /\ Becomes(r, "FAIL", "stop")
    /\ UNCHANGED <<kind, probes, port, made, allocated, peers, recorded, logs, world, faults>>

ScriptFails(r) ==
    /\ At(r, "script")
    /\ Fault("script")
    /\ Becomes(r, "FAIL", "stop")
    /\ UNCHANGED <<kind, probes, port, made, allocated, peers, recorded, logs, world>>

-----------------------------------------------------------------------------
(* The finally block.                                                      *)

(* Only a beacon's peer is told to stop. *)
StopPeer(r) ==
    /\ At(r, "stop")
    /\ peer' = [peer EXCEPT ![r] = IF kind[r] = "beacon" THEN Signalled(@) ELSE @]
    /\ Goto(r, "wait")
    /\ UNCHANGED <<kind, probes, result, port, made, allocated, served, recorded, logs, world, faults>>

(* The wait has no timeout. *)
MutantWaitPeer(r) ==
    /\ At(r, "wait")
    /\ peer[r] = "exited"
    /\ Goto(r, "unlink")
    /\ UNCHANGED <<kind, probes, result, port, made, allocated, peers, recorded, logs, world, faults>>

(* Five seconds for the peer to end, then it is killed and not waited for. *)
WaitPeer(r) ==
    /\ At(r, "wait")
    /\ peer' = [peer EXCEPT ![r] = Signalled(@)]
    /\ Goto(r, "unlink")
    /\ UNCHANGED <<kind, probes, result, port, made, allocated, served, recorded, logs, world, faults>>

(* The port is released after a run that went well only. *)
MutantUnlink(r) ==
    /\ At(r, "unlink")
    /\ recorded' = recorded \ {r}
    /\ allocated' = IF result[r] = "ERROR" THEN allocated ELSE allocated \ {port[r]}
    /\ Goto(r, "finishFleet")
    /\ UNCHANGED <<kind, probes, result, port, made, peers, logs, world, faults>>

(* The record is removed and the port released. *)
Unlink(r) ==
    /\ At(r, "unlink")
    /\ recorded' = recorded \ {r}
    /\ allocated' = allocated \ {port[r]}
    /\ Goto(r, "finishFleet")
    /\ UNCHANGED <<kind, probes, result, port, made, peers, logs, world, faults>>

(* The result goes to the endpoint's file only. *)
MutantFinishFleet(r) ==
    /\ At(r, "finishFleet")
    /\ Goto(r, "finishSlot")
    /\ UNCHANGED <<kind, probes, result, port, made, allocated, peers, recorded, logs, world, faults>>

FinishFleet(r) ==
    /\ At(r, "finishFleet")
    /\ fleetLog' = [fleetLog EXCEPT ![r] = Append(@, result[r])]
    /\ Goto(r, "finishSlot")
    /\ UNCHANGED <<kind, probes, result, port, made, allocated, peers, recorded, slotLog, world, faults>>

FinishSlot(r) ==
    /\ At(r, "finishSlot")
    /\ slotLog' = [slotLog EXCEPT ![r] = Append(@, result[r])]
    /\ Goto(r, "done")
    /\ UNCHANGED <<kind, probes, result, port, made, allocated, peers, recorded, fleetLog, world, faults>>

-----------------------------------------------------------------------------
(* A file of the run cannot be written.  Before the try block, and after    *)
(* it, the exception leaves run, and the port stays allocated if it was;   *)
(* inside, it makes the result an error; a peer that was started and not   *)
(* recorded is not the finally block's.                                    *)
FileFails(r) ==
    /\ Fault("file")
    /\ \/ /\ pc[r] \in {"startFleet", "startSlot", "unlink", "finishFleet", "finishSlot"}
          /\ Goto(r, "raised")
          /\ UNCHANGED result
       \/ pc[r] \in {"popen", "record"} /\ Becomes(r, "ERROR", "unlink")
       \/ pc[r] = "stop" /\ result[r] # "ERROR" /\ Becomes(r, "ERROR", "stop")
    /\ UNCHANGED <<kind, probes, port, made, allocated, peers, recorded, logs, world>>

(* The command is killed; its peers, in sessions of their own, are not.    *)
(* Runs that had not begun are the next command's, with an allocator of    *)
(* its own.                                                                *)
Kill ==
    /\ \E r \in Run : Active(r)
    /\ Fault(IF \E r \in Run : At(r, "record") THEN "killStart" ELSE "kill")
    /\ pc' = [r \in Run |-> IF Active(r) THEN "lost" ELSE pc[r]]
    /\ allocated' = {}
    /\ UNCHANGED <<kind, probes, result, port, made, peers, recorded, logs, world>>

-----------------------------------------------------------------------------
(* The peers, and other programs.                                          *)

Peer(r, state) ==
    /\ peer' = [peer EXCEPT ![r] = state]
    /\ UNCHANGED <<kind, thread, port, made, allocated, served, recorded, logs, world>>

(* A port that is taken makes the server exit. *)
PeerBinds(r) ==
    /\ peer[r] = "starting"
    /\ Peer(r, IF Answered(port[r]) THEN "exited" ELSE "listening")
    /\ UNCHANGED faults

(* A bounded peer that has served what it was told to ends; so it may when *)
(* the script of a killed command runs on.                                 *)
PeerCompletes(r) ==
    /\ peer[r] = "listening" /\ kind[r] # "beacon"
    /\ served[r] = Limit(kind[r]) \/ At(r, "lost")
    /\ Peer(r, "exited")
    /\ UNCHANGED faults

PeerGone(r) == peer[r] = "dying" /\ Peer(r, "exited") /\ UNCHANGED faults

PeerDies(r) ==
    /\ Fault("peer")
    /\ peer[r] \in {"starting", "listening"}
    /\ Peer(r, "exited")

ForeignListens ==
    /\ Fault("foreign")
    /\ \E p \in Port : ~ Answered(p) /\ foreign' = foreign \cup {p}
    /\ UNCHANGED <<kind, thread, port, made, allocated, peers, recorded, logs, down, orphans>>

-----------------------------------------------------------------------------
(* down: the recorded peers are terminated, then the endpoints' cgroups    *)
(* are killed and their namespaces deleted (FleetManager.down).  A record  *)
(* that appears while the others are visited is as one that appears later. *)
Down(next) ==
    /\ down' = next
    /\ UNCHANGED <<kind, thread, port, made, allocated, served, logs, foreign>>

(* The records are removed and the peers are not terminated. *)
MutantDownPeers ==
    /\ TakenDown
    /\ down = "none" /\ Down("peers")
    /\ recorded' = {}
    /\ orphans' = {r \in Run : At(r, "lost")}
    /\ UNCHANGED peer

DownPeers ==
    /\ TakenDown
    /\ down = "none" /\ Down("peers")
    /\ peer' = [r \in Run |-> IF r \in recorded THEN "exited" ELSE peer[r]]
    /\ recorded' = {}
    /\ orphans' = {r \in Run : At(r, "lost")}

DownScripts ==
    /\ down = "peers" /\ Down("over")
    /\ UNCHANGED <<peer, recorded, orphans, faults>>

-----------------------------------------------------------------------------
Step(r) ==
    \/ Acquire(r) \/ NoPort(r) \/ StartFleet(r) \/ StartSlot(r) \/ StartPeer(r)
    \/ RecordPeer(r) \/ Poll(r) \/ Connect(r) \/ Request(r) \/ ScriptEnds(r)
    \/ ScriptKilled(r) \/ StopPeer(r) \/ WaitPeer(r) \/ Unlink(r)
    \/ FinishFleet(r) \/ FinishSlot(r)

PeerStep(r) == PeerBinds(r) \/ PeerCompletes(r) \/ PeerGone(r)

Next ==
    \/ \E r \in Run : Step(r) \/ PeerStep(r) \/ ScriptFails(r) \/ FileFails(r)
                      \/ PeerDies(r)
    \/ Kill \/ ForeignListens \/ DownPeers \/ DownScripts

Spec == Init /\ [][Next]_vars

(* The script of a beacon waits for the answer of whoever has accepted its *)
(* connection.  curl has no time limit there, and launcher.run none for    *)
(* the script; only a down ends it.                                        *)
AwaitsAnswer(r) ==
    /\ At(r, "script") /\ kind[r] = "beacon"
    /\ made[r] < ScriptCount[kind[r]]
    /\ Answered(port[r])
    /\ down # "over"

(* A thread, or the script it has started, is scheduled.  Every other wait *)
(* has a limit: of attempts or seconds in the runner, and 30 seconds for   *)
(* each operation on a socket in the client of the others.  Nothing is     *)
(* assumed of peers and of other programs: they need never answer or end.  *)
FairSpec == Spec /\ \A r \in Run : WF_vars(~ AwaitsAnswer(r) /\ Step(r))

-----------------------------------------------------------------------------
(* Properties.                                                             *)

(* Most hold only as long as nothing worse than these kinds of faults      *)
(* happened; the others lose them.                                         *)
Only(kinds) == faults.kinds \subseteq kinds

Ended(r) == pc[r] \in {"done", "raised"}

(* A script talks to its own run's peer or to nobody, however the runs      *)
(* interleave and whichever peers are still dying: what the allocator, its *)
(* probe and the readiness test are for.                                   *)
OwnPeer ==
    Only({"peer", "script", "down"}) =>
        \A r \in Run : At(r, "script") =>
            port[r] \notin foreign /\ Listeners(port[r]) \subseteq {r}

(* A run that passed made its connections to its own peer, which accepted  *)
(* them: the client's exit status does not say so, the peer's limit, which *)
(* counts the readiness probe, has to allow it.  A dead peer is noticed by *)
(* the beacon only.                                                        *)
PassMeansServed ==
    \A r \in Run : result[r] = "PASS" =>
        /\ Only({"script"}) => served[r] > ScriptCount[kind[r]]
        /\ kind[r] = "beacon" /\ Only({"script", "peer", "down"}) => served[r] > 1

(* Once no run is active every port is the allocator's again, whatever     *)
(* peers and scripts did.                                                  *)
PortsReturned ==
    (\A r \in Run : ~ Active(r)) /\ Only(FaultKinds \ {"file"}) => allocated = {}

(* A run does not leave a peer behind, ready or not. *)
Alive(r) == peer[r] \in {"starting", "listening"}
PeersStopped ==
    Only(FaultKinds \ {"file"}) => \A r \in Run : Ended(r) => ~ Alive(r)

(* Nor does a down after a command that was killed, unless it was killed   *)
(* before it could record its peer.                                        *)
DownStopsPeers ==
    down = "over" /\ Only(FaultKinds \ {"file", "killStart"}) =>
        \A r \in orphans : ~ Alive(r)

(* The two ground truth files agree on every run that is over: both have   *)
(* its start and its one result, or, if it was cut short, the endpoint's   *)
(* file has nothing the fleet's has not.                                   *)
Begins(short, long) == \E n \in 0 .. Len(long) : short = SubSeq(long, 1, n)
GroundTruthAgrees ==
    \A r \in Run :
        /\ Begins(slotLog[r], fleetLog[r])
        /\ At(r, "done") => slotLog[r] = <<"started", result[r]>>

(* Every run of the plan ends, whatever its peer does and however the runs *)
(* interleave, but a beacon to which whoever listens on its port never     *)
(* answers, and the runs that wait for a worker when all of them are held  *)
(* by such beacons.                                                        *)
EveryRunEnds ==
    \A r \in Run :
        At(r, "submitted") ~>
            \/ pc[r] \in Ends
            \/ []AwaitsAnswer(r)
            \/ [](Cardinality({x \in Run : AwaitsAnswer(x)}) = MaxWorkers)

=============================================================================
