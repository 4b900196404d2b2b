------------------------ MODULE ScenarioRunnerProofs ------------------------
(* Theorems about ScenarioRunner, for every number of runs, ports and        *)
(* workers, every hash, every plan, and any number of faults.               *)
EXTENDS ScenarioRunner, SequenceTheorems, TLAPS

(* The connections of a scenario, as far as the proofs need them. *)
LEMMA Connections ==
    \A k \in ScenarioKinds : Limit(k) \in 1 .. 3 /\ ScriptCount[k] = 1
<1>1. Limit("beacon") = 1 /\ ScriptCount["beacon"] = 1
  BY DEF Limit, PeerCount, ScriptCount
<1>2. Limit("exact") = 2 /\ ScriptCount["exact"] = 1
  BY DEF Limit, PeerCount, ScriptCount
<1>3. Limit("default") = 3 /\ ScriptCount["default"] = 1
  BY DEF Limit, PeerCount, ScriptCount
<1>4. QED
  BY <1>1, <1>2, <1>3 DEF ScenarioKinds

-----------------------------------------------------------------------------
(* The type invariant, but for the ground truth files, whose contents depend *)
(* on how far their runs are.                                               *)
Types ==
    /\ kind \in [Run -> Kinds]
    /\ pc \in [Run -> Steps \cup Ends]
    /\ port \in [Run -> Port \cup {None}]
    /\ probes \in [Run -> 0 .. MaxProbes]
    /\ made \in [Run -> 0 .. 1]
    /\ result \in [Run -> Results]
    /\ allocated \subseteq Port
    /\ peer \in [Run -> {"none", "starting", "listening", "dying", "exited"}]
    /\ served \in [Run -> 0 .. 3]
    /\ recorded \subseteq Run
    /\ foreign \subseteq Port
    /\ down \in {"none", "peers", "over"}
    /\ orphans \subseteq Run
    /\ faults \in [count : 0 .. MaxFaults, kinds : SUBSET FaultKinds]

(* What the fleet's and the endpoint's file hold of a run at each of its      *)
(* steps, with the result it has computed.                                  *)
Logs == {<<>>, <<"started">>} \cup {<<"started", x>> : x \in Results}

Before == {"submitted", "startFleet"}
Between == {"popen", "record", "poll", "connect", "script", "stop", "wait",
            "unlink", "finishFleet"}
Cut == {"raised", "lost"}

Nothing(f) == f = <<>>
Started(f) == f = <<"started">>
Finished(f, res) == f = <<"started", res>>

Fits(step, res, f, s) ==
    /\ step \in Before => Nothing(f) /\ Nothing(s)
    /\ step = "startSlot" => Started(f) /\ Nothing(s)
    /\ step \in Between => Started(f) /\ Started(s)
    /\ step = "finishSlot" => Finished(f, res) /\ Started(s)
    /\ step = "done" => Finished(f, res) /\ Finished(s, res)
    /\ step \in Cut => \/ Nothing(f) /\ Nothing(s)
                       \/ Started(f) /\ (Nothing(s) \/ Started(s))
                       \/ Finished(f, res) /\ Started(s)

LogState ==
    /\ fleetLog \in [Run -> Logs]
    /\ slotLog \in [Run -> Logs]
    /\ \A r \in Run : Fits(pc[r], result[r], fleetLog[r], slotLog[r])

(* A port is allocated for a run that has yet to give it back. *)
Holding == {"startFleet", "startSlot", "popen", "record", "poll", "connect",
            "script", "stop", "wait", "unlink"}

PortsHeld ==
    Only(FaultKinds \ {"file"}) =>
        \A p \in allocated : \E r \in Run : pc[r] \in Holding /\ port[r] = p

(* A peer that listens, or may begin to, is one its run has yet to stop, or *)
(* one of a killed command.                                                 *)
Hosting == {"record", "poll", "connect", "script", "stop", "wait"}

PeersHosted ==
    Only(FaultKinds \ {"file"}) =>
        \A r \in Run : Alive(r) => pc[r] \in Hosting \cup {"lost"}

(* A run that holds a port has it allocated, and whichever run had it before *)
(* is past its release, with its peer gone: acquire probed the port.        *)
Owns(r) ==
    pc[r] \in Holding =>
        /\ port[r] \in allocated
        /\ \A x \in Run \ {r} : port[x] = port[r] =>
              pc[x] \notin Holding /\ peer[x] \in {"none", "exited"}

Benign == {"peer", "script", "down"}

Apart ==
    Only(Benign) =>
        /\ foreign = {}
        /\ \A r \in Run : pc[r] # "lost" /\ Owns(r)

(* A living peer of a killed command is recorded until a down comes, and     *)
(* that down leaves no such peer: its runs are over, and start none.        *)
Recording == FaultKinds \ {"file", "killStart"}

PeersRecorded ==
    Only(Recording) =>
        /\ down = "none" => \A r \in Run : Alive(r) => r \in recorded \/ pc[r] = "record"
        /\ \A r \in orphans : pc[r] = "lost" /\ ~ Alive(r)

(* The connections a peer has accepted: none before its run found it ready,  *)
(* the probe's then, and the script's.  One that is not a beacon's may miss  *)
(* a peer that died.                                                        *)
Arriving == {"submitted", "startFleet", "startSlot", "popen", "record", "poll", "connect"}
Heard(r) == kind[r] = "beacon" \/ Only({"script"})

Converses(r) ==
    /\ pc[r] \in Arriving \cup {"script"} => peer[r] # "dying" /\ result[r] # "PASS"
    /\ pc[r] \in Arriving => served[r] = 0 /\ made[r] = 0
    /\ At(r, "script") /\ made[r] = 0 =>
          served[r] = 1 /\ (Only({"script"}) => peer[r] = "listening")
    /\ At(r, "script") /\ made[r] = 1 /\ Heard(r) => served[r] > 1
    /\ result[r] = "PASS" /\ Heard(r) => served[r] > 1

Conversations == Only(Benign) => \A r \in Run : Converses(r)

IInv ==
    /\ Types /\ LogState /\ PortsHeld /\ PeersHosted /\ Apart
    /\ PeersRecorded /\ Conversations

-----------------------------------------------------------------------------
LEMMA InitInv == Init => IInv
<1> SUFFICES ASSUME Init PROVE IInv
  OBVIOUS
<1>1. Types
  BY KindsAssumption, BoundsAssumption
  DEF Init, Types, Steps, Results, None, FaultKinds
<1>2. LogState
  BY DEF Init, LogState, Logs, Fits, Nothing, Before, Between, Cut
<1>3. PortsHeld
  BY DEF Init, PortsHeld
<1>4. PeersHosted
  BY DEF Init, PeersHosted, Alive
<1>5. Apart
  BY DEF Init, Apart, Owns, Holding
<1>6. PeersRecorded
  BY DEF Init, PeersRecorded, Alive
<1>7. Conversations
  BY DEF Init, Conversations, Converses, Arriving, At
<1>8. QED
  BY <1>1, <1>2, <1>3, <1>4, <1>5, <1>6, <1>7 DEF IInv

(* What a fault leaves of the counter, and that a run once met it. *)
LEMMA FaultTypes ==
    ASSUME Types, NEW k, Fault(k) \/ TakenDown \/ UNCHANGED faults
    PROVE  /\ faults' \in [count : 0 .. MaxFaults, kinds : SUBSET FaultKinds]
           /\ faults.kinds \subseteq faults'.kinds
<1>1. ASSUME NEW j, Fault(j)
      PROVE  /\ faults' \in [count : 0 .. MaxFaults, kinds : SUBSET FaultKinds]
             /\ faults.kinds \subseteq faults'.kinds
  BY <1>1, FaultsAssumption, BoundsAssumption DEF Fault, Types
<1>2. ASSUME TakenDown, faults.kinds \cap {"kill", "killStart"} # {}
      PROVE  /\ faults' \in [count : 0 .. MaxFaults, kinds : SUBSET FaultKinds]
             /\ faults.kinds \subseteq faults'.kinds
  BY <1>2, FaultsAssumption DEF TakenDown, Types
<1>3. QED
  BY <1>1, <1>2 DEF TakenDown, Types

(* Accepting a connection keeps the count in its bound. *)
LEMMA ServedTypes ==
    ASSUME Types, NEW p
    PROVE  Served(p) \in [Run -> 0 .. 3]
<1>1. ASSUME NEW r \in Run, Accepts(r)
      PROVE  served[r] + 1 \in 0 .. 3
  <2>1. kind[r] \in ScenarioKinds
    BY KindsAssumption DEF Types
  <2>2. Bound(r) \in 0 .. 3
    BY <2>1, Connections DEF Bound
  <2>3. QED
    BY <1>1, <2>2 DEF Accepts, Types
<1>2. QED
  BY <1>1 DEF Served, Types

(* So does a signal the state of a peer. *)
LEMMA SignalledTypes ==
    ASSUME NEW state \in {"none", "starting", "listening", "dying", "exited"}
    PROVE  Signalled(state) \in {"none", "starting", "listening", "dying", "exited"}
BY DEF Signalled

(* A second record after the first. *)
LEMMA AppendSecond ==
    ASSUME NEW a, NEW b
    PROVE  Append(<<a>>, b) = <<a, b>>
<1> DEFINE s == Append(<<a>>, b)
           t == <<a, b>>
<1>1. s \in Seq({a, b}) /\ t \in Seq({a, b})
  OBVIOUS
<1>2. Len(s) = 2 /\ s[1] = a /\ s[2] = b
  OBVIOUS
<1>3. Len(t) = 2 /\ t[1] = a /\ t[2] = b
  OBVIOUS
<1> HIDE DEF s, t
<1>4. Len(s) = Len(t) /\ \A i \in 1 .. Len(s) : s[i] = t[i]
  <2>1. \A i \in 1 .. 2 : i = 1 \/ i = 2
    OBVIOUS
  <2>2. QED
    BY <1>2, <1>3, <2>1
<1>5. s = t
  BY <1>1, <1>4, SeqEqual
<1>6. QED
  BY <1>5 DEF s, t

(* What appending makes of them. *)
LEMMA Records ==
    ASSUME NEW f \in Logs, NEW res \in Results
    PROVE  /\ Nothing(f) => Append(f, "started") \in Logs /\ Started(Append(f, "started"))
           /\ Started(f) => Append(f, res) \in Logs /\ Finished(Append(f, res), res)
<1>1. Nothing(f) => Append(f, "started") = <<"started">>
  BY DEF Nothing
<1>2. Started(f) => Append(f, res) = <<"started", res>>
  BY AppendSecond DEF Started
<1>3. QED
  BY <1>1, <1>2 DEF Logs, Started, Finished

-----------------------------------------------------------------------------
(* Every step keeps the types. *)
LEMMA TypesStep ==
    ASSUME Types, [Next]_vars
    PROVE  Types'
<1> USE DEF Types, Steps, Ends, Results, vars, thread, peers, logs, world
<1>1. ASSUME NEW r \in Run, Step(r) PROVE Types'
  <2>1. CASE Acquire(r)
    BY <2>1 DEF Acquire, FreePorts, Goto
  <2>2. CASE NoPort(r) \/ StartFleet(r) \/ StartSlot(r) \/ StartPeer(r) \/ RecordPeer(r)
    BY <2>2 DEF NoPort, StartFleet, StartSlot, StartPeer, RecordPeer, Goto
  <2>3. CASE Poll(r)
    <3>1. probes[r] < MaxProbes => probes[r] + 1 \in 0 .. MaxProbes
      BY BoundsAssumption
    <3>2. Signalled(peer[r]) \in {"none", "starting", "listening", "dying", "exited"}
      BY SignalledTypes
    <3>3. pc' \in [Run -> Steps \cup Ends] /\ result' \in [Run -> Results]
      BY <2>3 DEF Poll, Goto, Becomes
    <3>4. probes' \in [Run -> 0 .. MaxProbes]
      BY <2>3, <3>1 DEF Poll
    <3>5. peer' \in [Run -> {"none", "starting", "listening", "dying", "exited"}]
      BY <2>3, <3>2 DEF Poll
    <3>6. QED
      BY <2>3, <3>3, <3>4, <3>5 DEF Poll
  <2>4. CASE Connect(r)
    BY <2>4, ServedTypes DEF Connect, Goto
  <2>5. CASE Request(r)
    <3>1. ScriptCount[kind[r]] = 1
      BY Connections, KindsAssumption
    <3>2. made' \in [Run -> 0 .. 1]
      BY <2>5, <3>1 DEF Request
    <3>3. served' \in [Run -> 0 .. 3]
      BY <2>5, ServedTypes DEF Request
    <3>4. pc' \in [Run -> Steps \cup Ends] /\ result' \in [Run -> Results]
      BY <2>5 DEF Request, Becomes, Goto
    <3>5. QED
      BY <2>5, <3>2, <3>3, <3>4 DEF Request
  <2>6. CASE ScriptEnds(r) \/ ScriptKilled(r)
    BY <2>6 DEF ScriptEnds, ScriptKilled, Becomes, Goto
  <2>7. CASE StopPeer(r) \/ WaitPeer(r)
    BY <2>7, SignalledTypes DEF StopPeer, WaitPeer, Goto
  <2>8. CASE Unlink(r) \/ FinishFleet(r) \/ FinishSlot(r)
    BY <2>8 DEF Unlink, FinishFleet, FinishSlot, Goto
  <2>9. QED
    BY <1>1, <2>1, <2>2, <2>3, <2>4, <2>5, <2>6, <2>7, <2>8 DEF Step
<1>2. ASSUME NEW r \in Run, PeerStep(r) \/ PeerDies(r) PROVE Types'
  <2>1. faults' \in [count : 0 .. MaxFaults, kinds : SUBSET FaultKinds]
    BY <1>2, FaultTypes DEF PeerStep, PeerBinds, PeerCompletes, PeerGone, PeerDies
  <2>2. QED
    BY <1>2, <2>1 DEF PeerStep, PeerBinds, PeerCompletes, PeerGone, PeerDies, Peer
<1>3. ASSUME NEW r \in Run, ScriptFails(r) \/ FileFails(r) PROVE Types'
  <2>1. faults' \in [count : 0 .. MaxFaults, kinds : SUBSET FaultKinds]
    BY <1>3, FaultTypes DEF ScriptFails, FileFails
  <2>2. QED
    BY <1>3, <2>1 DEF ScriptFails, FileFails, Becomes, Goto
<1>4. CASE Kill
  <2>1. faults' \in [count : 0 .. MaxFaults, kinds : SUBSET FaultKinds]
    BY <1>4, FaultTypes DEF Kill
  <2>2. QED
    BY <1>4, <2>1 DEF Kill
<1>5. CASE ForeignListens
  <2>1. faults' \in [count : 0 .. MaxFaults, kinds : SUBSET FaultKinds]
    BY <1>5, FaultTypes DEF ForeignListens
  <2>2. QED
    BY <1>5, <2>1 DEF ForeignListens
<1>6. CASE DownPeers
  <2>1. faults' \in [count : 0 .. MaxFaults, kinds : SUBSET FaultKinds]
    BY <1>6, FaultTypes DEF DownPeers
  <2>2. QED
    BY <1>6, <2>1 DEF DownPeers, Down
<1>7. CASE DownScripts
  BY <1>7 DEF DownScripts, Down
<1>8. CASE UNCHANGED vars
  BY <1>8
<1>9. QED
  BY <1>1, <1>2, <1>3, <1>4, <1>5, <1>6, <1>7, <1>8 DEF Next

-----------------------------------------------------------------------------
(* Steps that write neither file, leave the result of a run that is past its *)
(* script alone, and take a run from one step with both starts written to   *)
(* another, or cut it short.                                                *)
Moves(step, res, next, new) ==
    \/ step \in Between /\ next \in Between \cup Cut
    \/ step # "done" /\ next \in Cut /\ new = res
    \/ step = "submitted" /\ next = "startFleet"
    \/ next = step /\ new = res

Quiet(r) ==
    /\ UNCHANGED logs
    /\ \A x \in Run \ {r} : pc'[x] = pc[x] /\ result'[x] = result[x]
    /\ Moves(pc[r], result[r], pc'[r], result'[r])

LEMMA FitsMoves ==
    ASSUME NEW step \in Steps \cup Ends, NEW next, NEW res, NEW new, NEW f, NEW s,
           Fits(step, res, f, s), Moves(step, res, next, new)
    PROVE  Fits(next, new, f, s)
<1>1. CASE step \in Between /\ next \in Between \cup Cut
  BY <1>1 DEF Fits, Before, Between, Cut
<1>2. CASE step # "done" /\ next \in Cut /\ new = res
  BY <1>2 DEF Fits, Before, Between, Cut, Steps, Ends
<1>3. CASE step = "submitted" /\ next = "startFleet"
  BY <1>3 DEF Fits, Before, Between, Cut
<1>4. CASE next = step /\ new = res
  BY <1>4
<1>5. QED
  BY <1>1, <1>2, <1>3, <1>4 DEF Moves

LEMMA QuietStep ==
    ASSUME Types, LogState, NEW r \in Run, Quiet(r)
    PROVE  LogState'
<1>1. fleetLog' = fleetLog /\ slotLog' = slotLog
  BY DEF Quiet, logs
<1>2. ASSUME NEW x \in Run
      PROVE  Fits(pc'[x], result'[x], fleetLog[x], slotLog[x])
  <2>1. pc[x] \in Steps \cup Ends /\ Fits(pc[x], result[x], fleetLog[x], slotLog[x])
    BY DEF Types, LogState
  <2>2. Moves(pc[x], result[x], pc'[x], result'[x])
    BY DEF Quiet, Moves
  <2>3. QED
    BY <2>1, <2>2, FitsMoves
<1>3. QED
  BY <1>1, <1>2 DEF LogState

(* A step of one run that may write both files. *)
LEMMA WritingStep ==
    ASSUME LogState, NEW r \in Run, NEW f \in Logs, NEW s \in Logs, NEW next,
           Types, Goto(r, next), UNCHANGED result,
           fleetLog' = [fleetLog EXCEPT ![r] = f],
           slotLog' = [slotLog EXCEPT ![r] = s],
           Fits(next, result[r], f, s)
    PROVE  LogState'
<1>1. ASSUME NEW x \in Run
      PROVE  Fits(pc'[x], result'[x], fleetLog'[x], slotLog'[x])
  BY DEF LogState, Types, Goto
<1>2. QED
  BY <1>1 DEF LogState

(* Every step keeps the files as the runs' positions say. *)
LEMMA LogStep ==
    ASSUME Types, LogState, [Next]_vars
    PROVE  LogState'
<1> USE DEF thread, peers, logs, world
<1>1. ASSUME NEW r \in Run, Step(r) PROVE LogState'
  <2>1. CASE StartFleet(r)
    <3>1. Nothing(fleetLog[r]) /\ Nothing(slotLog[r])
      BY <2>1 DEF StartFleet, At, LogState, Fits, Before, Between
    <3>2. Append(fleetLog[r], "started") \in Logs /\ Started(Append(fleetLog[r], "started"))
      BY <3>1, Records DEF LogState, Types
    <3>3. Fits("startSlot", result[r], Append(fleetLog[r], "started"), slotLog[r])
      BY <3>1, <3>2 DEF Fits, Before, Between, Cut
    <3>4. slotLog' = [slotLog EXCEPT ![r] = slotLog[r]]
      BY <2>1 DEF StartFleet, LogState
    <3>5. QED
      BY <2>1, <3>2, <3>3, <3>4, WritingStep DEF StartFleet, LogState
  <2>2. CASE StartSlot(r)
    <3>1. Started(fleetLog[r]) /\ Nothing(slotLog[r])
      BY <2>2 DEF StartSlot, At, LogState, Fits, Before, Between
    <3>2. Append(slotLog[r], "started") \in Logs /\ Started(Append(slotLog[r], "started"))
      BY <3>1, Records DEF LogState, Types
    <3>3. Fits("popen", result[r], fleetLog[r], Append(slotLog[r], "started"))
      BY <3>1, <3>2 DEF Fits, Before, Between, Cut
    <3>4. fleetLog' = [fleetLog EXCEPT ![r] = fleetLog[r]]
      BY <2>2 DEF StartSlot, LogState
    <3>5. QED
      BY <2>2, <3>2, <3>3, <3>4, WritingStep DEF StartSlot, LogState
  <2>3. CASE FinishFleet(r)
    <3>1. Started(fleetLog[r]) /\ Started(slotLog[r])
      BY <2>3 DEF FinishFleet, At, LogState, Fits, Before, Between
    <3>2. Append(fleetLog[r], result[r]) \in Logs /\ Finished(Append(fleetLog[r], result[r]), result[r])
      BY <3>1, Records DEF LogState, Types
    <3>3. Fits("finishSlot", result[r], Append(fleetLog[r], result[r]), slotLog[r])
      BY <3>1, <3>2 DEF Fits, Before, Between, Cut
    <3>4. slotLog' = [slotLog EXCEPT ![r] = slotLog[r]]
      BY <2>3 DEF FinishFleet, LogState
    <3>5. QED
      BY <2>3, <3>2, <3>3, <3>4, WritingStep DEF FinishFleet, LogState
  <2>4. CASE FinishSlot(r)
    <3>1. Finished(fleetLog[r], result[r]) /\ Started(slotLog[r])
      BY <2>4 DEF FinishSlot, At, LogState, Fits, Before, Between
    <3>2. Append(slotLog[r], result[r]) \in Logs /\ Finished(Append(slotLog[r], result[r]), result[r])
      BY <3>1, Records DEF LogState, Types
    <3>3. Fits("done", result[r], fleetLog[r], Append(slotLog[r], result[r]))
      BY <3>1, <3>2 DEF Fits, Before, Between, Cut
    <3>4. fleetLog' = [fleetLog EXCEPT ![r] = fleetLog[r]]
      BY <2>4 DEF FinishSlot, LogState
    <3>5. QED
      BY <2>4, <3>2, <3>3, <3>4, WritingStep DEF FinishSlot, LogState
  <2>5. CASE Acquire(r) \/ NoPort(r)
    <3>1. Quiet(r)
      BY <2>5 DEF Acquire, NoPort, Turn, At, Goto, Quiet, Moves, Cut, Types
    <3>2. QED
      BY <3>1, QuietStep
  <2>6. CASE StartPeer(r) \/ RecordPeer(r) \/ Connect(r) \/ StopPeer(r) \/ WaitPeer(r) \/ Unlink(r)
    <3>1. Quiet(r)
      BY <2>6 DEF StartPeer, RecordPeer, Connect, StopPeer, WaitPeer, Unlink, At, Goto,
                  Quiet, Moves, Between, Types
    <3>2. QED
      BY <3>1, QuietStep
  <2>7. CASE Poll(r) \/ Request(r) \/ ScriptEnds(r) \/ ScriptKilled(r)
    <3>1. Quiet(r)
      BY <2>7 DEF Poll, Request, ScriptEnds, ScriptKilled, At, Goto, Becomes,
                  Quiet, Moves, Between, Types
    <3>2. QED
      BY <3>1, QuietStep
  <2>8. QED
    BY <1>1, <2>1, <2>2, <2>3, <2>4, <2>5, <2>6, <2>7 DEF Step
<1>2. ASSUME NEW r \in Run, ScriptFails(r) \/ FileFails(r) PROVE LogState'
  <2>1. Quiet(r)
    BY <1>2 DEF ScriptFails, FileFails, At, Goto, Becomes, Quiet, Moves, Between, Cut, Types
  <2>2. QED
    BY <2>1, QuietStep
<1>3. CASE Kill
  <2>1. UNCHANGED <<logs, result>>
    BY <1>3 DEF Kill
  <2>2. \A r \in Run : pc'[r] = IF Active(r) THEN "lost" ELSE pc[r]
    BY <1>3 DEF Kill
  <2>3. \A r \in Run : Active(r) <=> pc[r] \notin {"submitted", "done", "raised", "lost"}
    BY DEF Active, Ends
  <2>4. ASSUME NEW r \in Run
        PROVE  Fits(pc'[r], result[r], fleetLog[r], slotLog[r])
    <3>1. pc[r] \in Steps \cup Ends /\ Fits(pc[r], result[r], fleetLog[r], slotLog[r])
      BY DEF Types, LogState
    <3>2. Moves(pc[r], result[r], pc'[r], result[r])
      BY <2>2, <2>3, <3>1 DEF Moves, Cut
    <3>3. QED
      BY <3>1, <3>2, FitsMoves
  <2>5. QED
    BY <2>1, <2>4 DEF LogState
<1>4. ASSUME UNCHANGED <<logs, pc, result>> PROVE LogState'
  BY <1>4 DEF LogState
<1>5. QED
  <2>1. ASSUME NEW r \in Run, PeerStep(r) \/ PeerDies(r) PROVE LogState'
    BY <2>1, <1>4 DEF PeerStep, PeerBinds, PeerCompletes, PeerGone, PeerDies, Peer
  <2>2. CASE ForeignListens \/ DownPeers \/ DownScripts
    BY <2>2, <1>4 DEF ForeignListens, DownPeers, DownScripts, Down
  <2>3. CASE UNCHANGED vars
    BY <2>3, <1>4 DEF vars
  <2>4. QED
    BY <1>1, <1>2, <1>3, <2>1, <2>2, <2>3 DEF Next

-----------------------------------------------------------------------------
(* A kind of fault that has happened stays among those that have. *)
LEMMA FaultsGrow ==
    ASSUME Types, [Next]_vars
    PROVE  faults.kinds \subseteq faults'.kinds
<1> USE DEF thread, peers, logs, world
<1>1. (\E k : Fault(k)) \/ TakenDown \/ UNCHANGED faults
  <2>1. ASSUME NEW r \in Run, Step(r) PROVE UNCHANGED faults
    BY <2>1 DEF Step, Acquire, NoPort, StartFleet, StartSlot, StartPeer, RecordPeer, Poll,
         Connect, Request, ScriptEnds, ScriptKilled, StopPeer, WaitPeer, Unlink,
         FinishFleet, FinishSlot
  <2>2. ASSUME NEW r \in Run, PeerStep(r) PROVE UNCHANGED faults
    BY <2>2 DEF PeerStep, PeerBinds, PeerCompletes, PeerGone
  <2>3. ASSUME NEW r \in Run, ScriptFails(r) \/ FileFails(r) \/ PeerDies(r)
        PROVE  \E k : Fault(k)
    BY <2>3 DEF ScriptFails, FileFails, PeerDies
  <2>4. QED
    BY <2>1, <2>2, <2>3 DEF Next, Kill, ForeignListens, DownPeers, DownScripts, vars
<1>2. QED
  BY <1>1, FaultTypes

(* Every step but a failure to write keeps a run for each allocated port. *)
LEMMA PortStep ==
    ASSUME Types, PortsHeld, [Next]_vars
    PROVE  PortsHeld'
<1> USE DEF thread, peers, logs, world
<1> SUFFICES ASSUME Only(FaultKinds \ {"file"})',
                    NEW p \in allocated'
             PROVE  \E r \in Run : pc'[r] \in Holding /\ port'[r] = p
  BY DEF PortsHeld
<1>1. ASSUME p \in allocated
      PROVE  \E r \in Run : pc[r] \in Holding /\ port[r] = p
  BY <1>1, FaultsGrow DEF PortsHeld, Only
<1>2. ASSUME NEW r \in Run, Step(r)
      PROVE  \E x \in Run : pc'[x] \in Holding /\ port'[x] = p
  <2>1. CASE Acquire(r)
    <3>1. CASE p \in allocated
      <4>1. PICK x \in Run : pc[x] \in Holding /\ port[x] = p
        BY <1>1, <3>1
      <4>2. x # r
        BY <2>1, <4>1 DEF Acquire, Turn, At, Holding
      <4>3. QED
        BY <2>1, <4>1, <4>2 DEF Acquire, Goto, Types
    <3>2. CASE p \notin allocated
      BY <2>1, <3>2 DEF Acquire, Goto, Types, Holding
    <3>3. QED
      BY <3>1, <3>2
  <2>2. CASE Unlink(r)
    <3>1. p \in allocated /\ p # port[r]
      BY <2>2 DEF Unlink
    <3>2. PICK x \in Run : pc[x] \in Holding /\ port[x] = p
      BY <1>1, <3>1
    <3>3. QED
      BY <2>2, <3>1, <3>2 DEF Unlink, Goto, Types
  <2>3. CASE ~ Acquire(r) /\ ~ Unlink(r)
    <3>1. /\ UNCHANGED <<port, allocated>>
          /\ \A x \in Run \ {r} : pc'[x] = pc[x]
          /\ pc[r] \in Holding => pc'[r] \in Holding
      BY <1>2, <2>3
      DEF Step, NoPort, StartFleet, StartSlot, StartPeer, RecordPeer, Poll, Connect, Request,
          ScriptEnds, ScriptKilled, StopPeer, WaitPeer, FinishFleet, FinishSlot,
          Turn, At, Goto, Becomes, Holding, Types
    <3>2. QED
      BY <1>1, <3>1
  <2>4. QED
    BY <2>1, <2>2, <2>3
<1>3. ASSUME NEW r \in Run, ScriptFails(r)
      PROVE  \E x \in Run : pc'[x] \in Holding /\ port'[x] = p
  BY <1>1, <1>3 DEF ScriptFails, At, Becomes, Goto, Holding, Types
<1>4. ASSUME NEW r \in Run, FileFails(r) PROVE FALSE
  <2>1. "file" \in faults'.kinds
    BY <1>4 DEF FileFails, Fault
  <2>2. QED
    BY <2>1 DEF Only
<1>5. ASSUME Kill PROVE FALSE
  BY <1>5 DEF Kill
<1>6. ASSUME UNCHANGED <<pc, port, allocated>>
      PROVE  \E r \in Run : pc'[r] \in Holding /\ port'[r] = p
  BY <1>1, <1>6
<1>7. QED
  <2>1. ASSUME NEW r \in Run, PeerStep(r) \/ PeerDies(r)
        PROVE  UNCHANGED <<pc, port, allocated>>
    BY <2>1 DEF PeerStep, PeerBinds, PeerCompletes, PeerGone, PeerDies, Peer
  <2>2. ASSUME ForeignListens \/ DownPeers \/ DownScripts
        PROVE  UNCHANGED <<pc, port, allocated>>
    BY <2>2 DEF ForeignListens, DownPeers, DownScripts, Down
  <2>3. ASSUME UNCHANGED vars PROVE UNCHANGED <<pc, port, allocated>>
    BY <2>3 DEF vars
  <2>4. QED
    BY <1>2, <1>3, <1>4, <1>5, <1>6, <2>1, <2>2, <2>3 DEF Next

-----------------------------------------------------------------------------
(* Every step but a failure to write keeps living peers hosted. *)
LEMMA AliveStep ==
    ASSUME Types, PeersHosted, [Next]_vars
    PROVE  PeersHosted'
<1> USE DEF thread, peers, logs, world
<1> SUFFICES ASSUME Only(FaultKinds \ {"file"})', NEW x \in Run, Alive(x)'
             PROVE  pc'[x] \in Hosting \cup {"lost"}
  BY DEF PeersHosted
<1>1. Alive(x) => pc[x] \in Hosting \cup {"lost"}
  BY FaultsGrow DEF PeersHosted, Only
<1>2. ASSUME NEW r \in Run, Step(r)
      PROVE  pc'[x] \in Hosting \cup {"lost"}
  <2>1. CASE StartPeer(r)
    BY <1>1, <2>1 DEF StartPeer, Goto, Alive, Hosting, Types
  <2>2. CASE Poll(r) \/ StopPeer(r) \/ WaitPeer(r)
    BY <1>1, <2>2 DEF Poll, StopPeer, WaitPeer, Signalled, At, Goto, Becomes, Alive, Hosting, Types
  <2>3. CASE Acquire(r) \/ NoPort(r) \/ StartFleet(r) \/ StartSlot(r) \/ Unlink(r)
             \/ FinishFleet(r) \/ FinishSlot(r)
    <3>1. UNCHANGED peer /\ pc[r] \notin Hosting \cup {"lost"}
      BY <2>3 DEF Acquire, NoPort, StartFleet, StartSlot, Unlink, FinishFleet, FinishSlot,
                  Turn, At, Hosting
    <3>2. \A y \in Run \ {r} : pc'[y] = pc[y]
      BY <2>3 DEF Acquire, NoPort, StartFleet, StartSlot, Unlink, FinishFleet, FinishSlot,
                  Goto, Types
    <3>3. QED
      BY <1>1, <3>1, <3>2 DEF Alive
  <2>4. CASE RecordPeer(r) \/ Connect(r) \/ Request(r) \/ ScriptEnds(r) \/ ScriptKilled(r)
    BY <1>1, <2>4 DEF RecordPeer, Connect, Request, ScriptEnds, ScriptKilled, At, Goto,
                      Becomes, Alive, Hosting, Types
  <2>5. QED
    BY <1>2, <2>1, <2>2, <2>3, <2>4 DEF Step
<1>3. ASSUME NEW r \in Run, PeerStep(r) \/ PeerDies(r)
      PROVE  pc'[x] \in Hosting \cup {"lost"}
  BY <1>1, <1>3 DEF PeerStep, PeerBinds, PeerCompletes, PeerGone, PeerDies, Peer, Alive, Types
<1>4. ASSUME NEW r \in Run, ScriptFails(r)
      PROVE  pc'[x] \in Hosting \cup {"lost"}
  BY <1>1, <1>4 DEF ScriptFails, At, Becomes, Goto, Alive, Hosting, Types
<1>5. ASSUME NEW r \in Run, FileFails(r) PROVE FALSE
  <2>1. "file" \in faults'.kinds
    BY <1>5 DEF FileFails, Fault
  <2>2. QED
    BY <2>1 DEF Only
<1>6. ASSUME Kill PROVE pc'[x] \in Hosting \cup {"lost"}
  BY <1>1, <1>6 DEF Kill, Alive, Active, Ends, Hosting
<1>7. ASSUME DownPeers PROVE pc'[x] \in Hosting \cup {"lost"}
  BY <1>1, <1>7 DEF DownPeers, Down, Alive
<1>8. ASSUME UNCHANGED <<pc, peer>> PROVE pc'[x] \in Hosting \cup {"lost"}
  BY <1>1, <1>8 DEF Alive
<1>9. QED
  BY <1>2, <1>3, <1>4, <1>5, <1>6, <1>7, <1>8 DEF Next, ForeignListens, DownScripts, Down, vars

-----------------------------------------------------------------------------
(* With benign faults only, every step keeps ports apart.                    *)
LEMMA ApartStep ==
    ASSUME Types, PeersHosted, Apart, [Next]_vars
    PROVE  Apart'
<1> USE DEF thread, peers, logs, world
<1> SUFFICES ASSUME Only(Benign)'
             PROVE  /\ foreign' = {}
                    /\ \A r \in Run : pc'[r] # "lost" /\ Owns(r)'
  BY DEF Apart
<1>1. Only(Benign) /\ Only(FaultKinds \ {"file"})
  BY FaultsGrow DEF Only, Benign, FaultKinds
<1>2. foreign = {} /\ \A r \in Run : pc[r] # "lost" /\ Owns(r)
  BY <1>1 DEF Apart
<1>3. \A r \in Run : Alive(r) => pc[r] \in Hosting
  BY <1>1, <1>2 DEF PeersHosted
<1>4. ASSUME NEW r \in Run, Acquire(r)
      PROVE  /\ foreign' = {}
             /\ \A x \in Run : pc'[x] # "lost" /\ Owns(x)'
  <2>1. PICK p \in FreePorts : port' = [port EXCEPT ![r] = p] /\ allocated' = allocated \cup {p}
    BY <1>4 DEF Acquire
  <2>2. p \in Port /\ p \notin allocated /\ ~ Answered(p)
    BY DEF FreePorts
  <2>3. pc' = [pc EXCEPT ![r] = "startFleet"] /\ UNCHANGED <<peer, foreign>>
    BY <1>4 DEF Acquire, Goto
  <2>4. ASSUME NEW x \in Run, port[x] = p
        PROVE  pc[x] \notin Holding /\ peer[x] \in {"none", "exited"}
    <3>1. pc[x] \notin Holding
      BY <1>2, <2>2, <2>4 DEF Owns
    <3>2. ~ Alive(x)
      BY <1>3, <3>1 DEF Hosting, Holding
    <3>3. peer[x] \notin {"listening", "dying"}
      BY <2>2, <2>4 DEF Answered, Listeners
    <3>4. QED
      BY <3>1, <3>2, <3>3 DEF Alive, Types
  <2>5. ASSUME NEW x \in Run, pc'[x] \in Holding
        PROVE  /\ port'[x] \in allocated'
               /\ \A y \in Run \ {x} : port'[y] = port'[x] =>
                     pc'[y] \notin Holding /\ peer'[y] \in {"none", "exited"}
    <3>1. CASE x = r
      BY <2>1, <2>3, <2>4, <3>1 DEF Types
    <3>2. CASE x # r
      <4>1. pc[x] \in Holding /\ port'[x] = port[x] /\ port[x] # p
        BY <2>1, <2>3, <2>4, <2>5, <3>2 DEF Types
      <4>2. QED
        BY <1>2, <2>1, <2>3, <4>1 DEF Owns, Types
    <3>3. QED
      BY <3>1, <3>2
  <2>6. QED
    BY <1>2, <2>3, <2>5 DEF Owns, Types
<1>5. ASSUME NEW r \in Run, Unlink(r)
      PROVE  /\ foreign' = {}
             /\ \A x \in Run : pc'[x] # "lost" /\ Owns(x)'
  <2>1. /\ pc' = [pc EXCEPT ![r] = "finishFleet"] /\ pc[r] \in Holding
        /\ UNCHANGED <<peer, port, foreign>> /\ allocated' = allocated \ {port[r]}
    BY <1>5 DEF Unlink, Goto, At, Holding
  <2>2. ASSUME NEW x \in Run, pc'[x] \in Holding
        PROVE  x # r /\ pc[x] \in Holding /\ port[x] # port[r]
    BY <1>2, <2>1, <2>2 DEF Owns, Holding, Types
  <2>3. QED
    BY <1>2, <2>1, <2>2 DEF Owns, Holding, Types
<1>6. ASSUME UNCHANGED <<port, allocated, foreign>>,
             \A r \in Run : /\ pc'[r] # "lost"
                            /\ pc'[r] \in Holding => pc[r] \in Holding
                            /\ peer'[r] = peer[r] \/ pc[r] \in Holding \/ peer'[r] = "exited"
      PROVE  /\ foreign' = {}
             /\ \A r \in Run : pc'[r] # "lost" /\ Owns(r)'
  BY <1>2, <1>6 DEF Owns
<1>7. ASSUME NEW r \in Run, Step(r), ~ Acquire(r), ~ Unlink(r)
      PROVE  /\ UNCHANGED <<port, allocated, foreign>>
             /\ \A x \in Run : /\ pc'[x] # "lost"
                               /\ pc'[x] \in Holding => pc[x] \in Holding
                               /\ peer'[x] = peer[x] \/ pc[x] \in Holding
  BY <1>2, <1>7
  DEF Step, NoPort, StartFleet, StartSlot, StartPeer, RecordPeer, Poll, Connect, Request,
      ScriptEnds, ScriptKilled, StopPeer, WaitPeer, FinishFleet, FinishSlot,
      Turn, At, Goto, Becomes, Holding, Types
<1>8. ASSUME NEW r \in Run, PeerStep(r) \/ PeerDies(r)
      PROVE  /\ UNCHANGED <<pc, port, allocated, foreign>>
             /\ \A x \in Run : peer'[x] = peer[x] \/ pc[x] \in Holding \/ peer'[x] = "exited"
  <2>1. peer[r] = "starting" => pc[r] \in Holding
    BY <1>3 DEF Alive, Hosting, Holding
  <2>2. QED
    BY <1>8, <2>1 DEF PeerStep, PeerBinds, PeerCompletes, PeerGone, PeerDies, Peer, Types
<1>9. ASSUME NEW r \in Run, ScriptFails(r)
      PROVE  /\ UNCHANGED <<port, allocated, foreign, peer>>
             /\ \A x \in Run : pc'[x] # "lost" /\ (pc'[x] \in Holding => pc[x] \in Holding)
  BY <1>2, <1>9 DEF ScriptFails, At, Becomes, Goto, Holding, Types
<1>10. ASSUME (\E r \in Run : FileFails(r)) \/ Kill \/ ForeignListens PROVE FALSE
  <2>1. \E k \in FaultKinds \ Benign : Fault(k)
    BY <1>10 DEF FileFails, Kill, ForeignListens, Benign, FaultKinds
  <2>2. QED
    BY <2>1 DEF Fault, Only
<1>11. ASSUME DownPeers \/ DownScripts \/ UNCHANGED vars
       PROVE  /\ UNCHANGED <<pc, port, allocated, foreign>>
              /\ \A x \in Run : peer'[x] = peer[x] \/ peer'[x] = "exited"
  BY <1>11 DEF DownPeers, DownScripts, Down, vars, Types
<1>12. QED
  BY <1>2, <1>4, <1>5, <1>6, <1>7, <1>8, <1>9, <1>10, <1>11 DEF Next

-----------------------------------------------------------------------------
(* Unless a file fails or a command is killed while it starts a peer, every  *)
(* step keeps the living peers recorded until a down.                       *)
LEMMA RecordedStep ==
    ASSUME Types, PeersHosted, PeersRecorded, [Next]_vars
    PROVE  PeersRecorded'
<1> USE DEF thread, peers, logs, world
<1> SUFFICES ASSUME Only(Recording)'
             PROVE  /\ down' = "none" => \A x \in Run : Alive(x)' => x \in recorded' \/ pc'[x] = "record"
                    /\ \A x \in orphans' : pc'[x] = "lost" /\ ~ Alive(x)'
  BY DEF PeersRecorded
<1>1. Only(Recording) /\ Only(FaultKinds \ {"file"})
  BY FaultsGrow DEF Only, Recording
<1>2. /\ down = "none" => \A x \in Run : Alive(x) => x \in recorded \/ pc[x] = "record"
      /\ \A x \in orphans : x \in Run /\ pc[x] = "lost" /\ ~ Alive(x)
  BY <1>1 DEF PeersRecorded, Types
<1>3. \A x \in Run : Alive(x) => pc[x] \in Hosting \cup {"lost"}
  BY <1>1 DEF PeersHosted
<1>4. ASSUME UNCHANGED <<down, orphans>>,
             \A x \in Run : /\ pc[x] = "lost" => pc'[x] = "lost" /\ (Alive(x)' => Alive(x))
                            /\ Alive(x)' => Alive(x) \/ pc'[x] = "record"
                            /\ Alive(x)' /\ x \in recorded => x \in recorded'
                            /\ Alive(x)' /\ pc[x] = "record" => x \in recorded' \/ pc'[x] = "record"
      PROVE  /\ down' = "none" => \A x \in Run : Alive(x)' => x \in recorded' \/ pc'[x] = "record"
             /\ \A x \in orphans' : pc'[x] = "lost" /\ ~ Alive(x)'
  BY <1>2, <1>4
<1>5. ASSUME NEW r \in Run, Step(r)
      PROVE  /\ UNCHANGED <<down, orphans>>
             /\ \A x \in Run : /\ pc[x] = "lost" => pc'[x] = "lost" /\ (Alive(x)' => Alive(x))
                               /\ Alive(x)' => Alive(x) \/ pc'[x] = "record"
                               /\ Alive(x)' /\ x \in recorded => x \in recorded'
                               /\ Alive(x)' /\ pc[x] = "record" => x \in recorded' \/ pc'[x] = "record"
  <2>1. CASE StartPeer(r)
    BY <2>1 DEF StartPeer, At, Goto, Alive, Types
  <2>2. CASE RecordPeer(r)
    BY <2>2 DEF RecordPeer, At, Goto, Alive, Types
  <2>3. CASE Unlink(r)
    <3>1. ~ Alive(r)
      BY <1>3, <2>3 DEF Unlink, At, Hosting
    <3>2. QED
      BY <2>3, <3>1 DEF Unlink, At, Goto, Alive, Types
  <2>4. CASE Poll(r) \/ StopPeer(r) \/ WaitPeer(r)
    BY <2>4 DEF Poll, StopPeer, WaitPeer, Signalled, At, Goto, Becomes, Alive, Types
  <2>5. CASE Acquire(r) \/ NoPort(r) \/ StartFleet(r) \/ StartSlot(r) \/ Connect(r)
             \/ Request(r) \/ ScriptEnds(r) \/ ScriptKilled(r) \/ FinishFleet(r) \/ FinishSlot(r)
    BY <2>5 DEF Acquire, NoPort, StartFleet, StartSlot, Connect, Request, ScriptEnds,
                ScriptKilled, FinishFleet, FinishSlot, Turn, At, Goto, Becomes, Alive, Types
  <2>6. QED
    BY <1>5, <2>1, <2>2, <2>3, <2>4, <2>5 DEF Step
<1>6. ASSUME NEW r \in Run, PeerStep(r) \/ PeerDies(r) \/ ScriptFails(r)
      PROVE  /\ UNCHANGED <<down, orphans, recorded>>
             /\ \A x \in Run : /\ pc'[x] = pc[x] \/ (pc[x] = "script" /\ pc'[x] = "stop")
                               /\ Alive(x)' => Alive(x)
  BY <1>6 DEF PeerStep, PeerBinds, PeerCompletes, PeerGone, PeerDies, Peer, ScriptFails,
              At, Becomes, Goto, Alive, Types
<1>7. ASSUME NEW r \in Run, FileFails(r) PROVE FALSE
  <2>1. "file" \in faults'.kinds
    BY <1>7 DEF FileFails, Fault
  <2>2. QED
    BY <2>1 DEF Only, Recording
<1>8. ASSUME Kill
      PROVE  /\ UNCHANGED <<down, orphans, recorded, peer>>
             /\ \A x \in Run : pc[x] # "record" /\ (pc[x] = "lost" => pc'[x] = "lost")
  <2>1. ~ \E x \in Run : At(x, "record")
    <3>1. ASSUME \E x \in Run : At(x, "record") PROVE FALSE
      <4>1. Fault("killStart")
        BY <1>8, <3>1 DEF Kill
      <4>2. "killStart" \in faults'.kinds
        BY <4>1 DEF Fault
      <4>3. QED
        BY <4>2 DEF Only, Recording
    <3>2. QED
      BY <3>1
  <2>2. QED
    BY <1>8, <2>1 DEF Kill, At, Types
<1>9. ASSUME DownPeers
      PROVE  /\ down' = "none" => \A x \in Run : Alive(x)' => x \in recorded' \/ pc'[x] = "record"
             /\ \A x \in orphans' : pc'[x] = "lost" /\ ~ Alive(x)'
  <2>1. /\ down = "none" /\ down' = "peers" /\ pc' = pc
        /\ peer' = [x \in Run |-> IF x \in recorded THEN "exited" ELSE peer[x]]
        /\ orphans' = {x \in Run : pc[x] = "lost"}
    BY <1>9 DEF DownPeers, Down, At
  <2>2. ASSUME NEW x \in orphans' PROVE pc'[x] = "lost" /\ ~ Alive(x)'
    <3>1. x \in Run /\ pc[x] = "lost" /\ (Alive(x) => x \in recorded)
      BY <1>2, <2>1, <2>2
    <3>2. QED
      BY <2>1, <3>1 DEF Alive
  <2>3. QED
    BY <2>1, <2>2
<1>10. ASSUME ForeignListens \/ DownScripts \/ UNCHANGED vars
       PROVE  /\ UNCHANGED <<orphans, recorded, peer, pc>>
              /\ down' = "none" => down = "none"
  BY <1>10 DEF ForeignListens, DownScripts, Down, vars
<1>11. QED
  <2>1. ASSUME NEW r \in Run, PeerStep(r) \/ PeerDies(r) \/ ScriptFails(r)
        PROVE  /\ down' = "none" => \A x \in Run : Alive(x)' => x \in recorded' \/ pc'[x] = "record"
               /\ \A x \in orphans' : pc'[x] = "lost" /\ ~ Alive(x)'
    BY <1>2, <1>6, <2>1
  <2>2. ASSUME Kill
        PROVE  /\ down' = "none" => \A x \in Run : Alive(x)' => x \in recorded' \/ pc'[x] = "record"
               /\ \A x \in orphans' : pc'[x] = "lost" /\ ~ Alive(x)'
    BY <1>2, <1>8, <2>2 DEF Alive
  <2>3. ASSUME ForeignListens \/ DownScripts \/ UNCHANGED vars
        PROVE  /\ down' = "none" => \A x \in Run : Alive(x)' => x \in recorded' \/ pc'[x] = "record"
               /\ \A x \in orphans' : pc'[x] = "lost" /\ ~ Alive(x)'
    BY <1>2, <1>10, <2>3 DEF Alive
  <2>4. QED
    BY <1>4, <1>5, <1>7, <1>9, <2>1, <2>2, <2>3 DEF Next

-----------------------------------------------------------------------------
(* A connection to the port of a run that is on its way to its script, or at *)
(* it, is accepted by that run's own peer, and by no other run's.           *)
LEMMA OwnConnection ==
    ASSUME Types, Apart, Only(Benign), NEW r \in Run, pc[r] \in Holding
    PROVE  /\ \A x \in Run \ {r} : Served(port[r])[x] = served[x]
           /\ peer[r] = "listening" /\ served[r] < Bound(r) =>
                 Served(port[r])[r] = served[r] + 1
           /\ ~ (peer[r] = "listening" /\ served[r] < Bound(r)) =>
                 Served(port[r])[r] = served[r]
           /\ Answered(port[r]) => peer[r] \in {"listening", "dying"}
           /\ \A x \in Listeners(port[r]) : x = r
<1>1. Listeners(port[r]) \subseteq {r} /\ foreign = {}
  BY DEF Apart, Owns, Listeners
<1>2. peer[r] = "listening" => r \in Listeners(port[r])
  BY DEF Listeners
<1>3. QED
  BY <1>1, <1>2 DEF Served, Accepts, Answered, Listeners, Types

(* With benign faults only, every step keeps the conversations as they are. *)
LEMMA ConversationStep ==
    ASSUME Types, Apart, Conversations, [Next]_vars
    PROVE  Conversations'
<1> USE DEF thread, peers, logs, world
<1> SUFFICES ASSUME Only(Benign)', NEW x \in Run
             PROVE  Converses(x)'
  BY DEF Conversations
<1>1. Only(Benign) /\ (Heard(x)' => Heard(x)) /\ (Only({"script"})' => Only({"script"}))
  <2>1. kind' = kind
    BY DEF Next, Step, PeerStep, Acquire, NoPort, StartFleet, StartSlot, StartPeer, RecordPeer,
           Poll, Connect, Request, ScriptEnds, ScriptKilled, StopPeer, WaitPeer, Unlink,
           FinishFleet, FinishSlot, PeerBinds, PeerCompletes, PeerGone, PeerDies, Peer,
           ScriptFails, FileFails, Kill, ForeignListens, DownPeers, DownScripts, Down, vars
  <2>2. QED
    BY <2>1, FaultsGrow DEF Only, Heard
<1>2. Converses(x) /\ pc[x] # "lost" /\ foreign = {}
  BY <1>1 DEF Conversations, Apart
<1>3. kind[x] \in ScenarioKinds /\ ScriptCount[kind[x]] = 1 /\ Bound(x) \in 2 .. 3
  <2>1. kind[x] \in ScenarioKinds
    BY KindsAssumption DEF Types
  <2>2. \A k \in {"exact", "default"} : Limit(k) \in 2 .. 3
    BY DEF Limit, PeerCount
  <2>3. QED
    BY <2>1, <2>2, Connections DEF Bound, ScenarioKinds
<1>4. ASSUME NEW r \in Run, Step(r), r # x
      PROVE  Converses(x)'
  <2>1. UNCHANGED <<pc[x], result[x], made[x], peer[x]>>
    BY <1>4 DEF Step, Acquire, NoPort, StartFleet, StartSlot, StartPeer, RecordPeer, Poll, Connect,
         Request, ScriptEnds, ScriptKilled, StopPeer, WaitPeer, Unlink, FinishFleet, FinishSlot,
         Goto, Becomes, Types
  <2>2. served'[x] = served[x]
    <3>1. CASE Connect(r) \/ Request(r)
      <4>1. pc[r] \in Holding /\ served' = Served(port[r])
        BY <3>1 DEF Connect, Request, At, Holding
      <4>2. QED
        BY <1>1, <1>4, <4>1, OwnConnection
    <3>2. CASE ~ (Connect(r) \/ Request(r))
      BY <1>4, <3>2 DEF Step, Acquire, NoPort, StartFleet, StartSlot, StartPeer, RecordPeer, Poll,
         ScriptEnds, ScriptKilled, StopPeer, WaitPeer, Unlink, FinishFleet, FinishSlot
    <3>3. QED
      BY <3>1, <3>2
  <2>3. QED
    BY <1>1, <1>2, <2>1, <2>2 DEF Converses, At
<1>5. ASSUME Step(x)
      PROVE  Converses(x)'
  <2>1. CASE Acquire(x) \/ NoPort(x) \/ StartFleet(x) \/ StartSlot(x) \/ StartPeer(x) \/ RecordPeer(x)
    BY <1>1, <1>2, <2>1 DEF Acquire, NoPort, StartFleet, StartSlot, StartPeer, RecordPeer, Turn,
         Converses, Arriving, At, Goto, Types
  <2>2. CASE Poll(x)
    BY <1>1, <1>2, <2>2 DEF Poll, Converses, Arriving, At, Goto, Becomes, Types
  <2>3. CASE Connect(x)
    <3>1. /\ pc[x] = "connect" /\ pc[x] \in Holding /\ served' = Served(port[x])
          /\ pc'[x] = (IF Answered(port[x]) THEN "script" ELSE "poll")
          /\ UNCHANGED <<result, made, peer>>
      BY <2>3 DEF Connect, At, Goto, Holding, Types
    <3>2. peer[x] # "dying" /\ result[x] # "PASS" /\ served[x] = 0 /\ made[x] = 0
      BY <1>2, <3>1 DEF Converses, Arriving
    <3>3. CASE Answered(port[x])
      <4>1. peer[x] = "listening"
        BY <1>1, <3>1, <3>2, <3>3, OwnConnection
      <4>2. served'[x] = 1
        <5>1. served[x] < Bound(x)
          BY <1>3, <3>2
        <5>2. Served(port[x])[x] = served[x] + 1
          BY <1>1, <3>1, <4>1, <5>1, OwnConnection
        <5>3. QED
          BY <3>1, <3>2, <5>2
      <4>3. QED
        BY <3>1, <3>2, <3>3, <4>1, <4>2 DEF Converses, Arriving, At
    <3>4. CASE ~ Answered(port[x])
      <4>1. peer[x] # "listening"
        BY <3>4 DEF Answered, Listeners
      <4>2. served'[x] = 0
        BY <1>1, <3>1, <3>2, <4>1, OwnConnection
      <4>3. QED
        BY <3>1, <3>2, <3>4, <4>2 DEF Converses, Arriving, At
    <3>5. QED
      BY <3>3, <3>4
  <2>4. CASE Request(x)
    <3>1. /\ pc[x] = "script" /\ pc[x] \in Holding /\ served' = Served(port[x])
          /\ made[x] = 0 /\ made'[x] = 1 /\ UNCHANGED peer
      BY <1>3, <2>4 DEF Request, At, Holding, Types
    <3>2. /\ peer[x] # "dying" /\ result[x] # "PASS" /\ served[x] = 1
          /\ Only({"script"}) => peer[x] = "listening"
      BY <1>2, <3>1 DEF Converses, At
    <3>3. CASE peer[x] = "listening"
      <4>1. served'[x] = 2
        <5>1. served[x] < Bound(x)
          BY <1>3, <3>2
        <5>2. Served(port[x])[x] = served[x] + 1
          BY <1>1, <3>1, <3>3, <5>1, OwnConnection
        <5>3. QED
          BY <3>1, <3>2, <5>2
      <4>2. pc'[x] \in {"script", "stop"} /\ result'[x] # "PASS"
        BY <2>4, <3>1, <3>2 DEF Request, Becomes, Goto, Types
      <4>3. QED
        BY <3>1, <3>2, <4>1, <4>2 DEF Converses, Arriving, At
    <3>4. CASE peer[x] # "listening"
      <4>1. kind[x] # "beacon" \/ pc'[x] = "stop"
        <5>1. ~ \E y \in Listeners(port[x]) : peer[y] = "listening"
          BY <1>1, <3>1, <3>4, OwnConnection
        <5>2. QED
          BY <1>2, <2>4, <5>1 DEF Request, Becomes, Goto, Types
      <4>2. ~ Only({"script"})'
        BY <1>1, <3>2, <3>4
      <4>3. kind' = kind /\ pc'[x] \in {"script", "stop"} /\ result'[x] # "PASS"
        BY <2>4, <3>1, <3>2 DEF Request, Becomes, Goto, Types
      <4>4. QED
        BY <3>1, <3>2, <4>1, <4>2, <4>3 DEF Converses, Arriving, At, Heard
    <3>5. QED
      BY <3>3, <3>4
  <2>5. CASE ScriptEnds(x)
    BY <1>1, <1>2, <1>3, <2>5 DEF ScriptEnds, Converses, Arriving, At, Goto, Becomes, Types
  <2>6. CASE ScriptKilled(x) \/ StopPeer(x) \/ WaitPeer(x) \/ Unlink(x) \/ FinishFleet(x) \/ FinishSlot(x)
    BY <1>1, <1>2, <2>6 DEF ScriptKilled, StopPeer, WaitPeer, Unlink, FinishFleet, FinishSlot,
         Converses, Arriving, At, Goto, Becomes, Types
  <2>7. QED
    BY <1>5, <2>1, <2>2, <2>3, <2>4, <2>5, <2>6 DEF Step
<1>6. ASSUME NEW r \in Run, PeerStep(r) \/ PeerDies(r)
      PROVE  Converses(x)'
  <2>1. UNCHANGED <<pc, result, made, served>>
    BY <1>6 DEF PeerStep, PeerBinds, PeerCompletes, PeerGone, PeerDies, Peer
  <2>2. peer[x] # "dying" => peer'[x] # "dying"
    BY <1>6 DEF PeerStep, PeerBinds, PeerCompletes, PeerGone, PeerDies, Peer, Types
  <2>3. Only({"script"})' /\ peer[x] = "listening" /\ served[x] = 1 => peer'[x] = "listening"
    <3>1. CASE PeerStep(r)
      <4>1. ASSUME PeerCompletes(x), served[x] = 1 PROVE FALSE
        <5>1. kind[x] # "beacon" /\ served[x] = Limit(kind[x])
          BY <1>2, <4>1 DEF PeerCompletes, At
        <5>2. QED
          BY <1>3, <4>1, <5>1 DEF Bound
      <4>2. QED
        BY <3>1, <4>1 DEF PeerStep, PeerBinds, PeerCompletes, PeerGone, Peer, Types
    <3>2. CASE PeerDies(r)
      BY <3>2 DEF PeerDies, Fault, Only
    <3>3. QED
      BY <1>6, <3>1, <3>2
  <2>4. QED
    BY <1>1, <1>2, <2>1, <2>2, <2>3 DEF Converses, At
<1>7. ASSUME NEW r \in Run, ScriptFails(r)
      PROVE  Converses(x)'
  BY <1>1, <1>2, <1>7 DEF ScriptFails, Converses, Arriving, At, Goto, Becomes, Types
<1>8. ASSUME (\E r \in Run : FileFails(r)) \/ Kill \/ ForeignListens PROVE FALSE
  <2>1. \E k \in FaultKinds \ Benign : Fault(k)
    BY <1>8 DEF FileFails, Kill, ForeignListens, Benign, FaultKinds
  <2>2. QED
    BY <2>1 DEF Fault, Only
<1>9. ASSUME DownPeers
      PROVE  Converses(x)'
  <2>1. ~ Only({"script"})'
    <3>1. "down" \in faults'.kinds
      BY <1>9 DEF DownPeers, TakenDown, Fault, Types
    <3>2. QED
      BY <3>1 DEF Only
  <2>2. /\ UNCHANGED <<pc, result, made, served>>
        /\ peer[x] # "dying" => peer'[x] # "dying"
    BY <1>9 DEF DownPeers, Down
  <2>3. QED
    BY <1>1, <1>2, <2>1, <2>2 DEF Converses, At
<1>10. ASSUME DownScripts \/ UNCHANGED vars
       PROVE  Converses(x)'
  BY <1>1, <1>2, <1>10 DEF DownScripts, Down, vars, Converses, At
<1>11. QED
  BY <1>4, <1>5, <1>6, <1>7, <1>8, <1>9, <1>10 DEF Next

-----------------------------------------------------------------------------
(* The invariant, and what follows from it. *)
THEOREM Invariance == Spec => []IInv
<1>1. Init => IInv
  BY InitInv
<1>2. IInv /\ [Next]_vars => IInv'
  BY TypesStep, LogStep, PortStep, AliveStep, ApartStep, RecordedStep, ConversationStep DEF IInv
<1>3. QED
  BY <1>1, <1>2, PTL DEF Spec

(* What a file with both records begins with. *)
LEMMA BothRecords ==
    ASSUME NEW a, NEW b
    PROVE  /\ Len(<<a, b>>) = 2
           /\ SubSeq(<<a, b>>, 1, 1) = <<a>>
           /\ SubSeq(<<a, b>>, 1, 2) = <<a, b>>
<1> DEFINE t == <<a, b>>
<1>1. t \in Seq({a, b}) /\ Len(t) = 2 /\ t[1] = a
  OBVIOUS
<1>2. <<a>> \in Seq({a, b}) /\ Len(<<a>>) = 1 /\ <<a>>[1] = a
  OBVIOUS
<1> HIDE DEF t
<1>3. SubSeq(t, 1, 2) = t
  BY <1>1, SubSeqFull
<1>4. SubSeq(t, 1, 1) \in Seq({a, b}) /\ Len(SubSeq(t, 1, 1)) = 1 /\ SubSeq(t, 1, 1)[1] = a
  BY <1>1, SubSeqProperties
<1>5. SubSeq(t, 1, 1) = <<a>>
  <2>1. \A i \in 1 .. 1 : i = 1
    OBVIOUS
  <2>2. QED
    BY <1>2, <1>4, <2>1, SeqEqual
<1>6. QED
  BY <1>1, <1>3, <1>5 DEF t

(* A file that holds as much as the other, or what the other begins with. *)
LEMMA Prefixes ==
    ASSUME NEW f \in Logs, NEW s \in Logs, NEW res \in Results,
           NEW step \in Steps \cup Ends, Fits(step, res, f, s)
    PROVE  Begins(s, f)
<1>1. CASE Nothing(s)
  <2>1. Len(f) \in Nat
    BY DEF Logs
  <2>2. s = SubSeq(f, 1, 0)
    BY <1>1 DEF Nothing
  <2>3. QED
    BY <2>1, <2>2 DEF Begins
<1>2. CASE Started(s) /\ Started(f)
  <2>1. Len(f) = 1 /\ s = SubSeq(f, 1, 1)
    BY <1>2 DEF Started
  <2>2. QED
    BY <2>1 DEF Begins
<1>3. CASE Started(s) /\ Finished(f, res)
  <2>1. Len(f) = 2 /\ s = SubSeq(f, 1, 1)
    BY <1>3, BothRecords DEF Started, Finished
  <2>2. 1 \in 0 .. 2
    OBVIOUS
  <2>3. QED
    BY <2>1, <2>2 DEF Begins
<1>4. CASE Finished(s, res) /\ Finished(f, res)
  <2>1. Len(f) = 2 /\ s = SubSeq(f, 1, 2)
    BY <1>4, BothRecords DEF Finished
  <2>2. 2 \in 0 .. 2
    OBVIOUS
  <2>3. QED
    BY <2>1, <2>2 DEF Begins
<1>5. QED
  BY <1>1, <1>2, <1>3, <1>4 DEF Fits, Before, Between, Cut, Steps, Ends

(* Every reachable state is well typed (ScenarioRunner.run, PortAllocator,   *)
(* GroundTruthRecorder).                                                    *)
THEOREM TypeCorrect == Spec => []TypeOK
<1>1. IInv => TypeOK
  BY DEF IInv, Types, LogState, Logs, TypeOK
<1>2. QED
  BY <1>1, Invariance, PTL

(* However the runs of a pool, the faults and a down interleave, the two     *)
(* ground truth files never contradict each other, and of a run that is     *)
(* over both hold the start and the same one result (start_run, finish_run  *)
(* and the order in which run calls them).                                  *)
THEOREM GroundTruthAlwaysAgrees == Spec => []GroundTruthAgrees
<1>1. IInv => GroundTruthAgrees
  <2> SUFFICES ASSUME IInv, NEW r \in Run
               PROVE  /\ Begins(slotLog[r], fleetLog[r])
                      /\ At(r, "done") => slotLog[r] = <<"started", result[r]>>
    BY DEF GroundTruthAgrees
  <2>1. Fits(pc[r], result[r], fleetLog[r], slotLog[r])
    BY DEF IInv, LogState
  <2>2. Begins(slotLog[r], fleetLog[r])
    BY <2>1, Prefixes DEF IInv, LogState, Types
  <2>3. At(r, "done") => slotLog[r] = <<"started", result[r]>>
    BY <2>1 DEF At, Fits, Finished
  <2>4. QED
    BY <2>2, <2>3
<1>2. QED
  BY <1>1, Invariance, PTL

(* Once no run is active no port is allocated, unless a file could not be   *)
(* written: whichever way a run ends, it gives back what acquire gave it.   *)
THEOREM PortsAlwaysReturned == Spec => []PortsReturned
<1>1. IInv => PortsReturned
  <2> SUFFICES ASSUME IInv, \A r \in Run : ~ Active(r), Only(FaultKinds \ {"file"})
               PROVE  allocated = {}
    BY DEF PortsReturned
  <2>1. ASSUME NEW p \in allocated PROVE FALSE
    <3>1. PICK r \in Run : pc[r] \in Holding
      BY <2>1 DEF IInv, PortsHeld
    <3>2. Active(r)
      BY <3>1 DEF Active, Holding, Ends
    <3>3. QED
      BY <3>2
  <2>2. QED
    BY <2>1
<1>2. QED
  BY <1>1, Invariance, PTL

(* No run leaves a living peer behind, unless a file could not be written:   *)
(* every way from _start_peer out of run ends the peer.                     *)
THEOREM PeersAlwaysStopped == Spec => []PeersStopped
<1>1. IInv => PeersStopped
  BY DEF IInv, PeersHosted, PeersStopped, Ended, Hosting
<1>2. QED
  BY <1>1, Invariance, PTL

(* Unless another program takes its port, a file cannot be written or the    *)
(* command is killed, a script meets its own run's peer or nobody: the      *)
(* allocator's set and its probe keep the runs of a pool apart, although a  *)
(* peer is not waited for after it was killed.                              *)
THEOREM ScriptsMeetTheirPeer == Spec => []OwnPeer
<1>1. IInv => OwnPeer
  <2> SUFFICES ASSUME IInv, Only(Benign), NEW r \in Run, At(r, "script")
               PROVE  port[r] \notin foreign /\ Listeners(port[r]) \subseteq {r}
    BY DEF OwnPeer, Benign
  <2>1. foreign = {} /\ Owns(r) /\ pc[r] \in Holding
    BY DEF IInv, Apart, At, Holding
  <2>2. QED
    BY <2>1 DEF Owns, Listeners
<1>2. QED
  BY <1>1, Invariance, PTL

(* A run that passed had its connection accepted by its own peer: always, as *)
(* long as scripts fail at most, and a beacon's also when peers die or the   *)
(* fleet is taken down meanwhile (the peer's limit, which counts the         *)
(* readiness probe, and the client's exit status).                          *)
THEOREM PassAlwaysMeansServed == Spec => []PassMeansServed
<1>1. IInv => PassMeansServed
  <2> SUFFICES ASSUME IInv, NEW r \in Run, result[r] = "PASS"
               PROVE  /\ Only({"script"}) => served[r] > ScriptCount[kind[r]]
                      /\ kind[r] = "beacon" /\ Only({"script", "peer", "down"}) => served[r] > 1
    BY DEF PassMeansServed
  <2>1. Only(Benign) => Converses(r)
    BY DEF IInv, Conversations
  <2>2. kind[r] \in ScenarioKinds
    BY KindsAssumption DEF IInv, Types
  <2>3. ScriptCount[kind[r]] = 1
    BY <2>2, Connections
  <2>4. QED
    BY <2>1, <2>3 DEF Converses, Heard, Only, Benign
<1>2. QED
  BY <1>1, Invariance, PTL

(* A down ends the peers of the commands that were killed before it, unless a *)
(* file could not be written or the kill came between starting a peer and   *)
(* recording it (FleetManager.down, peer-process.json).                     *)
THEOREM DownAlwaysStopsPeers == Spec => []DownStopsPeers
<1>1. IInv => DownStopsPeers
  BY DEF IInv, PeersRecorded, Recording, DownStopsPeers
<1>2. QED
  BY <1>1, Invariance, PTL

=============================================================================
