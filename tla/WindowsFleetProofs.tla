------------------------- MODULE WindowsFleetProofs -------------------------
(***************************************************************************)
(* What holds of the Windows fleet for every number of endpoints, every    *)
(* list of commands and any number of mishaps, with the supervisors of all *)
(* endpoints running beside the command.                                   *)
(*                                                                         *)
(* FleetInv, the invariant, is a conjunction of named parts.  Each part is *)
(* conditional on the kinds of mishaps that did not happen, which are the  *)
(* ones of the property it serves:                                         *)
(*   Typed, Controlled, Housed        what goes with what, always;         *)
(*   Runs, Mail                       for ScriptsWithinRuns;               *)
(*   NetworkOwned                     for ForeignNetworkKept;              *)
(*   BrokerServes, BrokerLives        for AgentsAfterBroker, OthersSpared; *)
(*   BrokerKnown, Cleared, Found, NetworkFound   for DownIsClean;          *)
(*   Prepared, Connected, Started, Served        for UpIsServed.           *)
(*                                                                         *)
(* The proofs have three layers: what a step makes of the records host,    *)
(* disk and cli, field by field (the lemmas named ...Effect); that a step  *)
(* keeps one part of the invariant (the lemmas named ...Step), with a case *)
(* per group of actions that have the same reason; and the theorems.       *)
(***************************************************************************)
EXTENDS WindowsFleet, SupervisorChannelProofs

(* The positions of a command, by what it is doing there, and what the     *)
(* variables range over.                                                   *)
Opening == {"create", "start", "wait ready", "inspect"}
Launched == {"enroll", "enrolling", "start agent", "starting", "save runtime"}
UpPcs == {"ensure network", "start bootstrap", "stop bootstrap", "start broker", "kill broker"}
             \cup Opening \cup Launched
Visiting == {"visit", "asking", "stop", "remove"}
Closing == {"stop broker", "remove network", "remove files"}
DownPcs == {"load"} \cup Visiting \cup Closing
RunPcs == {"open run", "start peer", "script", "await script", "stop peer", "close run"}
Unplaced == {"idle", "ensure network", "start bootstrap"}
Awaiting == {"enrolling", "starting", "asking", "await script"}

Hosts == [containers : SUBSET Slot, root : [Slot -> Root \cup {0}],
          network : {"none", "lab", "foreign"},
          broker : [pid : Pid \cup {0}, map : [Slot -> Root \cup {0}]],
          bootstrap : {"none", "serving"}, peer : {"none", "listening"}, other : Pid \cup {0}]

Disks == [record : [Slot -> Root \cup {0}], enrolled : SUBSET Slot,
          runtime : [broker : Pid \cup {0}, owned : {"no", "yes"}],
          truth : {"none", "open", "PASS", "ERROR"}]

Pcs == {"idle"} \cup UpPcs \cup DownPcs \cup RunPcs

Commanding == [cmd : {"none", "up", "down", "scenario"}, pc : Pcs,
               at : Slot \cup {0}, kind : {"none", "001", "006"}, owned : {"no", "yes"},
               pid : Pid \cup {0}, id : Id \cup {0}, result : {"none", "failed", "PASS", "ERROR"},
               hit : {"no", "yes"}, then : Seq(FleetStep)]

(* A container has a root process as long as its supervisor runs.           *)
Rooted == \A s \in Slot : host.root[s] = 0 <=> sup[s].pc = "off"

Typed ==
    /\ TypeOK /\ Rooted
    /\ host \in Hosts /\ disk \in Disks /\ cli \in Commanding
    /\ last \in {"none", "up", "down", "scenario"}

(* Where a command is goes with what it is. *)
Controlled ==
    /\ cli.cmd = "none" <=> cli.pc = "idle"
    /\ cli.cmd = "up" <=> cli.pc \in UpPcs
    /\ cli.cmd = "down" <=> cli.pc \in DownPcs
    /\ cli.pc \notin Unplaced => cli.at \in Slot
    /\ cli.pc = "load" => cli.at = 1
    /\ cli.pc \in {"stop peer", "close run"} => cli.result \in {"PASS", "ERROR"}
    /\ last = "up" => cli.cmd \in {"none", "scenario"}
    /\ last = "down" => cli.cmd \in {"none", "scenario"}

(* A supervisor runs in a container and an agent below a supervisor.       *)
Housed ==
    /\ \A s \in Slot : /\ s \notin host.containers => sup[s].pc = "off"
                       /\ sup[s].pc = "off" => agent[s] = "none"
    /\ cli.pc \in Opening \ {"create"} => cli.at \in host.containers

(* A scenario keeps its run open and its peer up as long as it needs them. *)
Runs ==
    /\ cli.pc \in {"start peer", "script", "await script"} => disk.truth = "open"
    /\ cli.pc \in {"script", "await script"} /\ cli.kind = "001" => host.peer = "listening"

(* A network the fleet is to remove is the lab's. *)
NetworkOwned ==
    Never({"kill", "reboot", "stale"}) /\ cli.pc # "remove files" =>
        (cli.owned = "yes" \/ disk.runtime.owned = "yes" => host.network = "lab")

(* A broker that runs has a number somebody knows: the one that the        *)
(* command is to record or to stop, or else the recorded one; where        *)
(* neither is the case there is no broker.                                 *)
Numbered == Launched \cup Visiting \cup {"kill broker", "stop broker"}
Brokerless == Opening \cup {"stop bootstrap", "start broker", "remove network", "remove files"}

BrokerKnown ==
    Never({"kill", "ignored"}) =>
        /\ host.bootstrap = "serving" => cli.pc \in Opening \cup {"stop bootstrap"}
        /\ cli.pc \in Brokerless => host.broker.pid = 0
        /\ cli.pc \in Numbered => host.broker.pid \in {0, cli.pid}
        /\ cli.pc \notin Brokerless \cup Numbered => host.broker.pid \in {0, disk.runtime.broker}
        /\ last = "down" => disk.runtime.broker = 0

(* Agents are started with the broker up.                                  *)
BrokerServes ==
    Never({"broker"}) /\ cli.pc \in Launched => host.broker.pid = cli.pid /\ cli.pid # 0

(* Unless brokers end behind its back, the fleet knows exactly whether one *)
(* runs, and a known number is not a foreign process's.                    *)
BrokerLives ==
    /\ host.other # 0 => host.other # host.broker.pid
    /\ Never({"broker", "reboot", "kill", "ignored"}) =>
          /\ cli.pc \in Numbered => host.broker.pid = cli.pid
          /\ cli.pc \in Launched \cup {"kill broker"} => disk.runtime.broker = 0
          /\ cli.pc \notin Launched \cup {"kill broker"} \cup Closing =>
                host.broker.pid = disk.runtime.broker

(* What a down has gone past. *)
Passed(s) == cli.pc \in Closing \/ (cli.pc \in Visiting /\ s < cli.at) \/ last = "down"

(* What has a record is gone once down is past it.                         *)
Cleared ==
    Never({"ignored"}) =>
        \A s \in Slot : Passed(s) /\ disk.record[s] # 0 => s \notin host.containers

(* The container that up is working on, or that it failed on.              *)
InHand(s) == \/ cli.pc \in Opening \ {"create"} /\ cli.at = s
             \/ cli.pc = "stop bootstrap" /\ cli.result = "failed"

(* No container is without a record, which down works from.                *)
Found ==
    Never({"kill", "failed", "reboot"}) =>
        \A s \in host.containers : disk.record[s] # 0 \/ InHand(s)

(* The lab's network is known to be the fleet's own, so down removes it.   *)
NetworkFound ==
    Never({"kill", "failed", "again", "reboot", "ignored"}) =>
        /\ host.network = "lab" =>
              IF cli.pc \in (UpPcs \ {"ensure network"}) \cup (DownPcs \ {"load"})
              THEN cli.owned = "yes" ELSE disk.runtime.owned = "yes"
        /\ cli.pc = "remove files" \/ last = "down" => host.network # "lab"

(* The command waits for a response that has not come.                     *)
Pending == cli.pc \in Awaiting /\ responses[cli.id] = "none"

Asked(t) ==
    /\ cli.pc = "enrolling" => t = "agent-command"
    /\ cli.pc = "starting" => t = "start-agent"
    /\ cli.pc = "asking" => t = "shutdown"
    /\ cli.pc = "await script" => t = "scenario"

(* As long as no client gave up and no removal failed, the mailboxes hold  *)
(* what the command waits for and nothing else, but for a call that was    *)
(* answered and is being removed; and a supervisor executes and answers    *)
(* only that.                                                              *)
Mail ==
    Never({"late", "remove"}) =>
        /\ Pending => cli.id \in commands[cli.at] /\ Asked(type[cli.id])
        /\ \A s \in Slot :
              /\ sup[s].batch = {}
              /\ \A i \in commands[s] : \/ Pending /\ i = cli.id /\ s = cli.at
                                        \/ sup[s].pc = "remove" /\ sup[s].at = i
              /\ sup[s].pc \in {"execute", "answer"} => Pending /\ sup[s].at = cli.id /\ s = cli.at
              /\ sup[s].pc = "answer" => sup[s].status # "none"
              /\ sup[s].pc = "remove" => sup[s].at \in Id /\ ~ (Pending /\ sup[s].at = cli.id)

(* A supervisor that serves its endpoint and is not about to exit.         *)
Staying(s) == sup[s].pc = "remove" => type[sup[s].at] # "shutdown"
Running(s) == sup[s].pc # "off" /\ agent[s] = "running" /\ Staying(s)

(* The containers that an up has been through.                             *)
Covered(s) ==
    \/ cli.pc \in Opening /\ s < cli.at
    \/ cli.pc = "stop bootstrap" /\ cli.result # "failed"
    \/ cli.pc \in {"start broker"} \cup Launched

(* They have the roots on record, or none if they died since.              *)
Prepared ==
    \A s \in Slot : Covered(s) => s \in host.containers /\ host.root[s] \in {0, disk.record[s]}

(* Past start broker the broker knows the recorded roots, if nothing died. *)
Connected ==
    cli.hit = "no" =>
        /\ cli.pc \in Launched =>
              /\ host.bootstrap = "none" /\ host.broker.pid = cli.pid /\ cli.pid # 0
              /\ host.broker.map = disk.record
        /\ cli.pc = "start broker" => host.bootstrap = "none"

(* The agents that up has been told of run.  The answer "ok" to            *)
(* start-agent is only as good as the supervisor that gave it, hence the   *)
(* last conjunct, which holds before the answer is written.                *)
Started ==
    Never({"late", "remove"}) /\ cli.hit = "no" =>
        /\ cli.pc \in Launched =>
              \A s \in Slot : s < cli.at \/ cli.pc = "save runtime" => Running(s)
        /\ cli.pc = "starting" /\ responses[cli.id] = "ok" => Running(cli.at)
        /\ cli.pc = "starting" /\ sup[cli.at].pc = "answer" => agent[cli.at] = "running"

(* What UpIsServed claims, with supervisors that stay.                     *)
Serving ==
    /\ host.bootstrap = "none"
    /\ host.broker.pid # 0 /\ host.broker.pid = disk.runtime.broker
    /\ \A s \in Slot : s \in host.containers /\ Running(s) /\ host.broker.map[s] = host.root[s]

Served == last = "up" /\ Never({"late", "remove"}) => Serving

-----------------------------------------------------------------------------
(* What the steps make of the three records, field by field.                *)
Turn(pc, at, owned, pid, id, result) ==
    /\ cli' \in Commanding
    /\ cli'.cmd = cli.cmd /\ cli'.kind = cli.kind /\ cli'.hit = cli.hit
    /\ cli'.pc = pc /\ cli'.at = at /\ cli'.owned = owned
    /\ cli'.pid = pid /\ cli'.id = id /\ cli'.result = result

To(pc) == Turn(pc, cli.at, cli.owned, cli.pid, cli.id, cli.result)

LEMMA TurnPc ==
    ASSUME cli \in Commanding, NEW p \in Pcs, cli' = [cli EXCEPT !.pc = p]
    PROVE  To(p)
<1>1. cli' \in Commanding
  BY Zenon DEF Commanding
<1> QED
  BY <1>1 DEF To, Turn, Commanding

LEMMA TurnAt ==
    ASSUME cli \in Commanding, NEW p \in Pcs, NEW a \in Slot,
           cli' = [cli EXCEPT !.pc = p, !.at = a]
    PROVE  Turn(p, a, cli.owned, cli.pid, cli.id, cli.result)
<1>1. cli' \in Commanding
  BY Zenon DEF Commanding
<1> QED
  BY <1>1 DEF Turn, Commanding

LEMMA TurnOwned ==
    ASSUME cli \in Commanding, NEW p \in Pcs, NEW o \in {"no", "yes"},
           cli' = [cli EXCEPT !.pc = p, !.owned = o]
    PROVE  Turn(p, cli.at, o, cli.pid, cli.id, cli.result)
<1>1. cli' \in Commanding
  BY Zenon DEF Commanding
<1> QED
  BY <1>1 DEF Turn, Commanding

LEMMA TurnId ==
    ASSUME cli \in Commanding, NEW p \in Pcs, NEW i \in Id,
           cli' = [cli EXCEPT !.pc = p, !.id = i]
    PROVE  Turn(p, cli.at, cli.owned, cli.pid, i, cli.result)
<1>1. cli' \in Commanding
  BY Zenon DEF Commanding
<1> QED
  BY <1>1 DEF Turn, Commanding

LEMMA TurnResult ==
    ASSUME cli \in Commanding, NEW p \in Pcs, NEW r \in {"failed", "PASS", "ERROR"},
           cli' = [cli EXCEPT !.pc = p, !.result = r]
    PROVE  Turn(p, cli.at, cli.owned, cli.pid, cli.id, r)
<1>1. cli' \in Commanding
  BY Zenon DEF Commanding
<1> QED
  BY <1>1 DEF Turn, Commanding

LEMMA TurnBroker ==
    ASSUME cli \in Commanding, NEW p \in Pcs, NEW a \in Slot, NEW d \in Pid,
           cli' = [cli EXCEPT !.pc = p, !.at = a, !.pid = d]
    PROVE  Turn(p, a, cli.owned, d, cli.id, cli.result)
<1>1. cli' \in Commanding
  BY Zenon DEF Commanding
<1> QED
  BY <1>1 DEF Turn, Commanding

LEMMA TurnRuntime ==
    ASSUME cli \in Commanding, NEW p \in Pcs, NEW d \in Pid \cup {0}, NEW o \in {"no", "yes"},
           cli' = [cli EXCEPT !.pc = p, !.pid = d, !.owned = o]
    PROVE  Turn(p, cli.at, o, d, cli.id, cli.result)
<1>1. cli' \in Commanding
  BY Zenon DEF Commanding
<1> QED
  BY <1>1 DEF Turn, Commanding

(* A command that was hit by a mishap. *)
Hit ==
    /\ cli' \in Commanding /\ last' = "none"
    /\ cli'.cmd = cli.cmd /\ cli'.kind = cli.kind /\ cli'.pc = cli.pc /\ cli'.at = cli.at
    /\ cli'.owned = cli.owned /\ cli'.pid = cli.pid /\ cli'.id = cli.id
    /\ cli'.result = cli.result /\ (cli'.cmd = "none" \/ cli'.hit = "yes")

LEMMA TurnHit ==
    ASSUME cli \in Commanding, NEW kind, NEW left, Mishap(kind, left)
    PROVE  Hit /\ past' = past \cup {kind} \cup left /\ disk' = disk
<1>1. CASE cli.cmd = "none"
  BY <1>1 DEF Mishap, Hit
<1>2. CASE cli.cmd # "none"
  <2>1. cli' = [cli EXCEPT !.hit = "yes"] /\ last' = "none"
    BY <1>2 DEF Mishap
  <2>2. cli' \in Commanding
    BY <2>1, Zenon DEF Commanding
  <2>3. QED
    BY <2>1, <2>2 DEF Hit, Commanding, Mishap
<1> QED
  BY <1>1, <1>2

(* A command that begins, or none. *)
Fresh ==
    /\ cli' \in Commanding
    /\ cli'.owned = "no" /\ cli'.result = "none" /\ cli'.hit = "no"
    /\ \/ cli'.cmd = "none" /\ cli'.pc = "idle"
       \/ cli'.cmd = "up" /\ cli'.pc = "ensure network"
       \/ cli'.cmd = "down" /\ cli'.pc = "load" /\ cli'.at = 1
       \/ cli'.cmd = "scenario" /\ cli'.pc = "open run" /\ cli'.at \in Slot

LEMMA SlotRange == 1 \in Slot /\ N \in Slot /\ Slot \subseteq Nat /\ 0 \notin Slot
BY SlotAssumption

LEMMA NextSlot ==
    ASSUME NEW s \in Slot
    PROVE  (s < N => s + 1 \in Slot) /\ (~ (s < N) => s = N) /\ ~ (s < s)
BY SlotAssumption

LEMMA StepTypes ==
    ASSUME NEW step \in FleetStep
    PROVE  /\ step.cmd \in {"up", "down", "scenario"}
           /\ step.kind \in {"none", "001", "006"}
           /\ step.at \in Slot \cup {0}
           /\ step.cmd = "down" => step.at = 1
           /\ step.cmd = "scenario" => step.at \in Slot
BY SlotRange DEF FleetStep, UpStep, DownStep, ScenarioStep

LEMMA FreshIdle ==
    ASSUME cli' = Idle
    PROVE  Fresh /\ cli'.cmd = "none"
<1>1. <<>> \in Seq(FleetStep)
  OBVIOUS
<1>2. Idle \in Commanding
  BY <1>1 DEF Idle, Commanding, Pcs
<1> QED
  BY <1>2 DEF Fresh, Idle

LEMMA FreshLaunch ==
    ASSUME NEW steps \in Seq(FleetStep), cli' = Launch(steps)
    PROVE  /\ Fresh
           /\ steps = <<>> => cli'.cmd = "none"
           /\ steps # <<>> => cli'.cmd = Head(steps).cmd
<1>1. CASE steps = <<>>
  BY <1>1, FreshIdle DEF Launch
<1>2. CASE steps # <<>>
  <2> DEFINE step == Head(steps)
             p == FirstPc[step.cmd]
  <2>1. step \in FleetStep /\ Tail(steps) \in Seq(FleetStep)
    BY <1>2
  <2>2. /\ step.cmd = "up" => p = "ensure network"
        /\ step.cmd = "down" => p = "load"
        /\ step.cmd = "scenario" => p = "open run"
    <3>1. /\ FirstPc["up"] = "ensure network" /\ FirstPc["down"] = "load"
          /\ FirstPc["scenario"] = "open run"
      BY DEF FirstPc
    <3>2. QED
      BY <3>1
  <2>3. p \in Pcs
    BY <2>1, <2>2, StepTypes DEF Pcs, UpPcs, DownPcs, RunPcs
  <2>4. cli' = [Idle EXCEPT !.cmd = step.cmd, !.at = step.at, !.kind = step.kind,
                            !.pc = p, !.then = Tail(steps)]
    BY <1>2 DEF Launch
  <2> HIDE DEF step, p
  <2>5. Idle \in Commanding
    BY FreshIdle, <1>2 DEF Idle, Commanding, Pcs
  <2>6. cli' \in Commanding
    <3>1. /\ step.cmd \in {"none", "up", "down", "scenario"} /\ step.at \in Slot \cup {0}
          /\ step.kind \in {"none", "001", "006"}
      BY <2>1, StepTypes
    <3>2. QED
      BY <2>1, <2>3, <2>4, <2>5, <3>1, Zenon DEF Commanding
  <2>7. /\ cli'.cmd = step.cmd /\ cli'.at = step.at /\ cli'.pc = p
        /\ cli'.owned = "no" /\ cli'.result = "none" /\ cli'.hit = "no"
    BY <2>4 DEF Idle
  <2>8. QED
    BY <1>2, <2>1, <2>2, <2>6, <2>7, StepTypes DEF Fresh, step
<1> QED
  BY <1>1, <1>2

(* A command that succeeds, or raises. *)
Done ==
    /\ Fresh /\ past' = past
    /\ last' # "none" =>
          last' = cli.cmd /\ cli.hit = "no" /\ cli'.cmd \in {"none", "scenario"}

Over ==
    /\ Fresh /\ last' = "none" /\ past \subseteq past'
    /\ cli.cmd = "up" => "failed" \in past'

(* The same with failures that nobody looked at. *)
Ends ==
    /\ Fresh
    /\ last' # "none" =>
          last' = cli.cmd /\ cli.hit = "no" /\ cli'.cmd \in {"none", "scenario"}

LEMMA ReturnsEffect ==
    ASSUME cli \in Commanding, Returns
    PROVE  Ends
<1>1. cli.then \in Seq(FleetStep)
  BY DEF Commanding
<1> QED
  BY <1>1, FreshLaunch DEF Returns, FleetStays, Ends

LEMMA SucceededEffect ==
    ASSUME cli \in Commanding, Succeeded
    PROVE  Done
BY ReturnsEffect DEF Succeeded, Ends, Done

LEMMA RaisesEffect ==
    ASSUME cli \in Commanding, Raises
    PROVE  Fresh /\ last' = "none"
<1> DEFINE rest == IF cli.cmd # "up" /\ \E i \in DOMAIN cli.then : cli.then[i] = DownStep
                   THEN <<DownStep>> ELSE <<>>
<1>1. rest \in Seq(FleetStep)
  <2>1. DownStep \in FleetStep
    BY DEF FleetStep
  <2>2. <<>> \in Seq(FleetStep) /\ <<DownStep>> \in Seq(FleetStep)
    BY <2>1
  <2>3. QED
    BY <2>2
<1>2. cli' = Launch(rest)
  BY DEF Raises
<1> HIDE DEF rest
<1>3. Fresh
  BY <1>1, <1>2, FreshLaunch
<1> QED
  BY <1>3 DEF Raises

LEMMA RaisedEffect ==
    ASSUME cli \in Commanding, Raised
    PROVE  Over
BY RaisesEffect DEF Raised, Over

(* The same of the other two. *)
HostIs(containers, root, network, broker, bootstrap, peer, other) ==
    /\ host' \in Hosts
    /\ host'.containers = containers /\ host'.root = root /\ host'.network = network
    /\ host'.broker = broker /\ host'.bootstrap = bootstrap /\ host'.peer = peer
    /\ host'.other = other

DiskIs(record, runtime, truth) ==
    /\ disk' \in Disks
    /\ disk'.record = record /\ disk'.runtime = runtime /\ disk'.truth = truth

LEMMA HostNetwork ==
    ASSUME host \in Hosts, NEW n \in {"none", "lab", "foreign"},
           host' = [host EXCEPT !.network = n]
    PROVE  HostIs(host.containers, host.root, n, host.broker, host.bootstrap, host.peer, host.other)
<1>1. host' \in Hosts
  BY Zenon DEF Hosts
<1> QED
  BY <1>1 DEF HostIs, Hosts

LEMMA HostBootstrap ==
    ASSUME host \in Hosts, NEW b \in {"none", "serving"},
           host' = [host EXCEPT !.bootstrap = b]
    PROVE  HostIs(host.containers, host.root, host.network, host.broker, b, host.peer, host.other)
<1>1. host' \in Hosts
  BY Zenon DEF Hosts
<1> QED
  BY <1>1 DEF HostIs, Hosts

LEMMA HostPeer ==
    ASSUME host \in Hosts, NEW p \in {"none", "listening"},
           host' = [host EXCEPT !.peer = p]
    PROVE  HostIs(host.containers, host.root, host.network, host.broker, host.bootstrap, p, host.other)
<1>1. host' \in Hosts
  BY Zenon DEF Hosts
<1> QED
  BY <1>1 DEF HostIs, Hosts

LEMMA HostOther ==
    ASSUME host \in Hosts, NEW p \in Pid \cup {0},
           host' = [host EXCEPT !.other = p]
    PROVE  HostIs(host.containers, host.root, host.network, host.broker, host.bootstrap, host.peer, p)
<1>1. host' \in Hosts
  BY Zenon DEF Hosts
<1> QED
  BY <1>1 DEF HostIs, Hosts

LEMMA HostContainers ==
    ASSUME host \in Hosts, NEW c \in SUBSET Slot,
           host' = [host EXCEPT !.containers = c]
    PROVE  HostIs(c, host.root, host.network, host.broker, host.bootstrap, host.peer, host.other)
<1>1. host' \in Hosts
  BY Zenon DEF Hosts
<1> QED
  BY <1>1 DEF HostIs, Hosts

LEMMA HostRoot ==
    ASSUME host \in Hosts, NEW t \in [Slot -> Root \cup {0}],
           host' = [host EXCEPT !.root = t]
    PROVE  HostIs(host.containers, t, host.network, host.broker, host.bootstrap, host.peer, host.other)
<1>1. host' \in Hosts
  BY Zenon DEF Hosts
<1> QED
  BY <1>1 DEF HostIs, Hosts

LEMMA HostBroker ==
    ASSUME host \in Hosts, NEW b \in [pid : Pid \cup {0}, map : [Slot -> Root \cup {0}]],
           host' = [host EXCEPT !.broker = b]
    PROVE  HostIs(host.containers, host.root, host.network, b, host.bootstrap, host.peer, host.other)
<1>1. host' \in Hosts
  BY Zenon DEF Hosts
<1> QED
  BY <1>1 DEF HostIs, Hosts

LEMMA HostRemoved ==
    ASSUME host \in Hosts, NEW c \in SUBSET Slot, NEW t \in [Slot -> Root \cup {0}],
           host' = [host EXCEPT !.containers = c, !.root = t]
    PROVE  HostIs(c, t, host.network, host.broker, host.bootstrap, host.peer, host.other)
<1>1. host' \in Hosts
  BY Zenon DEF Hosts
<1> QED
  BY <1>1 DEF HostIs, Hosts

LEMMA HostKilled ==
    ASSUME host \in Hosts, NEW b \in [pid : Pid \cup {0}, map : [Slot -> Root \cup {0}]],
           NEW p \in Pid \cup {0},
           host' = [host EXCEPT !.broker = b, !.other = p]
    PROVE  HostIs(host.containers, host.root, host.network, b, host.bootstrap, host.peer, p)
<1>1. host' \in Hosts
  BY Zenon DEF Hosts
<1> QED
  BY <1>1 DEF HostIs, Hosts

LEMMA DiskRecord ==
    ASSUME disk \in Disks, NEW r \in [Slot -> Root \cup {0}],
           disk' = [disk EXCEPT !.record = r]
    PROVE  DiskIs(r, disk.runtime, disk.truth)
<1>1. disk' \in Disks
  BY Zenon DEF Disks
<1> QED
  BY <1>1 DEF DiskIs, Disks

LEMMA DiskRuntime ==
    ASSUME disk \in Disks, NEW r \in [broker : Pid \cup {0}, owned : {"no", "yes"}],
           disk' = [disk EXCEPT !.runtime = r]
    PROVE  DiskIs(disk.record, r, disk.truth)
<1>1. disk' \in Disks
  BY Zenon DEF Disks
<1> QED
  BY <1>1 DEF DiskIs, Disks

LEMMA DiskTruth ==
    ASSUME disk \in Disks, NEW t \in {"none", "open", "PASS", "ERROR"},
           disk' = [disk EXCEPT !.truth = t]
    PROVE  DiskIs(disk.record, disk.runtime, t)
<1>1. disk' \in Disks
  BY Zenon DEF Disks
<1> QED
  BY <1>1 DEF DiskIs, Disks

LEMMA DiskEnrolled ==
    ASSUME disk \in Disks, NEW e \in SUBSET Slot,
           disk' = [disk EXCEPT !.enrolled = e]
    PROVE  DiskIs(disk.record, disk.runtime, disk.truth)
<1>1. disk' \in Disks
  BY Zenon DEF Disks
<1> QED
  BY <1>1 DEF DiskIs, Disks

-----------------------------------------------------------------------------
(* The steps of a command, one by one.                                      *)
Base == Typed /\ Controlled

Silent == UNCHANGED <<channel, faults>>

LEMMA Locations ==
    ASSUME NEW p, p \in {"idle"} \cup UpPcs \cup DownPcs \cup RunPcs
    PROVE  p \in Pcs
BY DEF Pcs

LEMMA BaseFacts ==
    ASSUME Base
    PROVE  /\ cli \in Commanding /\ host \in Hosts /\ disk \in Disks
           /\ cli.at \in Slot \cup {0}
           /\ cli.pc \notin Unplaced => cli.at \in Slot
           /\ cli.pid \in Pid \cup {0} /\ cli.owned \in {"no", "yes"}
           /\ cli.result \in {"none", "failed", "PASS", "ERROR"}
           /\ host.containers \in SUBSET Slot
           /\ host.root \in [Slot -> Root \cup {0}]
           /\ host.broker \in [pid : Pid \cup {0}, map : [Slot -> Root \cup {0}]]
           /\ host.other \in Pid \cup {0}
           /\ disk.record \in [Slot -> Root \cup {0}]
           /\ disk.runtime \in [broker : Pid \cup {0}, owned : {"no", "yes"}]
BY DEF Base, Typed, Controlled, Hosts, Disks, Commanding

LEMMA EnsureNetworkEffect ==
    ASSUME Base, EnsureNetwork
    PROVE  /\ cli.pc = "ensure network" /\ Silent /\ UNCHANGED <<disk, last>>
           /\ Turn("start bootstrap", cli.at, Owned, cli.pid, cli.id, cli.result)
           /\ HostIs(host.containers, host.root,
                     IF host.network = "none" THEN "lab" ELSE host.network,
                     host.broker, host.bootstrap, host.peer, host.other)
           /\ past \subseteq past'
           /\ host.network = "lab" => "again" \in past'
<1>1. Turn("start bootstrap", cli.at, Owned, cli.pid, cli.id, cli.result)
  <2>1. Owned \in {"no", "yes"} /\ "start bootstrap" \in Pcs
    BY DEF Owned, Pcs, UpPcs
  <2>2. QED
    BY <2>1, BaseFacts, TurnOwned DEF EnsureNetwork
<1>2. HostIs(host.containers, host.root,
             IF host.network = "none" THEN "lab" ELSE host.network,
             host.broker, host.bootstrap, host.peer, host.other)
  <2>1. CASE host.network = "none"
    <3>1. host' = [host EXCEPT !.network = "lab"]
      BY <2>1 DEF EnsureNetwork
    <3>2. QED
      BY <2>1, <3>1, BaseFacts, HostNetwork
  <2>2. CASE host.network # "none"
    BY <2>2, BaseFacts DEF EnsureNetwork, HostIs
  <2>3. QED
    BY <2>1, <2>2
<1>3. QED
  BY <1>1, <1>2 DEF EnsureNetwork, At, Quiet, Silent

LEMMA StartBootstrapEffect ==
    ASSUME Base, StartBootstrap
    PROVE  /\ cli.pc = "start bootstrap" /\ Silent /\ UNCHANGED disk
           /\ \/ Over /\ UNCHANGED host
              \/ /\ ~ PipeTaken /\ Steady
                 /\ Turn("create", 1, cli.owned, cli.pid, cli.id, cli.result)
                 /\ HostIs(host.containers, host.root, host.network,
                           host.broker, "serving", host.peer, host.other)
<1>1. CASE PipeTaken
  BY <1>1, BaseFacts, RaisedEffect DEF StartBootstrap, At, Quiet, Silent
<1>2. CASE ~ PipeTaken
  <2>1. "create" \in Pcs
    BY DEF Pcs, UpPcs, Opening
  <2>2. Turn("create", 1, cli.owned, cli.pid, cli.id, cli.result)
    BY <1>2, <2>1, BaseFacts, TurnAt, SlotRange DEF StartBootstrap
  <2>3. HostIs(host.containers, host.root, host.network,
               host.broker, "serving", host.peer, host.other)
    BY <1>2, BaseFacts, HostBootstrap DEF StartBootstrap
  <2>4. QED
    BY <1>2, <2>2, <2>3 DEF StartBootstrap, At, Quiet, Silent
<1>3. QED
  BY <1>1, <1>2

LEMMA CreateContainerEffect ==
    ASSUME Base, CreateContainer
    PROVE  /\ cli.pc = "create" /\ cli.at \in Slot /\ Silent /\ Steady /\ UNCHANGED disk
           /\ To("start")
           /\ HostIs(host.containers \cup {cli.at}, host.root, host.network,
                     host.broker, host.bootstrap, host.peer, host.other)
<1>1. cli.at \in Slot /\ "start" \in Pcs
  BY BaseFacts DEF CreateContainer, At, Unplaced, Pcs, UpPcs, Opening
<1>2. host.containers \cup {cli.at} \in SUBSET Slot
  BY <1>1, BaseFacts
<1>3. host' = [host EXCEPT !.containers = host.containers \cup {cli.at}]
  BY DEF CreateContainer
<1>4. QED
  BY <1>1, <1>2, <1>3, BaseFacts, HostContainers, TurnPc
  DEF CreateContainer, At, Goto, Quiet, Silent

LEMMA StartContainerEffect ==
    ASSUME Base, StartContainer
    PROVE  /\ cli.pc = "start" /\ cli.at \in Slot /\ Steady /\ UNCHANGED <<disk, faults>>
           /\ To("wait ready")
           /\ \/ UNCHANGED <<channel, host>>
              \/ /\ Start(cli.at)
                 /\ \E r \in Root :
                       HostIs(host.containers, [host.root EXCEPT ![cli.at] = r], host.network,
                              host.broker, host.bootstrap, host.peer, host.other)
<1>1. cli.at \in Slot /\ "wait ready" \in Pcs
  BY BaseFacts DEF StartContainer, At, Unplaced, Pcs, UpPcs, Opening
<1>2. To("wait ready")
  BY <1>1, BaseFacts, TurnPc DEF StartContainer, Goto
<1>3. ASSUME sup[cli.at].pc = "off"
      PROVE  /\ Start(cli.at)
             /\ \E r \in Root :
                   HostIs(host.containers, [host.root EXCEPT ![cli.at] = r], host.network,
                          host.broker, host.bootstrap, host.peer, host.other)
  <2> DEFINE r == FreshRoot(cli.at)
  <2>1. r \in Root
    <3>1. \E q \in Root : q # disk.record[cli.at]
      BY NumbersAssumption
    <3>2. QED
      BY <3>1 DEF FreshRoot
  <2>2. host' = [host EXCEPT !.root = [host.root EXCEPT ![cli.at] = r]]
    BY <1>3 DEF StartContainer
  <2> HIDE DEF r
  <2>3. [host.root EXCEPT ![cli.at] = r] \in [Slot -> Root \cup {0}]
    BY <2>1, BaseFacts
  <2>4. QED
    BY <1>3, <2>1, <2>2, <2>3, BaseFacts, HostRoot DEF StartContainer
<1>4. QED
  BY <1>1, <1>2, <1>3 DEF StartContainer, At

LEMMA WaitReadyEffect ==
    ASSUME Base, WaitReady
    PROVE  /\ cli.pc = "wait ready" /\ Silent /\ Steady /\ UNCHANGED <<host, disk>>
           /\ To("inspect")
<1>1. "inspect" \in Pcs
  BY DEF Pcs, UpPcs, Opening
<1>2. QED
  BY <1>1, BaseFacts, TurnPc DEF WaitReady, At, Goto, Quiet, Silent

LEMMA UnwindEffect ==
    ASSUME Base, Unwind
    PROVE  Turn("stop bootstrap", cli.at, cli.owned, cli.pid, cli.id, "failed")
<1>1. "stop bootstrap" \in Pcs
  BY DEF Pcs, UpPcs
<1>2. QED
  BY <1>1, BaseFacts, TurnResult DEF Unwind

LEMMA NotReadyEffect ==
    ASSUME Base, NotReady
    PROVE  /\ cli.pc = "wait ready" /\ Steady /\ UNCHANGED <<channel, host, disk>>
           /\ Turn("stop bootstrap", cli.at, cli.owned, cli.pid, cli.id, "failed")
BY UnwindEffect DEF NotReady, At

LEMMA InspectEffect ==
    ASSUME Base, Inspect
    PROVE  /\ cli.pc = "inspect" /\ cli.at \in Slot /\ Silent /\ Steady /\ UNCHANGED host
           /\ \/ /\ host.root[cli.at] = 0 /\ UNCHANGED disk
                 /\ Turn("stop bootstrap", cli.at, cli.owned, cli.pid, cli.id, "failed")
              \/ /\ host.root[cli.at] # 0
                 /\ DiskIs([disk.record EXCEPT ![cli.at] = host.root[cli.at]],
                           disk.runtime, disk.truth)
                 /\ \/ /\ cli.at < N /\ cli.at + 1 \in Slot
                       /\ Turn("create", cli.at + 1, cli.owned, cli.pid, cli.id, cli.result)
                    \/ cli.at = N /\ To("stop bootstrap")
<1>1. cli.at \in Slot /\ {"create", "stop bootstrap"} \subseteq Pcs
  BY BaseFacts DEF Inspect, At, Unplaced, Pcs, UpPcs, Opening
<1>2. CASE host.root[cli.at] = 0
  BY <1>1, <1>2, UnwindEffect DEF Inspect, At, Quiet, Silent
<1>3. CASE host.root[cli.at] # 0
  <2> DEFINE r == [disk.record EXCEPT ![cli.at] = host.root[cli.at]]
  <2>1. r \in [Slot -> Root \cup {0}]
    BY <1>1, BaseFacts
  <2>2. disk' = [disk EXCEPT !.record = r]
    BY <1>3 DEF Inspect, Recorded
  <2> HIDE DEF r
  <2>3. DiskIs(r, disk.runtime, disk.truth)
    BY <2>1, <2>2, BaseFacts, DiskRecord
  <2>4. CASE cli.at < N
    <3>1. cli.at + 1 \in Slot
      BY <1>1, <2>4, NextSlot
    <3>2. cli' = [cli EXCEPT !.pc = "create", !.at = cli.at + 1]
      BY <1>3, <2>4 DEF Inspect
    <3>3. Turn("create", cli.at + 1, cli.owned, cli.pid, cli.id, cli.result)
      BY <1>1, <3>1, <3>2, BaseFacts, TurnAt
    <3>4. QED
      BY <1>1, <1>3, <2>3, <2>4, <3>1, <3>3 DEF Inspect, At, Quiet, Silent, r
  <2>5. CASE ~ (cli.at < N)
    <3>1. cli.at = N
      BY <1>1, <2>5, NextSlot
    <3>2. To("stop bootstrap")
      BY <1>1, <1>3, <2>5, BaseFacts, TurnPc DEF Inspect
    <3>3. QED
      BY <1>1, <1>3, <2>3, <3>1, <3>2 DEF Inspect, At, Quiet, Silent, r
  <2>6. QED
    BY <2>4, <2>5
<1>4. QED
  BY <1>2, <1>3

LEMMA StopBootstrapEffect ==
    ASSUME Base, StopBootstrap
    PROVE  /\ cli.pc = "stop bootstrap" /\ Silent /\ UNCHANGED disk
           /\ HostIs(host.containers, host.root, host.network,
                     host.broker, "none", host.peer, host.other)
           /\ \/ cli.result = "failed" /\ Over
              \/ cli.result # "failed" /\ To("start broker") /\ Steady
<1>1. "start broker" \in Pcs
  BY DEF Pcs, UpPcs
<1>2. HostIs(host.containers, host.root, host.network,
             host.broker, "none", host.peer, host.other)
  BY BaseFacts, HostBootstrap DEF StopBootstrap
<1>3. QED
  BY <1>1, <1>2, BaseFacts, RaisedEffect, TurnPc DEF StopBootstrap, At, Goto, Quiet, Silent

LEMMA StartBrokerEffect ==
    ASSUME Base, StartBroker
    PROVE  /\ cli.pc = "start broker" /\ Silent /\ Steady /\ UNCHANGED disk
           /\ \E p \in Pid \ {host.other} :
                 /\ Turn("enroll", 1, cli.owned, p, cli.id, cli.result)
                 /\ HostIs(host.containers, host.root, host.network,
                           [pid |-> p, map |-> disk.record],
                           host.bootstrap, host.peer, host.other)
                 /\ p # 0 /\ host'.broker.pid = p /\ host'.broker.map = disk.record
<1>1. "enroll" \in Pcs
  BY DEF Pcs, UpPcs, Launched
<1>2. PICK p \in Pid \ {host.other} :
          /\ host' = [host EXCEPT !.broker = [pid |-> p, map |-> disk.record]]
          /\ cli' = [cli EXCEPT !.pc = "enroll", !.at = 1, !.pid = p]
  BY DEF StartBroker
<1>3. [pid |-> p, map |-> disk.record] \in [pid : Pid \cup {0}, map : [Slot -> Root \cup {0}]]
  BY BaseFacts
<1>4. HostIs(host.containers, host.root, host.network, [pid |-> p, map |-> disk.record],
             host.bootstrap, host.peer, host.other)
  BY <1>2, <1>3, BaseFacts, HostBroker
<1>5. Turn("enroll", 1, cli.owned, p, cli.id, cli.result)
  BY <1>1, <1>2, BaseFacts, TurnBroker, SlotRange
<1>6. p # 0
  BY NumbersAssumption
<1>7. host'.broker.pid = p /\ host'.broker.map = disk.record
  BY <1>4 DEF HostIs
<1>8. QED
  BY <1>4, <1>5, <1>6, <1>7 DEF StartBroker, At, Quiet, Silent

(* A call is posted. *)
Posts(t, p) ==
    /\ Steady /\ UNCHANGED <<host, disk, faults>>
    /\ \E i \in Id : /\ Post(i, cli.at, t)
                     /\ Turn(p, cli.at, cli.owned, cli.pid, i, cli.result)

LEMMA AskEffect ==
    ASSUME Base, NEW t, NEW p \in Awaiting, Ask(t, p)
    PROVE  Posts(t, p)
<1>1. p \in Pcs
  BY DEF Awaiting, Pcs, UpPcs, Launched, DownPcs, Visiting, RunPcs
<1>2. PICK i \in Names(cli.at) : /\ Post(i, cli.at, t)
                                 /\ cli' = [cli EXCEPT !.pc = p, !.id = i]
                                 /\ Steady /\ UNCHANGED <<host, disk, faults>>
  BY DEF Ask
<1>3. i \in Id
  BY DEF Names
<1>4. Turn(p, cli.at, cli.owned, cli.pid, i, cli.result)
  BY <1>1, <1>2, <1>3, BaseFacts, TurnId
<1>5. QED
  BY <1>2, <1>3, <1>4 DEF Posts

LEMMA EnrollEffect ==
    ASSUME Base, Enroll
    PROVE  /\ cli.pc = "enroll" /\ cli.at \in Slot
           /\ \/ To("start agent") /\ Silent /\ Steady /\ UNCHANGED <<host, disk>>
              \/ Posts("agent-command", "enrolling")
<1>1. cli.pc = "enroll" /\ cli.at \in Slot /\ "start agent" \in Pcs
  BY BaseFacts DEF Enroll, At, Unplaced, Pcs, UpPcs, Launched
<1>2. CASE cli.at \in disk.enrolled
  BY <1>1, <1>2, BaseFacts, TurnPc DEF Enroll, Goto, Quiet, Silent
<1>3. CASE cli.at \notin disk.enrolled
  BY <1>1, <1>3, AskEffect DEF Enroll, Awaiting
<1>4. QED
  BY <1>2, <1>3

LEMMA StartAgentEffect ==
    ASSUME Base, StartAgent
    PROVE  cli.pc = "start agent" /\ cli.at \in Slot /\ Posts("start-agent", "starting")
BY BaseFacts, AskEffect DEF StartAgent, At, Unplaced, Awaiting

(* An answer is received. *)
Receives == Receive(cli.id) /\ Steady /\ UNCHANGED <<host, disk, faults>>

LEMMA EnrolledEffect ==
    ASSUME Base, Enrolled
    PROVE  /\ cli.pc = "enrolling" /\ cli.at \in Slot /\ Receives
           /\ To("start agent") \/ To("kill broker")
<1>1. {"start agent", "kill broker"} \subseteq Pcs
  BY DEF Pcs, UpPcs, Launched
<1>2. CASE responses[cli.id] = "ok" /\ cli.at \in disk.enrolled
  BY <1>1, <1>2, BaseFacts, TurnPc DEF Enrolled, At, Goto, Receives, Unplaced
<1>3. CASE ~ (responses[cli.id] = "ok" /\ cli.at \in disk.enrolled)
  BY <1>1, <1>3, BaseFacts, TurnPc DEF Enrolled, At, Goto, Receives, Unplaced
<1>4. QED
  BY <1>2, <1>3

LEMMA AgentStartedEffect ==
    ASSUME Base, AgentStarted
    PROVE  /\ cli.pc = "starting" /\ cli.at \in Slot /\ Receives
           /\ \/ To("kill broker")
              \/ /\ responses[cli.id] = "ok" /\ cli.at < N /\ cli.at + 1 \in Slot
                 /\ Turn("enroll", cli.at + 1, cli.owned, cli.pid, cli.id, cli.result)
              \/ responses[cli.id] = "ok" /\ cli.at = N /\ To("save runtime")
<1>1. /\ cli.pc = "starting" /\ cli.at \in Slot /\ Receives
      /\ {"kill broker", "enroll", "save runtime"} \subseteq Pcs
  BY BaseFacts DEF AgentStarted, At, Receives, Unplaced, Pcs, UpPcs, Launched
<1>2. CASE responses[cli.id] # "ok"
  BY <1>1, <1>2, BaseFacts, TurnPc DEF AgentStarted
<1>3. CASE responses[cli.id] = "ok" /\ cli.at < N
  <2>1. cli.at + 1 \in Slot
    BY <1>1, <1>3, NextSlot
  <2>2. cli' = [cli EXCEPT !.pc = "enroll", !.at = cli.at + 1]
    BY <1>3, BaseFacts DEF AgentStarted, Commanding
  <2>3. QED
    BY <1>1, <1>3, <2>1, <2>2, BaseFacts, TurnAt
<1>4. CASE responses[cli.id] = "ok" /\ ~ (cli.at < N)
  <2>1. cli.at = N
    BY <1>1, <1>4, NextSlot
  <2>2. cli' = [cli EXCEPT !.pc = "save runtime"]
    BY <1>4 DEF AgentStarted
  <2>3. QED
    BY <1>1, <1>4, <2>1, <2>2, BaseFacts, TurnPc
<1>5. QED
  BY <1>2, <1>3, <1>4

(* A wait that ends without an answer. *)
Lapses ==
    /\ GiveUp(cli.id) /\ UNCHANGED <<host, disk, last>>
    /\ past \subseteq past' /\ "late" \in past'

LEMMA LapseEffect ==
    ASSUME TimesOut, UNCHANGED <<host, disk, last>>
    PROVE  Lapses
BY DEF TimesOut, Lapses

LEMMA NoAnswerEffect ==
    ASSUME Base, NoAnswer
    PROVE  cli.pc \in {"enrolling", "starting"} /\ Lapses /\ To("kill broker")
<1>1. "kill broker" \in Pcs
  BY DEF Pcs, UpPcs
<1>2. QED
  BY <1>1, BaseFacts, TurnPc, LapseEffect DEF NoAnswer, Goto

LEMMA SaveRuntimeEffect ==
    ASSUME Base, SaveRuntime
    PROVE  /\ cli.pc = "save runtime" /\ Silent /\ UNCHANGED host /\ Done
           /\ DiskIs(disk.record, [broker |-> cli.pid, owned |-> cli.owned], disk.truth)
           /\ disk'.runtime.broker = cli.pid /\ disk'.runtime.owned = cli.owned
<1>1. [broker |-> cli.pid, owned |-> cli.owned] \in [broker : Pid \cup {0}, owned : {"no", "yes"}]
  BY BaseFacts
<1>2. DiskIs(disk.record, [broker |-> cli.pid, owned |-> cli.owned], disk.truth)
  BY <1>1, BaseFacts, DiskRuntime DEF SaveRuntime
<1>3. disk'.runtime.broker = cli.pid /\ disk'.runtime.owned = cli.owned
  BY <1>2 DEF DiskIs
<1>4. QED
  BY <1>2, <1>3, BaseFacts, SucceededEffect DEF SaveRuntime, At, Quiet, Silent

(* What taskkill leaves. *)
Slain(pid) ==
    /\ host'.broker.pid = IF host.broker.pid = pid THEN 0 ELSE host.broker.pid
    /\ HostIs(host.containers, host.root, host.network,
              IF host.broker.pid = pid THEN NoBroker ELSE host.broker,
              host.bootstrap, host.peer, IF pid # 0 /\ host.other = pid THEN 0 ELSE host.other)

LEMMA NoBrokerType == NoBroker \in [pid : Pid \cup {0}, map : [Slot -> Root \cup {0}]]
BY DEF NoBroker

LEMMA KilledEffect ==
    ASSUME Base, NEW pid, host' = Killed(pid)
    PROVE  Slain(pid)
<1> DEFINE b == IF host.broker.pid = pid THEN NoBroker ELSE host.broker
           o == IF pid # 0 /\ host.other = pid THEN 0 ELSE host.other
<1>1. host' = [host EXCEPT !.broker = b, !.other = o]
  BY DEF Killed
<1>2. b \in [pid : Pid \cup {0}, map : [Slot -> Root \cup {0}]] /\ o \in Pid \cup {0}
  BY BaseFacts, NoBrokerType
<1> HIDE DEF b, o
<1>3. HostIs(host.containers, host.root, host.network, b, host.bootstrap, host.peer, o)
  BY <1>1, <1>2, BaseFacts, HostKilled
<1>4. host'.broker = b
  BY <1>3 DEF HostIs
<1>5. host'.broker.pid = IF host.broker.pid = pid THEN 0 ELSE host.broker.pid
  BY <1>4 DEF b, NoBroker
<1>6. QED
  BY <1>3, <1>5 DEF Slain, b, o

LEMMA KillBrokerEffect ==
    ASSUME Base, KillBroker
    PROVE  cli.pc = "kill broker" /\ Silent /\ UNCHANGED disk /\ Slain(cli.pid) /\ Over
BY BaseFacts, KilledEffect, RaisedEffect DEF KillBroker, At, Quiet, Silent

LEMMA LoadRuntimeEffect ==
    ASSUME Base, LoadRuntime
    PROVE  /\ cli.pc = "load" /\ cli.at \in Slot /\ Silent /\ Steady /\ UNCHANGED <<host, disk>>
           /\ Turn("visit", cli.at, disk.runtime.owned, disk.runtime.broker, cli.id, cli.result)
<1>1. /\ "visit" \in Pcs /\ disk.runtime.broker \in Pid \cup {0}
      /\ disk.runtime.owned \in {"no", "yes"} /\ cli \in Commanding
  BY BaseFacts DEF Pcs, DownPcs, Visiting
<1>2. cli' = [cli EXCEPT !.pc = "visit", !.pid = disk.runtime.broker, !.owned = disk.runtime.owned]
  BY DEF LoadRuntime
<1>3. Turn("visit", cli.at, disk.runtime.owned, disk.runtime.broker, cli.id, cli.result)
  BY <1>1, <1>2, TurnRuntime
<1>4. QED
  BY <1>3, BaseFacts DEF LoadRuntime, At, Quiet, Silent, Unplaced

(* On to the next endpoint, or to the broker. *)
Goes == \/ /\ cli.at < N /\ cli.at + 1 \in Slot
           /\ Turn("visit", cli.at + 1, cli.owned, cli.pid, cli.id, cli.result)
        \/ cli.at = N /\ To("stop broker")

LEMMA VisitedEffect ==
    ASSUME Base, cli.at \in Slot, Visited
    PROVE  Goes
<1>1. {"visit", "stop broker"} \subseteq Pcs
  BY DEF Pcs, DownPcs, Visiting, Closing
<1>2. CASE cli.at < N
  <2>1. cli.at + 1 \in Slot
    BY <1>2, NextSlot
  <2>2. cli' = [cli EXCEPT !.pc = "visit", !.at = cli.at + 1]
    BY <1>2, BaseFacts DEF Visited, Commanding
  <2>3. QED
    BY <1>1, <1>2, <2>1, <2>2, BaseFacts, TurnAt DEF Goes
<1>3. CASE ~ (cli.at < N)
  <2>1. cli.at = N
    BY <1>3, NextSlot
  <2>2. cli' = [cli EXCEPT !.pc = "stop broker"]
    BY <1>3 DEF Visited
  <2>3. QED
    BY <1>1, <2>1, <2>2, BaseFacts, TurnPc DEF Goes
<1>4. QED
  BY <1>2, <1>3

LEMMA VisitEffect ==
    ASSUME Base, Visit
    PROVE  /\ cli.pc = "visit" /\ cli.at \in Slot
           /\ \/ Posts("shutdown", "asking")
              \/ /\ disk.record[cli.at] = 0 \/ cli.at \notin host.containers
                 /\ Goes /\ Silent /\ Steady /\ UNCHANGED <<host, disk>>
<1>1. cli.pc = "visit" /\ cli.at \in Slot
  BY BaseFacts DEF Visit, At, Unplaced
<1>2. QED
  BY <1>1, AskEffect, VisitedEffect DEF Visit, Awaiting, Quiet, Silent

LEMMA ShutDownEffect ==
    ASSUME Base, ShutDown
    PROVE  cli.pc = "asking" /\ cli.at \in Slot /\ Receives /\ To("stop")
<1>1. "stop" \in Pcs
  BY DEF Pcs, DownPcs, Visiting
<1>2. QED
  BY <1>1, BaseFacts, TurnPc DEF ShutDown, At, Goto, Receives, Unplaced

LEMMA NotShutDownEffect ==
    ASSUME Base, NotShutDown
    PROVE  cli.pc = "asking" /\ Lapses /\ To("stop")
<1>1. "stop" \in Pcs
  BY DEF Pcs, DownPcs, Visiting
<1>2. QED
  BY <1>1, BaseFacts, TurnPc, LapseEffect DEF NotShutDown, At, Goto

(* The root process of one container ends. *)
Rootless(s) == [host.root EXCEPT ![s] = 0]

LEMMA RootlessType ==
    ASSUME Base, NEW s \in Slot
    PROVE  Rootless(s) \in [Slot -> Root \cup {0}]
BY BaseFacts DEF Rootless

LEMMA StopContainerEffect ==
    ASSUME Base, StopContainer
    PROVE  /\ cli.pc = "stop" /\ cli.at \in Slot /\ Halt(cli.at) /\ To("remove")
           /\ UNCHANGED <<disk, last>>
           /\ HostIs(host.containers, Rootless(cli.at), host.network,
                     host.broker, host.bootstrap, host.peer, host.other)
<1>1. cli.pc = "stop" /\ cli.at \in Slot /\ "remove" \in Pcs
  BY BaseFacts DEF StopContainer, At, Unplaced, Pcs, DownPcs, Visiting
<1>2. host' = [host EXCEPT !.root = Rootless(cli.at)]
  BY DEF StopContainer, Rootless
<1>3. QED
  BY <1>1, <1>2, BaseFacts, RootlessType, HostRoot, TurnPc DEF StopContainer, Goto

LEMMA RemoveContainerEffect ==
    ASSUME Base, RemoveContainer
    PROVE  /\ cli.pc = "remove" /\ cli.at \in Slot /\ Halt(cli.at) /\ Goes
           /\ UNCHANGED <<disk, last>>
           /\ HostIs(host.containers \ {cli.at}, Rootless(cli.at), host.network,
                     host.broker, host.bootstrap, host.peer, host.other)
<1>1. cli.pc = "remove" /\ cli.at \in Slot
  BY BaseFacts DEF RemoveContainer, At, Unplaced
<1>2. host' = [host EXCEPT !.containers = host.containers \ {cli.at}, !.root = Rootless(cli.at)]
  BY DEF RemoveContainer, Rootless
<1>3. host.containers \ {cli.at} \in SUBSET Slot
  BY BaseFacts
<1>4. HostIs(host.containers \ {cli.at}, Rootless(cli.at), host.network,
             host.broker, host.bootstrap, host.peer, host.other)
  BY <1>1, <1>2, <1>3, BaseFacts, RootlessType, HostRemoved
<1>5. QED
  BY <1>1, <1>4, VisitedEffect DEF RemoveContainer

LEMMA StopBrokerEffect ==
    ASSUME Base, StopBroker
    PROVE  /\ cli.pc = "stop broker" /\ Silent /\ Steady /\ UNCHANGED disk
           /\ Slain(cli.pid) /\ To("remove network")
<1>1. "remove network" \in Pcs
  BY DEF Pcs, DownPcs, Closing
<1>2. QED
  BY <1>1, BaseFacts, KilledEffect, TurnPc DEF StopBroker, At, Goto, Quiet, Silent

LEMMA RemoveNetworkEffect ==
    ASSUME Base, RemoveNetwork
    PROVE  /\ cli.pc = "remove network" /\ Silent /\ Steady /\ UNCHANGED disk
           /\ To("remove files")
           /\ \/ /\ cli.owned = "yes"
                 /\ HostIs(host.containers, host.root, "none", host.broker,
                           host.bootstrap, host.peer, host.other)
              \/ /\ ~ (cli.owned = "yes" /\ \A s \in Slot : sup[s].pc = "off")
                 /\ UNCHANGED host
<1>1. "remove files" \in Pcs
  BY DEF Pcs, DownPcs, Closing
<1>2. QED
  BY <1>1, BaseFacts, HostNetwork, TurnPc DEF RemoveNetwork, At, Goto, Quiet, Silent

LEMMA RemoveFilesEffect ==
    ASSUME Base, RemoveFiles
    PROVE  /\ cli.pc = "remove files" /\ Silent /\ UNCHANGED host /\ Done
           /\ DiskIs(disk.record, NoRuntime, disk.truth)
           /\ disk'.runtime.broker = 0 /\ disk'.runtime.owned = "no"
<1>1. NoRuntime \in [broker : Pid \cup {0}, owned : {"no", "yes"}]
  BY DEF NoRuntime
<1>2. DiskIs(disk.record, NoRuntime, disk.truth)
  BY <1>1, BaseFacts, DiskRuntime DEF RemoveFiles, AfterDown
<1>3. disk'.runtime.broker = 0 /\ disk'.runtime.owned = "no"
  BY <1>2 DEF DiskIs, NoRuntime
<1>4. QED
  BY <1>2, <1>3, BaseFacts, SucceededEffect DEF RemoveFiles, At, Quiet, Silent

LEMMA NoScenarioEffect ==
    ASSUME Base, NoScenario
    PROVE  cli.pc = "open run" /\ Silent /\ UNCHANGED <<host, disk>> /\ Over
BY BaseFacts, RaisedEffect DEF NoScenario, At, Quiet, Silent

LEMMA OpenRunEffect ==
    ASSUME Base, OpenRun
    PROVE  /\ cli.pc = "open run" /\ Silent /\ Steady /\ UNCHANGED host
           /\ DiskIs(disk.record, disk.runtime, "open")
           /\ To("start peer") \/ (cli.kind # "001" /\ To("script"))
<1>1. {"start peer", "script"} \subseteq Pcs
  BY DEF Pcs, RunPcs
<1>2. DiskIs(disk.record, disk.runtime, "open")
  BY BaseFacts, DiskTruth DEF OpenRun
<1>3. To("start peer") \/ (cli.kind # "001" /\ To("script"))
  <2>1. CASE cli.kind = "001"
    BY <1>1, <2>1, BaseFacts, TurnPc DEF OpenRun, Goto
  <2>2. CASE cli.kind # "001"
    BY <1>1, <2>2, BaseFacts, TurnPc DEF OpenRun, Goto
  <2>3. QED
    BY <2>1, <2>2
<1>4. QED
  BY <1>2, <1>3 DEF OpenRun, At, Quiet, Silent

LEMMA StartPeerEffect ==
    ASSUME Base, StartPeer
    PROVE  /\ cli.pc = "start peer" /\ Silent /\ Steady /\ UNCHANGED disk /\ To("script")
           /\ HostIs(host.containers, host.root, host.network,
                     host.broker, host.bootstrap, "listening", host.other)
<1>1. "script" \in Pcs
  BY DEF Pcs, RunPcs
<1>2. QED
  BY <1>1, BaseFacts, HostPeer, TurnPc DEF StartPeer, At, Goto, Quiet, Silent

LEMMA ScriptEffect ==
    ASSUME Base, Script
    PROVE  cli.pc = "script" /\ cli.at \in Slot /\ Posts("scenario", "await script")
BY BaseFacts, AskEffect DEF Script, At, Unplaced, Awaiting

(* The verdict on a scenario. *)
Judges == \E r \in {"PASS", "ERROR"} :
             Turn("stop peer", cli.at, cli.owned, cli.pid, cli.id, r)

LEMMA VerdictEffect ==
    ASSUME Base, NEW answer, Verdict(answer)
    PROVE  Judges
<1> DEFINE r == IF answer = "ok" THEN "PASS" ELSE "ERROR"
<1>1. "stop peer" \in Pcs /\ r \in {"PASS", "ERROR"} /\ r \in {"failed", "PASS", "ERROR"}
  BY DEF Pcs, RunPcs
<1>2. cli' = [cli EXCEPT !.pc = "stop peer", !.result = r]
  BY DEF Verdict
<1> HIDE DEF r
<1>3. QED
  BY <1>1, <1>2, BaseFacts, TurnResult DEF Judges

LEMMA ScriptEndsEffect ==
    ASSUME Base, ScriptEnds
    PROVE  cli.pc = "await script" /\ cli.at \in Slot /\ Receives /\ Judges
BY BaseFacts, VerdictEffect DEF ScriptEnds, At, Receives, Unplaced

LEMMA ScriptLateEffect ==
    ASSUME Base, ScriptLate
    PROVE  cli.pc = "await script" /\ Lapses /\ Judges
BY LapseEffect, VerdictEffect DEF ScriptLate, At

LEMMA StopPeerEffect ==
    ASSUME Base, StopPeer
    PROVE  /\ cli.pc = "stop peer" /\ Silent /\ Steady /\ UNCHANGED disk /\ To("close run")
           /\ HostIs(host.containers, host.root, host.network,
                     host.broker, host.bootstrap, "none", host.other)
<1>1. "close run" \in Pcs
  BY DEF Pcs, RunPcs
<1>2. QED
  BY <1>1, BaseFacts, HostPeer, TurnPc DEF StopPeer, At, Goto, Quiet, Silent

LEMMA CloseRunEffect ==
    ASSUME Base, CloseRun
    PROVE  /\ cli.pc = "close run" /\ Silent /\ UNCHANGED host /\ Done
           /\ DiskIs(disk.record, disk.runtime, cli.result)
<1>1. cli.result \in {"PASS", "ERROR"}
  BY DEF Base, Controlled, CloseRun, At
<1>2. DiskIs(disk.record, disk.runtime, cli.result)
  BY <1>1, BaseFacts, DiskTruth DEF CloseRun
<1>3. QED
  BY <1>2, BaseFacts, SucceededEffect DEF CloseRun, At, Quiet, Silent

-----------------------------------------------------------------------------
(* The steps of the environment and of the supervisors.                     *)
LEMMA BeginEffect ==
    ASSUME Base, Begin
    PROVE  cli.cmd = "none" /\ Silent /\ UNCHANGED <<host, disk, past>> /\ last' = "none" /\ Fresh
<1>1. PICK steps \in Commands : cli' = Launch(steps)
  BY DEF Begin
<1>2. steps \in Seq(FleetStep)
  BY CommandsAssumption
<1>3. QED
  BY <1>1, <1>2, FreshLaunch DEF Begin, Quiet, Silent

LEMMA StepFailsEffect ==
    ASSUME Base, StepFails
    PROVE  /\ UNCHANGED <<channel, host, disk>>
           /\ \/ /\ cli.pc \in {"ensure network", "start bootstrap", "start broker", "open run"}
                 /\ Over
              \/ /\ cli.pc \in {"create", "start", "inspect"} /\ Steady
                 /\ Turn("stop bootstrap", cli.at, cli.owned, cli.pid, cli.id, "failed")
              \/ /\ cli.pc \in {"enroll", "start agent", "save runtime"} /\ Steady
                 /\ To("kill broker")
              \/ cli.pc \in {"start peer", "script"} /\ Steady /\ Judges
<1>1. "kill broker" \in Pcs
  BY DEF Pcs, UpPcs
<1>2. ASSUME Raised PROVE Over
  BY <1>2, BaseFacts, RaisedEffect
<1>3. ASSUME Unwind
      PROVE  Turn("stop bootstrap", cli.at, cli.owned, cli.pid, cli.id, "failed")
  BY <1>3, UnwindEffect
<1>4. ASSUME Goto("kill broker") PROVE To("kill broker")
  BY <1>1, <1>4, BaseFacts, TurnPc DEF Goto
<1>5. ASSUME Verdict("raised") PROVE Judges
  BY <1>5, VerdictEffect
<1>6. QED
  BY <1>2, <1>3, <1>4, <1>5 DEF StepFails

LEMMA StepIgnoredEffect ==
    ASSUME Base, StepIgnored
    PROVE  /\ UNCHANGED <<channel, host, disk>>
           /\ past \subseteq past' /\ "ignored" \in past'
           /\ \/ cli.pc = "stop" /\ To("remove") /\ last' = last
              \/ cli.pc = "remove" /\ Goes /\ last' = last
              \/ cli.pc = "stop broker" /\ To("remove network") /\ last' = last
              \/ cli.pc = "remove network" /\ To("remove files") /\ last' = last
              \/ cli.pc = "kill broker" /\ Over /\ "failed" \in past'
              \/ cli.pc = "remove files" /\ Ends /\ "stale" \in past'
<1>1. {"remove", "remove network", "remove files"} \subseteq Pcs
  BY DEF Pcs, DownPcs, Visiting, Closing
<1>2. /\ UNCHANGED <<channel, host, disk>>
      /\ past \subseteq past' /\ "ignored" \in past'
  BY DEF StepIgnored
<1>3. ASSUME At("stop"), Goto("remove") PROVE cli.pc = "stop" /\ To("remove")
  BY <1>1, <1>3, BaseFacts, TurnPc DEF At, Goto
<1>4. ASSUME At("remove"), Visited PROVE cli.pc = "remove" /\ Goes
  BY <1>4, BaseFacts, VisitedEffect DEF At, Unplaced
<1>5. ASSUME At("stop broker"), Goto("remove network")
      PROVE  cli.pc = "stop broker" /\ To("remove network")
  BY <1>1, <1>5, BaseFacts, TurnPc DEF At, Goto
<1>6. ASSUME At("remove network"), Goto("remove files")
      PROVE  cli.pc = "remove network" /\ To("remove files")
  BY <1>1, <1>6, BaseFacts, TurnPc DEF At, Goto
<1>7. ASSUME At("kill broker"), Raises, past' = past \cup {"ignored", "failed"}
      PROVE  cli.pc = "kill broker" /\ Over /\ "failed" \in past'
  BY <1>7, BaseFacts, RaisesEffect DEF At, Over
<1>8. ASSUME At("remove files"), Returns, past' = past \cup {"ignored", "stale"}
      PROVE  cli.pc = "remove files" /\ Ends /\ "stale" \in past'
  BY <1>8, BaseFacts, ReturnsEffect DEF At
<1>9. QED
  BY <1>2, <1>3, <1>4, <1>5, <1>6, <1>7, <1>8 DEF StepIgnored

LEMMA KillEffect ==
    ASSUME Base, Kill
    PROVE  /\ UNCHANGED <<host, disk>> /\ Fresh /\ cli'.cmd = "none" /\ last' = "none"
           /\ past \subseteq past' /\ "kill" \in past'
           /\ IF cli.pc \in Awaiting THEN GiveUp(cli.id) /\ "late" \in past'
                                     ELSE UNCHANGED channel
BY FreshIdle DEF Kill, Awaiting

LEMMA RebootEffect ==
    ASSUME Base, Reboot
    PROVE  /\ UNCHANGED <<disk, commands, type, responses, ready>>
           /\ Fresh /\ cli'.cmd = "none" /\ last' = "none"
           /\ past \subseteq past' /\ {"reboot", "late"} \subseteq past'
           /\ HostIs(host.containers, [s \in Slot |-> 0], host.network, NoBroker, "none", "none", 0)
           /\ host'.broker.pid = 0
           /\ sup' = [s \in Slot |-> Off] /\ agent' = [s \in Slot |-> "none"] /\ waiting' = {}
<1>1. HostIs(host.containers, [s \in Slot |-> 0], host.network, NoBroker, "none", "none", 0)
  <2>1. host' = [host EXCEPT !.root = [s \in Slot |-> 0], !.broker = NoBroker,
                             !.bootstrap = "none", !.peer = "none", !.other = 0]
    BY DEF Reboot
  <2>2. [s \in Slot |-> 0] \in [Slot -> Root \cup {0}]
    OBVIOUS
  <2> DEFINE roots == [s \in Slot |-> 0]
  <2> HIDE DEF roots
  <2>3. host' = [host EXCEPT !.root = roots, !.broker = NoBroker,
                             !.bootstrap = "none", !.peer = "none", !.other = 0]
    BY <2>1 DEF roots
  <2>4. roots \in [Slot -> Root \cup {0}]
    BY <2>2 DEF roots
  <2>5. host' \in Hosts
    BY <2>3, <2>4, BaseFacts, NoBrokerType, Zenon DEF Hosts
  <2>6. HostIs(host.containers, roots, host.network, NoBroker, "none", "none", 0)
    BY <2>3, <2>5, BaseFacts DEF HostIs, Hosts
  <2>7. QED
    BY <2>6 DEF roots
<1>2. host'.broker.pid = 0
  BY <1>1 DEF HostIs, NoBroker
<1>3. QED
  BY <1>1, <1>2, FreshIdle DEF Reboot

LEMMA BrokerDiesEffect ==
    ASSUME Base, BrokerDies
    PROVE  /\ Hit /\ UNCHANGED <<disk, channel>> /\ past \subseteq past' /\ "broker" \in past'
           /\ HostIs(host.containers, host.root, host.network,
                     NoBroker, host.bootstrap, host.peer, host.other)
           /\ host'.broker.pid = 0
<1>1. HostIs(host.containers, host.root, host.network,
             NoBroker, host.bootstrap, host.peer, host.other)
  BY BaseFacts, NoBrokerType, HostBroker DEF BrokerDies
<1>2. host'.broker.pid = 0
  BY <1>1 DEF HostIs, NoBroker
<1>3. QED
  BY <1>1, <1>2, BaseFacts, TurnHit DEF BrokerDies

LEMMA ContainerDiesEffect ==
    ASSUME Base, NEW s \in Slot, ContainerDies(s)
    PROVE  /\ Hit /\ UNCHANGED disk /\ past \subseteq past' /\ "crash" \in past' /\ Crash(s)
           /\ commands[s] # {} => "late" \in past'
           /\ HostIs(host.containers, Rootless(s), host.network,
                     host.broker, host.bootstrap, host.peer, host.other)
<1>1. Mishap("crash", Left(s)) /\ Crash(s) /\ host' = [host EXCEPT !.root = Rootless(s)]
  BY DEF ContainerDies, Rootless
<1>2. Hit /\ past' = past \cup {"crash"} \cup Left(s) /\ disk' = disk
  BY <1>1, BaseFacts, TurnHit
<1>3. QED
  BY <1>1, <1>2, BaseFacts, RootlessType, HostRoot DEF Left

LEMMA AgentExitsEffect ==
    ASSUME Base, NEW s \in Slot, AgentExits(s)
    PROVE  /\ Hit /\ UNCHANGED <<disk, host>> /\ past \subseteq past' /\ "agent" \in past'
           /\ AgentDies(s)
<1>1. Mishap("agent", {})
  BY DEF AgentExits
<1>2. Hit /\ past' = past \cup {"agent"} \cup {} /\ disk' = disk
  BY <1>1, BaseFacts, TurnHit
<1>3. QED
  BY <1>2 DEF AgentExits

LEMMA OtherStartsEffect ==
    ASSUME Base, OtherStarts
    PROVE  /\ Silent /\ Steady /\ UNCHANGED <<disk, cli>> /\ host.other = 0
           /\ \E p \in Pid : /\ p # host.broker.pid
                             /\ HostIs(host.containers, host.root, host.network,
                                       host.broker, host.bootstrap, host.peer, p)
<1>1. PICK p \in {disk.runtime.broker, cli.pid} \ {0, host.broker.pid} :
          host' = [host EXCEPT !.other = p]
  BY DEF OtherStarts
<1>2. p \in Pid /\ p \in Pid \cup {0} /\ p # host.broker.pid
  BY <1>1, BaseFacts
<1>3. QED
  BY <1>1, <1>2, BaseFacts, HostOther DEF OtherStarts, Quiet, Silent

LEMMA OtherExitsEffect ==
    ASSUME Base, OtherExits
    PROVE  /\ Silent /\ Steady /\ UNCHANGED <<disk, cli>>
           /\ HostIs(host.containers, host.root, host.network,
                     host.broker, host.bootstrap, host.peer, 0)
BY BaseFacts, HostOther DEF OtherExits, Quiet, Silent

LEMMA ForeignNetworkEffect ==
    ASSUME Base, ForeignNetwork
    PROVE  /\ Silent /\ Steady /\ UNCHANGED <<disk, cli>> /\ host.network = "none"
           /\ HostIs(host.containers, host.root, "foreign",
                     host.broker, host.bootstrap, host.peer, host.other)
BY BaseFacts, HostNetwork DEF ForeignNetwork, Quiet, Silent

(* The root processes when the supervisor of s may have exited. *)
RootsAfter(s) == [host.root EXCEPT ![s] = IF sup'[s].pc = "off" THEN 0 ELSE host.root[s]]

LEMMA RootAfterEffect ==
    ASSUME Base, NEW s \in Slot, host' = RootAfter(s)
    PROVE  HostIs(host.containers, RootsAfter(s), host.network,
                  host.broker, host.bootstrap, host.peer, host.other)
<1>1. RootsAfter(s) \in [Slot -> Root \cup {0}]
  BY BaseFacts DEF RootsAfter
<1>2. host' = [host EXCEPT !.root = RootsAfter(s)]
  BY DEF RootAfter, RootsAfter
<1>3. QED
  BY <1>1, <1>2, BaseFacts, HostRoot

LEMMA CommandStaysEffect ==
    ASSUME Base, NEW s \in Slot, CommandStays(s)
    PROVE  /\ Hit /\ UNCHANGED disk /\ past \subseteq past' /\ "remove" \in past'
           /\ RemoveFails(s)
           /\ HostIs(host.containers, RootsAfter(s), host.network,
                     host.broker, host.bootstrap, host.peer, host.other)
<1>1. Mishap("remove", {})
  BY DEF CommandStays
<1>2. Hit /\ past' = past \cup {"remove"} \cup {} /\ disk' = disk
  BY <1>1, BaseFacts, TurnHit
<1>3. QED
  BY <1>2, RootAfterEffect DEF CommandStays

LEMMA SuperviseEffect ==
    ASSUME Base, NEW s \in Slot, Supervise(s)
    PROVE  /\ Work(s) /\ UNCHANGED <<faults, cli, last, past>>
           /\ DiskIs(disk.record, disk.runtime, disk.truth)
           /\ HostIs(host.containers, RootsAfter(s), host.network,
                     host.broker, host.bootstrap, host.peer, host.other)
<1> DEFINE e == IF sup[s].pc = "execute" /\ sup'[s].status = "ok"
                   /\ type[sup[s].at] = "agent-command"
                THEN disk.enrolled \cup {s} ELSE disk.enrolled
<1>1. e \in SUBSET Slot
  BY BaseFacts DEF Disks
<1>2. disk' = [disk EXCEPT !.enrolled = e]
  BY DEF Supervise
<1> HIDE DEF e
<1>3. DiskIs(disk.record, disk.runtime, disk.truth)
  BY <1>1, <1>2, BaseFacts, DiskEnrolled
<1>4. QED
  BY <1>3, RootAfterEffect DEF Supervise

(* The stop of a container that runs, or not. *)
LEMMA HaltEffect ==
    ASSUME NEW s, Halt(s)
    PROVE  /\ (sup[s].pc = "off" /\ UNCHANGED channel) \/ Crash(s)
           /\ past \subseteq past'
           /\ commands[s] # {} => "late" \in past'
BY DEF Halt, Left

-----------------------------------------------------------------------------
LEMMA ControlledStep ==
    ASSUME Base, Controlled, FleetNext
    PROVE  Controlled'
<1>1. CASE Begin
  BY <1>1, BeginEffect, SlotRange
  DEF Controlled, Fresh, UpPcs, DownPcs, Opening, Launched, Visiting, Closing, Unplaced
<1>2. CASE EnsureNetwork \/ StartBootstrap \/ CreateContainer
  BY <1>2, EnsureNetworkEffect, StartBootstrapEffect, CreateContainerEffect, SlotRange
  DEF Controlled, Steady, Turn, To, Fresh, Over, UpPcs, DownPcs, Opening, Launched,
      Visiting, Closing, Unplaced
<1>3. CASE StartContainer \/ WaitReady \/ NotReady \/ Inspect
  BY <1>3, StartContainerEffect, WaitReadyEffect, NotReadyEffect, InspectEffect
  DEF Controlled, Steady, Turn, To, UpPcs, DownPcs, Opening, Visiting, Closing, Unplaced
<1>4. CASE StopBootstrap \/ StartBroker \/ Enroll \/ StartAgent
  BY <1>4, StopBootstrapEffect, StartBrokerEffect, EnrollEffect, StartAgentEffect,
     SlotRange
  DEF Controlled, Steady, Turn, To, Fresh, Over, Posts, UpPcs, DownPcs, Opening,
      Launched, Visiting, Closing, Unplaced
<1>5. CASE Enrolled \/ AgentStarted \/ NoAnswer
  BY <1>5, EnrolledEffect, AgentStartedEffect, NoAnswerEffect
  DEF Controlled, Steady, Turn, To, Receives, Lapses, UpPcs, DownPcs, Launched,
      Visiting, Closing, Unplaced
<1>6. CASE SaveRuntime \/ KillBroker
  BY <1>6, SaveRuntimeEffect, KillBrokerEffect, SlotRange
  DEF Controlled, Fresh, Over, Done, UpPcs, DownPcs, Opening, Launched, Visiting,
      Closing, Unplaced
<1>7. CASE LoadRuntime \/ Visit \/ ShutDown \/ NotShutDown
  BY <1>7, LoadRuntimeEffect, VisitEffect, ShutDownEffect, NotShutDownEffect
  DEF Controlled, Steady, Turn, To, Goes, Posts, Receives, Lapses, UpPcs, DownPcs,
      Opening, Launched, Visiting, Closing, Unplaced
<1>8. CASE StopContainer \/ RemoveContainer
  BY <1>8, StopContainerEffect, RemoveContainerEffect, HaltEffect
  DEF Controlled, Turn, To, Goes, UpPcs, DownPcs, Opening, Launched, Visiting, Closing
<1>9. CASE StopBroker \/ RemoveNetwork \/ RemoveFiles
  BY <1>9, StopBrokerEffect, RemoveNetworkEffect, RemoveFilesEffect, SlotRange
  DEF Controlled, Steady, Turn, To, Fresh, Done, UpPcs, DownPcs, Opening, Launched,
      Visiting, Closing, Unplaced
<1>10. CASE NoScenario \/ OpenRun \/ StartPeer \/ Script \/ ScriptEnds
  BY <1>10, NoScenarioEffect, OpenRunEffect, StartPeerEffect, ScriptEffect,
     ScriptEndsEffect, SlotRange
  DEF Controlled, Steady, Turn, To, Fresh, Over, Judges, Posts, Receives, UpPcs,
      DownPcs, Opening, Launched, Visiting, Closing, Unplaced
<1>11. CASE ScriptLate \/ StopPeer \/ CloseRun
  BY <1>11, ScriptLateEffect, StopPeerEffect, CloseRunEffect, SlotRange
  DEF Controlled, Steady, Turn, To, Fresh, Done, Judges, Lapses, UpPcs, DownPcs,
      Opening, Launched, Visiting, Closing, Unplaced
<1>12. CASE StepFails \/ StepIgnored
  BY <1>12, StepFailsEffect, StepIgnoredEffect, SlotRange
  DEF Controlled, Steady, Turn, To, Fresh, Over, Ends, Goes, Judges, UpPcs, DownPcs, Opening,
      Launched, Visiting, Closing, Unplaced
<1>13. CASE Kill \/ Reboot \/ BrokerDies
  BY <1>13, KillEffect, RebootEffect, BrokerDiesEffect, SlotRange
  DEF Controlled, Fresh, Hit, UpPcs, DownPcs, Opening, Launched, Visiting, Closing,
      Unplaced
<1>14. CASE OtherStarts \/ OtherExits \/ ForeignNetwork
  BY <1>14, OtherStartsEffect, OtherExitsEffect, ForeignNetworkEffect
  DEF Controlled, Steady
<1>15. CASE \E s \in Slot :
     ContainerDies(s) \/ AgentExits(s) \/ CommandStays(s)
  BY <1>15, ContainerDiesEffect, AgentExitsEffect, CommandStaysEffect
  DEF Controlled, Hit
<1>16. CASE \E s \in Slot : Supervise(s)
  BY <1>16, SuperviseEffect DEF Controlled
<1>17. QED
  BY <1>1, <1>2, <1>3, <1>4, <1>5, <1>6, <1>7, <1>8, <1>9, <1>10, <1>11,
     <1>12, <1>13, <1>14, <1>15, <1>16
  DEF FleetNext, Up, Down, Scenario, Environment

LEMMA RunsStep ==
    ASSUME Base, Controlled, Runs, FleetNext
    PROVE  Runs'
<1>1. CASE Begin
  BY <1>1, BeginEffect DEF Runs, Fresh
<1>2. CASE EnsureNetwork \/ StartBootstrap \/ CreateContainer
  BY <1>2, EnsureNetworkEffect, StartBootstrapEffect, CreateContainerEffect
  DEF Runs, Turn, To, Fresh, Over
<1>3. CASE StartContainer \/ WaitReady \/ NotReady \/ Inspect
  BY <1>3, StartContainerEffect, WaitReadyEffect, NotReadyEffect, InspectEffect
  DEF Runs, Turn, To
<1>4. CASE StopBootstrap \/ StartBroker \/ Enroll \/ StartAgent
  BY <1>4, StopBootstrapEffect, StartBrokerEffect, EnrollEffect, StartAgentEffect
  DEF Runs, Turn, To, Fresh, Over, Posts
<1>5. CASE Enrolled \/ AgentStarted \/ NoAnswer
  BY <1>5, EnrolledEffect, AgentStartedEffect, NoAnswerEffect DEF Runs, Turn, To
<1>6. CASE SaveRuntime \/ KillBroker
  BY <1>6, SaveRuntimeEffect, KillBrokerEffect DEF Runs, Fresh, Over, Done
<1>7. CASE LoadRuntime \/ Visit \/ ShutDown \/ NotShutDown
  BY <1>7, LoadRuntimeEffect, VisitEffect, ShutDownEffect, NotShutDownEffect
  DEF Runs, Turn, To, Goes, Posts
<1>8. CASE StopContainer \/ RemoveContainer
  BY <1>8, StopContainerEffect, RemoveContainerEffect, HaltEffect
  DEF Runs, Turn, To, Goes
<1>9. CASE StopBroker \/ RemoveNetwork \/ RemoveFiles
  BY <1>9, StopBrokerEffect, RemoveNetworkEffect, RemoveFilesEffect
  DEF Runs, Turn, To, Fresh, Done
<1>10. CASE NoScenario \/ OpenRun \/ StartPeer \/ Script \/ ScriptEnds
  BY <1>10, NoScenarioEffect, OpenRunEffect, StartPeerEffect, ScriptEffect,
     ScriptEndsEffect
  DEF Runs, Turn, To, Fresh, Over, Judges, Posts, HostIs, DiskIs
<1>11. CASE ScriptLate \/ StopPeer \/ CloseRun
  BY <1>11, ScriptLateEffect, StopPeerEffect, CloseRunEffect
  DEF Runs, Turn, To, Fresh, Done, Judges
<1>12. CASE StepFails \/ StepIgnored
  BY <1>12, StepFailsEffect, StepIgnoredEffect
  DEF Runs, Turn, To, Fresh, Over, Ends, Goes, Judges
<1>13. CASE Kill \/ Reboot \/ BrokerDies
  BY <1>13, KillEffect, RebootEffect, BrokerDiesEffect DEF Runs, Fresh, Hit, HostIs
<1>14. CASE OtherStarts \/ OtherExits \/ ForeignNetwork
  BY <1>14, OtherStartsEffect, OtherExitsEffect, ForeignNetworkEffect DEF Runs, HostIs
<1>15. CASE \E s \in Slot :
     ContainerDies(s) \/ AgentExits(s) \/ CommandStays(s)
  BY <1>15, ContainerDiesEffect, AgentExitsEffect, CommandStaysEffect
  DEF Runs, Hit, HostIs
<1>16. CASE \E s \in Slot : Supervise(s)
  BY <1>16, SuperviseEffect DEF Runs, HostIs, DiskIs
<1>17. QED
  BY <1>1, <1>2, <1>3, <1>4, <1>5, <1>6, <1>7, <1>8, <1>9, <1>10, <1>11,
     <1>12, <1>13, <1>14, <1>15, <1>16
  DEF FleetNext, Up, Down, Scenario, Environment

LEMMA NetworkOwnedStep ==
    ASSUME Base, Controlled, NetworkOwned, FleetNext
    PROVE  NetworkOwned'
<1>1. CASE Begin
  BY <1>1, BeginEffect DEF NetworkOwned, Never, Controlled, Fresh
<1>2. CASE EnsureNetwork \/ StartBootstrap \/ CreateContainer
  BY <1>2, EnsureNetworkEffect, StartBootstrapEffect, CreateContainerEffect
  DEF NetworkOwned, Never, Owned, Steady, Turn, To, Fresh, Over, HostIs
<1>3. CASE StartContainer \/ WaitReady \/ NotReady \/ Inspect
  BY <1>3, StartContainerEffect, WaitReadyEffect, NotReadyEffect, InspectEffect
  DEF NetworkOwned, Never, Steady, Turn, To, HostIs, DiskIs
<1>4. CASE StopBootstrap \/ StartBroker \/ Enroll \/ StartAgent
  BY <1>4, StopBootstrapEffect, StartBrokerEffect, EnrollEffect, StartAgentEffect
  DEF NetworkOwned, Never, Steady, Turn, To, Fresh, Over, Posts, HostIs
<1>5. CASE Enrolled \/ AgentStarted \/ NoAnswer
  BY <1>5, EnrolledEffect, AgentStartedEffect, NoAnswerEffect
  DEF NetworkOwned, Never, Steady, Turn, To, Receives, Lapses
<1>6. CASE SaveRuntime \/ KillBroker
  BY <1>6, SaveRuntimeEffect, KillBrokerEffect
  DEF NetworkOwned, Never, Fresh, Over, Done, HostIs, Slain
<1>7. CASE LoadRuntime \/ Visit \/ ShutDown \/ NotShutDown
  BY <1>7, LoadRuntimeEffect, VisitEffect, ShutDownEffect, NotShutDownEffect
  DEF NetworkOwned, Never, Steady, Turn, To, Goes, Posts, Receives, Lapses
<1>8. CASE StopContainer \/ RemoveContainer
  BY <1>8, StopContainerEffect, RemoveContainerEffect, HaltEffect
  DEF NetworkOwned, Never, Turn, To, Goes, HostIs
<1>9. CASE StopBroker \/ RemoveNetwork \/ RemoveFiles
  BY <1>9, StopBrokerEffect, RemoveNetworkEffect, RemoveFilesEffect
  DEF NetworkOwned, Never, Steady, Turn, To, Fresh, Done, HostIs, Slain
<1>10. CASE NoScenario \/ OpenRun \/ StartPeer \/ Script \/ ScriptEnds
  BY <1>10, NoScenarioEffect, OpenRunEffect, StartPeerEffect, ScriptEffect,
     ScriptEndsEffect
  DEF NetworkOwned, Never, Steady, Turn, To, Fresh, Over, Judges, Posts, Receives,
      HostIs, DiskIs
<1>11. CASE ScriptLate \/ StopPeer \/ CloseRun
  BY <1>11, ScriptLateEffect, StopPeerEffect, CloseRunEffect
  DEF NetworkOwned, Never, Steady, Turn, To, Fresh, Done, Judges, Lapses, HostIs, DiskIs
<1>12. CASE StepFails \/ StepIgnored
  BY <1>12, StepFailsEffect, StepIgnoredEffect
  DEF NetworkOwned, Never, Steady, Turn, To, Fresh, Over, Goes, Judges
<1>13. CASE Kill \/ Reboot \/ BrokerDies
  BY <1>13, KillEffect, RebootEffect, BrokerDiesEffect
  DEF NetworkOwned, Never, Hit, HostIs
<1>14. CASE OtherStarts \/ OtherExits \/ ForeignNetwork
  BY <1>14, OtherStartsEffect, OtherExitsEffect, ForeignNetworkEffect
  DEF NetworkOwned, Never, Steady, HostIs
<1>15. CASE \E s \in Slot :
     ContainerDies(s) \/ AgentExits(s) \/ CommandStays(s)
  BY <1>15, ContainerDiesEffect, AgentExitsEffect, CommandStaysEffect
  DEF NetworkOwned, Never, Hit, HostIs
<1>16. CASE \E s \in Slot : Supervise(s)
  BY <1>16, SuperviseEffect DEF NetworkOwned, Never, HostIs, DiskIs
<1>17. QED
  BY <1>1, <1>2, <1>3, <1>4, <1>5, <1>6, <1>7, <1>8, <1>9, <1>10, <1>11,
     <1>12, <1>13, <1>14, <1>15, <1>16
  DEF FleetNext, Up, Down, Scenario, Environment

LEMMA BrokerServesStep ==
    ASSUME Base, Controlled, BrokerServes, FleetNext
    PROVE  BrokerServes'
<1>1. CASE Begin
  BY <1>1, BeginEffect DEF BrokerServes, Fresh, Launched
<1>2. CASE EnsureNetwork \/ StartBootstrap \/ CreateContainer
  BY <1>2, EnsureNetworkEffect, StartBootstrapEffect, CreateContainerEffect
  DEF BrokerServes, Turn, To, Fresh, Over, Launched
<1>3. CASE StartContainer \/ WaitReady \/ NotReady \/ Inspect
  BY <1>3, StartContainerEffect, WaitReadyEffect, NotReadyEffect, InspectEffect
  DEF BrokerServes, Turn, To, Launched
<1>4. CASE StopBootstrap \/ StartBroker \/ Enroll \/ StartAgent
  BY <1>4, StopBootstrapEffect, StartBrokerEffect, EnrollEffect, StartAgentEffect
  DEF BrokerServes, Never, Steady, Turn, To, Fresh, Over, Posts, Launched
<1>5. CASE Enrolled \/ AgentStarted \/ NoAnswer
  BY <1>5, EnrolledEffect, AgentStartedEffect, NoAnswerEffect
  DEF BrokerServes, Never, Steady, Turn, To, Receives, Launched
<1>6. CASE SaveRuntime \/ KillBroker
  BY <1>6, SaveRuntimeEffect, KillBrokerEffect
  DEF BrokerServes, Fresh, Over, Done, Launched
<1>7. CASE LoadRuntime \/ Visit \/ ShutDown \/ NotShutDown
  BY <1>7, LoadRuntimeEffect, VisitEffect, ShutDownEffect, NotShutDownEffect
  DEF BrokerServes, Turn, To, Goes, Posts, Launched
<1>8. CASE StopContainer \/ RemoveContainer
  BY <1>8, StopContainerEffect, RemoveContainerEffect, HaltEffect
  DEF BrokerServes, Turn, To, Goes, Launched
<1>9. CASE StopBroker \/ RemoveNetwork \/ RemoveFiles
  BY <1>9, StopBrokerEffect, RemoveNetworkEffect, RemoveFilesEffect
  DEF BrokerServes, Turn, To, Fresh, Done, Launched
<1>10. CASE NoScenario \/ OpenRun \/ StartPeer \/ Script \/ ScriptEnds
  BY <1>10, NoScenarioEffect, OpenRunEffect, StartPeerEffect, ScriptEffect,
     ScriptEndsEffect
  DEF BrokerServes, Turn, To, Fresh, Over, Judges, Posts, Launched
<1>11. CASE ScriptLate \/ StopPeer \/ CloseRun
  BY <1>11, ScriptLateEffect, StopPeerEffect, CloseRunEffect
  DEF BrokerServes, Turn, To, Fresh, Done, Judges, Launched
<1>12. CASE StepFails \/ StepIgnored
  BY <1>12, StepFailsEffect, StepIgnoredEffect
  DEF BrokerServes, Turn, To, Fresh, Over, Ends, Goes, Judges, Launched
<1>13. CASE Kill \/ Reboot \/ BrokerDies
  BY <1>13, KillEffect, RebootEffect, BrokerDiesEffect
  DEF BrokerServes, Never, Fresh, Launched
<1>14. CASE OtherStarts \/ OtherExits \/ ForeignNetwork
  BY <1>14, OtherStartsEffect, OtherExitsEffect, ForeignNetworkEffect
  DEF BrokerServes, Never, Steady, HostIs
<1>15. CASE \E s \in Slot :
     ContainerDies(s) \/ AgentExits(s) \/ CommandStays(s)
  BY <1>15, ContainerDiesEffect, AgentExitsEffect, CommandStaysEffect
  DEF BrokerServes, Never, Hit, HostIs
<1>16. CASE \E s \in Slot : Supervise(s)
  BY <1>16, SuperviseEffect DEF BrokerServes, Never, HostIs
<1>17. QED
  BY <1>1, <1>2, <1>3, <1>4, <1>5, <1>6, <1>7, <1>8, <1>9, <1>10, <1>11,
     <1>12, <1>13, <1>14, <1>15, <1>16
  DEF FleetNext, Up, Down, Scenario, Environment

LEMMA BrokerKnownStep ==
    ASSUME Base, Controlled, BrokerKnown, FleetNext
    PROVE  BrokerKnown'
<1>1. CASE Begin
  BY <1>1, BeginEffect
  DEF BrokerKnown, Brokerless, Numbered, Never, Controlled, Fresh, Opening, Launched,
      Visiting
<1>2. CASE EnsureNetwork \/ StartBootstrap \/ CreateContainer
  BY <1>2, EnsureNetworkEffect, StartBootstrapEffect, CreateContainerEffect
  DEF BrokerKnown, Brokerless, Numbered, Never, PipeTaken, Steady, Turn, To, Fresh,
      Over, Opening, Launched, Visiting, HostIs
<1>3. CASE StartContainer \/ WaitReady \/ NotReady \/ Inspect
  BY <1>3, StartContainerEffect, WaitReadyEffect, NotReadyEffect, InspectEffect
  DEF BrokerKnown, Brokerless, Never, Steady, Turn, To, Opening, HostIs, DiskIs
<1>4. CASE StopBootstrap \/ StartBroker \/ Enroll \/ StartAgent
  <2>1. CASE StopBootstrap
    BY <2>1, StopBootstrapEffect
    DEF BrokerKnown, Brokerless, Never, Steady, Over, HostIs
  <2>2. CASE StartBroker
    BY <2>2, StartBrokerEffect
    DEF BrokerKnown, Brokerless, Numbered, Never, Steady, Turn, Opening, Launched,
        HostIs
  <2>3. CASE Enroll
    BY <2>3, EnrollEffect
    DEF BrokerKnown, Brokerless, Numbered, Never, Steady, Turn, To, Posts, Opening,
        Launched
  <2>4. CASE StartAgent
    BY <2>4, StartAgentEffect
    DEF BrokerKnown, Brokerless, Numbered, Never, Steady, Turn, Posts, Opening, Launched
  <2>5. QED
    BY <1>4, <2>1, <2>2, <2>3, <2>4
<1>5. CASE Enrolled \/ AgentStarted \/ NoAnswer
  BY <1>5, EnrolledEffect, AgentStartedEffect, NoAnswerEffect
  DEF BrokerKnown, Brokerless, Numbered, Never, Steady, Turn, To, Receives, Lapses,
      Opening, Launched
<1>6. CASE SaveRuntime \/ KillBroker
  BY <1>6, SaveRuntimeEffect, KillBrokerEffect
  DEF BrokerKnown, Brokerless, Numbered, Never, Controlled, Fresh, Over, Done, UpPcs,
      Opening, Launched, Visiting, HostIs, Slain
<1>7. CASE LoadRuntime \/ Visit \/ ShutDown \/ NotShutDown
  BY <1>7, LoadRuntimeEffect, VisitEffect, ShutDownEffect, NotShutDownEffect
  DEF BrokerKnown, Brokerless, Numbered, Never, Controlled, Steady, Turn, To, Goes,
      Posts, Receives, Lapses, UpPcs, DownPcs, Opening, Visiting
<1>8. CASE StopContainer \/ RemoveContainer
  BY <1>8, StopContainerEffect, RemoveContainerEffect, HaltEffect
  DEF BrokerKnown, Brokerless, Numbered, Never, Turn, To, Goes, Opening, Visiting,
      HostIs
<1>9. CASE StopBroker \/ RemoveNetwork \/ RemoveFiles
  BY <1>9, StopBrokerEffect, RemoveNetworkEffect, RemoveFilesEffect
  DEF BrokerKnown, Brokerless, Numbered, Never, Steady, Done, Opening, HostIs, Slain
<1>10. CASE NoScenario \/ OpenRun \/ StartPeer \/ Script \/ ScriptEnds
  BY <1>10, NoScenarioEffect, OpenRunEffect, StartPeerEffect, ScriptEffect,
     ScriptEndsEffect
  DEF BrokerKnown, Brokerless, Numbered, Never, Steady, Turn, To, Fresh, Over, Judges,
      Posts, Receives, Opening, Launched, Visiting, HostIs, DiskIs
<1>11. CASE ScriptLate \/ StopPeer \/ CloseRun
  BY <1>11, ScriptLateEffect, StopPeerEffect, CloseRunEffect
  DEF BrokerKnown, Brokerless, Numbered, Never, Controlled, Steady, Turn, To, Fresh,
      Done, Judges, Lapses, DownPcs, Opening, Launched, Visiting, Closing, HostIs,
      DiskIs
<1>12. CASE StepFails \/ StepIgnored
  <2>1. CASE StepFails
    BY <2>1, StepFailsEffect
    DEF BrokerKnown, Brokerless, Numbered, Never, Steady, Turn, To, Fresh, Over, Judges,
        Opening, Launched, Visiting
  <2>2. CASE StepIgnored
    BY <2>2, StepIgnoredEffect DEF BrokerKnown, Never
  <2>3. QED
    BY <1>12, <2>1, <2>2
<1>13. CASE Kill \/ Reboot \/ BrokerDies
  BY <1>13, KillEffect, RebootEffect, BrokerDiesEffect
  DEF BrokerKnown, Never, Hit, HostIs
<1>14. CASE OtherStarts \/ OtherExits \/ ForeignNetwork
  BY <1>14, OtherStartsEffect, OtherExitsEffect, ForeignNetworkEffect
  DEF BrokerKnown, Never, Steady, HostIs
<1>15. CASE \E s \in Slot :
     ContainerDies(s) \/ AgentExits(s) \/ CommandStays(s)
  BY <1>15, ContainerDiesEffect, AgentExitsEffect, CommandStaysEffect
  DEF BrokerKnown, Never, Hit, HostIs
<1>16. CASE \E s \in Slot : Supervise(s)
  BY <1>16, SuperviseEffect DEF BrokerKnown, Never, HostIs, DiskIs
<1>17. QED
  BY <1>1, <1>2, <1>3, <1>4, <1>5, <1>6, <1>7, <1>8, <1>9, <1>10, <1>11,
     <1>12, <1>13, <1>14, <1>15, <1>16
  DEF FleetNext, Up, Down, Scenario, Environment

LEMMA BrokerLivesStep ==
    ASSUME Base, Controlled, BrokerKnown, BrokerLives, FleetNext
    PROVE  BrokerLives'
<1>1. CASE Begin
  BY <1>1, BeginEffect
  DEF BrokerLives, Controlled, Numbered, Never, Fresh, Launched, Visiting, Closing
<1>2. CASE EnsureNetwork \/ StartBootstrap \/ CreateContainer
  BY <1>2, EnsureNetworkEffect, StartBootstrapEffect, CreateContainerEffect
  DEF BrokerLives, Numbered, Never, Steady, Turn, To, Fresh, Over, Launched, Visiting,
      Closing, HostIs
<1>3. CASE StartContainer \/ WaitReady \/ NotReady \/ Inspect
  BY <1>3, StartContainerEffect, WaitReadyEffect, NotReadyEffect, InspectEffect
  DEF BrokerLives, Numbered, Never, Steady, Turn, To, Launched, Visiting, Closing,
      HostIs, DiskIs
<1>4. CASE StopBootstrap \/ StartBroker \/ Enroll \/ StartAgent
  <2>1. CASE StopBootstrap
    BY <2>1, StopBootstrapEffect
    DEF BrokerLives, Numbered, Never, Steady, Turn, To, Fresh, Over, Launched, Visiting,
        Closing, HostIs
  <2>2. CASE StartBroker
    BY <2>2, StartBrokerEffect
    DEF BrokerLives, BrokerKnown, Brokerless, Never, Steady, Turn, Launched, Closing,
        HostIs
  <2>3. CASE Enroll
    BY <2>3, EnrollEffect
    DEF BrokerLives, Numbered, Never, Steady, Turn, To, Posts, Launched
  <2>4. CASE StartAgent
    BY <2>4, StartAgentEffect
    DEF BrokerLives, Numbered, Never, Steady, Turn, Posts, Launched
  <2>5. QED
    BY <1>4, <2>1, <2>2, <2>3, <2>4
<1>5. CASE Enrolled \/ AgentStarted \/ NoAnswer
  BY <1>5, EnrolledEffect, AgentStartedEffect, NoAnswerEffect
  DEF BrokerLives, Numbered, Never, Steady, Turn, To, Receives, Lapses, Launched
<1>6. CASE SaveRuntime \/ KillBroker
  <2>1. CASE SaveRuntime
    BY <2>1, SaveRuntimeEffect
    DEF BrokerLives, Numbered, Never, Fresh, Done, Launched, Visiting
  <2>2. CASE KillBroker
    BY <2>2, KillBrokerEffect
    DEF BrokerLives, Numbered, Never, Fresh, Over, Launched, Visiting, HostIs, Slain
  <2>3. QED
    BY <1>6, <2>1, <2>2
<1>7. CASE LoadRuntime \/ Visit \/ ShutDown \/ NotShutDown
  BY <1>7, LoadRuntimeEffect, VisitEffect, ShutDownEffect, NotShutDownEffect
  DEF BrokerLives, Numbered, Never, Steady, Turn, To, Goes, Posts, Receives, Lapses,
      Launched, Visiting, Closing
<1>8. CASE StopContainer \/ RemoveContainer
  BY <1>8, StopContainerEffect, RemoveContainerEffect, HaltEffect
  DEF BrokerLives, Numbered, Never, Turn, To, Goes, Launched, Visiting, Closing, HostIs
<1>9. CASE StopBroker \/ RemoveNetwork \/ RemoveFiles
  <2>1. CASE StopBroker
    BY <2>1, StopBrokerEffect
    DEF BrokerLives, Numbered, Turn, To, Launched, Visiting, Closing, HostIs, Slain
  <2>2. CASE RemoveNetwork
    BY <2>2, RemoveNetworkEffect
    DEF BrokerLives, Numbered, Turn, To, Launched, Visiting, Closing, HostIs
  <2>3. CASE RemoveFiles
    BY <2>3, RemoveFilesEffect
    DEF BrokerLives, BrokerKnown, Brokerless, Controlled, Numbered, Never, Fresh, Done,
        Launched, Visiting
  <2>4. QED
    BY <1>9, <2>1, <2>2, <2>3
<1>10. CASE NoScenario \/ OpenRun \/ StartPeer \/ Script \/ ScriptEnds
  BY <1>10, NoScenarioEffect, OpenRunEffect, StartPeerEffect, ScriptEffect,
     ScriptEndsEffect
  DEF BrokerLives, Numbered, Never, Steady, Turn, To, Fresh, Over, Judges, Posts,
      Receives, Launched, Visiting, Closing, HostIs, DiskIs
<1>11. CASE ScriptLate \/ StopPeer \/ CloseRun
  BY <1>11, ScriptLateEffect, StopPeerEffect, CloseRunEffect
  DEF BrokerLives, Numbered, Never, Steady, Turn, To, Fresh, Done, Judges, Lapses,
      Launched, Visiting, Closing, HostIs, DiskIs
<1>12. CASE StepFails \/ StepIgnored
  <2>1. CASE StepFails
    BY <2>1, StepFailsEffect
    DEF BrokerLives, Numbered, Never, Steady, Turn, To, Fresh, Over, Judges, Launched,
        Visiting, Closing
  <2>2. CASE StepIgnored
    BY <2>2, StepIgnoredEffect
    DEF BrokerLives, Numbered, Never, Turn, To, Goes, Launched, Visiting, Closing
  <2>3. QED
    BY <1>12, <2>1, <2>2
<1>13. CASE Kill \/ Reboot \/ BrokerDies
  BY <1>13, KillEffect, RebootEffect, BrokerDiesEffect DEF BrokerLives, Never
<1>14. CASE OtherStarts \/ OtherExits \/ ForeignNetwork
  BY <1>14, OtherStartsEffect, OtherExitsEffect, ForeignNetworkEffect
  DEF BrokerLives, Never, Steady, HostIs
<1>15. CASE \E s \in Slot :
     ContainerDies(s) \/ AgentExits(s) \/ CommandStays(s)
  BY <1>15, ContainerDiesEffect, AgentExitsEffect, CommandStaysEffect
  DEF BrokerLives, Never, Hit, HostIs
<1>16. CASE \E s \in Slot : Supervise(s)
  BY <1>16, SuperviseEffect DEF BrokerLives, Never, HostIs, DiskIs
<1>17. QED
  BY <1>1, <1>2, <1>3, <1>4, <1>5, <1>6, <1>7, <1>8, <1>9, <1>10, <1>11,
     <1>12, <1>13, <1>14, <1>15, <1>16
  DEF FleetNext, Up, Down, Scenario, Environment


(* A down that goes on from an endpoint has gone past it.                   *)
LEMMA LessNext ==
    ASSUME NEW a \in Slot, NEW s \in Slot, s < a + 1
    PROVE  s = a \/ s < a
BY SlotAssumption

LEMMA PassedGoes ==
    ASSUME Base, cli.at \in Slot, cli.pc \in Visiting, Goes, UNCHANGED last,
           NEW s \in Slot, Passed(s)'
    PROVE  s = cli.at \/ Passed(s)
<1>1. CASE last = "down"
  BY <1>1 DEF Passed
<1>2. CASE last # "down" /\ cli.at < N
  <2>1. s < cli.at + 1 => s = cli.at \/ s < cli.at
    BY LessNext
  <2>2. CASE cli'.pc = "visit" /\ cli'.at = cli.at + 1
    BY <1>2, <2>1, <2>2 DEF Passed, Closing
  <2>3. CASE cli.at = N
    BY <1>2, <2>3, SlotAssumption
  <2>4. QED
    BY <2>2, <2>3 DEF Goes, Turn
<1>3. CASE last # "down" /\ cli.at = N
  <2>1. s < N \/ s = N
    BY NextSlot
  <2>2. QED
    BY <1>3, <2>1 DEF Passed
<1>4. QED
  BY <1>1, <1>2, <1>3 DEF Goes

LEMMA PassedStays ==
    ASSUME UNCHANGED last, cli'.at = cli.at, cli.pc \in Visiting, cli'.pc \in Visiting,
           NEW s \in Slot
    PROVE  Passed(s)' <=> Passed(s)
BY DEF Passed, Visiting, Closing

LEMMA NothingPassed ==
    ASSUME cli'.pc = "visit", cli'.at = 1, last' # "down", NEW s \in Slot
    PROVE  ~ Passed(s)'
BY SlotAssumption DEF Passed, Closing

LEMMA LoadClears ==
    ASSUME Base, Controlled, Cleared, LoadRuntime
    PROVE  Cleared'
<1> SUFFICES ASSUME NEW s \in Slot
             PROVE  (Passed(s) /\ disk.record[s] # 0 => s \notin host.containers)'
  BY DEF Cleared
<1>1. Controlled /\ last # "down"
  BY LoadRuntimeEffect DEF Controlled, DownPcs
<1> QED
  BY <1>1, LoadRuntimeEffect, NothingPassed DEF Controlled, Turn, Steady

LEMMA VisitClears ==
    ASSUME Base, Controlled, Cleared, Visit
    PROVE  Cleared'
<1>1. CASE Posts("shutdown", "asking")
  BY <1>1, VisitEffect, PassedStays DEF Cleared, Never, Posts, Steady, Turn, Visiting
<1>2. CASE ~ Posts("shutdown", "asking")
  <2>1. /\ cli.pc = "visit" /\ cli.at \in Slot
        /\ disk.record[cli.at] = 0 \/ cli.at \notin host.containers
        /\ Goes /\ Silent /\ Steady /\ UNCHANGED <<host, disk>>
    BY <1>2, VisitEffect
  <2>2. ASSUME NEW s \in Slot, Passed(s)' PROVE s = cli.at \/ Passed(s)
    BY <2>1, <2>2, PassedGoes DEF Visiting, Steady
  <2> QED
    BY <2>1, <2>2 DEF Cleared, Never, Steady
<1> QED
  BY <1>1, <1>2

LEMMA StopClears ==
    ASSUME Base, Controlled, Cleared, ShutDown \/ NotShutDown \/ StopContainer
    PROVE  Cleared'
<1>1. CASE ShutDown
  BY <1>1, ShutDownEffect, PassedStays
  DEF Cleared, Never, Receives, Steady, To, Turn, Visiting
<1>2. CASE NotShutDown
  BY <1>2, NotShutDownEffect, PassedStays DEF Cleared, Never, Lapses, To, Turn, Visiting
<1>3. CASE StopContainer
  BY <1>3, StopContainerEffect, HaltEffect, PassedStays DEF Cleared, Never, HostIs, To, Turn, Visiting
<1> QED
  BY <1>1, <1>2, <1>3

LEMMA RemoveClears ==
    ASSUME Base, Controlled, Cleared, RemoveContainer
    PROVE  Cleared'
<1>1. /\ cli.pc = "remove" /\ cli.at \in Slot /\ past \subseteq past'
      /\ host'.containers = host.containers \ {cli.at}
      /\ Goes /\ UNCHANGED <<last, disk>>
  BY HaltEffect, RemoveContainerEffect DEF HostIs
<1>2. ASSUME NEW s \in Slot, Passed(s)' PROVE s = cli.at \/ Passed(s)
  BY <1>1, <1>2, PassedGoes DEF Visiting, Steady
<1> QED
  BY <1>1, <1>2 DEF Cleared, Never, Steady

LEMMA ClearedStep ==
    ASSUME Base, Controlled, Cleared, FleetNext
    PROVE  Cleared'
<1>1. CASE Begin
  BY <1>1, BeginEffect, NextSlot, SlotRange
  DEF Cleared, Passed, Fresh, Visiting, Closing
<1>2. CASE EnsureNetwork \/ StartBootstrap \/ CreateContainer
  BY <1>2, EnsureNetworkEffect, StartBootstrapEffect, CreateContainerEffect
  DEF Cleared, Passed, Controlled, Steady, Turn, To, Fresh, Over, UpPcs, Opening,
      Visiting, Closing
<1>3. CASE StartContainer \/ WaitReady \/ NotReady \/ Inspect
  BY <1>3, StartContainerEffect, WaitReadyEffect, NotReadyEffect, InspectEffect
  DEF Cleared, Passed, Controlled, Steady, Turn, To, UpPcs, Opening, Visiting, Closing
<1>4. CASE StopBootstrap \/ StartBroker \/ Enroll \/ StartAgent
  BY <1>4, StopBootstrapEffect, StartBrokerEffect, EnrollEffect, StartAgentEffect
  DEF Cleared, Passed, Never, Controlled, Steady, Turn, To, Fresh, Over, Posts, UpPcs,
      Visiting, Closing
<1>5. CASE Enrolled \/ AgentStarted \/ NoAnswer
  BY <1>5, EnrolledEffect, AgentStartedEffect, NoAnswerEffect
  DEF Cleared, Passed, Never, Steady, Turn, To, Receives, Lapses, Visiting, Closing
<1>6. CASE SaveRuntime \/ KillBroker
  BY <1>6, SaveRuntimeEffect, KillBrokerEffect
  DEF Cleared, Passed, Controlled, Fresh, Over, Done, DownPcs, Visiting, Closing
<1>7. CASE LoadRuntime \/ Visit \/ ShutDown \/ NotShutDown
  BY <1>7, LoadClears, VisitClears, StopClears
<1>8. CASE StopContainer \/ RemoveContainer
  BY <1>8, StopClears, RemoveClears
<1>9. CASE StopBroker \/ RemoveNetwork \/ RemoveFiles
  BY <1>9, StopBrokerEffect, RemoveNetworkEffect, RemoveFilesEffect
  DEF Cleared, Passed, Never, Steady, Done, Closing, HostIs, DiskIs, Slain
<1>10. CASE NoScenario \/ OpenRun \/ StartPeer \/ Script \/ ScriptEnds
  BY <1>10, NoScenarioEffect, OpenRunEffect, StartPeerEffect, ScriptEffect,
     ScriptEndsEffect
  DEF Cleared, Passed, Never, Steady, Turn, To, Fresh, Over, Judges, Posts, Receives,
      Visiting, Closing, HostIs, DiskIs
<1>11. CASE ScriptLate \/ StopPeer \/ CloseRun
  BY <1>11, ScriptLateEffect, StopPeerEffect, CloseRunEffect
  DEF Cleared, Passed, Never, Controlled, Steady, Turn, To, Fresh, Done, Judges, Lapses,
      DownPcs, Visiting, Closing, HostIs
<1>12. CASE StepFails \/ StepIgnored
  BY <1>12, StepFailsEffect, StepIgnoredEffect, NextSlot, SlotRange
  DEF Cleared, Passed, Never, Steady, Turn, To, Fresh, Over, Judges, Visiting, Closing
<1>13. CASE Kill \/ Reboot \/ BrokerDies
  BY <1>13, KillEffect, RebootEffect, BrokerDiesEffect
  DEF Cleared, Passed, Never, Fresh, Hit, Visiting, Closing, HostIs
<1>14. CASE OtherStarts \/ OtherExits \/ ForeignNetwork
  BY <1>14, OtherStartsEffect, OtherExitsEffect, ForeignNetworkEffect
  DEF Cleared, Passed, Never, Steady, HostIs
<1>15. CASE \E s \in Slot :
     ContainerDies(s) \/ AgentExits(s) \/ CommandStays(s)
  BY <1>15, ContainerDiesEffect, AgentExitsEffect, CommandStaysEffect
  DEF Cleared, Passed, Never, Hit, HostIs
<1>16. CASE \E s \in Slot : Supervise(s)
  BY <1>16, SuperviseEffect DEF Cleared, Passed, Never, HostIs, DiskIs
<1>17. QED
  BY <1>1, <1>2, <1>3, <1>4, <1>5, <1>6, <1>7, <1>8, <1>9, <1>10, <1>11,
     <1>12, <1>13, <1>14, <1>15, <1>16
  DEF FleetNext, Up, Down, Scenario, Environment

LEMMA FoundStep ==
    ASSUME Base, Controlled, Found, FleetNext
    PROVE  Found'
<1>1. CASE Begin
  BY <1>1, BeginEffect DEF Found, InHand, Never, Controlled, UpPcs
<1>2. CASE EnsureNetwork \/ StartBootstrap \/ CreateContainer
  <2>1. CASE EnsureNetwork
    BY <2>1, EnsureNetworkEffect DEF Found, InHand, Never, Opening, Turn, HostIs
  <2>2. CASE StartBootstrap
    BY <2>2, StartBootstrapEffect
    DEF Found, InHand, Never, Opening, Over, HostIs, Steady
  <2>3. CASE CreateContainer
    BY <2>3, CreateContainerEffect
    DEF Found, InHand, Never, Opening, To, Turn, HostIs, Steady
  <2>4. QED
    BY <1>2, <2>1, <2>2, <2>3
<1>3. CASE StartContainer \/ WaitReady \/ NotReady \/ Inspect
  BY <1>3, StartContainerEffect, WaitReadyEffect, NotReadyEffect, InspectEffect,
     BaseFacts
  DEF Found, InHand, Never, Steady, Turn, To, Opening, HostIs, DiskIs
<1>4. CASE StopBootstrap \/ StartBroker \/ Enroll \/ StartAgent
  BY <1>4, StopBootstrapEffect, StartBrokerEffect, EnrollEffect, StartAgentEffect
  DEF Found, InHand, Never, Controlled, Steady, Over, Posts, UpPcs, Opening, HostIs
<1>5. CASE Enrolled \/ AgentStarted \/ NoAnswer
  BY <1>5, EnrolledEffect, AgentStartedEffect, NoAnswerEffect
  DEF Found, InHand, Never, Steady, Receives, Lapses, Opening
<1>6. CASE SaveRuntime \/ KillBroker
  BY <1>6, SaveRuntimeEffect, KillBrokerEffect
  DEF Found, InHand, Never, Controlled, Over, Done, UpPcs, Opening, DiskIs
<1>7. CASE LoadRuntime \/ Visit \/ ShutDown \/ NotShutDown
  BY <1>7, LoadRuntimeEffect, VisitEffect, ShutDownEffect, NotShutDownEffect
  DEF Found, InHand, Never, Steady, Posts, Receives, Lapses, Opening
<1>8. CASE StopContainer \/ RemoveContainer
  BY <1>8, StopContainerEffect, RemoveContainerEffect, HaltEffect
  DEF Found, InHand, Never, Opening, HostIs
<1>9. CASE StopBroker \/ RemoveNetwork \/ RemoveFiles
  BY <1>9, StopBrokerEffect, RemoveNetworkEffect, RemoveFilesEffect
  DEF Found, InHand, Never, Steady, Done, Opening, HostIs, DiskIs, Slain
<1>10. CASE NoScenario \/ OpenRun \/ StartPeer \/ Script \/ ScriptEnds
  BY <1>10, NoScenarioEffect, OpenRunEffect, StartPeerEffect, ScriptEffect,
     ScriptEndsEffect
  DEF Found, InHand, Never, Steady, Over, Posts, Receives, Opening, HostIs, DiskIs
<1>11. CASE ScriptLate \/ StopPeer \/ CloseRun
  BY <1>11, ScriptLateEffect, StopPeerEffect, CloseRunEffect
  DEF Found, InHand, Never, Steady, Done, Lapses, Opening, HostIs, DiskIs
<1>12. CASE StepFails \/ StepIgnored
  BY <1>12, StepFailsEffect, StepIgnoredEffect
  DEF Found, InHand, Never, Steady, Turn, Over, Opening
<1>13. CASE Kill \/ Reboot \/ BrokerDies
  BY <1>13, KillEffect, RebootEffect, BrokerDiesEffect
  DEF Found, InHand, Never, Hit, HostIs
<1>14. CASE OtherStarts \/ OtherExits \/ ForeignNetwork
  BY <1>14, OtherStartsEffect, OtherExitsEffect, ForeignNetworkEffect
  DEF Found, InHand, Never, Steady, HostIs
<1>15. CASE \E s \in Slot :
     ContainerDies(s) \/ AgentExits(s) \/ CommandStays(s)
  BY <1>15, ContainerDiesEffect, AgentExitsEffect, CommandStaysEffect
  DEF Found, InHand, Never, Hit, HostIs
<1>16. CASE \E s \in Slot : Supervise(s)
  BY <1>16, SuperviseEffect DEF Found, InHand, Never, HostIs, DiskIs
<1>17. QED
  BY <1>1, <1>2, <1>3, <1>4, <1>5, <1>6, <1>7, <1>8, <1>9, <1>10, <1>11,
     <1>12, <1>13, <1>14, <1>15, <1>16
  DEF FleetNext, Up, Down, Scenario, Environment

(* When a down comes to the network, no container is left on it.            *)
LEMMA NothingLeft ==
    ASSUME Housed, Cleared, Found, host \in Hosts,
           Never({"ignored"}), Never({"kill", "failed", "reboot"}),
           \/ cli.pc = "remove network"
           \/ last = "down" /\ cli.pc \notin Opening \cup {"stop bootstrap"}
    PROVE  host.containers = {} /\ \A s \in Slot : sup[s].pc = "off"
<1>1. host.containers \subseteq Slot
  BY DEF Hosts
<1>2. \A s \in Slot : Passed(s)
  BY DEF Passed, Closing
<1>3. \A s \in Slot : ~ InHand(s)
  BY DEF InHand, Opening
<1>4. \A s \in Slot : s \notin host.containers
  BY <1>2, <1>3 DEF Cleared, Found
<1>5. QED
  BY <1>1, <1>4 DEF Housed

LEMMA NetworkFoundStep ==
    ASSUME Base, Controlled, Housed, Cleared, Found, NetworkFound, FleetNext
    PROVE  NetworkFound'
<1>1. CASE Begin
  BY <1>1, BeginEffect
  DEF NetworkFound, Never, Controlled, Fresh, UpPcs, DownPcs, Opening, Launched,
      Visiting, Closing
<1>2. CASE EnsureNetwork \/ StartBootstrap \/ CreateContainer
  BY <1>2, EnsureNetworkEffect, StartBootstrapEffect, CreateContainerEffect
  DEF NetworkFound, Never, Owned, Controlled, Steady, Turn, To, Over, UpPcs, Opening,
      HostIs
<1>3. CASE StartContainer \/ WaitReady \/ NotReady \/ Inspect
  BY <1>3, StartContainerEffect, WaitReadyEffect, NotReadyEffect, InspectEffect
  DEF NetworkFound, Never, Steady, Turn, To, UpPcs, Opening, HostIs
<1>4. CASE StopBootstrap \/ StartBroker \/ Enroll \/ StartAgent
  BY <1>4, StopBootstrapEffect, StartBrokerEffect, EnrollEffect, StartAgentEffect
  DEF NetworkFound, Never, Controlled, Steady, Turn, To, Over, Posts, UpPcs, Launched,
      HostIs
<1>5. CASE Enrolled \/ AgentStarted \/ NoAnswer
  BY <1>5, EnrolledEffect, AgentStartedEffect, NoAnswerEffect
  DEF NetworkFound, Never, Steady, Turn, To, Receives, Lapses, UpPcs, Launched
<1>6. CASE SaveRuntime \/ KillBroker
  BY <1>6, SaveRuntimeEffect, KillBrokerEffect
  DEF NetworkFound, Never, Controlled, Fresh, Over, Done, UpPcs, DownPcs, Opening,
      Launched, Visiting, Closing
<1>7. CASE LoadRuntime \/ Visit \/ ShutDown \/ NotShutDown
  BY <1>7, LoadRuntimeEffect, VisitEffect, ShutDownEffect, NotShutDownEffect
  DEF NetworkFound, Never, Controlled, Steady, Turn, To, Goes, Posts, Receives, Lapses,
      DownPcs, Visiting, Closing
<1>8. CASE StopContainer \/ RemoveContainer
  BY <1>8, StopContainerEffect, RemoveContainerEffect, HaltEffect
  DEF NetworkFound, Never, Turn, To, Goes, DownPcs, Visiting, Closing, HostIs
<1>9. CASE StopBroker \/ RemoveNetwork \/ RemoveFiles
  <2>1. CASE StopBroker
    BY <2>1, StopBrokerEffect
    DEF NetworkFound, Never, Steady, Turn, To, DownPcs, Closing, HostIs, Slain
  <2>2. CASE RemoveNetwork
    <3>1. /\ cli'.pc = "remove files" /\ cli'.owned = cli.owned /\ past' = past
          /\ \/ host'.network = "none"
             \/ ~ (cli.owned = "yes" /\ \A s \in Slot : sup[s].pc = "off") /\ host' = host
      BY <2>2, RemoveNetworkEffect DEF Steady, Turn, To, HostIs
    <3>2. ASSUME Never({"kill", "failed", "again", "reboot", "ignored"})
          PROVE  \A s \in Slot : sup[s].pc = "off"
      BY <2>2, <3>2, RemoveNetworkEffect, NothingLeft, BaseFacts DEF Never
    <3>3. ASSUME Never({"kill", "failed", "again", "reboot", "ignored"})
          PROVE  host'.network # "lab"
      <4>1. "remove network" \in DownPcs \ {"load"} /\ cli.pc = "remove network"
        BY <2>2, RemoveNetworkEffect DEF DownPcs, Closing
      <4>2. host.network = "lab" => cli.owned = "yes"
        BY <3>3, <4>1 DEF NetworkFound
      <4>3. QED
        BY <3>1, <3>2, <3>3, <4>2
    <3>4. QED
      BY <3>1, <3>3 DEF NetworkFound, Never
  <2>3. CASE RemoveFiles
    BY <2>3, RemoveFilesEffect DEF NetworkFound, Never, Done
  <2>4. QED
    BY <1>9, <2>1, <2>2, <2>3
<1>10. CASE NoScenario \/ OpenRun \/ StartPeer \/ Script \/ ScriptEnds
  BY <1>10, NoScenarioEffect, OpenRunEffect, StartPeerEffect, ScriptEffect,
     ScriptEndsEffect
  DEF NetworkFound, Never, Steady, Turn, To, Fresh, Over, Judges, Posts, Receives,
      UpPcs, DownPcs, Opening, Launched, Visiting, Closing, HostIs, DiskIs
<1>11. CASE ScriptLate \/ StopPeer \/ CloseRun
  BY <1>11, ScriptLateEffect, StopPeerEffect, CloseRunEffect
  DEF NetworkFound, Never, Controlled, Steady, Turn, To, Fresh, Done, Judges, Lapses,
      UpPcs, DownPcs, Opening, Launched, Visiting, Closing, HostIs, DiskIs
<1>12. CASE StepFails \/ StepIgnored
  BY <1>12, StepFailsEffect, StepIgnoredEffect
  DEF NetworkFound, Never, Controlled, Steady, Turn, To, Fresh, Over, Judges, UpPcs,
      DownPcs, Opening, Launched, Visiting, Closing
<1>13. CASE Kill \/ Reboot \/ BrokerDies
  BY <1>13, KillEffect, RebootEffect, BrokerDiesEffect
  DEF NetworkFound, Never, Hit, HostIs
<1>14. CASE OtherStarts \/ OtherExits \/ ForeignNetwork
  BY <1>14, OtherStartsEffect, OtherExitsEffect, ForeignNetworkEffect
  DEF NetworkFound, Never, Steady, HostIs
<1>15. CASE \E s \in Slot :
     ContainerDies(s) \/ AgentExits(s) \/ CommandStays(s)
  BY <1>15, ContainerDiesEffect, AgentExitsEffect, CommandStaysEffect
  DEF NetworkFound, Never, Hit, HostIs
<1>16. CASE \E s \in Slot : Supervise(s)
  BY <1>16, SuperviseEffect DEF NetworkFound, Never, HostIs, DiskIs
<1>17. QED
  BY <1>1, <1>2, <1>3, <1>4, <1>5, <1>6, <1>7, <1>8, <1>9, <1>10, <1>11,
     <1>12, <1>13, <1>14, <1>15, <1>16
  DEF FleetNext, Up, Down, Scenario, Environment

-----------------------------------------------------------------------------
(* The types.                                                               *)
LEMMA LastFacts ==
    ASSUME Base
    PROVE  /\ host \in Hosts /\ disk \in Disks /\ cli \in Commanding
           /\ last \in {"none", "up", "down", "scenario"}
           /\ cli.cmd \in {"none", "up", "down", "scenario"}
BY DEF Base, Typed, Commanding

LEMMA RecordsStep ==
    ASSUME Base, FleetNext
    PROVE  /\ host' \in Hosts /\ disk' \in Disks /\ cli' \in Commanding
           /\ last' \in {"none", "up", "down", "scenario"}
<1>1. CASE Begin
  BY <1>1, BeginEffect, LastFacts DEF Fresh
<1>2. CASE EnsureNetwork \/ StartBootstrap \/ CreateContainer
  BY <1>2, EnsureNetworkEffect, StartBootstrapEffect, CreateContainerEffect, LastFacts
  DEF Steady, Turn, To, Fresh, Over, HostIs
<1>3. CASE StartContainer \/ WaitReady \/ NotReady \/ Inspect
  BY <1>3, StartContainerEffect, WaitReadyEffect, NotReadyEffect, InspectEffect,
     LastFacts
  DEF Steady, Turn, To, HostIs, DiskIs
<1>4. CASE StopBootstrap \/ StartBroker \/ Enroll \/ StartAgent
  BY <1>4, StopBootstrapEffect, StartBrokerEffect, EnrollEffect, StartAgentEffect,
     LastFacts
  DEF Steady, Turn, To, Fresh, Over, Posts, HostIs
<1>5. CASE Enrolled \/ AgentStarted \/ NoAnswer
  BY <1>5, EnrolledEffect, AgentStartedEffect, NoAnswerEffect, LastFacts
  DEF Steady, Turn, To, Receives, Lapses
<1>6. CASE SaveRuntime \/ KillBroker
  BY <1>6, SaveRuntimeEffect, KillBrokerEffect, LastFacts
  DEF Fresh, Over, Done, HostIs, DiskIs, Slain
<1>7. CASE LoadRuntime \/ Visit \/ ShutDown \/ NotShutDown
  BY <1>7, LoadRuntimeEffect, VisitEffect, ShutDownEffect, NotShutDownEffect, LastFacts
  DEF Steady, Turn, To, Goes, Posts, Receives, Lapses
<1>8. CASE StopContainer \/ RemoveContainer
  BY <1>8, StopContainerEffect, RemoveContainerEffect, HaltEffect, LastFacts
  DEF Turn, To, Goes, HostIs
<1>9. CASE StopBroker \/ RemoveNetwork \/ RemoveFiles
  BY <1>9, StopBrokerEffect, RemoveNetworkEffect, RemoveFilesEffect, LastFacts
  DEF Steady, Turn, To, Fresh, Done, HostIs, DiskIs, Slain
<1>10. CASE NoScenario \/ OpenRun \/ StartPeer \/ Script \/ ScriptEnds
  BY <1>10, NoScenarioEffect, OpenRunEffect, StartPeerEffect, ScriptEffect,
     ScriptEndsEffect, LastFacts
  DEF Steady, Turn, To, Fresh, Over, Judges, Posts, Receives, HostIs, DiskIs
<1>11. CASE ScriptLate \/ StopPeer \/ CloseRun
  BY <1>11, ScriptLateEffect, StopPeerEffect, CloseRunEffect, LastFacts
  DEF Steady, Turn, To, Fresh, Done, Judges, Lapses, HostIs, DiskIs
<1>12. CASE StepFails \/ StepIgnored
  BY <1>12, StepFailsEffect, StepIgnoredEffect, LastFacts
  DEF Steady, Turn, To, Fresh, Over, Ends, Goes, Judges
<1>13. CASE Kill \/ Reboot \/ BrokerDies
  BY <1>13, KillEffect, RebootEffect, BrokerDiesEffect, LastFacts DEF Fresh, Hit, HostIs
<1>14. CASE OtherStarts \/ OtherExits \/ ForeignNetwork
  BY <1>14, OtherStartsEffect, OtherExitsEffect, ForeignNetworkEffect, LastFacts
  DEF Steady, HostIs
<1>15. CASE \E s \in Slot :
     ContainerDies(s) \/ AgentExits(s) \/ CommandStays(s)
  BY <1>15, ContainerDiesEffect, AgentExitsEffect, CommandStaysEffect, LastFacts
  DEF Hit, HostIs
<1>16. CASE \E s \in Slot : Supervise(s)
  BY <1>16, SuperviseEffect, LastFacts DEF HostIs, DiskIs
<1>17. QED
  BY <1>1, <1>2, <1>3, <1>4, <1>5, <1>6, <1>7, <1>8, <1>9, <1>10, <1>11,
     <1>12, <1>13, <1>14, <1>15, <1>16
  DEF FleetNext, Up, Down, Scenario, Environment

LEMMA FaultType ==
    ASSUME TypeOK, NEW kind, Fault(kind)
    PROVE  faults' \in 0 .. MaxFaults
BY FaultsAssumption DEF Fault, TypeOK

LEMMA FaultsStep ==
    ASSUME Base, FleetNext
    PROVE  faults' \in 0 .. MaxFaults
<1>1. TypeOK /\ faults \in 0 .. MaxFaults
  BY DEF Base, Typed, TypeOK
<1>2. CASE Begin \/ Up
  BY <1>1, <1>2, FaultType
  DEF Begin, Up, Quiet, Ask, EnsureNetwork, StartBootstrap, CreateContainer,
      StartContainer, WaitReady, NotReady, Inspect, StopBootstrap, StartBroker, Enroll,
      Enrolled, StartAgent, AgentStarted, NoAnswer, TimesOut, SaveRuntime, KillBroker
<1>3. CASE Down
  BY <1>1, <1>3, FaultType
  DEF Down, Quiet, Ask, LoadRuntime, Visit, ShutDown, NotShutDown, TimesOut,
      StopContainer, RemoveContainer, Halt, StopBroker, RemoveNetwork, RemoveFiles
<1>4. CASE Scenario
  BY <1>1, <1>4, FaultType
  DEF Scenario, Quiet, Ask, NoScenario, OpenRun, StartPeer, Script, ScriptEnds,
      ScriptLate, TimesOut, StopPeer, CloseRun
<1>5. CASE Environment
  BY <1>1, <1>5, FaultType
  DEF Environment, Quiet, StepFails, StepIgnored, Kill, Reboot, BrokerDies, OtherStarts,
      OtherExits, ForeignNetwork, ContainerDies, AgentExits, CommandStays, Mishap
<1>6. CASE \E s \in Slot : Supervise(s)
  BY <1>1, <1>6 DEF Supervise
<1>7. QED
  BY <1>2, <1>3, <1>4, <1>5, <1>6 DEF FleetNext

(* A step either leaves the channel alone, or is one of its steps.          *)
LEMMA SameType ==
    ASSUME TypeOK, faults' \in 0 .. MaxFaults, UNCHANGED channel
    PROVE  TypeOK'
BY DEF channel, TypeOK

LEMMA PostsType ==
    ASSUME Base, faults' \in 0 .. MaxFaults, cli.at \in Slot,
           NEW t \in {"start-agent", "agent-command", "scenario", "shutdown"}, NEW p, Posts(t, p)
    PROVE  TypeOK'
<1>1. t \in Types
  BY AsksAssumption
<1>2. PICK i \in Id : Post(i, cli.at, t)
  BY DEF Posts
<1>3. UNCHANGED <<ready, sup, agent>>
  BY <1>2 DEF Post
<1>4. QED
  BY <1>1, <1>2, <1>3, CallType DEF Base, Typed

LEMMA EndsType ==
    ASSUME TypeOK, faults' \in 0 .. MaxFaults, Receive(cli.id) \/ GiveUp(cli.id)
    PROVE  TypeOK'
<1>1. cli.id \in Id /\ UNCHANGED <<ready, sup, agent>>
  BY DEF Receive, GiveUp, TypeOK
<1>2. QED
  BY <1>1 DEF Receive, GiveUp, TypeOK

LEMMA ChannelStep ==
    ASSUME Base, FleetNext
    PROVE  TypeOK'
<1>1. CASE Begin
  BY <1>1, BeginEffect, FaultsStep, SameType
  DEF Base, Typed, Silent, Receives, Lapses
<1>2. CASE EnsureNetwork \/ StartBootstrap \/ CreateContainer
  BY <1>2, EnsureNetworkEffect, StartBootstrapEffect, CreateContainerEffect,
     FaultsStep, SameType
  DEF Base, Typed, Silent, Receives, Lapses
<1>3. CASE StartContainer \/ WaitReady \/ NotReady \/ Inspect
  BY <1>3, StartContainerEffect, WaitReadyEffect, NotReadyEffect,
     InspectEffect, FaultsStep, SameType, ChannelType
  DEF Base, Typed, Silent, Receives, Lapses
<1>4. CASE StopBootstrap \/ StartBroker \/ Enroll \/ StartAgent
  BY <1>4, StopBootstrapEffect, StartBrokerEffect, EnrollEffect,
     StartAgentEffect, FaultsStep, SameType, PostsType
  DEF Base, Typed, Silent, Receives, Lapses
<1>5. CASE Enrolled \/ AgentStarted \/ NoAnswer
  BY <1>5, EnrolledEffect, AgentStartedEffect, NoAnswerEffect, FaultsStep,
     SameType, EndsType
  DEF Base, Typed, Silent, Receives, Lapses
<1>6. CASE SaveRuntime \/ KillBroker
  BY <1>6, SaveRuntimeEffect, KillBrokerEffect, FaultsStep, SameType
  DEF Base, Typed, Silent, Receives, Lapses
<1>7. CASE LoadRuntime \/ Visit \/ ShutDown \/ NotShutDown
  BY <1>7, LoadRuntimeEffect, VisitEffect, ShutDownEffect, NotShutDownEffect,
     FaultsStep, SameType, PostsType, EndsType
  DEF Base, Typed, Silent, Receives, Lapses
<1>8. CASE StopContainer \/ RemoveContainer
  BY <1>8, StopContainerEffect, RemoveContainerEffect, HaltEffect, FaultsStep,
     SameType, ChannelType
  DEF Base, Typed, Silent, Receives, Lapses
<1>9. CASE StopBroker \/ RemoveNetwork \/ RemoveFiles
  BY <1>9, StopBrokerEffect, RemoveNetworkEffect, RemoveFilesEffect,
     FaultsStep, SameType
  DEF Base, Typed, Silent, Receives, Lapses
<1>10. CASE NoScenario \/ OpenRun \/ StartPeer \/ Script \/ ScriptEnds
  BY <1>10, NoScenarioEffect, OpenRunEffect, StartPeerEffect, ScriptEffect,
     ScriptEndsEffect, FaultsStep, SameType, PostsType, EndsType
  DEF Base, Typed, Silent, Receives, Lapses
<1>11. CASE ScriptLate \/ StopPeer \/ CloseRun
  BY <1>11, ScriptLateEffect, StopPeerEffect, CloseRunEffect, FaultsStep,
     SameType, EndsType
  DEF Base, Typed, Silent, Receives, Lapses
<1>12. CASE StepFails \/ StepIgnored
  BY <1>12, StepFailsEffect, StepIgnoredEffect, FaultsStep, SameType
  DEF Base, Typed, Silent, Receives, Lapses
<1>13. CASE Kill \/ Reboot \/ BrokerDies
  <2>1. CASE Kill
    BY <2>1, KillEffect, FaultsStep, SameType, EndsType DEF Base, Typed
  <2>2. CASE BrokerDies
    BY <2>2, BrokerDiesEffect, FaultsStep, SameType DEF Base, Typed
  <2>3. CASE Reboot
    <3>1. Off \in Supervisor
      BY DEF Off, Supervisor
    <3>2. QED
      BY <2>3, <3>1, RebootEffect, FaultsStep DEF Base, Typed, TypeOK
  <2>4. QED
    BY <1>13, <2>1, <2>2, <2>3
<1>14. CASE OtherStarts \/ OtherExits \/ ForeignNetwork
  BY <1>14, OtherStartsEffect, OtherExitsEffect, ForeignNetworkEffect,
     FaultsStep, SameType
  DEF Base, Typed, Silent, Receives, Lapses
<1>15. CASE \E s \in Slot :
     ContainerDies(s) \/ AgentExits(s) \/ CommandStays(s)
  BY <1>15, ContainerDiesEffect, AgentExitsEffect, CommandStaysEffect,
     FaultsStep, SameType, ChannelType
  DEF Base, Typed, Silent, Receives, Lapses
<1>16. CASE \E s \in Slot : Supervise(s)
  BY <1>16, SuperviseEffect, FaultsStep, SameType, ChannelType
  DEF Base, Typed, Silent, Receives, Lapses
<1>17. QED
  BY <1>1, <1>2, <1>3, <1>4, <1>5, <1>6, <1>7, <1>8, <1>9, <1>10, <1>11,
     <1>12, <1>13, <1>14, <1>15, <1>16
  DEF FleetNext, Up, Down, Scenario, Environment


LEMMA CallsKeep ==
    ASSUME NEW i, NEW s, NEW t, Post(i, s, t) \/ Receive(i) \/ GiveUp(i)
    PROVE  UNCHANGED <<sup, agent>>
BY DEF Post, Receive, GiveUp

LEMMA ChannelKeeps ==
    ASSUME UNCHANGED channel
    PROVE  UNCHANGED <<commands, type, responses, waiting, ready, sup, agent>>
BY DEF channel

LEMMA RootsFollow ==
    ASSUME Base, Rooted, NEW s \in Slot, host'.root = RootsAfter(s), sup[s].pc # "off", Others(s)
    PROVE  Rooted'
BY BaseFacts DEF Rooted, RootsAfter, Others

LEMMA RootedStep ==
    ASSUME Base, Rooted, FleetNext
    PROVE  Rooted'
<1>1. CASE Begin
  BY <1>1, BeginEffect, ChannelKeeps, CallsKeep
  DEF Rooted, Silent, Rootless, RootsAfter, Base, Typed
<1>2. CASE EnsureNetwork \/ StartBootstrap \/ CreateContainer
  BY <1>2, EnsureNetworkEffect, StartBootstrapEffect, CreateContainerEffect,
     ChannelKeeps, CallsKeep
  DEF Rooted, HostIs, Silent, Rootless, RootsAfter, Base, Typed
<1>3. CASE StartContainer \/ WaitReady \/ NotReady \/ Inspect
  <2>1. CASE StartContainer
    <3>1. CASE UNCHANGED <<channel, host>>
      BY <3>1, ChannelKeeps DEF Rooted
    <3>2. CASE ~ UNCHANGED <<channel, host>>
      <4>1. PICK r \in Root :
               HostIs(host.containers, [host.root EXCEPT ![cli.at] = r], host.network,
                      host.broker, host.bootstrap, host.peer, host.other)
        BY <2>1, <3>2, StartContainerEffect
      <4>2. Start(cli.at) /\ cli.at \in Slot
        BY <2>1, <3>2, StartContainerEffect
      <4>3. r # 0
        BY NumbersAssumption
      <4>4. /\ sup'[cli.at].pc = "boot" /\ \A x \in Slot \ {cli.at} : sup'[x] = sup[x]
        BY <4>2, StartBoot DEF Base, Typed, Others
      <4>5. host'.root = [host.root EXCEPT ![cli.at] = r] /\ host.root \in [Slot -> Root \cup {0}]
        BY <4>1, BaseFacts DEF HostIs
      <4>6. QED
        BY <4>2, <4>3, <4>4, <4>5 DEF Rooted
    <3>3. QED
      BY <3>1, <3>2
  <2>2. CASE WaitReady \/ NotReady \/ Inspect
    <3>1. UNCHANGED channel /\ UNCHANGED host
      BY <2>2 DEF WaitReady, NotReady, Inspect, Quiet
    <3>2. QED
      BY <3>1, ChannelKeeps DEF Rooted
  <2>3. QED
    BY <1>3, <2>1, <2>2
<1>4. CASE StopBootstrap \/ StartBroker \/ Enroll \/ StartAgent
  BY <1>4, StopBootstrapEffect, StartBrokerEffect, EnrollEffect, StartAgentEffect,
     ChannelKeeps, CallsKeep
  DEF Rooted, HostIs, Silent, Posts, Rootless, RootsAfter, Base, Typed
<1>5. CASE Enrolled \/ AgentStarted \/ NoAnswer
  BY <1>5, EnrolledEffect, AgentStartedEffect, NoAnswerEffect, ChannelKeeps, CallsKeep
  DEF Rooted, Receives, Lapses, Rootless, RootsAfter, Base, Typed
<1>6. CASE SaveRuntime \/ KillBroker
  BY <1>6, SaveRuntimeEffect, KillBrokerEffect, ChannelKeeps, CallsKeep
  DEF Rooted, HostIs, Slain, Silent, Rootless, RootsAfter, Base, Typed
<1>7. CASE LoadRuntime \/ Visit \/ ShutDown \/ NotShutDown
  BY <1>7, LoadRuntimeEffect, VisitEffect, ShutDownEffect, NotShutDownEffect,
     ChannelKeeps, CallsKeep
  DEF Rooted, Silent, Posts, Receives, Lapses, Rootless, RootsAfter, Base, Typed
<1>8. CASE StopContainer \/ RemoveContainer
  <2>1. /\ cli.at \in Slot /\ Halt(cli.at) /\ host'.root = [host.root EXCEPT ![cli.at] = 0]
        /\ host.root \in [Slot -> Root \cup {0}]
    BY <1>8, BaseFacts, StopContainerEffect, RemoveContainerEffect DEF HostIs, Rootless
  <2>2. sup'[cli.at].pc = "off" /\ \A x \in Slot \ {cli.at} : sup'[x] = sup[x]
    BY <2>1, HaltEffect, CrashOff, ChannelKeeps DEF Base, Typed, Aside, Others
  <2>3. QED
    BY <2>1, <2>2 DEF Rooted
<1>9. CASE StopBroker \/ RemoveNetwork \/ RemoveFiles
  BY <1>9, StopBrokerEffect, RemoveNetworkEffect, RemoveFilesEffect, ChannelKeeps,
     CallsKeep
  DEF Rooted, HostIs, Slain, Silent, Rootless, RootsAfter, Base, Typed
<1>10. CASE NoScenario \/ OpenRun \/ StartPeer \/ Script \/ ScriptEnds
  BY <1>10, NoScenarioEffect, OpenRunEffect, StartPeerEffect, ScriptEffect,
     ScriptEndsEffect, ChannelKeeps, CallsKeep
  DEF Rooted, HostIs, Silent, Posts, Receives, Rootless, RootsAfter, Base, Typed
<1>11. CASE ScriptLate \/ StopPeer \/ CloseRun
  BY <1>11, ScriptLateEffect, StopPeerEffect, CloseRunEffect, ChannelKeeps, CallsKeep
  DEF Rooted, HostIs, Silent, Lapses, Rootless, RootsAfter, Base, Typed
<1>12. CASE StepFails \/ StepIgnored
  BY <1>12, StepFailsEffect, StepIgnoredEffect, ChannelKeeps, CallsKeep
  DEF Rooted, Rootless, RootsAfter, Base, Typed
<1>13. CASE Kill \/ Reboot \/ BrokerDies
  <2>1. CASE Kill
    BY <2>1, KillEffect, ChannelKeeps, CallsKeep DEF Rooted
  <2>2. CASE Reboot
    BY <2>2, RebootEffect DEF Rooted, HostIs, Off
  <2>3. CASE BrokerDies
    BY <2>3, BrokerDiesEffect, ChannelKeeps DEF Rooted, HostIs
  <2>4. QED
    BY <1>13, <2>1, <2>2, <2>3
<1>14. CASE OtherStarts \/ OtherExits \/ ForeignNetwork
  BY <1>14, OtherStartsEffect, OtherExitsEffect, ForeignNetworkEffect, ChannelKeeps,
     CallsKeep
  DEF Rooted, HostIs, Silent, Rootless, RootsAfter, Base, Typed
<1>15. CASE \E s \in Slot : ContainerDies(s) \/ AgentExits(s) \/ CommandStays(s)
  <2>1. PICK s \in Slot : ContainerDies(s) \/ AgentExits(s) \/ CommandStays(s)
    BY <1>15
  <2>2. CASE ContainerDies(s)
    <3>1. Crash(s) /\ host'.root = [host.root EXCEPT ![s] = 0]
      BY <2>2, ContainerDiesEffect DEF HostIs, Rootless
    <3>2. sup'[s].pc = "off" /\ \A x \in Slot \ {s} : sup'[x] = sup[x]
      BY <3>1, CrashOff DEF Base, Typed, Aside, Others
    <3>3. QED
      BY <3>1, <3>2, BaseFacts DEF Rooted
  <2>3. CASE AgentExits(s)
    BY <2>3, AgentExitsEffect DEF Rooted, AgentDies
  <2>4. CASE CommandStays(s)
    <3>1. RemoveFails(s) /\ host'.root = RootsAfter(s)
      BY <2>4, CommandStaysEffect DEF HostIs
    <3>2. sup[s].pc # "off" /\ Others(s)
      BY <3>1, ProceedEffect DEF Base, Typed, RemoveFails, Aside
    <3>3. QED
      BY <3>1, <3>2, RootsFollow
  <2>5. QED
    BY <2>1, <2>2, <2>3, <2>4
<1>16. CASE \E s \in Slot : Supervise(s)
  <2>1. PICK s \in Slot : Supervise(s)
    BY <1>16
  <2>2. Work(s) /\ host'.root = RootsAfter(s)
    BY <2>1, SuperviseEffect DEF HostIs
  <2>3. sup[s].pc # "off" /\ Others(s)
    BY <2>2, WorkEffect DEF Base, Typed, Aside
  <2>4. QED
    BY <2>2, <2>3, RootsFollow
<1>17. QED
  BY <1>1, <1>2, <1>3, <1>4, <1>5, <1>6, <1>7, <1>8, <1>9, <1>10, <1>11,
     <1>12, <1>13, <1>14, <1>15, <1>16
  DEF FleetNext, Up, Down, Scenario, Environment

LEMMA TypedStep ==
    ASSUME Base, FleetNext
    PROVE  Typed'
<1>1. Rooted'
  BY RootedStep DEF Base, Typed
<1>2. QED
  BY <1>1, RecordsStep, ChannelStep DEF Typed


(* Only a container that is there has a supervisor, and an agent only one   *)
(* that has a supervisor.                                                   *)
LEMMA HousedSame ==
    ASSUME Housed, UNCHANGED <<sup, agent>>, host.containers \subseteq host'.containers,
           cli'.pc \in Opening \ {"create"} => cli'.at \in host'.containers
    PROVE  Housed'
BY DEF Housed

LEMMA HousedOff ==
    ASSUME Housed, NEW s \in Slot, Aside(s), sup'[s].pc = "off", agent'[s] = "none",
           host.containers \subseteq host'.containers \cup {s},
           cli'.pc \in Opening \ {"create"} => cli'.at \in host'.containers
    PROVE  Housed'
BY DEF Housed, Aside, Others

LEMMA HousedOn ==
    ASSUME Housed, NEW s \in Slot, Aside(s), sup'[s].pc # "off", s \in host.containers,
           host'.containers = host.containers,
           cli'.pc \in Opening \ {"create"} => cli'.at \in host'.containers
    PROVE  Housed'
BY DEF Housed, Aside, Others

LEMMA HousedStep ==
    ASSUME Base, Housed, FleetNext
    PROVE  Housed'
<1>1. CASE Begin
  BY <1>1, BeginEffect, ChannelKeeps, CallsKeep, HousedSame DEF Silent, Fresh, Opening
<1>2. CASE EnsureNetwork \/ StartBootstrap \/ CreateContainer
  BY <1>2, EnsureNetworkEffect, StartBootstrapEffect, CreateContainerEffect,
     ChannelKeeps, CallsKeep, HousedSame
  DEF HostIs, Silent, To, Turn, Fresh, Over, Opening
<1>3. CASE StartContainer \/ WaitReady \/ NotReady \/ Inspect
  <2>1. cli'.pc \in Opening \ {"create"} => cli'.at \in host.containers
    BY <1>3, StartContainerEffect, WaitReadyEffect, NotReadyEffect, InspectEffect
    DEF Housed, Opening, To, Turn
  <2>2. host'.containers = host.containers
    BY <1>3, StartContainerEffect, WaitReadyEffect, NotReadyEffect, InspectEffect DEF HostIs
  <2>3. CASE UNCHANGED channel
    BY <2>1, <2>2, <2>3, ChannelKeeps, HousedSame
  <2>4. CASE StartContainer /\ ~ UNCHANGED channel
    <3>1. Start(cli.at) /\ cli.at \in Slot /\ cli.at \in host.containers
      BY <2>4, StartContainerEffect DEF Housed, Opening
    <3>2. Aside(cli.at) /\ sup'[cli.at].pc # "off"
      BY <3>1, StartBoot DEF Base, Typed, Aside
    <3>3. QED
      BY <2>1, <2>2, <3>1, <3>2, HousedOn
  <2>5. (WaitReady \/ NotReady \/ Inspect) => UNCHANGED channel
    BY DEF WaitReady, NotReady, Inspect, Quiet
  <2>6. QED
    BY <1>3, <2>3, <2>4, <2>5
<1>4. CASE StopBootstrap \/ StartBroker \/ Enroll \/ StartAgent
  BY <1>4, StopBootstrapEffect, StartBrokerEffect, EnrollEffect, StartAgentEffect,
     ChannelKeeps, CallsKeep, HousedSame
  DEF HostIs, Silent, Posts, To, Turn, Fresh, Over, Opening
<1>5. CASE Enrolled \/ AgentStarted \/ NoAnswer
  BY <1>5, EnrolledEffect, AgentStartedEffect, NoAnswerEffect, ChannelKeeps, CallsKeep,
     HousedSame
  DEF Receives, Lapses, To, Turn, Opening
<1>6. CASE SaveRuntime \/ KillBroker
  BY <1>6, SaveRuntimeEffect, KillBrokerEffect, ChannelKeeps, CallsKeep, HousedSame
  DEF HostIs, Slain, Silent, Fresh, Over, Done, Opening
<1>7. CASE LoadRuntime \/ Visit \/ ShutDown \/ NotShutDown
  BY <1>7, LoadRuntimeEffect, VisitEffect, ShutDownEffect, NotShutDownEffect,
     ChannelKeeps, CallsKeep, HousedSame
  DEF Silent, Posts, Receives, Lapses, To, Turn, Goes, Opening
<1>8. CASE StopContainer \/ RemoveContainer
  <2>1. /\ cli.at \in Slot /\ Halt(cli.at)
        /\ host.containers \subseteq host'.containers \cup {cli.at}
        /\ cli'.pc \notin Opening
    BY <1>8, StopContainerEffect, RemoveContainerEffect DEF HostIs, To, Turn, Goes, Opening
  <2>2. Aside(cli.at) /\ sup'[cli.at].pc = "off" /\ agent'[cli.at] = "none"
    BY <2>1, HaltEffect, CrashOff, ChannelKeeps DEF Base, Typed, Aside, Others, Housed
  <2>3. QED
    BY <2>1, <2>2, HousedOff
<1>9. CASE StopBroker \/ RemoveNetwork \/ RemoveFiles
  BY <1>9, StopBrokerEffect, RemoveNetworkEffect, RemoveFilesEffect, ChannelKeeps,
     CallsKeep, HousedSame
  DEF HostIs, Slain, Silent, To, Turn, Fresh, Done, Opening
<1>10. CASE NoScenario \/ OpenRun \/ StartPeer \/ Script \/ ScriptEnds
  BY <1>10, NoScenarioEffect, OpenRunEffect, StartPeerEffect, ScriptEffect,
     ScriptEndsEffect, ChannelKeeps, CallsKeep, HousedSame
  DEF HostIs, Silent, Posts, Receives, To, Turn, Fresh, Over, Judges, Opening
<1>11. CASE ScriptLate \/ StopPeer \/ CloseRun
  BY <1>11, ScriptLateEffect, StopPeerEffect, CloseRunEffect, ChannelKeeps, CallsKeep,
     HousedSame
  DEF HostIs, Silent, Lapses, To, Turn, Fresh, Done, Judges, Opening
<1>12. CASE StepFails \/ StepIgnored
  BY <1>12, StepFailsEffect, StepIgnoredEffect, ChannelKeeps, CallsKeep, HousedSame
  DEF To, Turn, Fresh, Over, Ends, Goes, Judges, Opening
<1>13. CASE Kill \/ Reboot \/ BrokerDies
  <2>1. CASE Kill
    BY <2>1, KillEffect, ChannelKeeps, CallsKeep, HousedSame DEF Fresh, Opening
  <2>2. CASE Reboot
    <3>1. cli'.pc \notin Opening
      BY <2>2, RebootEffect DEF Fresh, Opening
    <3>2. \A s \in Slot : sup'[s].pc = "off" /\ agent'[s] = "none"
      BY <2>2, RebootEffect DEF Off
    <3>3. QED
      BY <3>1, <3>2 DEF Housed
  <2>3. CASE BrokerDies
    BY <2>3, BrokerDiesEffect, ChannelKeeps, HousedSame DEF Housed, HostIs, Hit
  <2>4. QED
    BY <1>13, <2>1, <2>2, <2>3
<1>14. CASE OtherStarts \/ OtherExits \/ ForeignNetwork
  BY <1>14, OtherStartsEffect, OtherExitsEffect, ForeignNetworkEffect, ChannelKeeps,
     CallsKeep, HousedSame
  DEF HostIs, Silent, Housed
<1>15. CASE \E s \in Slot : ContainerDies(s) \/ AgentExits(s) \/ CommandStays(s)
  <2>1. PICK s \in Slot : ContainerDies(s) \/ AgentExits(s) \/ CommandStays(s)
    BY <1>15
  <2>2. /\ host'.containers = host.containers
        /\ cli'.pc \in Opening \ {"create"} => cli'.at \in host'.containers
    BY <2>1, ContainerDiesEffect, AgentExitsEffect, CommandStaysEffect DEF HostIs, Hit, Housed
  <2>3. CASE ContainerDies(s)
    <3>1. Aside(s) /\ sup'[s].pc = "off" /\ agent'[s] = "none"
      BY <2>3, ContainerDiesEffect, CrashOff DEF Base, Typed
    <3>2. QED
      BY <2>2, <3>1, HousedOff
  <2>4. CASE AgentExits(s)
    <3>1. UNCHANGED sup /\ agent' = [agent EXCEPT ![s] = "none"] /\ agent \in [Slot -> {"none", "running"}]
      BY <2>4, AgentExitsEffect DEF AgentDies, Base, Typed, TypeOK
    <3>2. QED
      BY <2>2, <3>1 DEF Housed
  <2>5. CASE CommandStays(s)
    <3>1. RemoveFails(s) /\ s \in host.containers
      BY <2>5, CommandStaysEffect DEF RemoveFails, Housed
    <3>2. Aside(s) /\ (sup'[s].pc # "off" \/ (sup'[s].pc = "off" /\ agent'[s] = "none"))
      BY <3>1, ProceedEffect DEF Base, Typed, RemoveFails
    <3>3. QED
      BY <2>2, <3>1, <3>2, HousedOff, HousedOn
  <2>6. QED
    BY <2>1, <2>3, <2>4, <2>5
<1>16. CASE \E s \in Slot : Supervise(s)
  <2>1. PICK s \in Slot : Supervise(s)
    BY <1>16
  <2>2. /\ Work(s) /\ host'.containers = host.containers
        /\ cli'.pc \in Opening \ {"create"} => cli'.at \in host'.containers
    BY <2>1, SuperviseEffect DEF HostIs, Housed
  <2>3. Aside(s) /\ s \in host.containers
    BY <2>2, WorkEffect DEF Base, Typed, Housed
  <2>4. sup'[s].pc # "off" \/ (sup'[s].pc = "off" /\ agent'[s] = "none")
    BY <2>2, WorkEffect, ProceedEffect DEF Base, Typed
  <2>5. QED
    BY <2>2, <2>3, <2>4, HousedOff, HousedOn
<1>17. QED
  BY <1>1, <1>2, <1>3, <1>4, <1>5, <1>6, <1>7, <1>8, <1>9, <1>10, <1>11,
     <1>12, <1>13, <1>14, <1>15, <1>16
  DEF FleetNext, Up, Down, Scenario, Environment

-----------------------------------------------------------------------------
(* The mailboxes.  Unless something was late, the commands in them are the  *)
(* one the client waits for and those that are just being removed.          *)
Same == cli'.pc = cli.pc /\ cli'.id = cli.id /\ cli'.at = cli.at
Free == cli.pc \notin Awaiting /\ cli'.pc \notin Awaiting

LEMMA MailLate ==
    ASSUME past' \cap {"late", "remove"} # {}
    PROVE  Mail'
BY DEF Mail, Never

LEMMA MailQuiet ==
    ASSUME Mail, Same \/ Free, past \subseteq past', UNCHANGED <<commands, type, responses>>,
           \A s \in Slot :
              \/ sup'[s] = sup[s]
              \/ /\ sup'[s].pc \in {"off", "boot", "poll"} /\ sup'[s].batch = {}
                 /\ sup[s].pc = "remove" => commands[s] = {} \/ past' \cap {"late", "remove"} # {}
    PROVE  Mail'
<1> SUFFICES ASSUME Never({"late", "remove"})' PROVE Mail'
  BY DEF Mail
<1>1. Never({"late", "remove"})
  BY DEF Never
<1>2. Pending' <=> Pending
  BY DEF Pending, Same, Free
<1>3. Pending => Same
  BY DEF Pending, Free
<1>4. past' \cap {"late", "remove"} = {}
  BY DEF Never
<1>5. Pending' => (cli.id \in commands[cli.at] /\ Asked(type[cli.id]))'
  <2>1. SUFFICES ASSUME Pending PROVE (cli.id \in commands[cli.at] /\ Asked(type[cli.id]))'
    BY <1>2
  <2>2. QED
    BY <2>1, <1>1, <1>3 DEF Mail, Asked, Same
<1>6. \A s \in Slot :
         (/\ sup[s].batch = {}
          /\ \A i \in commands[s] : \/ Pending /\ i = cli.id /\ s = cli.at
                                    \/ sup[s].pc = "remove" /\ sup[s].at = i
          /\ sup[s].pc \in {"execute", "answer"} => Pending /\ sup[s].at = cli.id /\ s = cli.at
          /\ sup[s].pc = "answer" => sup[s].status # "none"
          /\ sup[s].pc = "remove" => sup[s].at \in Id /\ ~ (Pending /\ sup[s].at = cli.id))'
  <2> TAKE s \in Slot
  <2>1. CASE sup'[s] = sup[s]
    BY <1>1, <1>2, <1>3, <2>1 DEF Mail, Same
  <2>2. CASE /\ sup'[s].pc \in {"off", "boot", "poll"} /\ sup'[s].batch = {}
             /\ sup[s].pc = "remove" => commands[s] = {} \/ past' \cap {"late", "remove"} # {}
    BY <1>1, <1>2, <1>3, <1>4, <2>2 DEF Mail, Same
  <2>3. QED
    BY <2>1, <2>2
<1>7. QED
  BY <1>5, <1>6 DEF Mail

LEMMA MailStill ==
    ASSUME Mail, Same \/ Free, past \subseteq past', UNCHANGED <<commands, type, responses, sup>>
    PROVE  Mail'
BY MailQuiet

LEMMA MailPosts ==
    ASSUME Base, Mail, cli.pc \notin Awaiting, cli.at \in Slot, NEW t, NEW p \in Awaiting, Posts(t, p),
           /\ p = "enrolling" => t = "agent-command"
           /\ p = "starting" => t = "start-agent"
           /\ p = "asking" => t = "shutdown"
           /\ p = "await script" => t = "scenario"
    PROVE  Mail'
<1> SUFFICES ASSUME Never({"late", "remove"})' PROVE Mail'
  BY DEF Mail
<1>1. PICK i \in Id : /\ Post(i, cli.at, t)
                      /\ Turn(p, cli.at, cli.owned, cli.pid, i, cli.result)
  BY DEF Posts
<1>2. /\ cli'.pc = p /\ cli'.id = i /\ cli'.at = cli.at
      /\ responses' = responses /\ responses[i] = "none"
      /\ commands' = [commands EXCEPT ![cli.at] = @ \cup {i}]
      /\ type' = [type EXCEPT ![i] = t]
      /\ sup' = sup
      /\ \A s \in Slot : i \notin commands[s] /\ i # sup[s].at
      /\ commands \in [Slot -> SUBSET Id] /\ type \in [Id -> Types \cup {"none"}]
  BY <1>1 DEF Turn, Post, Unused, Base, Typed, TypeOK
<1>3. Never({"late", "remove"})
  BY DEF Never, Posts, Steady
<1>4. ~ Pending /\ Pending'
  BY <1>2 DEF Pending
<1>5. (cli.id \in commands[cli.at] /\ Asked(type[cli.id]))'
  BY <1>2 DEF Asked
<1>6. \A s \in Slot :
         (/\ sup[s].batch = {}
          /\ \A j \in commands[s] : \/ Pending /\ j = cli.id /\ s = cli.at
                                    \/ sup[s].pc = "remove" /\ sup[s].at = j
          /\ sup[s].pc \in {"execute", "answer"} => Pending /\ sup[s].at = cli.id /\ s = cli.at
          /\ sup[s].pc = "answer" => sup[s].status # "none"
          /\ sup[s].pc = "remove" => sup[s].at \in Id /\ ~ (Pending /\ sup[s].at = cli.id))'
  BY <1>2, <1>3, <1>4 DEF Mail
<1>7. QED
  BY <1>5, <1>6 DEF Mail

LEMMA MailReceived ==
    ASSUME Base, Mail, Receive(cli.id), UNCHANGED past, cli'.pc \notin Awaiting
    PROVE  Mail'
<1> SUFFICES ASSUME Never({"late", "remove"})' PROVE Mail'
  BY DEF Mail
<1>1. Never({"late", "remove"})
  BY DEF Never
<1>2. ~ Pending /\ ~ Pending'
  BY DEF Pending, Receive
<1>3. UNCHANGED <<commands, sup>>
  BY DEF Receive
<1>4. QED
  BY <1>1, <1>2, <1>3 DEF Mail

LEMMA MailWork ==
    ASSUME Base, Mail, NEW s \in Slot, Work(s), UNCHANGED <<cli, past>>
    PROVE  Mail'
<1> SUFFICES ASSUME Never({"late", "remove"})' PROVE Mail'
  BY DEF Mail
<1>1. /\ Never({"late", "remove"}) /\ TypeOK /\ Others(s)
      /\ commands \in [Slot -> SUBSET Id] /\ type \in [Id -> Types \cup {"none"}]
      /\ responses \in [Id -> {"none", "ok", "error"}]
  BY WorkEffect DEF Never, Base, Typed, TypeOK, Aside
<1>2. CASE Boot(s)
  <2>1. /\ sup'[s].pc = "poll" /\ sup'[s].batch = sup[s].batch /\ sup[s].pc = "boot"
        /\ UNCHANGED <<commands, type, responses>>
    BY <1>1, <1>2, PcEffect DEF Boot
  <2>2. sup'[s].batch = {}
    BY <1>1, <2>1 DEF Mail
  <2>3. QED
    BY <1>1, <2>1, <2>2, MailQuiet DEF Same, Others
<1>3. CASE Take(s)
  <2>1. /\ sup[s].pc = "poll" /\ sup'[s].pc = "execute" /\ sup'[s].at \in Listing(s)
        /\ sup'[s].batch = Listing(s) \ {sup'[s].at}
        /\ UNCHANGED <<commands, type, responses>>
    BY <1>1, <1>3, TakeEffect DEF Take
  <2>2. Listing(s) = commands[s]
    BY <1>1 DEF Listing, Mail
  <2>3. \A i \in commands[s] : Pending /\ i = cli.id /\ s = cli.at
    BY <1>1, <2>1 DEF Mail
  <2>4. Pending /\ sup'[s].at = cli.id /\ s = cli.at /\ sup'[s].batch = {}
    BY <2>1, <2>2, <2>3
  <2>5. Pending'
    BY <2>1, <2>4 DEF Pending
  <2>6. Pending' => (cli.id \in commands[cli.at] /\ Asked(type[cli.id]))'
    BY <1>1, <2>1, <2>4, <2>5 DEF Mail, Asked
  <2>7. \A x \in Slot :
          (/\ sup[x].batch = {}
           /\ \A i \in commands[x] : \/ Pending /\ i = cli.id /\ x = cli.at
                                     \/ sup[x].pc = "remove" /\ sup[x].at = i
           /\ sup[x].pc \in {"execute", "answer"} => Pending /\ sup[x].at = cli.id /\ x = cli.at
           /\ sup[x].pc = "answer" => sup[x].status # "none"
           /\ sup[x].pc = "remove" => sup[x].at \in Id /\ ~ (Pending /\ sup[x].at = cli.id))'
    <3> TAKE x \in Slot
    <3>1. CASE x = s
      BY <1>1, <2>1, <2>4, <2>5, <3>1 DEF Mail
    <3>2. CASE x # s
      BY <1>1, <2>1, <2>4, <2>5, <3>2 DEF Mail, Others
    <3>3. QED
      BY <3>1, <3>2
  <2>8. QED
    BY <2>6, <2>7 DEF Mail
<1>4. CASE Finish(s)
  <2>1. /\ sup[s].pc = "execute" /\ sup'[s].pc = "answer" /\ sup'[s].at = sup[s].at
        /\ sup'[s].batch = sup[s].batch /\ sup'[s].status \in {"ok", "error"}
        /\ UNCHANGED <<commands, type, responses>>
    BY <1>1, <1>4, FinishEffect DEF Finish
  <2>2. Pending /\ sup[s].at = cli.id /\ s = cli.at
    BY <1>1, <2>1 DEF Mail
  <2>3. Pending'
    BY <2>1, <2>2 DEF Pending
  <2>4. Pending' => (cli.id \in commands[cli.at] /\ Asked(type[cli.id]))'
    BY <1>1, <2>1, <2>2, <2>3 DEF Mail, Asked
  <2>5. \A x \in Slot :
          (/\ sup[x].batch = {}
           /\ \A i \in commands[x] : \/ Pending /\ i = cli.id /\ x = cli.at
                                     \/ sup[x].pc = "remove" /\ sup[x].at = i
           /\ sup[x].pc \in {"execute", "answer"} => Pending /\ sup[x].at = cli.id /\ x = cli.at
           /\ sup[x].pc = "answer" => sup[x].status # "none"
           /\ sup[x].pc = "remove" => sup[x].at \in Id /\ ~ (Pending /\ sup[x].at = cli.id))'
    <3> TAKE x \in Slot
    <3>1. CASE x = s
      BY <1>1, <2>1, <2>2, <2>3, <3>1 DEF Mail
    <3>2. CASE x # s
      BY <1>1, <2>1, <2>2, <2>3, <3>2 DEF Mail, Others
    <3>3. QED
      BY <3>1, <3>2
  <2>6. QED
    BY <2>4, <2>5 DEF Mail
<1>5. CASE Answer(s)
  <2>1. /\ sup[s].pc = "answer" /\ sup'[s].pc = "remove" /\ sup'[s].at = sup[s].at
        /\ sup'[s].batch = sup[s].batch
        /\ responses' = [responses EXCEPT ![sup[s].at] = sup[s].status]
        /\ UNCHANGED <<commands, type>>
    BY <1>1, <1>5, PcEffect DEF Answer
  <2>2. Pending /\ sup[s].at = cli.id /\ s = cli.at /\ sup[s].status # "none"
    BY <1>1, <2>1 DEF Mail
  <2>3. cli.id \in Id
    BY <1>1, <2>2 DEF Mail
  <2>4. ~ Pending'
    BY <1>1, <2>1, <2>2, <2>3 DEF Pending
  <2>5. QED
    BY <1>1, <2>1, <2>2, <2>3, <2>4 DEF Mail, Others
<1>6. CASE Remove(s)
  <2>1. /\ sup[s].pc = "remove"
        /\ commands' = [commands EXCEPT ![s] = @ \ {sup[s].at}]
        /\ type' = [type EXCEPT ![sup[s].at] = "none"] /\ responses' = responses
        /\ sup'[s].pc \in {"off", "poll"} /\ sup'[s].batch = {}
    BY <1>1, <1>6, ProceedEffect DEF Remove, Mail
  <2>2. Pending => cli.id # sup[s].at
    BY <1>1, <2>1 DEF Mail
  <2>3. Pending' <=> Pending
    BY <2>1 DEF Pending
  <2>4. Pending' => (cli.id \in commands[cli.at] /\ Asked(type[cli.id]))'
    <3>1. SUFFICES ASSUME Pending PROVE (cli.id \in commands[cli.at] /\ Asked(type[cli.id]))'
      BY <2>3
    <3>2. cli.id \in commands[cli.at] /\ Asked(type[cli.id]) /\ cli.at \in Slot /\ cli.id \in Id
      BY <1>1, <3>1, BaseFacts DEF Mail, Pending, Awaiting, Unplaced
    <3>3. type'[cli.id] = type[cli.id] /\ cli.id \in commands'[cli.at]
      BY <1>1, <2>1, <2>2, <3>1, <3>2
    <3>4. QED
      BY <3>2, <3>3 DEF Asked
  <2>5. QED
    BY <1>1, <2>1, <2>2, <2>3, <2>4 DEF Mail, Others
<1>7. QED
  BY <1>2, <1>3, <1>4, <1>5, <1>6 DEF Work

LEMMA MailStep ==
    ASSUME Base, Controlled, Mail, FleetNext
    PROVE  Mail'
<1>1. CASE Begin
  BY <1>1, BeginEffect, ChannelKeeps, MailStill
  DEF Controlled, Same, Free, Awaiting, Fresh, Silent
<1>2. CASE EnsureNetwork \/ StartBootstrap \/ CreateContainer
  BY <1>2, EnsureNetworkEffect, StartBootstrapEffect, CreateContainerEffect,
     ChannelKeeps, MailStill
  DEF Same, Free, Awaiting, To, Turn, Fresh, Over, Silent, Steady
<1>3. CASE StartContainer \/ WaitReady \/ NotReady \/ Inspect
  <2>1. Free /\ UNCHANGED past
    BY <1>3, StartContainerEffect, WaitReadyEffect, NotReadyEffect, InspectEffect
    DEF Free, Awaiting, To, Turn, Steady
  <2>2. CASE UNCHANGED channel
    BY <2>1, <2>2, ChannelKeeps, MailStill
  <2>3. CASE StartContainer /\ ~ UNCHANGED channel
    <3>1. Start(cli.at) /\ cli.at \in Slot
      BY <2>3, StartContainerEffect
    <3>2. /\ UNCHANGED <<commands, type, responses>> /\ sup[cli.at].pc = "off"
          /\ \A s \in Slot : \/ sup'[s] = sup[s]
                             \/ s = cli.at /\ sup'[s].pc = "boot" /\ sup'[s].batch = {}
      BY <3>1, StartBoot DEF Base, Typed, Others
    <3>3. QED
      BY <2>1, <3>2, MailQuiet
  <2>4. (WaitReady \/ NotReady \/ Inspect) => UNCHANGED channel
    BY DEF WaitReady, NotReady, Inspect, Quiet
  <2>5. QED
    BY <1>3, <2>2, <2>3, <2>4
<1>4. CASE StopBootstrap \/ StartBroker \/ Enroll \/ StartAgent
  BY <1>4, StopBootstrapEffect, StartBrokerEffect, EnrollEffect, StartAgentEffect,
     ChannelKeeps, MailStill, MailPosts
  DEF Same, Free, Awaiting, To, Turn, Fresh, Over, Silent, Steady
<1>5. CASE Enrolled \/ AgentStarted \/ NoAnswer
  BY <1>5, EnrolledEffect, AgentStartedEffect, NoAnswerEffect, ChannelKeeps, MailStill,
     MailReceived, MailLate
  DEF Same, Free, Awaiting, To, Turn, Steady, Lapses, Receives
<1>6. CASE SaveRuntime \/ KillBroker
  BY <1>6, SaveRuntimeEffect, KillBrokerEffect, ChannelKeeps, MailStill
  DEF Same, Free, Awaiting, Fresh, Over, Done, Silent
<1>7. CASE LoadRuntime \/ Visit \/ ShutDown \/ NotShutDown
  BY <1>7, LoadRuntimeEffect, VisitEffect, ShutDownEffect, NotShutDownEffect,
     ChannelKeeps, MailStill, MailPosts, MailReceived, MailLate
  DEF Same, Free, Awaiting, To, Turn, Goes, Silent, Steady, Lapses, Receives
<1>8. CASE StopContainer \/ RemoveContainer
  <2>1. cli.at \in Slot /\ Halt(cli.at) /\ Free
    BY <1>8, StopContainerEffect, RemoveContainerEffect DEF Free, Awaiting, To, Turn, Goes
  <2>2. past \subseteq past' /\ (commands[cli.at] # {} => "late" \in past')
    BY <2>1, HaltEffect
  <2>3. CASE UNCHANGED channel
    BY <2>1, <2>2, <2>3, ChannelKeeps, MailStill
  <2>4. CASE Crash(cli.at)
    BY <2>1, <2>2, <2>4, CrashOff, MailQuiet DEF Base, Typed, Aside, Others
  <2>5. QED
    BY <2>1, <2>3, <2>4, HaltEffect
<1>9. CASE StopBroker \/ RemoveNetwork \/ RemoveFiles
  BY <1>9, StopBrokerEffect, RemoveNetworkEffect, RemoveFilesEffect, ChannelKeeps,
     MailStill
  DEF Same, Free, Awaiting, To, Turn, Fresh, Done, Silent, Steady
<1>10. CASE NoScenario \/ OpenRun \/ StartPeer \/ Script \/ ScriptEnds
  BY <1>10, NoScenarioEffect, OpenRunEffect, StartPeerEffect, ScriptEffect,
     ScriptEndsEffect, ChannelKeeps, MailStill, MailPosts, MailReceived, MailLate
  DEF Same, Free, Awaiting, To, Turn, Fresh, Over, Judges, Silent, Steady, Receives
<1>11. CASE ScriptLate \/ StopPeer \/ CloseRun
  BY <1>11, ScriptLateEffect, StopPeerEffect, CloseRunEffect, ChannelKeeps, MailStill,
     MailReceived, MailLate
  DEF Same, Free, Awaiting, To, Turn, Fresh, Done, Silent, Steady, Lapses
<1>12. CASE StepFails \/ StepIgnored
  BY <1>12, StepFailsEffect, StepIgnoredEffect, ChannelKeeps, MailStill
  DEF Same, Free, Awaiting, To, Turn, Fresh, Over, Ends, Goes, Judges, Steady
<1>13. CASE Kill \/ Reboot \/ BrokerDies
  BY <1>13, KillEffect, RebootEffect, BrokerDiesEffect, ChannelKeeps, MailStill,
     MailLate
  DEF Same, Free, Awaiting, Fresh, Hit
<1>14. CASE OtherStarts \/ OtherExits \/ ForeignNetwork
  BY <1>14, OtherStartsEffect, OtherExitsEffect, ForeignNetworkEffect, ChannelKeeps,
     MailStill
  DEF Same, Free, Awaiting, Silent, Steady
<1>15. CASE \E s \in Slot : ContainerDies(s) \/ AgentExits(s) \/ CommandStays(s)
  <2>1. PICK s \in Slot : ContainerDies(s) \/ AgentExits(s) \/ CommandStays(s)
    BY <1>15
  <2>2. CASE ContainerDies(s)
    BY <2>2, ContainerDiesEffect, CrashOff, MailQuiet DEF Base, Typed, Aside, Others, Hit, Same
  <2>3. CASE AgentExits(s)
    BY <2>3, AgentExitsEffect, MailStill DEF AgentDies, Hit, Same
  <2>4. CASE CommandStays(s)
    BY <2>4, CommandStaysEffect, MailLate
  <2>5. QED
    BY <2>1, <2>2, <2>3, <2>4
<1>16. CASE \E s \in Slot : Supervise(s)
  BY <1>16, SuperviseEffect, MailWork
<1>17. QED
  BY <1>1, <1>2, <1>3, <1>4, <1>5, <1>6, <1>7, <1>8, <1>9, <1>10, <1>11,
     <1>12, <1>13, <1>14, <1>15, <1>16
  DEF FleetNext, Up, Down, Scenario, Environment

-----------------------------------------------------------------------------
(* An agent goes on running through the steps of the supervisors, unless    *)
(* the client asks for its end.                                             *)
LEMMA RunningSame ==
    ASSUME NEW x \in Slot, Running(x), UNCHANGED <<type, sup, agent>>
    PROVE  Running(x)'
BY DEF Running, Staying

LEMMA RunningCalls ==
    ASSUME NEW x \in Slot, Running(x), Receive(cli.id) \/ GiveUp(cli.id)
    PROVE  Running(x)'
BY RunningSame DEF Receive, GiveUp

LEMMA RunningPosts ==
    ASSUME Base, Mail, Never({"late", "remove"}), NEW x \in Slot, Running(x),
           NEW t, NEW p, Posts(t, p)
    PROVE  Running(x)'
<1>1. PICK i \in Id : Post(i, cli.at, t)
  BY DEF Posts
<1>2. /\ UNCHANGED <<sup, agent>> /\ type' = [type EXCEPT ![i] = t] /\ i # sup[x].at
      /\ type \in [Id -> Types \cup {"none"}]
      /\ sup[x].pc = "remove" => sup[x].at \in Id
  BY <1>1 DEF Post, Unused, Base, Typed, TypeOK, Mail
<1>3. QED
  BY <1>2 DEF Running, Staying

LEMMA RunningWork ==
    ASSUME Base, Mail, Never({"late", "remove"}), cli.pc # "asking",
           NEW s \in Slot, Work(s), NEW x \in Slot, Running(x)
    PROVE  Running(x)'
<1>1. /\ Aside(s) /\ type \in [Id -> Types \cup {"none"}]
      /\ sup[x].pc = "remove" => sup[x].at \in Id
      /\ sup[x].pc # "off" /\ agent[x] = "running" /\ Staying(x)
  BY WorkEffect DEF Base, Typed, TypeOK, Mail, Running
<1>2. sup[s].pc \in {"execute", "answer"} =>
          type[sup[s].at] \in {"agent-command", "start-agent", "scenario"}
  BY DEF Mail, Asked, Pending, Awaiting
<1>3. CASE x # s
  <2>1. sup'[x] = sup[x] /\ agent'[x] = agent[x]
    BY <1>1, <1>3 DEF Aside, Others
  <2>2. type' = type \/ type' = [type EXCEPT ![sup[s].at] = "none"]
    BY WorkEffect DEF Base, Typed
  <2>3. Staying(x)'
    BY <1>1, <2>1, <2>2 DEF Staying
  <2>4. QED
    BY <1>1, <2>1, <2>3 DEF Running
<1>4. CASE x = s
  <2>1. CASE Boot(s)
    BY <1>1, <1>4, <2>1, PcEffect DEF Boot, Running, Staying, Base, Typed
  <2>2. CASE Take(s)
    BY <1>1, <1>4, <2>2, TakeEffect DEF Take, Running, Staying, Base, Typed
  <2>3. CASE Finish(s)
    <3>1. /\ sup'[s].pc = "answer" /\ agent'[s] = AgentAfter(s, type[sup[s].at])
          /\ sup[s].pc = "execute"
      BY <2>3, FinishEffect DEF Finish, Base, Typed, TypeOK
    <3>2. agent'[s] = "running"
      BY <1>1, <1>2, <1>4, <3>1 DEF AgentAfter, Stops
    <3>3. QED
      BY <1>4, <3>1, <3>2 DEF Running, Staying
  <2>4. CASE Answer(s)
    <3>1. /\ sup'[s].pc = "remove" /\ sup'[s].at = sup[s].at /\ UNCHANGED <<type, agent>>
          /\ sup[s].pc = "answer"
      BY <2>4, PcEffect DEF Answer, Base, Typed
    <3>2. QED
      BY <1>1, <1>2, <1>4, <3>1 DEF Running, Staying
  <2>5. CASE Remove(s)
    <3>1. sup'[s].pc = "poll" /\ UNCHANGED agent
      BY <1>1, <1>4, <2>5, ProceedEffect DEF Remove, Staying, Base, Typed
    <3>2. QED
      BY <1>1, <1>4, <3>1 DEF Running, Staying
  <2>6. QED
    BY <2>1, <2>2, <2>3, <2>4, <2>5 DEF Work
<1>5. QED
  BY <1>3, <1>4

(* A fleet goes on being served.                                            *)
LEMMA ServingKept ==
    ASSUME Serving, \A x \in Slot : Running(x) => Running(x)',
           host'.containers = host.containers, host'.root = host.root,
           host'.broker = host.broker, host'.bootstrap = host.bootstrap,
           disk'.runtime = disk.runtime
    PROVE  Serving'
BY DEF Serving

LEMMA RootsRun ==
    ASSUME Base, NEW s \in Slot, Others(s), sup'[s].pc # "off", host'.root = RootsAfter(s)
    PROVE  host'.root = host.root
BY BaseFacts DEF RootsAfter

LEMMA ServedByUp ==
    ASSUME Base, Prepared, Connected, Started, SaveRuntime
    PROVE  Served'
<1> SUFFICES ASSUME last' = "up", Never({"late", "remove"})' PROVE Serving'
  BY DEF Served
<1>1. /\ cli.pc = "save runtime" /\ cli.hit = "no" /\ Never({"late", "remove"})
      /\ UNCHANGED <<host, sup, agent, type>> /\ disk'.runtime.broker = cli.pid
  BY SaveRuntimeEffect, ChannelKeeps DEF Done, Never, Silent
<1>2. \A s \in Slot : Running(s) /\ s \in host.containers /\ host.root[s] \in {0, disk.record[s]}
  BY <1>1 DEF Started, Prepared, Covered, Launched
<1>3. /\ host.bootstrap = "none" /\ host.broker.pid = cli.pid /\ cli.pid # 0
      /\ host.broker.map = disk.record
  BY <1>1 DEF Connected, Launched
<1>4. \A s \in Slot : Running(s)'
  BY <1>1, <1>2, RunningSame
<1>5. \A s \in Slot : host.broker.map[s] = host.root[s]
  BY <1>2, <1>3 DEF Running, Base, Typed, Rooted
<1>6. QED
  BY <1>1, <1>2, <1>3, <1>4, <1>5 DEF Serving

LEMMA ServedStays ==
    ASSUME Served, last' # "up" \/ UNCHANGED last, past \subseteq past',
           host'.containers = host.containers, host'.root = host.root,
           host'.broker = host.broker, host'.bootstrap = host.bootstrap,
           disk'.runtime = disk.runtime,
           \A x \in Slot : Never({"late", "remove"}) /\ Running(x) => Running(x)'
    PROVE  Served'
BY ServingKept DEF Served, Never

LEMMA ServedScenario ==
    ASSUME Base, Mail, Served, Scenario
    PROVE  Served'
<1>1. CASE NoScenario \/ CloseRun
  <2>1. last' # "up"
    BY <1>1, NoScenarioEffect, CloseRunEffect
    DEF Over, Done, Base, Controlled, UpPcs, Launched, Opening
  <2>2. QED
    BY <2>1 DEF Served
<1>2. CASE OpenRun \/ StartPeer \/ StopPeer
  BY <1>2, OpenRunEffect, StartPeerEffect, StopPeerEffect, ChannelKeeps, RunningSame, ServedStays
  DEF Silent, Steady, HostIs, DiskIs
<1>3. CASE Script
  BY <1>3, ScriptEffect, RunningPosts, ServedStays DEF Posts, Steady
<1>4. CASE ScriptEnds
  BY <1>4, ScriptEndsEffect, RunningCalls, ServedStays DEF Receives, Steady
<1>5. CASE ScriptLate
  BY <1>5, ScriptLateEffect DEF Lapses, Served, Never
<1>6. QED
  BY <1>1, <1>2, <1>3, <1>4, <1>5 DEF Scenario

LEMMA ServedSupervise ==
    ASSUME Base, Mail, Served, NEW s \in Slot, Supervise(s)
    PROVE  Served'
<1> SUFFICES ASSUME last' = "up", Never({"late", "remove"})' PROVE Serving'
  BY DEF Served
<1>1. /\ last = "up" /\ Never({"late", "remove"}) /\ Work(s) /\ UNCHANGED cli
      /\ host'.containers = host.containers /\ host'.root = RootsAfter(s)
      /\ host'.broker = host.broker /\ host'.bootstrap = host.bootstrap
      /\ disk'.runtime = disk.runtime
  BY SuperviseEffect DEF Never, HostIs, DiskIs
<1>2. Serving /\ cli.pc # "asking"
  BY <1>1 DEF Served, Base, Controlled, DownPcs, Visiting
<1>3. \A x \in Slot : Running(x) => Running(x)'
  BY <1>1, <1>2, RunningWork
<1>4. host'.root = host.root
  BY <1>1, <1>2, <1>3, WorkEffect, RootsRun DEF Serving, Running, Base, Typed, Aside
<1>5. QED
  BY <1>1, <1>2, <1>3, <1>4, ServingKept

LEMMA ServedStep ==
    ASSUME Base, Controlled, Mail, Prepared, Connected, Started, Served, FleetNext
    PROVE  Served'
<1>1. CASE Begin
  BY <1>1, BeginEffect DEF Served
<1>2. CASE EnsureNetwork \/ StartBootstrap \/ CreateContainer
  BY <1>2, EnsureNetworkEffect, StartBootstrapEffect, CreateContainerEffect
  DEF Served, Controlled, UpPcs, Opening, Over, Steady
<1>3. CASE StartContainer \/ WaitReady \/ NotReady \/ Inspect
  BY <1>3, StartContainerEffect, WaitReadyEffect, NotReadyEffect, InspectEffect
  DEF Served, Controlled, UpPcs, Opening, Steady
<1>4. CASE StopBootstrap \/ StartBroker \/ Enroll \/ StartAgent
  BY <1>4, StopBootstrapEffect, StartBrokerEffect, EnrollEffect, StartAgentEffect
  DEF Served, Controlled, UpPcs, Launched, Over, Steady, Posts
<1>5. CASE Enrolled \/ AgentStarted \/ NoAnswer
  BY <1>5, EnrolledEffect, AgentStartedEffect, NoAnswerEffect
  DEF Served, Controlled, UpPcs, Launched, Steady, Receives, Lapses
<1>6. CASE SaveRuntime \/ KillBroker
  <2>1. CASE SaveRuntime
    BY <2>1, ServedByUp
  <2>2. CASE KillBroker
    BY <2>2, KillBrokerEffect DEF Over, Served
  <2>3. QED
    BY <1>6, <2>1, <2>2
<1>7. CASE LoadRuntime \/ Visit \/ ShutDown \/ NotShutDown
  BY <1>7, LoadRuntimeEffect, VisitEffect, ShutDownEffect, NotShutDownEffect
  DEF Served, Controlled, DownPcs, Visiting, Steady, Posts, Receives, Lapses
<1>8. CASE StopContainer \/ RemoveContainer
  BY <1>8, StopContainerEffect, RemoveContainerEffect, HaltEffect
  DEF Served, Controlled, DownPcs, Visiting
<1>9. CASE StopBroker \/ RemoveNetwork \/ RemoveFiles
  BY <1>9, StopBrokerEffect, RemoveNetworkEffect, RemoveFilesEffect
  DEF Served, Controlled, DownPcs, Closing, Done, Steady
<1>10. CASE Scenario
  BY <1>10, ServedScenario
<1>11. CASE StepFails \/ StepIgnored
  <2>1. CASE StepFails
    <3>1. last' = "up" => UNCHANGED <<last, past>>
      BY <2>1, StepFailsEffect DEF Over, Steady
    <3>2. UNCHANGED <<host, disk, type, sup, agent>>
      BY <2>1, StepFailsEffect, ChannelKeeps
    <3>3. QED
      BY <3>1, <3>2, RunningSame, ServedStays DEF Served
  <2>2. CASE StepIgnored
    <3>1. UNCHANGED <<host, disk, type, sup, agent>> /\ past \subseteq past'
      BY <2>2, StepIgnoredEffect, ChannelKeeps
    <3>2. last' # "up" \/ UNCHANGED last
      BY <2>2, StepIgnoredEffect DEF Controlled, DownPcs, Closing, Ends, Over
    <3>3. QED
      BY <3>1, <3>2, RunningSame, ServedStays
  <2>3. QED
    BY <1>11, <2>1, <2>2
<1>12. CASE Kill \/ Reboot \/ BrokerDies
  BY <1>12, KillEffect, RebootEffect, BrokerDiesEffect DEF Served, Hit
<1>13. CASE OtherStarts \/ OtherExits \/ ForeignNetwork
  BY <1>13, OtherStartsEffect, OtherExitsEffect, ForeignNetworkEffect, ChannelKeeps,
     RunningSame, ServedStays
  DEF Silent, Steady, HostIs
<1>14. CASE \E s \in Slot : ContainerDies(s) \/ AgentExits(s) \/ CommandStays(s)
  BY <1>14, ContainerDiesEffect, AgentExitsEffect, CommandStaysEffect DEF Served, Hit
<1>15. CASE \E s \in Slot : Supervise(s)
  BY <1>15, ServedSupervise
<1>16. QED
  BY <1>1, <1>2, <1>3, <1>4, <1>5, <1>6, <1>7, <1>8, <1>9, <1>10, <1>11,
     <1>12, <1>13, <1>14, <1>15
  DEF FleetNext, Up, Down, Environment

(* An up goes through its containers one by one.                            *)
LEMMA PreparedStep ==
    ASSUME Base, Controlled, Housed, Prepared, FleetNext
    PROVE  Prepared'
<1>1. CASE Begin
  BY <1>1, BeginEffect DEF Prepared, Covered, Fresh, Opening, Launched
<1>2. CASE EnsureNetwork \/ StartBootstrap \/ CreateContainer
  <2>1. CASE EnsureNetwork
    BY <2>1, EnsureNetworkEffect DEF Prepared, Covered, Turn, Opening, Launched
  <2>2. CASE StartBootstrap
    <3>1. \A s \in Slot : ~ (s < 1)
      BY SlotAssumption
    <3>2. \A s \in Slot : ~ Covered(s)'
      BY <2>2, <3>1, StartBootstrapEffect DEF Covered, Turn, Over, Fresh, Opening, Launched
    <3>3. QED
      BY <3>2 DEF Prepared
  <2>3. CASE CreateContainer
    <3>1. /\ disk' = disk /\ host.containers \subseteq host'.containers /\ host'.root = host.root
          /\ cli.pc = "create" /\ cli'.pc = "start" /\ cli'.at = cli.at
      BY <2>3, CreateContainerEffect DEF To, Turn, HostIs
    <3>2. \A s \in Slot : Covered(s)' <=> Covered(s)
      BY <3>1 DEF Covered, Opening, Launched
    <3>3. QED
      BY <3>1, <3>2 DEF Prepared
  <2>4. QED
    BY <1>2, <2>1, <2>2, <2>3
<1>3. CASE StartContainer \/ WaitReady \/ NotReady \/ Inspect
  <2>1. CASE StartContainer
    <3>1. /\ cli.pc = "start" /\ cli.at \in Slot /\ cli'.pc = "wait ready" /\ cli'.at = cli.at
          /\ disk' = disk /\ host'.containers = host.containers
          /\ \A s \in Slot \ {cli.at} : host'.root[s] = host.root[s]
      BY <2>1, StartContainerEffect, BaseFacts DEF To, Turn, HostIs
    <3>2. \A s \in Slot : Covered(s)' => Covered(s) /\ s # cli.at
      BY <3>1, NextSlot DEF Covered, Opening, Launched
    <3>3. QED
      BY <3>1, <3>2 DEF Prepared
  <2>2. CASE WaitReady
    BY <2>2, WaitReadyEffect DEF Prepared, Covered, To, Turn, Opening, Launched
  <2>3. CASE NotReady
    BY <2>3, NotReadyEffect DEF Prepared, Covered, Turn, Opening, Launched
  <2>4. CASE Inspect
    <3>1. /\ cli.pc = "inspect" /\ cli.at \in Slot /\ host' = host
          /\ cli.at \in host.containers
      BY <2>4, InspectEffect DEF Housed, Opening
    <3>2. CASE host.root[cli.at] = 0
      BY <2>4, <3>2, InspectEffect DEF Prepared, Covered, Turn, Opening, Launched
    <3>3. CASE host.root[cli.at] # 0
      <4>1. /\ disk'.record = [disk.record EXCEPT ![cli.at] = host.root[cli.at]]
            /\ disk.record \in [Slot -> Root \cup {0}]
        BY <2>4, <3>3, InspectEffect, BaseFacts DEF DiskIs
      <4>2. /\ \/ cli'.pc = "create" /\ cli'.at = cli.at + 1
               \/ cli'.pc = "stop bootstrap" /\ cli.at = N
        BY <2>4, <3>3, InspectEffect DEF To, Turn
      <4>3. \A s \in Slot : Covered(s)' => s = cli.at \/ s < cli.at
        BY <3>1, <4>2, LessNext, NextSlot DEF Covered, Opening, Launched
      <4>4. \A s \in Slot : s < cli.at => Covered(s)
        BY <3>1 DEF Covered, Opening
      <4>5. QED
        BY <3>1, <4>1, <4>3, <4>4 DEF Prepared
    <3>4. QED
      BY <3>2, <3>3
  <2>5. QED
    BY <1>3, <2>1, <2>2, <2>3, <2>4
<1>4. CASE StopBootstrap \/ StartBroker \/ Enroll \/ StartAgent
  BY <1>4, StopBootstrapEffect, StartBrokerEffect, EnrollEffect, StartAgentEffect
  DEF Prepared, Covered, Fresh, Over, Posts, HostIs, Opening, Launched
<1>5. CASE Enrolled \/ AgentStarted \/ NoAnswer
  BY <1>5, EnrolledEffect, AgentStartedEffect, NoAnswerEffect
  DEF Prepared, Covered, To, Turn, Receives, Opening, Launched
<1>6. CASE SaveRuntime \/ KillBroker
  BY <1>6, SaveRuntimeEffect, KillBrokerEffect
  DEF Prepared, Covered, Fresh, Over, DiskIs, Opening, Launched
<1>7. CASE LoadRuntime \/ Visit \/ ShutDown \/ NotShutDown
  BY <1>7, LoadRuntimeEffect, VisitEffect, ShutDownEffect, NotShutDownEffect
  DEF Prepared, Covered, To, Turn, Goes, Posts, Opening, Launched
<1>8. CASE StopContainer \/ RemoveContainer
  BY <1>8, StopContainerEffect, RemoveContainerEffect, HaltEffect
  DEF Prepared, Covered, To, Turn, Goes, Opening, Launched
<1>9. CASE StopBroker \/ RemoveNetwork \/ RemoveFiles
  BY <1>9, StopBrokerEffect, RemoveNetworkEffect, RemoveFilesEffect
  DEF Prepared, Covered, To, Turn, Fresh, Done, Opening, Launched
<1>10. CASE NoScenario \/ OpenRun \/ StartPeer \/ Script \/ ScriptEnds
  BY <1>10, NoScenarioEffect, OpenRunEffect, StartPeerEffect, ScriptEffect,
     ScriptEndsEffect
  DEF Prepared, Covered, To, Turn, Fresh, Over, Judges, Posts, Opening, Launched
<1>11. CASE ScriptLate \/ StopPeer \/ CloseRun
  BY <1>11, ScriptLateEffect, StopPeerEffect, CloseRunEffect
  DEF Prepared, Covered, To, Turn, Fresh, Done, Judges, Opening, Launched
<1>12. CASE StepFails \/ StepIgnored
  BY <1>12, StepFailsEffect, StepIgnoredEffect
  DEF Prepared, Covered, To, Turn, Fresh, Over, Ends, Goes, Judges, Opening, Launched
<1>13. CASE Kill \/ Reboot \/ BrokerDies
  BY <1>13, KillEffect, RebootEffect, BrokerDiesEffect
  DEF Prepared, Covered, Fresh, Hit, HostIs, Opening, Launched
<1>14. CASE OtherStarts \/ OtherExits \/ ForeignNetwork
  BY <1>14, OtherStartsEffect, OtherExitsEffect, ForeignNetworkEffect
  DEF Prepared, Covered, HostIs
<1>15. CASE \E s \in Slot : ContainerDies(s) \/ AgentExits(s) \/ CommandStays(s)
  <2>1. PICK s \in Slot : ContainerDies(s) \/ AgentExits(s) \/ CommandStays(s)
    BY <1>15
  <2>2. /\ disk' = disk /\ host'.containers = host.containers
        /\ \A x \in Slot : host'.root[x] \in {0, host.root[x]}
        /\ cli'.pc = cli.pc /\ cli'.at = cli.at /\ cli'.result = cli.result
    <3>1. CASE ContainerDies(s)
      BY <3>1, ContainerDiesEffect, BaseFacts DEF HostIs, Hit, Rootless
    <3>2. CASE AgentExits(s)
      BY <3>2, AgentExitsEffect DEF Hit
    <3>3. CASE CommandStays(s)
      <4>1. /\ disk' = disk /\ host'.containers = host.containers /\ host'.root = RootsAfter(s)
            /\ cli'.pc = cli.pc /\ cli'.at = cli.at /\ cli'.result = cli.result
        BY <3>3, CommandStaysEffect DEF HostIs, Hit
      <4>2. \A x \in Slot : RootsAfter(s)[x] \in {0, host.root[x]}
        BY BaseFacts DEF RootsAfter
      <4>3. QED
        BY <4>1, <4>2
    <3>4. QED
      BY <2>1, <3>1, <3>2, <3>3
  <2>3. \A x \in Slot : Covered(x)' <=> Covered(x)
    BY <2>2 DEF Covered
  <2>4. QED
    BY <2>2, <2>3 DEF Prepared
<1>16. CASE \E s \in Slot : Supervise(s)
  <2>1. PICK s \in Slot : Supervise(s)
    BY <1>16
  <2>2. /\ disk'.record = disk.record /\ host'.containers = host.containers
        /\ \A x \in Slot : host'.root[x] \in {0, host.root[x]}
        /\ cli' = cli
    <3>1. /\ disk'.record = disk.record /\ host'.containers = host.containers
          /\ host'.root = RootsAfter(s) /\ cli' = cli
      BY <2>1, SuperviseEffect DEF HostIs, DiskIs
    <3>2. \A x \in Slot : RootsAfter(s)[x] \in {0, host.root[x]}
      BY BaseFacts DEF RootsAfter
    <3>3. QED
      BY <3>1, <3>2
  <2>3. \A x \in Slot : Covered(x)' <=> Covered(x)
    BY <2>2 DEF Covered
  <2>4. QED
    BY <2>2, <2>3 DEF Prepared
<1>17. QED
  BY <1>1, <1>2, <1>3, <1>4, <1>5, <1>6, <1>7, <1>8, <1>9, <1>10, <1>11,
     <1>12, <1>13, <1>14, <1>15, <1>16
  DEF FleetNext, Up, Down, Scenario, Environment

LEMMA ConnectedStep ==
    ASSUME Base, Controlled, Connected, FleetNext
    PROVE  Connected'
<1>1. CASE Begin
  BY <1>1, BeginEffect DEF Connected, Fresh, Launched
<1>2. CASE EnsureNetwork \/ StartBootstrap \/ CreateContainer
  BY <1>2, EnsureNetworkEffect, StartBootstrapEffect, CreateContainerEffect
  DEF Connected, To, Turn, Fresh, Over, Launched
<1>3. CASE StartContainer \/ WaitReady \/ NotReady \/ Inspect
  BY <1>3, StartContainerEffect, WaitReadyEffect, NotReadyEffect, InspectEffect
  DEF Connected, To, Turn, Launched
<1>4. CASE StopBootstrap \/ StartBroker \/ Enroll \/ StartAgent
  BY <1>4, StopBootstrapEffect, StartBrokerEffect, EnrollEffect, StartAgentEffect
  DEF Connected, To, Turn, Fresh, Over, Posts, HostIs, Launched
<1>5. CASE Enrolled \/ AgentStarted \/ NoAnswer
  BY <1>5, EnrolledEffect, AgentStartedEffect, NoAnswerEffect
  DEF Connected, To, Turn, Receives, Launched
<1>6. CASE SaveRuntime \/ KillBroker
  BY <1>6, SaveRuntimeEffect, KillBrokerEffect
  DEF Connected, Fresh, Over, Done, Launched
<1>7. CASE LoadRuntime \/ Visit \/ ShutDown \/ NotShutDown
  BY <1>7, LoadRuntimeEffect, VisitEffect, ShutDownEffect, NotShutDownEffect
  DEF Connected, To, Turn, Goes, Posts, Launched
<1>8. CASE StopContainer \/ RemoveContainer
  BY <1>8, StopContainerEffect, RemoveContainerEffect, HaltEffect
  DEF Connected, To, Turn, Goes, Launched
<1>9. CASE StopBroker \/ RemoveNetwork \/ RemoveFiles
  BY <1>9, StopBrokerEffect, RemoveNetworkEffect, RemoveFilesEffect
  DEF Connected, To, Turn, Fresh, Done, Launched
<1>10. CASE NoScenario \/ OpenRun \/ StartPeer \/ Script \/ ScriptEnds
  BY <1>10, NoScenarioEffect, OpenRunEffect, StartPeerEffect, ScriptEffect,
     ScriptEndsEffect
  DEF Connected, To, Turn, Fresh, Over, Judges, Posts, Launched
<1>11. CASE ScriptLate \/ StopPeer \/ CloseRun
  BY <1>11, ScriptLateEffect, StopPeerEffect, CloseRunEffect
  DEF Connected, To, Turn, Fresh, Done, Judges, Launched
<1>12. CASE StepFails \/ StepIgnored
  BY <1>12, StepFailsEffect, StepIgnoredEffect
  DEF Connected, To, Turn, Fresh, Over, Ends, Goes, Judges, Launched
<1>13. CASE Kill \/ Reboot \/ BrokerDies
  BY <1>13, KillEffect, RebootEffect, BrokerDiesEffect
  DEF Connected, Fresh, Hit, Launched, Controlled
<1>14. CASE OtherStarts \/ OtherExits \/ ForeignNetwork
  BY <1>14, OtherStartsEffect, OtherExitsEffect, ForeignNetworkEffect
  DEF Connected, HostIs
<1>15. CASE \E s \in Slot :
     ContainerDies(s) \/ AgentExits(s) \/ CommandStays(s)
  BY <1>15, ContainerDiesEffect, AgentExitsEffect, CommandStaysEffect
  DEF Connected, Hit, Launched, Controlled
<1>16. CASE \E s \in Slot : Supervise(s)
  BY <1>16, SuperviseEffect DEF Connected, HostIs, DiskIs
<1>17. QED
  BY <1>1, <1>2, <1>3, <1>4, <1>5, <1>6, <1>7, <1>8, <1>9, <1>10, <1>11,
     <1>12, <1>13, <1>14, <1>15, <1>16
  DEF FleetNext, Up, Down, Scenario, Environment


(* An up starts the agents one by one.                                      *)
LEMMA StartedNot ==
    ASSUME cli'.pc \notin Launched \/ cli'.hit # "no" \/ past' \cap {"late", "remove"} # {}
    PROVE  Started'
BY DEF Started, Never, Launched

LEMMA StartedFurther ==
    ASSUME Started, cli.pc \in Launched \ {"save runtime"}, cli'.at = cli.at, cli'.hit = cli.hit,
           cli'.pc \notin {"starting", "save runtime"}, past \subseteq past',
           \A x \in Slot : Never({"late", "remove"}) /\ Running(x) => Running(x)'
    PROVE  Started'
BY DEF Started, Never

LEMMA StartedBroker ==
    ASSUME Base, StartBroker
    PROVE  Started'
<1>1. cli'.pc = "enroll" /\ cli'.at = 1
  BY StartBrokerEffect DEF Turn
<1>2. \A s \in Slot : ~ (s < 1)
  BY SlotAssumption
<1>3. QED
  BY <1>1, <1>2 DEF Started

LEMMA StartedEnroll ==
    ASSUME Base, Mail, Started, Enroll
    PROVE  Started'
<1>1. CASE To("start agent") /\ Silent /\ Steady
  <2>1. UNCHANGED <<type, sup, agent, past>>
    BY <1>1, ChannelKeeps DEF Silent, Steady
  <2>2. QED
    BY <1>1, <2>1, EnrollEffect, RunningSame, StartedFurther DEF To, Turn, Launched
<1>2. CASE Posts("agent-command", "enrolling")
  <2>1. /\ cli'.pc = "enrolling" /\ cli'.at = cli.at /\ cli'.hit = cli.hit /\ UNCHANGED past
    BY <1>2 DEF Posts, Turn, Steady
  <2>2. QED
    BY <1>2, <2>1, EnrollEffect, RunningPosts, StartedFurther DEF Launched
<1>3. QED
  BY <1>1, <1>2, EnrollEffect

LEMMA StartedStartAgent ==
    ASSUME Base, Mail, Started, StartAgent
    PROVE  Started'
<1> SUFFICES ASSUME Never({"late", "remove"})', cli'.hit = "no" PROVE Started'
  BY DEF Started
<1>1. cli.pc = "start agent" /\ cli.at \in Slot /\ Posts("start-agent", "starting")
  BY StartAgentEffect
<1>2. PICK i \in Id : /\ Post(i, cli.at, "start-agent")
                      /\ Turn("starting", cli.at, cli.owned, cli.pid, i, cli.result)
  BY <1>1 DEF Posts
<1>3. /\ cli'.pc = "starting" /\ cli'.at = cli.at /\ cli'.id = i /\ cli.hit = "no"
      /\ Never({"late", "remove"})
      /\ responses'[i] = "none" /\ sup' = sup
  BY <1>1, <1>2 DEF Posts, Steady, Turn, Post, Unused, Never
<1>4. sup[cli.at].pc # "answer"
  BY <1>1, <1>3 DEF Mail, Pending, Awaiting
<1>5. \A s \in Slot : s < cli.at => Running(s)'
  BY <1>1, <1>3, RunningPosts DEF Started, Launched
<1>6. QED
  BY <1>3, <1>4, <1>5 DEF Started

LEMMA StartedAnswered ==
    ASSUME Base, Started, Enrolled \/ AgentStarted
    PROVE  Started'
<1>1. CASE Enrolled
  <2>1. /\ cli.pc = "enrolling" /\ Receive(cli.id) /\ UNCHANGED past
        /\ cli'.pc \in {"start agent", "kill broker"} /\ cli'.at = cli.at /\ cli'.hit = cli.hit
    BY <1>1, EnrolledEffect DEF Receives, Steady, To, Turn
  <2>2. QED
    BY <2>1, RunningCalls, StartedFurther DEF Launched
<1>2. CASE AgentStarted
  <2> SUFFICES ASSUME Never({"late", "remove"})', cli'.hit = "no", cli'.pc \in Launched
               PROVE  Started'
    BY DEF Started, Launched
  <2>1. /\ cli.pc = "starting" /\ cli.at \in Slot /\ Receive(cli.id) /\ UNCHANGED past
        /\ cli'.hit = cli.hit /\ responses[cli.id] = "ok"
        /\ \/ cli'.pc = "enroll" /\ cli'.at = cli.at + 1
           \/ cli'.pc = "save runtime" /\ cli.at = N
    BY <1>2, AgentStartedEffect DEF Receives, Steady, To, Turn, Launched
  <2>2. Never({"late", "remove"}) /\ cli.hit = "no"
    BY <2>1 DEF Never
  <2>3. \A s \in Slot : s < cli.at \/ s = cli.at => Running(s)'
    BY <2>1, <2>2, RunningCalls DEF Started, Launched
  <2>4. CASE cli'.pc = "enroll" /\ cli'.at = cli.at + 1
    <3>1. \A s \in Slot : s < cli.at + 1 => s < cli.at \/ s = cli.at
      BY <2>1, LessNext
    <3>2. QED
      BY <2>3, <2>4, <3>1 DEF Started
  <2>5. CASE cli'.pc = "save runtime" /\ cli.at = N
    <3>1. \A s \in Slot : s < cli.at \/ s = cli.at
      BY <2>5, NextSlot
    <3>2. QED
      BY <2>3, <2>5, <3>1 DEF Started
  <2>6. QED
    BY <2>1, <2>4, <2>5
<1>3. QED
  BY <1>1, <1>2

LEMMA StartedForeign ==
    ASSUME Base, Started, OtherStarts \/ OtherExits \/ ForeignNetwork
    PROVE  Started'
<1>1. UNCHANGED <<cli, past>> /\ UNCHANGED <<commands, type, responses, waiting, ready, sup, agent>>
  BY ChannelKeeps DEF OtherStarts, OtherExits, ForeignNetwork, Quiet, Steady
<1>2. \A x \in Slot : Running(x) => Running(x)'
  BY <1>1, RunningSame
<1>3. Running(cli.at) => Running(cli.at)'
  BY <1>1 DEF Running, Staying
<1>4. cli' = cli /\ past' = past /\ sup' = sup /\ agent' = agent /\ responses' = responses
  BY <1>1
<1>5. QED
  BY <1>2, <1>3, <1>4 DEF Started, Never

LEMMA StartedSupervise ==
    ASSUME Base, Mail, Started, NEW s \in Slot, Supervise(s)
    PROVE  Started'
<1> SUFFICES ASSUME Never({"late", "remove"})', cli'.hit = "no", cli'.pc \in Launched
             PROVE  Started'
  BY DEF Started, Launched
<1>1. /\ Never({"late", "remove"}) /\ cli.hit = "no" /\ cli.pc \in Launched /\ Work(s)
      /\ UNCHANGED cli
  BY SuperviseEffect DEF Never
<1>2. \A x \in Slot : Running(x) => Running(x)'
  BY <1>1, RunningWork DEF Launched
<1>3. cli.at \in Slot /\ TypeOK
  BY <1>1, BaseFacts DEF Launched, Unplaced, Base, Typed
<1>4. /\ cli.pc \in Launched => \A x \in Slot : x < cli.at \/ cli.pc = "save runtime" => Running(x)
      /\ cli.pc = "starting" /\ responses[cli.id] = "ok" => Running(cli.at)
      /\ cli.pc = "starting" /\ sup[cli.at].pc = "answer" => agent[cli.at] = "running"
  BY <1>1 DEF Started
<1>5. CASE cli.pc # "starting"
  BY <1>1, <1>2, <1>4, <1>5 DEF Started
<1>6. CASE cli.pc = "starting"
  <2>1. CASE sup[s].pc \in {"execute", "answer"}
    <3>1. Pending /\ sup[s].at = cli.id /\ s = cli.at /\ cli.id \in Id
      BY <1>1, <1>3, <2>1 DEF Mail, TypeOK
    <3>2. type[cli.id] = "start-agent"
      BY <1>1, <1>6, <3>1 DEF Mail, Asked
    <3>3. CASE sup[s].pc = "execute"
      <4>1. /\ agent'[s] = AgentAfter(s, "start-agent") /\ sup'[s].pc = "answer"
            /\ responses' = responses
        BY <1>1, <1>3, <3>1, <3>2, <3>3, WorkEffect
      <4>2. agent'[s] = "running" /\ responses'[cli.id] # "ok"
        BY <3>1, <4>1 DEF AgentAfter, Pending
      <4>3. QED
        BY <1>1, <1>2, <1>4, <3>1, <4>2 DEF Started
    <3>4. CASE sup[s].pc = "answer"
      <4>1. /\ agent' = agent /\ type' = type /\ sup'[s].pc = "remove" /\ sup'[s].at = cli.id
        BY <1>1, <1>3, <3>1, <3>4, WorkEffect
      <4>2. Running(s)'
        BY <1>4, <1>6, <3>1, <3>2, <3>4, <4>1 DEF Running, Staying
      <4>3. QED
        BY <1>1, <1>2, <1>4, <3>1, <4>1, <4>2 DEF Started
    <3>5. QED
      BY <2>1, <3>3, <3>4
  <2>2. CASE sup[s].pc \notin {"execute", "answer"}
    <3>1. responses' = responses
      BY <1>1, <1>3, <2>2, WorkEffect
    <3>2. sup'[cli.at].pc = "answer" => sup[cli.at].pc = "answer" /\ agent'[cli.at] = agent[cli.at]
      <4>1. CASE s = cli.at
        BY <1>1, <1>3, <2>2, <4>1, WorkEffect, ProceedEffect
      <4>2. CASE s # cli.at
        BY <1>1, <1>3, <4>2, WorkEffect DEF Aside, Others
      <4>3. QED
        BY <4>1, <4>2
    <3>3. QED
      BY <1>1, <1>2, <1>3, <1>4, <3>1, <3>2 DEF Started
  <2>3. QED
    BY <2>1, <2>2
<1>7. QED
  BY <1>5, <1>6

LEMMA StartedStep ==
    ASSUME Base, Controlled, Mail, Started, FleetNext
    PROVE  Started'
<1>1. CASE Begin
  BY <1>1, BeginEffect, StartedNot DEF Fresh, Launched
<1>2. CASE EnsureNetwork \/ StartBootstrap \/ CreateContainer
  BY <1>2, EnsureNetworkEffect, StartBootstrapEffect, CreateContainerEffect, StartedNot
  DEF To, Turn, Fresh, Over, Launched
<1>3. CASE StartContainer \/ WaitReady \/ NotReady \/ Inspect
  BY <1>3, StartContainerEffect, WaitReadyEffect, NotReadyEffect, InspectEffect,
     StartedNot
  DEF To, Turn, Launched
<1>4. CASE StopBootstrap \/ StartBroker \/ Enroll \/ StartAgent
  <2>1. CASE StopBootstrap
    BY <2>1, StopBootstrapEffect, StartedNot DEF Over, Fresh, To, Turn, Launched
  <2>2. QED
    BY <1>4, <2>1, StartedBroker, StartedEnroll, StartedStartAgent
<1>5. CASE Enrolled \/ AgentStarted \/ NoAnswer
  BY <1>5, StartedAnswered, NoAnswerEffect, StartedNot DEF Lapses
<1>6. CASE SaveRuntime \/ KillBroker
  BY <1>6, SaveRuntimeEffect, KillBrokerEffect, StartedNot
  DEF Fresh, Over, Done, Launched
<1>7. CASE LoadRuntime \/ Visit \/ ShutDown \/ NotShutDown
  BY <1>7, LoadRuntimeEffect, VisitEffect, ShutDownEffect, NotShutDownEffect, StartedNot
  DEF To, Turn, Goes, Posts, Launched
<1>8. CASE StopContainer \/ RemoveContainer
  BY <1>8, StopContainerEffect, RemoveContainerEffect, HaltEffect, StartedNot
  DEF To, Turn, Goes, Launched
<1>9. CASE StopBroker \/ RemoveNetwork \/ RemoveFiles
  BY <1>9, StopBrokerEffect, RemoveNetworkEffect, RemoveFilesEffect, StartedNot
  DEF To, Turn, Fresh, Done, Launched
<1>10. CASE NoScenario \/ OpenRun \/ StartPeer \/ Script \/ ScriptEnds
  BY <1>10, NoScenarioEffect, OpenRunEffect, StartPeerEffect, ScriptEffect,
     ScriptEndsEffect, StartedNot
  DEF To, Turn, Fresh, Over, Judges, Posts, Launched
<1>11. CASE ScriptLate \/ StopPeer \/ CloseRun
  BY <1>11, ScriptLateEffect, StopPeerEffect, CloseRunEffect, StartedNot
  DEF To, Turn, Fresh, Done, Judges, Launched
<1>12. CASE StepFails \/ StepIgnored
  BY <1>12, StepFailsEffect, StepIgnoredEffect, StartedNot
  DEF To, Turn, Fresh, Over, Ends, Goes, Judges, Launched
<1>13. CASE Kill \/ Reboot \/ BrokerDies
  BY <1>13, KillEffect, RebootEffect, BrokerDiesEffect, StartedNot
  DEF Controlled, Fresh, Hit, Launched
<1>14. CASE OtherStarts \/ OtherExits \/ ForeignNetwork
  BY <1>14, StartedForeign
<1>15. CASE \E s \in Slot :
     ContainerDies(s) \/ AgentExits(s) \/ CommandStays(s)
  BY <1>15, ContainerDiesEffect, AgentExitsEffect, CommandStaysEffect, StartedNot
  DEF Controlled, Hit, Launched
<1>16. CASE \E s \in Slot : Supervise(s)
  BY <1>16, StartedSupervise
<1>17. QED
  BY <1>1, <1>2, <1>3, <1>4, <1>5, <1>6, <1>7, <1>8, <1>9, <1>10, <1>11,
     <1>12, <1>13, <1>14, <1>15, <1>16
  DEF FleetNext, Up, Down, Scenario, Environment

-----------------------------------------------------------------------------
(* All of them together are inductive.                                      *)
FleetInv ==
    /\ Base /\ Housed /\ Runs /\ NetworkOwned
    /\ BrokerKnown /\ BrokerServes /\ BrokerLives
    /\ Cleared /\ Found /\ NetworkFound
    /\ Mail /\ Prepared /\ Connected /\ Started /\ Served

LEMMA InitTyped == FleetInit => Typed
<1> SUFFICES ASSUME FleetInit PROVE Typed
  OBVIOUS
<1>1. Off \in Supervisor /\ Off.pc = "off"
  BY DEF Off, Supervisor
<1>2. TypeOK
  BY <1>1, FaultsAssumption DEF FleetInit, Init, TypeOK
<1>3. NoBroker \in [pid : Pid \cup {0}, map : [Slot -> Root \cup {0}]]
  BY NoBrokerType
<1>4. host \in Hosts
  BY <1>3 DEF FleetInit, Hosts
<1>5. disk \in Disks
  BY DEF FleetInit, Disks, NoRuntime
<1>6. cli \in Commanding
  <2>1. <<>> \in Seq(FleetStep) /\ "idle" \in Pcs
    BY DEF Pcs
  <2>2. QED
    BY <2>1 DEF FleetInit, Idle, Commanding
<1>7. Rooted
  BY <1>1 DEF FleetInit, Init, Rooted
<1>8. QED
  BY <1>2, <1>4, <1>5, <1>6, <1>7 DEF Typed, FleetInit

LEMMA FleetInitInv == FleetInit => FleetInv
<1> SUFFICES ASSUME FleetInit PROVE FleetInv
  OBVIOUS
<1>1. /\ cli.pc = "idle" /\ cli.cmd = "none" /\ cli.owned = "no" /\ last = "none"
      /\ host.containers = {} /\ host.network = "none" /\ host.broker.pid = 0
      /\ host.bootstrap = "none" /\ host.other = 0
      /\ disk.runtime.broker = 0 /\ disk.runtime.owned = "no"
      /\ \A s \in Slot : /\ sup[s].pc = "off" /\ sup[s].batch = {} /\ agent[s] = "none"
                         /\ commands[s] = {}
  BY DEF FleetInit, Init, Idle, NoBroker, NoRuntime, Off
<1>2. Base
  BY <1>1, InitTyped
  DEF Base, Controlled, UpPcs, DownPcs, Opening, Launched, Visiting, Closing, Unplaced
<1>3. Housed /\ Runs /\ NetworkOwned
  BY <1>1 DEF Housed, Runs, NetworkOwned, Opening
<1>4. BrokerKnown /\ BrokerServes /\ BrokerLives
  BY <1>1 DEF BrokerKnown, BrokerServes, BrokerLives, Numbered, Launched, Visiting
<1>5. Cleared /\ Found /\ NetworkFound
  BY <1>1 DEF Cleared, Passed, Closing, Visiting, Found, NetworkFound
<1>6. Mail
  BY <1>1 DEF Mail, Pending, Awaiting
<1>7. Prepared /\ Connected /\ Started /\ Served
  BY <1>1 DEF Prepared, Covered, Connected, Started, Served, Opening, Launched
<1>8. QED
  BY <1>2, <1>3, <1>4, <1>5, <1>6, <1>7 DEF FleetInv

LEMMA FleetStutter == FleetInv /\ UNCHANGED fleetVars => FleetInv'
<1> SUFFICES ASSUME FleetInv, UNCHANGED fleetVars PROVE FleetInv'
  OBVIOUS
<1>1. /\ UNCHANGED <<commands, type, responses, waiting, ready, sup, agent, faults>>
      /\ UNCHANGED <<host, disk, cli, last, past>>
  BY DEF fleetVars, fleet, vars, channel
<1>2. Base'
  <2>1. Typed'
    BY <1>1 DEF FleetInv, Base, Typed, TypeOK, Rooted
  <2>2. Controlled'
    BY <1>1 DEF FleetInv, Base, Controlled
  <2>3. QED
    BY <2>1, <2>2 DEF Base
<1>3. Housed' /\ Runs' /\ NetworkOwned'
  BY <1>1 DEF FleetInv, Housed, Runs, NetworkOwned, Never
<1>4. BrokerKnown' /\ BrokerServes' /\ BrokerLives'
  BY <1>1 DEF FleetInv, BrokerKnown, BrokerServes, BrokerLives, Never
<1>5. Cleared' /\ Found' /\ NetworkFound'
  BY <1>1 DEF FleetInv, Cleared, Passed, Found, InHand, NetworkFound, Never
<1>6. Mail'
  BY <1>1, MailStill DEF FleetInv, Same
<1>7. Prepared' /\ Connected'
  BY <1>1 DEF FleetInv, Prepared, Covered, Connected
<1>8. Started' /\ Served'
  BY <1>1 DEF FleetInv, Started, Served, Serving, Running, Staying, Never
<1>9. QED
  BY <1>2, <1>3, <1>4, <1>5, <1>6, <1>7, <1>8 DEF FleetInv

LEMMA FleetStepInv == FleetInv /\ [FleetNext]_fleetVars => FleetInv'
<1> SUFFICES ASSUME FleetInv, FleetNext PROVE FleetInv'
  BY FleetStutter
<1>1. Base /\ Controlled
  BY DEF FleetInv, Base
<1>2. Base'
  BY <1>1, TypedStep, ControlledStep DEF Base
<1>3. Housed' /\ Runs' /\ NetworkOwned'
  BY <1>1, HousedStep, RunsStep, NetworkOwnedStep DEF FleetInv
<1>4. BrokerKnown' /\ BrokerServes' /\ BrokerLives'
  BY <1>1, BrokerKnownStep, BrokerServesStep, BrokerLivesStep DEF FleetInv
<1>5. Cleared' /\ Found' /\ NetworkFound'
  BY <1>1, ClearedStep, FoundStep, NetworkFoundStep DEF FleetInv
<1>6. Mail' /\ Prepared' /\ Connected'
  BY <1>1, MailStep, PreparedStep, ConnectedStep DEF FleetInv
<1>7. Started' /\ Served'
  BY <1>1, StartedStep, ServedStep DEF FleetInv
<1>8. QED
  BY <1>2, <1>3, <1>4, <1>5, <1>6, <1>7 DEF FleetInv

LEMMA FleetInvariant == FleetSpec => []FleetInv
BY FleetInitInv, FleetStepInv, PTL DEF FleetSpec

(* What the action properties say of one step.                              *)
LEMMA ForeignStep ==
    ASSUME FleetInv, FleetNext, Never({"kill", "reboot", "stale"})', host.network = "foreign"
    PROVE  host'.network = "foreign"
<1>0. Base
  BY DEF FleetInv
<1>1. CASE Begin
  BY <1>1, BeginEffect, <1>0 DEF NetworkOwned
<1>2. CASE EnsureNetwork \/ StartBootstrap \/ CreateContainer
  BY <1>2, EnsureNetworkEffect, StartBootstrapEffect, CreateContainerEffect,
     <1>0
  DEF FleetInv, NetworkOwned, Never, Steady, Over, HostIs, Slain, Posts,
      Receives, Lapses
<1>3. CASE StartContainer \/ WaitReady \/ NotReady \/ Inspect
  BY <1>3, StartContainerEffect, WaitReadyEffect, NotReadyEffect, InspectEffect, <1>0
  DEF HostIs
<1>4. CASE StopBootstrap \/ StartBroker \/ Enroll \/ StartAgent
  BY <1>4, StopBootstrapEffect, StartBrokerEffect, EnrollEffect, StartAgentEffect, <1>0
  DEF HostIs, Posts
<1>5. CASE Enrolled \/ AgentStarted \/ NoAnswer
  BY <1>5, EnrolledEffect, AgentStartedEffect, NoAnswerEffect, <1>0 DEF Receives, Lapses
<1>6. CASE SaveRuntime \/ KillBroker
  BY <1>6, SaveRuntimeEffect, KillBrokerEffect, <1>0 DEF HostIs, Slain
<1>7. CASE LoadRuntime \/ Visit \/ ShutDown \/ NotShutDown
  BY <1>7, LoadRuntimeEffect, VisitEffect, ShutDownEffect, NotShutDownEffect,
     <1>0
  DEF FleetInv, NetworkOwned, Never, Steady, Over, HostIs, Slain, Posts,
      Receives, Lapses
<1>8. CASE StopContainer \/ RemoveContainer
  BY <1>8, StopContainerEffect, RemoveContainerEffect, HaltEffect, <1>0 DEF HostIs
<1>9. CASE StopBroker \/ RemoveNetwork \/ RemoveFiles
  BY <1>9, StopBrokerEffect, RemoveNetworkEffect, RemoveFilesEffect, <1>0
  DEF FleetInv, NetworkOwned, Never, Steady, HostIs, Slain
<1>10. CASE NoScenario \/ OpenRun \/ StartPeer \/ Script \/ ScriptEnds
  BY <1>10, NoScenarioEffect, OpenRunEffect, StartPeerEffect, ScriptEffect,
     ScriptEndsEffect, <1>0
  DEF HostIs, Posts, Receives
<1>11. CASE ScriptLate \/ StopPeer \/ CloseRun
  BY <1>11, ScriptLateEffect, StopPeerEffect, CloseRunEffect, <1>0 DEF HostIs, Lapses
<1>12. CASE StepFails \/ StepIgnored
  BY <1>12, StepFailsEffect, StepIgnoredEffect, <1>0 DEF NetworkOwned
<1>13. CASE Kill \/ Reboot \/ BrokerDies
  BY <1>13, KillEffect, RebootEffect, BrokerDiesEffect, <1>0 DEF HostIs
<1>14. CASE OtherStarts \/ OtherExits \/ ForeignNetwork
  BY <1>14, OtherStartsEffect, OtherExitsEffect, ForeignNetworkEffect, <1>0 DEF HostIs
<1>15. CASE \E s \in Slot :
     ContainerDies(s) \/ AgentExits(s) \/ CommandStays(s)
  BY <1>15, ContainerDiesEffect, AgentExitsEffect, CommandStaysEffect, <1>0 DEF HostIs
<1>16. CASE \E s \in Slot : Supervise(s)
  BY <1>16, SuperviseEffect, <1>0 DEF HostIs
<1>17. QED
  BY <1>1, <1>2, <1>3, <1>4, <1>5, <1>6, <1>7, <1>8, <1>9, <1>10, <1>11,
     <1>12, <1>13, <1>14, <1>15, <1>16
  DEF FleetNext, Up, Down, Scenario, Environment

LEMMA OthersStep ==
    ASSUME FleetInv, FleetNext, Never({"broker", "reboot", "kill", "ignored"})',
           host.other # 0, host'.other = 0
    PROVE  cli' = cli
<1>0. Base
  BY DEF FleetInv
<1>1. CASE Begin
  BY <1>1, BeginEffect, <1>0 DEF FleetInv
<1>2. CASE EnsureNetwork \/ StartBootstrap \/ CreateContainer
  BY <1>2, EnsureNetworkEffect, StartBootstrapEffect, CreateContainerEffect,
     <1>0
  DEF FleetInv, BrokerLives, Numbered, Never, Steady, Over, HostIs, Slain,
      Posts, Receives, Lapses
<1>3. CASE StartContainer \/ WaitReady \/ NotReady \/ Inspect
  BY <1>3, StartContainerEffect, WaitReadyEffect, NotReadyEffect, InspectEffect, <1>0
  DEF HostIs
<1>4. CASE StopBootstrap \/ StartBroker \/ Enroll \/ StartAgent
  BY <1>4, StopBootstrapEffect, StartBrokerEffect, EnrollEffect, StartAgentEffect, <1>0
  DEF HostIs, Posts
<1>5. CASE Enrolled \/ AgentStarted \/ NoAnswer
  BY <1>5, EnrolledEffect, AgentStartedEffect, NoAnswerEffect, <1>0 DEF Receives, Lapses
<1>6. CASE SaveRuntime \/ KillBroker
  BY <1>6, SaveRuntimeEffect, KillBrokerEffect, <1>0
  DEF FleetInv, BrokerLives, Numbered, Never, Over, HostIs, Slain
<1>7. CASE LoadRuntime \/ Visit \/ ShutDown \/ NotShutDown
  BY <1>7, LoadRuntimeEffect, VisitEffect, ShutDownEffect, NotShutDownEffect,
     <1>0
  DEF FleetInv, BrokerLives, Numbered, Never, Steady, Over, HostIs, Slain,
      Posts, Receives, Lapses
<1>8. CASE StopContainer \/ RemoveContainer
  BY <1>8, StopContainerEffect, RemoveContainerEffect, HaltEffect, <1>0 DEF HostIs
<1>9. CASE StopBroker \/ RemoveNetwork \/ RemoveFiles
  BY <1>9, StopBrokerEffect, RemoveNetworkEffect, RemoveFilesEffect, <1>0
  DEF FleetInv, BrokerLives, Numbered, Never, Steady, HostIs, Slain
<1>10. CASE NoScenario \/ OpenRun \/ StartPeer \/ Script \/ ScriptEnds
  BY <1>10, NoScenarioEffect, OpenRunEffect, StartPeerEffect, ScriptEffect,
     ScriptEndsEffect, <1>0
  DEF HostIs, Posts, Receives
<1>11. CASE ScriptLate \/ StopPeer \/ CloseRun
  BY <1>11, ScriptLateEffect, StopPeerEffect, CloseRunEffect, <1>0 DEF HostIs, Lapses
<1>12. CASE StepFails \/ StepIgnored
  BY <1>12, StepFailsEffect, StepIgnoredEffect, <1>0 DEF FleetInv
<1>13. CASE Kill \/ Reboot \/ BrokerDies
  BY <1>13, KillEffect, RebootEffect, BrokerDiesEffect, <1>0 DEF Never
<1>14. CASE OtherStarts \/ OtherExits \/ ForeignNetwork
  BY <1>14, OtherStartsEffect, OtherExitsEffect, ForeignNetworkEffect, <1>0 DEF FleetInv
<1>15. CASE \E s \in Slot :
     ContainerDies(s) \/ AgentExits(s) \/ CommandStays(s)
  BY <1>15, ContainerDiesEffect, AgentExitsEffect, CommandStaysEffect, <1>0 DEF HostIs
<1>16. CASE \E s \in Slot : Supervise(s)
  BY <1>16, SuperviseEffect, <1>0 DEF FleetInv
<1>17. QED
  BY <1>1, <1>2, <1>3, <1>4, <1>5, <1>6, <1>7, <1>8, <1>9, <1>10, <1>11,
     <1>12, <1>13, <1>14, <1>15, <1>16
  DEF FleetNext, Up, Down, Scenario, Environment

LEMMA AgentStartsStep ==
    ASSUME FleetInv, FleetNext, Never({"late", "remove", "broker"})',
           NEW s \in Slot, AgentStarts(s)
    PROVE  host.broker.pid # 0
<1>1. Base /\ Mail /\ BrokerServes /\ TypeOK
  BY DEF FleetInv, Base, Typed
<1>2. agent[s] = "none" /\ agent'[s] = "running"
  BY DEF AgentStarts
<1>3. PICK x \in Slot : Supervise(x)
  <2>1. agent'[s] = agent[s] \/ agent'[s] = "none" \/ \E x \in Slot : Supervise(x)
    <3>1. CASE Begin
      BY <3>1, BeginEffect, <1>1, ChannelKeeps, CallsKeep
      DEF Posts, Receives, Lapses, Silent
    <3>2. CASE EnsureNetwork \/ StartBootstrap \/ CreateContainer
      BY <3>2, EnsureNetworkEffect, StartBootstrapEffect, CreateContainerEffect,
         <1>1, ChannelKeeps, CallsKeep
      DEF Posts, Receives, Lapses, Silent
    <3>3. CASE StartContainer \/ WaitReady \/ NotReady \/ Inspect
      BY <3>3 DEF StartContainer, WaitReady, NotReady, Inspect, Start, Quiet, channel
    <3>4. CASE StopBootstrap \/ StartBroker \/ Enroll \/ StartAgent
      BY <3>4, StopBootstrapEffect, StartBrokerEffect, EnrollEffect,
         StartAgentEffect, <1>1, ChannelKeeps, CallsKeep
      DEF Posts, Receives, Lapses, Silent
    <3>5. CASE Enrolled \/ AgentStarted \/ NoAnswer
      BY <3>5, EnrolledEffect, AgentStartedEffect, NoAnswerEffect, <1>1,
         ChannelKeeps, CallsKeep
      DEF Posts, Receives, Lapses, Silent
    <3>6. CASE SaveRuntime \/ KillBroker
      BY <3>6, SaveRuntimeEffect, KillBrokerEffect, <1>1, ChannelKeeps, CallsKeep
      DEF Posts, Receives, Lapses, Silent
    <3>7. CASE LoadRuntime \/ Visit \/ ShutDown \/ NotShutDown
      BY <3>7, LoadRuntimeEffect, VisitEffect, ShutDownEffect, NotShutDownEffect,
         <1>1, ChannelKeeps, CallsKeep
      DEF Posts, Receives, Lapses, Silent
    <3>8. CASE StopContainer \/ RemoveContainer
      <4>1. Halt(cli.at) /\ cli.at \in Slot
        BY <3>8, StopContainerEffect, RemoveContainerEffect DEF FleetInv
      <4>2. QED
        BY <4>1, HaltEffect, CrashOff, ChannelKeeps DEF FleetInv, Base, Typed, Aside
    <3>9. CASE StopBroker \/ RemoveNetwork \/ RemoveFiles
      BY <3>9, StopBrokerEffect, RemoveNetworkEffect, RemoveFilesEffect, <1>1,
         ChannelKeeps, CallsKeep
      DEF Posts, Receives, Lapses, Silent
    <3>10. CASE NoScenario \/ OpenRun \/ StartPeer \/ Script \/ ScriptEnds
      BY <3>10, NoScenarioEffect, OpenRunEffect, StartPeerEffect, ScriptEffect,
         ScriptEndsEffect, <1>1, ChannelKeeps, CallsKeep
      DEF Posts, Receives, Lapses, Silent
    <3>11. CASE ScriptLate \/ StopPeer \/ CloseRun
      BY <3>11, ScriptLateEffect, StopPeerEffect, CloseRunEffect, <1>1,
         ChannelKeeps, CallsKeep
      DEF Posts, Receives, Lapses, Silent
    <3>12. CASE StepFails \/ StepIgnored
      BY <3>12, StepFailsEffect, StepIgnoredEffect, <1>1, ChannelKeeps, CallsKeep
      DEF Posts, Receives, Lapses, Silent
    <3>13. CASE Kill \/ Reboot \/ BrokerDies
      BY <3>13, KillEffect, RebootEffect, BrokerDiesEffect, <1>1, ChannelKeeps,
         CallsKeep
      DEF Posts, Receives, Lapses, Silent
    <3>14. CASE OtherStarts \/ OtherExits \/ ForeignNetwork
      BY <3>14, OtherStartsEffect, OtherExitsEffect, ForeignNetworkEffect, <1>1,
         ChannelKeeps, CallsKeep
      DEF Posts, Receives, Lapses, Silent
    <3>15. CASE \E x \in Slot : ContainerDies(x) \/ AgentExits(x) \/ CommandStays(x)
      <4>1. PICK x \in Slot : ContainerDies(x) \/ AgentExits(x) \/ CommandStays(x)
        BY <3>15
      <4>2. CASE ContainerDies(x)
        BY <4>2, CrashOff DEF FleetInv, Base, Typed, ContainerDies, Aside
      <4>3. CASE AgentExits(x)
        BY <4>3 DEF AgentExits, AgentDies, FleetInv, Base, Typed, TypeOK
      <4>4. CASE CommandStays(x)
        BY <4>4, ProceedEffect DEF CommandStays, RemoveFails, FleetInv, Base, Typed, Aside
      <4>5. QED
        BY <4>1, <4>2, <4>3, <4>4
    <3>16. CASE \E x \in Slot : Supervise(x)
      BY <3>16
    <3>17. QED
      BY <3>1, <3>2, <3>3, <3>4, <3>5, <3>6, <3>7, <3>8, <3>9, <3>10, <3>11,
         <3>12, <3>13, <3>14, <3>15, <3>16
      DEF FleetNext, Up, Down, Scenario, Environment
  <2>2. QED
    BY <1>2, <2>1
<1>4. Work(x) /\ UNCHANGED past
  BY <1>1, <1>3, SuperviseEffect
<1>5. /\ s = x /\ sup[s].pc = "execute" /\ agent'[s] = AgentAfter(s, type[sup[s].at])
  BY <1>1, <1>2, <1>4, WorkEffect, ProceedEffect DEF Aside
<1>6. type[sup[s].at] = "start-agent"
  BY <1>2, <1>5 DEF AgentAfter
<1>7. Never({"late", "remove"}) /\ Never({"broker"})
  BY <1>4 DEF Never
<1>8. Pending /\ Asked("start-agent")
  BY <1>1, <1>5, <1>6, <1>7 DEF Mail
<1>9. cli.pc \in Launched
  BY <1>8 DEF Pending, Awaiting, Asked, Launched
<1>10. QED
  BY <1>1, <1>7, <1>9 DEF BrokerServes

-----------------------------------------------------------------------------
(* The theorems.                                                            *)

(* Every reachable state of the fleet is well typed, whatever fails.        *)
THEOREM TypeCorrect == FleetSpec => []FleetTypeOK
<1>1. FleetInv => FleetTypeOK
  BY DEF FleetInv, Base, Typed, Rooted, FleetTypeOK, Hosts, Disks, Commanding
<1> QED
  BY <1>1, FleetInvariant, PTL

(* After an up that succeeded every endpoint is served, by the broker that  *)
(* is on record, until a command or a mishap comes: whatever failed before  *)
(* it, as long as no command was left in a mailbox (FleetManager.up of      *)
(* fleet/windows/fleet_manager.py).                                         *)
THEOREM UpAlwaysServed == FleetSpec => []UpIsServed
<1>1. FleetInv => UpIsServed
  BY DEF FleetInv, Served, Serving, Running, UpIsServed
<1> QED
  BY <1>1, FleetInvariant, PTL

(* A down that succeeded leaves nothing of a recorded endpoint, and, with   *)
(* the exceptions the property names, no broker, container or network       *)
(* (FleetManager.down).                                                     *)
THEOREM DownAlwaysCleans == FleetSpec => []DownIsClean
<1>1. FleetInv => DownIsClean
  <2> SUFFICES ASSUME FleetInv, last = "down", Never({"ignored"}) PROVE DownIsClean
    BY DEF DownIsClean
  <2>1. /\ cli.pc \notin UpPcs \cup DownPcs /\ host \in Hosts
    BY DEF FleetInv, Base, Typed, Controlled
  <2>2. \A s \in Slot : disk.record[s] # 0 =>
           s \notin host.containers /\ sup[s].pc = "off" /\ agent[s] = "none"
    BY DEF FleetInv, Cleared, Passed, Housed
  <2>3. ASSUME Never({"kill"}) PROVE host.broker.pid = 0 /\ host.bootstrap = "none"
    <3>1. Never({"kill", "ignored"})
      BY <2>3 DEF Never
    <3>2. host.bootstrap \in {"none", "serving"}
      BY <2>1 DEF Hosts
    <3>3. QED
      BY <2>1, <3>1, <3>2 DEF FleetInv, BrokerKnown, Numbered, UpPcs, DownPcs, Closing
  <2>4. ASSUME Never({"kill", "failed", "again", "reboot"})
        PROVE  host.containers = {} /\ host.network # "lab"
    <3>1. /\ Never({"kill", "failed", "reboot"})
          /\ Never({"kill", "failed", "again", "reboot", "ignored"})
      BY <2>4 DEF Never
    <3>2. host.containers = {}
      BY <2>1, <3>1, NothingLeft DEF FleetInv, UpPcs
    <3>3. QED
      BY <3>1, <3>2 DEF FleetInv, NetworkFound
  <2>5. QED
    BY <2>2, <2>3, <2>4 DEF DownIsClean
<1> QED
  BY <1>1, FleetInvariant, PTL

(* A script runs only while its run is open, and NETA-LAB-001 while its     *)
(* peer listens, unless its client stopped waiting                          *)
(* (WindowsScenarioRunner.run).                                             *)
THEOREM ScriptsAlwaysWithinRuns == FleetSpec => []ScriptsWithinRuns
<1>1. FleetInv => ScriptsWithinRuns
  <2> SUFFICES ASSUME FleetInv, NEW s \in Slot, sup[s].pc = "execute",
                      type[sup[s].at] = "scenario", Never({"late", "remove"})
               PROVE  /\ disk.truth = "open" /\ cli.cmd = "scenario" /\ cli.at = s
                      /\ cli.kind = "001" => host.peer = "listening"
    BY DEF ScriptsWithinRuns
  <2>1. Pending /\ sup[s].at = cli.id /\ s = cli.at /\ Asked(type[cli.id])
    BY DEF FleetInv, Mail
  <2>2. cli.pc = "await script"
    BY <2>1 DEF Pending, Awaiting, Asked
  <2>3. cli.cmd \in {"none", "up", "down", "scenario"}
    BY DEF FleetInv, Base, Typed, Commanding
  <2>4. cli.cmd = "scenario"
    BY <2>2, <2>3
    DEF FleetInv, Base, Controlled, UpPcs, DownPcs, Opening, Launched, Visiting, Closing
  <2>5. QED
    BY <2>1, <2>2, <2>4 DEF FleetInv, Runs
<1> QED
  BY <1>1, FleetInvariant, PTL

(* No command removes a network the fleet did not create, unless one was    *)
(* killed, the host restarted or a down could not remove runtime.json       *)
(* before (FleetManager.down and the owned flag of runtime.json).           *)
THEOREM ForeignNetworkAlwaysKept == FleetSpec => ForeignNetworkKept
<1>1. FleetInv /\ [FleetNext]_fleetVars =>
         [Never({"kill", "reboot", "stale"})' /\ host.network = "foreign"
            => host'.network = "foreign"]_fleetVars
  BY ForeignStep
<1> QED
  BY <1>1, FleetInvariant, PTL DEF FleetSpec, ForeignNetworkKept

(* No command kills a foreign process that was given the number of a        *)
(* broker, unless a broker died, a command was killed, the host restarted,  *)
(* or a step of a command failed unseen, the removal of runtime.json among  *)
(* them (taskkill in FleetManager.down).                                    *)
THEOREM OthersAlwaysSpared == FleetSpec => OthersSpared
<1>1. FleetInv /\ [FleetNext]_fleetVars =>
         [Never({"broker", "reboot", "kill", "ignored"})' /\ host.other # 0 /\ host'.other = 0
            => cli' = cli]_fleetVars
  BY OthersStep
<1> QED
  BY <1>1, FleetInvariant, PTL DEF FleetSpec, OthersSpared

(* An agent is started only with the broker at the sensor pipe, unless a    *)
(* command nobody waits for is executed late or the broker died             *)
(* (FleetManager.up, supervisor.ps1).                                       *)
THEOREM AgentsAlwaysAfterBroker == FleetSpec => AgentsAfterBroker
<1>1. FleetInv /\ [FleetNext]_fleetVars =>
         [Never({"late", "remove", "broker"})' =>
            \A s \in Slot : AgentStarts(s) => host.broker.pid # 0]_fleetVars
  BY AgentStartsStep
<1> QED
  BY <1>1, FleetInvariant, PTL DEF FleetSpec, AgentsAfterBroker

=============================================================================
