---------------------------- MODULE WindowsFleet ----------------------------
(***************************************************************************)
(* The Windows fleet: the commands up, down, scenario and acceptance of    *)
(* fleet/windows_cli.py (fleet/windows/fleet_manager.py, docker_runtime.py,*)
(* endpoint_store.py, scenario_runner.py, acceptance.py), one at a time,   *)
(* with the supervisors of module SupervisorChannel running in the         *)
(* containers beside them.                                                 *)
(*                                                                         *)
(* The sensor pipe has one owner: first the bootstrap, which holds it open *)
(* while containers that map it are created, then the broker, which is     *)
(* given the root process of every container.  An up that finds the pipe   *)
(* taken fails, and so a fleet that runs refuses a second up.              *)
(*                                                                         *)
(* Process numbers are kept in two ranges, that of the roots of containers *)
(* and that of brokers and of one foreign process that may come and go.    *)
(***************************************************************************)
EXTENDS SupervisorChannel, Sequences

CONSTANTS N,         \* endpoints of the fleet
          Pid,       \* numbers of brokers and of the foreign process
          Root,      \* numbers of the root processes of containers
          Commands,  \* what users ask for, each a sequence of steps
          MaxAsked   \* bound on how often they ask

ASSUME SlotAssumption == N \in Nat \ {0} /\ Slot = 1 .. N
ASSUME AskedAssumption == MaxAsked \in Nat
ASSUME NumbersAssumption ==
    \A numbers \in {Pid, Root} : numbers \subseteq Nat \ {0} /\ \E p, q \in numbers : p # q
ASSUME AsksAssumption == {"start-agent", "agent-command", "scenario", "shutdown"} \subseteq Types

VARIABLES
    host,    \* what runs: containers and their roots, network, pipe, processes
    disk,    \* what is saved: endpoint.json, identities, runtime.json, ground truth
    cli,     \* the command that runs
    last,    \* the command that succeeded, with nothing having gone wrong since
    past,    \* the kinds of mishaps that happened
    asked    \* how many commands users asked for

fleet == <<host, disk, cli, last, past, asked>>
fleetVars == <<vars, fleet>>

NoBroker == [pid |-> 0, map |-> [s \in Slot |-> 0]]
NoRuntime == [broker |-> 0, owned |-> "no"]
Idle == [cmd |-> "none", pc |-> "idle", at |-> 0, kind |-> "none", owned |-> "no",
         pid |-> 0, id |-> 0, result |-> "none", hit |-> "no", then |-> <<>>]

UpStep == [cmd |-> "up", at |-> 0, kind |-> "none"]
DownStep == [cmd |-> "down", at |-> 1, kind |-> "none"]
ScenarioStep(s, kind) == [cmd |-> "scenario", at |-> s, kind |-> kind]

FleetStep == {UpStep, DownStep} \cup {ScenarioStep(s, k) : s \in Slot, k \in {"001", "006"}}
ASSUME CommandsAssumption == Commands \subseteq Seq(FleetStep)

(* up is outside the try block of run_acceptance, down in its finally block. *)
Acceptance(process, network) ==
    <<UpStep, ScenarioStep(process, "006"), ScenarioStep(network, "001"), DownStep>>

FleetTypeOK ==
    /\ TypeOK
    /\ host.containers \subseteq Slot
    /\ host.root \in [Slot -> Root \cup {0}]
    /\ host.network \in {"none", "lab", "foreign"}
    /\ host.broker \in [pid : Pid \cup {0}, map : [Slot -> Root \cup {0}]]
    /\ host.bootstrap \in {"none", "serving"}
    /\ host.peer \in {"none", "listening"}
    /\ host.other \in Pid \cup {0}
    /\ disk.record \in [Slot -> Root \cup {0}]
    /\ disk.enrolled \subseteq Slot
    /\ disk.runtime \in [broker : Pid \cup {0}, owned : {"no", "yes"}]
    /\ disk.truth \in {"none", "open", "PASS", "ERROR"}
    /\ cli.cmd \in {"none", "up", "down", "scenario"} /\ cli.at \in Slot \cup {0}
    /\ cli.pid \in Pid \cup {0} /\ cli.id \in Id \cup {0}
    /\ \A s \in Slot : host.root[s] = 0 <=> sup[s].pc = "off"

FleetInit ==
    /\ Init
    /\ host = [containers |-> {}, root |-> [s \in Slot |-> 0], network |-> "none",
               broker |-> NoBroker, bootstrap |-> "none", peer |-> "none", other |-> 0]
    /\ disk = [record |-> [s \in Slot |-> 0], enrolled |-> {}, runtime |-> NoRuntime,
               truth |-> "none"]
    /\ cli = Idle /\ last = "none" /\ past = {} /\ asked = 0

-----------------------------------------------------------------------------
(* How a command goes on.                                                  *)

At(pc) == cli.pc = pc
Goto(pc) == cli' = [cli EXCEPT !.pc = pc]
Quiet == UNCHANGED <<channel, faults>>
Steady == UNCHANGED <<last, past>>

FirstPc == [up |-> "ensure network", down |-> "load", scenario |-> "open run"]

Launch(steps) ==
    IF steps = <<>> THEN Idle
    ELSE [Idle EXCEPT !.cmd = Head(steps).cmd, !.at = Head(steps).at, !.kind = Head(steps).kind,
                      !.pc = FirstPc[Head(steps).cmd], !.then = Tail(steps)]

Begin ==
    /\ cli.cmd = "none"
    /\ asked < MaxAsked /\ asked' = asked + 1
    /\ \E steps \in Commands : cli' = Launch(steps)
    /\ last' = "none"
    /\ Quiet /\ UNCHANGED <<host, disk, past>>

(* What follows the command in acceptance, if anything, is a scenario. *)
FleetStays == cli.then = <<>> \/ Head(cli.then).cmd = "scenario"

Returns ==
    /\ cli' = Launch(cli.then)
    /\ last' = IF cli.hit = "no" /\ FleetStays THEN cli.cmd ELSE "none"

Succeeded == Returns /\ UNCHANGED past

(* An exception: of acceptance, down is left, unless it was up that raised. *)
Raises ==
    /\ cli' = Launch(IF cli.cmd # "up" /\ \E i \in DOMAIN cli.then : cli.then[i] = DownStep
                     THEN <<DownStep>> ELSE <<>>)
    /\ last' = "none"

Raised ==
    /\ Raises
    /\ past' = IF cli.cmd = "up" THEN past \cup {"failed"} ELSE past

(* The names of calls are random, but only their order among those in the  *)
(* mailbox matters: in an empty one a call has the first unused name.      *)
Names(s) == {i \in Id : Unused(i) /\ (commands[s] # {} \/ \A j \in Id : Unused(j) => i <= j)}

Ask(t, pc) ==
    \E i \in Names(cli.at) :
        /\ Post(i, cli.at, t)
        /\ cli' = [cli EXCEPT !.pc = pc, !.id = i]
        /\ Steady /\ UNCHANGED <<host, disk, faults>>

(* The wait for an answer ends without one when the supervisor is gone, or *)
(* when it takes longer than the client waits.                             *)
TimesOut ==
    /\ GiveUp(cli.id)
    /\ responses[cli.id] = "none"
    /\ \/ sup[cli.at].pc = "off" /\ UNCHANGED faults
       \/ sup[cli.at].pc # "off" /\ Fault("slow")
    /\ past' = past \cup {"late"}

-----------------------------------------------------------------------------
(* up.                                                                     *)

(* Whether this up is to own the network. *)
MutantOwned == "yes"                   \* whoever made it
Owned == IF host.network = "none" THEN "yes" ELSE "no"

EnsureNetwork ==
    /\ At("ensure network")
    /\ host' = IF host.network = "none" THEN [host EXCEPT !.network = "lab"] ELSE host
    /\ cli' = [cli EXCEPT !.pc = "start bootstrap", !.owned = Owned]
    /\ past' = IF host.network = "lab" THEN past \cup {"again"} ELSE past
    /\ Quiet /\ UNCHANGED <<disk, last>>

(* The pipe is created with room for one instance: it must not exist. *)
PipeTaken == host.broker.pid # 0 \/ host.bootstrap = "serving"

StartBootstrap ==
    /\ At("start bootstrap")
    /\ IF PipeTaken
       THEN Raised /\ UNCHANGED host
       ELSE /\ host' = [host EXCEPT !.bootstrap = "serving"]
            /\ cli' = [cli EXCEPT !.pc = "create", !.at = 1]
            /\ Steady
    /\ Quiet /\ UNCHANGED disk

CreateContainer ==
    /\ At("create")
    /\ host' = [host EXCEPT !.containers = @ \cup {cli.at}]
    /\ Goto("start")
    /\ Quiet /\ Steady /\ UNCHANGED disk

(* A number that is not on record for this slot; no broker runs now. *)
FreshRoot(s) == CHOOSE r \in Root : r # disk.record[s]

StartContainer ==
    LET s == cli.at IN
    /\ At("start")
    /\ IF sup[s].pc = "off"
       THEN /\ Start(s)
            /\ host' = [host EXCEPT !.root[s] = FreshRoot(s)]
       ELSE UNCHANGED <<channel, host>>
    /\ Goto("wait ready")
    /\ Steady /\ UNCHANGED <<disk, faults>>

WaitReady ==
    /\ At("wait ready")
    /\ ready[cli.at] = "yes"
    /\ Goto("inspect")
    /\ Quiet /\ Steady /\ UNCHANGED <<host, disk>>

(* An exception on the way to the last container: the bootstrap is stopped *)
(* and up raises.                                                          *)
Unwind == cli' = [cli EXCEPT !.pc = "stop bootstrap", !.result = "failed"]

NotReady ==
    /\ At("wait ready")
    /\ ready[cli.at] = "no"
    /\ (sup[cli.at].pc = "off" /\ UNCHANGED faults) \/ Fault("slow")
    /\ Unwind
    /\ Steady /\ UNCHANGED <<channel, host, disk>>

(* The root process the container has now is what is saved. *)
MutantRecorded(s) == IF disk.record[s] # 0 THEN disk.record[s] ELSE host.root[s]
Recorded(s) == host.root[s]

Inspect ==
    LET s == cli.at IN
    /\ At("inspect")
    /\ IF host.root[s] = 0
       THEN Unwind /\ UNCHANGED disk
       ELSE /\ disk' = [disk EXCEPT !.record[s] = Recorded(s)]
            /\ cli' = IF s < N THEN [cli EXCEPT !.pc = "create", !.at = s + 1]
                               ELSE [cli EXCEPT !.pc = "stop bootstrap"]
    /\ Quiet /\ Steady /\ UNCHANGED host

(* Agents come first. *)
MutantStopBootstrap ==
    /\ At("stop bootstrap")
    /\ host' = [host EXCEPT !.bootstrap = "none"]
    /\ IF cli.result = "failed" THEN Raised
       ELSE cli' = [cli EXCEPT !.pc = "enroll", !.at = 1] /\ Steady
    /\ Quiet /\ UNCHANGED disk

StopBootstrap ==
    /\ At("stop bootstrap")
    /\ host' = [host EXCEPT !.bootstrap = "none"]
    /\ IF cli.result = "failed" THEN Raised ELSE Goto("start broker") /\ Steady
    /\ Quiet /\ UNCHANGED disk

StartBroker ==
    /\ At("start broker")
    /\ \E p \in Pid \ {host.other} :
          /\ \A q \in Pid \ {host.other} : p <= q
          /\ host' = [host EXCEPT !.broker = [pid |-> p, map |-> disk.record]]
          /\ cli' = [cli EXCEPT !.pc = "enroll", !.at = 1, !.pid = p]
    /\ Quiet /\ Steady /\ UNCHANGED disk

(* _enroll: an endpoint with an identity is not enrolled again. *)
Enroll ==
    /\ At("enroll")
    /\ IF cli.at \in disk.enrolled
       THEN Goto("start agent") /\ Quiet /\ Steady /\ UNCHANGED <<host, disk>>
       ELSE Ask("agent-command", "enrolling")

StartAgent == At("start agent") /\ Ask("start-agent", "starting")

(* Any exception once the broker runs: the broker is stopped, no more. *)
Enrolled ==
    /\ At("enrolling")
    /\ Receive(cli.id)
    /\ Goto(IF responses[cli.id] = "ok" /\ cli.at \in disk.enrolled
            THEN "start agent" ELSE "kill broker")
    /\ Steady /\ UNCHANGED <<host, disk, faults>>

AgentStarted ==
    /\ At("starting")
    /\ Receive(cli.id)
    /\ cli' = IF responses[cli.id] # "ok" THEN [cli EXCEPT !.pc = "kill broker"]
              ELSE IF cli.at < N THEN [cli EXCEPT !.pc = "enroll", !.at = @ + 1]
              ELSE [cli EXCEPT !.pc = "save runtime"]
    /\ Steady /\ UNCHANGED <<host, disk, faults>>

NoAnswer ==
    /\ cli.pc \in {"enrolling", "starting"}
    /\ TimesOut
    /\ Goto("kill broker")
    /\ UNCHANGED <<host, disk, last>>

SaveRuntime ==
    /\ At("save runtime")
    /\ disk' = [disk EXCEPT !.runtime = [broker |-> cli.pid, owned |-> cli.owned]]
    /\ Succeeded
    /\ Quiet /\ UNCHANGED host

(* taskkill, whatever runs under the number now. *)
Killed(pid) ==
    [host EXCEPT !.broker = IF host.broker.pid = pid THEN NoBroker ELSE @,
                 !.other = IF pid # 0 /\ @ = pid THEN 0 ELSE @]

KillBroker ==
    /\ At("kill broker")
    /\ host' = Killed(cli.pid)
    /\ Raised
    /\ Quiet /\ UNCHANGED disk

-----------------------------------------------------------------------------
(* down.                                                                   *)

LoadRuntime ==
    /\ At("load")
    /\ cli' = [cli EXCEPT !.pc = "visit", !.pid = disk.runtime.broker,
                          !.owned = disk.runtime.owned]
    /\ Quiet /\ Steady /\ UNCHANGED <<host, disk>>

MutantVisited == cli' = IF cli.at + 1 < N THEN [cli EXCEPT !.pc = "visit", !.at = @ + 1]
                                          ELSE [cli EXCEPT !.pc = "stop broker"]
Visited == cli' = IF cli.at < N THEN [cli EXCEPT !.pc = "visit", !.at = @ + 1]
                                ELSE [cli EXCEPT !.pc = "stop broker"]

(* Endpoints are those with a record; the others' containers are not seen. *)
Visit ==
    /\ At("visit")
    /\ IF disk.record[cli.at] # 0 /\ cli.at \in host.containers
       THEN Ask("shutdown", "asking")
       ELSE Visited /\ Quiet /\ Steady /\ UNCHANGED <<host, disk>>

ShutDown ==
    /\ At("asking")
    /\ Receive(cli.id)
    /\ Goto("stop")
    /\ Steady /\ UNCHANGED <<host, disk, faults>>

NotShutDown ==
    /\ At("asking")
    /\ TimesOut
    /\ Goto("stop")
    /\ UNCHANGED <<host, disk, last>>

(* A container that is stopped leaves the commands of its mailbox behind:  *)
(* that of the shutdown too, if the stop comes between its answer and its  *)
(* removal.  The first such race counts among the faults.                  *)
Left(s) == IF commands[s] = {} THEN {} ELSE {"late"}

Halt(s) ==
    /\ IF sup[s].pc = "off" THEN UNCHANGED channel ELSE Crash(s)
    /\ past' = past \cup Left(s)
    /\ IF past' = past THEN UNCHANGED faults ELSE Fault("race")

StopContainer ==
    /\ At("stop")
    /\ Halt(cli.at)
    /\ host' = [host EXCEPT !.root[cli.at] = 0]
    /\ Goto("remove")
    /\ UNCHANGED <<disk, last>>

RemoveContainer ==
    LET s == cli.at IN
    /\ At("remove")
    /\ Halt(s)
    /\ host' = [host EXCEPT !.containers = @ \ {s}, !.root[s] = 0]
    /\ Visited
    /\ UNCHANGED <<disk, last>>

StopBroker ==
    /\ At("stop broker")
    /\ host' = Killed(cli.pid)
    /\ Goto("remove network")
    /\ Quiet /\ Steady /\ UNCHANGED disk

(* Docker refuses while a container of the network runs; nobody looks. *)
RemoveNetwork ==
    /\ At("remove network")
    /\ host' = IF cli.owned = "yes" /\ \A s \in Slot : sup[s].pc = "off"
               THEN [host EXCEPT !.network = "none"] ELSE host
    /\ Goto("remove files")
    /\ Quiet /\ Steady /\ UNCHANGED disk

MutantAfterDown == disk                \* runtime.json stays
AfterDown == [disk EXCEPT !.runtime = NoRuntime]

RemoveFiles ==
    /\ At("remove files")
    /\ disk' = AfterDown
    /\ Succeeded
    /\ Quiet /\ UNCHANGED host

-----------------------------------------------------------------------------
(* scenario (WindowsScenarioRunner.run).                                   *)

(* An unknown slot, or no network to ask for the gateway's address. *)
NoScenario ==
    /\ At("open run")
    /\ disk.record[cli.at] = 0 \/ host.network = "none"
    /\ Raised
    /\ Quiet /\ UNCHANGED <<host, disk>>

OpenRun ==
    /\ At("open run")
    /\ disk.record[cli.at] # 0 /\ host.network # "none"
    /\ disk' = [disk EXCEPT !.truth = "open"]
    /\ Goto(IF cli.kind = "001" THEN "start peer" ELSE "script")
    /\ Quiet /\ Steady /\ UNCHANGED host

StartPeer ==
    /\ At("start peer")
    /\ host' = [host EXCEPT !.peer = "listening"]
    /\ Goto("script")
    /\ Quiet /\ Steady /\ UNCHANGED disk

MutantScript == At("script") /\ Ask("scenario", "stop peer")     \* does not wait
Script == At("script") /\ Ask("scenario", "await script")

(* The answer itself is recorded. *)
MutantVerdict(answer) == cli' = [cli EXCEPT !.pc = "stop peer", !.result = answer]
Verdict(answer) == cli' = [cli EXCEPT !.pc = "stop peer",
                                      !.result = IF answer = "ok" THEN "PASS" ELSE "ERROR"]

ScriptEnds ==
    /\ At("await script")
    /\ Receive(cli.id)
    /\ Verdict(responses[cli.id])
    /\ Steady /\ UNCHANGED <<host, disk, faults>>

ScriptLate ==
    /\ At("await script")
    /\ TimesOut
    /\ Verdict("timeout")
    /\ UNCHANGED <<host, disk, last>>

StopPeer ==
    /\ At("stop peer")
    /\ host' = [host EXCEPT !.peer = "none"]
    /\ Goto("close run")
    /\ Quiet /\ Steady /\ UNCHANGED disk

CloseRun ==
    /\ At("close run")
    /\ disk' = [disk EXCEPT !.truth = cli.result]
    /\ Succeeded
    /\ Quiet /\ UNCHANGED host

-----------------------------------------------------------------------------
(* What goes wrong.                                                        *)

(* A checked command or a file operation raises, or the pipe's or the      *)
(* peer's process does not come up.                                        *)
StepFails ==
    /\ Fault("command")
    /\ \/ cli.pc \in {"ensure network", "start bootstrap", "start broker", "open run"} /\ Raised
       \/ cli.pc \in {"create", "start", "inspect"} /\ Unwind /\ Steady
       \/ cli.pc \in {"enroll", "start agent", "save runtime"} /\ Goto("kill broker") /\ Steady
       \/ cli.pc \in {"start peer", "script"} /\ Verdict("raised") /\ Steady
    /\ UNCHANGED <<channel, host, disk>>

(* What down does, or taskkill in up's handler, fails and nobody looks.    *)
(* runtime.json is stale then, when it was to go with the other files.     *)
StepIgnored ==
    /\ Fault("ignored")
    /\ \/ /\ \/ At("stop") /\ Goto("remove")
             \/ At("remove") /\ Visited
             \/ At("stop broker") /\ Goto("remove network")
             \/ At("remove network") /\ Goto("remove files")
          /\ past' = past \cup {"ignored"} /\ UNCHANGED last
       \/ At("kill broker") /\ Raises /\ past' = past \cup {"ignored", "failed"}
       \/ At("remove files") /\ Returns /\ past' = past \cup {"ignored", "stale"}
    /\ UNCHANGED <<channel, host, disk>>

(* Any step of the environment: what succeeded before may not hold now.    *)
Mishap(kind, left) ==
    /\ Fault(kind)
    /\ past' = past \cup {kind} \cup left
    /\ last' = "none"
    /\ cli' = IF cli.cmd = "none" THEN cli ELSE [cli EXCEPT !.hit = "yes"]
    /\ UNCHANGED disk

ContainerDies(s) ==
    Mishap("crash", Left(s)) /\ Crash(s) /\ host' = [host EXCEPT !.root[s] = 0]

AgentExits(s) == Mishap("agent", {}) /\ AgentDies(s) /\ UNCHANGED host

BrokerDies ==
    /\ host.broker.pid # 0
    /\ Mishap("broker", {})
    /\ host' = [host EXCEPT !.broker = NoBroker]
    /\ UNCHANGED channel

(* The command is killed.  Its bootstrap and its peer go on.               *)
Kill ==
    /\ cli.cmd # "none"
    /\ Fault("kill")
    /\ cli' = Idle /\ last' = "none"
    /\ IF cli.pc \in {"enrolling", "starting", "asking", "await script"}
       THEN GiveUp(cli.id) /\ past' = past \cup {"kill", "late"}
       ELSE UNCHANGED channel /\ past' = past \cup {"kill"}
    /\ UNCHANGED <<host, disk>>

(* The host restarts; the containers are still there, and stopped.         *)
Reboot ==
    /\ Fault("reboot")
    /\ cli' = Idle /\ last' = "none" /\ past' = past \cup {"reboot", "late"}
    /\ host' = [host EXCEPT !.root = [s \in Slot |-> 0], !.broker = NoBroker,
                            !.bootstrap = "none", !.peer = "none", !.other = 0]
    /\ sup' = [s \in Slot |-> Off]
    /\ agent' = [s \in Slot |-> "none"]
    /\ waiting' = {}
    /\ UNCHANGED <<disk, commands, type, responses, ready>>

(* A foreign process comes and goes; it matters when it gets the number a  *)
(* broker had.  Users of Docker make a network under the fleet's name.     *)
OtherStarts ==
    /\ host.other = 0
    /\ \E p \in {disk.runtime.broker, cli.pid} \ {0, host.broker.pid} :
          host' = [host EXCEPT !.other = p]
    /\ Quiet /\ Steady /\ UNCHANGED <<disk, cli>>

OtherExits ==
    /\ host.other # 0
    /\ host' = [host EXCEPT !.other = 0]
    /\ Quiet /\ Steady /\ UNCHANGED <<disk, cli>>

ForeignNetwork ==
    /\ host.network = "none"
    /\ host' = [host EXCEPT !.network = "foreign"]
    /\ Quiet /\ Steady /\ UNCHANGED <<disk, cli>>

-----------------------------------------------------------------------------
(* A step of a supervisor: an enrollment that succeeds leaves an identity, *)
(* and the container of a supervisor that exits has no root any more.      *)
RootAfter(s) == [host EXCEPT !.root[s] = IF sup'[s].pc = "off" THEN 0 ELSE @]

Supervise(s) ==
    /\ Work(s)
    /\ host' = RootAfter(s)
    /\ disk' = [disk EXCEPT !.enrolled = IF sup[s].pc = "execute" /\ sup'[s].status = "ok"
                                            /\ type[sup[s].at] = "agent-command"
                                         THEN @ \cup {s} ELSE @]
    /\ UNCHANGED <<faults, cli, last, past>>

CommandStays(s) ==
    /\ Mishap("remove", {})
    /\ RemoveFails(s)
    /\ host' = RootAfter(s)

Up == EnsureNetwork \/ StartBootstrap \/ CreateContainer \/ StartContainer \/ WaitReady
      \/ NotReady \/ Inspect \/ StopBootstrap \/ StartBroker \/ Enroll \/ Enrolled
      \/ StartAgent \/ AgentStarted \/ NoAnswer \/ SaveRuntime \/ KillBroker

Down == LoadRuntime \/ Visit \/ ShutDown \/ NotShutDown \/ StopContainer
        \/ RemoveContainer \/ StopBroker \/ RemoveNetwork \/ RemoveFiles

Scenario == NoScenario \/ OpenRun \/ StartPeer \/ Script \/ ScriptEnds \/ ScriptLate
            \/ StopPeer \/ CloseRun

Environment ==
    \/ StepFails \/ StepIgnored \/ Kill \/ Reboot \/ BrokerDies
    \/ OtherStarts \/ OtherExits \/ ForeignNetwork
    \/ \E s \in Slot : ContainerDies(s) \/ AgentExits(s) \/ CommandStays(s)

FleetNext ==
    \/ Begin
    \/ (Up \/ Down \/ Scenario \/ Environment \/ \E s \in Slot : Supervise(s)) /\ UNCHANGED asked

FleetSpec == FleetInit /\ [][FleetNext]_fleetVars

-----------------------------------------------------------------------------
(* Properties.                                                             *)

Never(kinds) == past \cap kinds = {}

(* When up has succeeded, and until a command or a mishap comes, the fleet *)
(* is served: every container runs with its agent, and the broker that is  *)
(* recorded lives and knows the root process each container has now.  That *)
(* holds after any failed or killed up or down, as long as no command was  *)
(* left in a mailbox: an old shutdown would be carried out now.            *)
UpIsServed ==
    last = "up" /\ Never({"late", "remove"}) =>
        /\ host.bootstrap = "none"
        /\ host.broker.pid # 0 /\ host.broker.pid = disk.runtime.broker
        /\ \A s \in Slot : /\ s \in host.containers /\ sup[s].pc # "off"
                           /\ agent[s] = "running"
                           /\ host.broker.map[s] = host.root[s]

(* After down nothing of a recorded endpoint is left, whatever happened to *)
(* its supervisor, broker or agent; the broker is gone unless a killed up  *)
(* had not recorded it; and if no up failed or was made on a network that  *)
(* was there, nor a command killed, so is the network.  That takes that    *)
(* neither a step of any down nor taskkill in up's handler failed without  *)
(* notice: what they leave, such as a broker on no record, stays.          *)
DownIsClean ==
    last = "down" /\ Never({"ignored"}) =>
        /\ \A s \in Slot : disk.record[s] # 0 =>
              s \notin host.containers /\ sup[s].pc = "off" /\ agent[s] = "none"
        /\ Never({"kill"}) => host.broker.pid = 0 /\ host.bootstrap = "none"
        /\ Never({"kill", "failed", "again", "reboot"}) =>
              host.containers = {} /\ host.network # "lab"

(* Agents are started only with the broker at the pipe, unless a command   *)
(* nobody waits for any more is executed late.                             *)
AgentStarts(s) == agent[s] = "none" /\ agent'[s] = "running"

AgentsAfterBroker ==
    [][Never({"late", "remove", "broker"})' =>
         \A s \in Slot : AgentStarts(s) => host.broker.pid # 0]_fleetVars

(* "Agents are started only after the real broker is ready."               *)
BrokerBeforeAgents ==
    [][\A s \in Slot : AgentStarts(s) => ~ (cli.cmd = "up" /\ host.bootstrap = "serving")]_fleetVars

(* No command kills the foreign process, though pids are killed without a  *)
(* look at what runs under them: it takes a broker that ended by itself, a *)
(* command killed or a file down could not remove (one of the failures     *)
(* nobody looks at) for runtime.json to name a broker that is gone.        *)
OthersSpared ==
    [][Never({"broker", "reboot", "kill", "ignored"})' /\ host.other # 0 /\ host'.other = 0
         => cli' = cli]_fleetVars

(* A network the fleet did not create is not removed, as long as no        *)
(* runtime.json outlives the network it names: down removes the network    *)
(* and the file in two steps, a kill or a reboot can part them, and a file *)
(* that could not be removed still says the network is the fleet's own.    *)
ForeignNetworkKept ==
    [][Never({"kill", "reboot", "stale"})' /\ host.network = "foreign" => host'.network = "foreign"]_fleetVars

(* A script runs while its run is open in the ground truth, and NETA-LAB-  *)
(* 001 while its peer listens, unless its client is not waiting any more.  *)
ScriptsWithinRuns ==
    \A s \in Slot :
        LET i == sup[s].at IN
        sup[s].pc = "execute" /\ type[i] = "scenario" /\ Never({"late", "remove"}) =>
            /\ disk.truth = "open" /\ cli.cmd = "scenario" /\ cli.at = s
            /\ cli.kind = "001" => host.peer = "listening"

=============================================================================
