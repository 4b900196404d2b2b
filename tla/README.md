# NETA-LAB fleet simulator: formal models

TLA+ models of the large-scale endpoint simulator of this repository, with the
TLC configurations that check them on small instances and the TLAPS proofs of
the facts that hold for every instance. Every module was translated from the
code; line numbers below are those of the sources under `src/`.

## 1. The system

`fleet/cli.py` is a command line. Each invocation is an operating system
process that builds a `FleetManager`, runs one command and exits. Nothing stays
in memory between two commands and no lock keeps two of them apart: all
that they share is the kernel's state and a directory of JSON files.

| Component | Source | State | Operations |
|---|---|---|---|
| address leases | `orchestrator/lease_manager.py` | `leases.json` | allocate, rotate, release |
| file replacement | `orchestrator/command.py` | `X`, `X.tmp` | `atomic_write_text` |
| bridge | `linux/network.py` | the interface, `network-bridge.json` | `ensure_bridge`, `delete_bridge` |
| NAT | `linux/egress.py` | `ip_forward`, three firewall rules, `network-egress.json` | `enable`, `disable` |
| endpoint | `linux/endpoint_host.py`, `network.py`, `namespace.py` | namespace, interface address, UTS keeper, `endpoint.json` | prepare, create, rotate, clean up |
| processes | `linux/process_launcher.py`, `cgroup.py` | pid and start time, cgroup per slot | start in a context, alive, terminate, kill a cgroup |
| fleet | `orchestrator/fleet_manager.py` | broker, agents, `runtime.json`, `fleet.json` | up, down, recover, restart, status, schedule, acceptance |
| identity | `orchestrator/identity_manager.py` | identity directory, one-time tokens | enroll, validate |
| personas | `orchestrator/persona.py` | `persona.json` | assign |
| scenario runner | `orchestrator/scenario_scheduler.py` | ports, peer process, `peer-process.json` | run |
| scheduler | `orchestrator/scenario_scheduler.py` | thread pool | plan, execute |
| ground truth | `orchestrator/ground_truth.py` | two JSONL files | start, finish, annotate |
| peers and clients | `common/server`, `common/client` | sockets | bounded server, client in threads |
| Windows fleet | `windows/fleet_manager.py`, `docker_runtime.py`, `endpoint_store.py`, `pipe_bootstrap.ps1` | containers, network, sensor pipe, `endpoint.json`, `runtime.json` | up, down, enroll, schedule, purge |
| Windows channel | `windows/command_channel.py`, `supervisor.ps1` | `ready.json`, command and response files, one agent per container | request, poll loop |
| Windows scenarios | `windows/scenario_runner.py`, `acceptance.py`, `scheduler.py` | host peer, ground truth | run, acceptance, plan |
| baseline | `common/linux/*baseline*` | SQLite database | select, accept |
| automation | `automation/` | result files | run a suite, judge it |

How they interact. `up` goes through leases, bridge, NAT, endpoints, identity,
broker and agents in this order and writes `fleet.json` last; its handler undoes
what is in memory. `down` works from `runtime.json` and the `endpoint.json` files,
filtered by `fleet.json`. `recover` is `down`, errors ignored, then `up`. The
broker attributes traffic by namespace inode, so its `--map` arguments tie the
running broker to the namespaces that existed when it was started. A restart
stops the slot's agent by its record, may rotate the address in place, and starts
a new agent.

On Windows the endpoints are containers, each with a supervisor as its first
process, and what the CLI asks of an endpoint goes through files in a directory
the two share. The containers map one named pipe of the host, so something must
own the pipe while they are created (the bootstrap) and the broker takes it over
afterwards; the broker knows the containers by the pids of their first processes.

What is hard here: commands that overlap (any two, without locks); a command that
fails, is interrupted or killed between two steps; a host restart that removes
kernel objects and keeps files; files that are stale against the kernel
(`fleet.json`, `network-bridge.json`, `network-egress.json`, recorded pids);
processes that die by themselves. `PROJECT.json` lists each such hazard at its line.

What makes the components correct: distinct addresses and advancing generations
(leases); everything changed on the host is undone and nothing else is touched
(bridge, NAT); one healthy agent per slot, in the namespace the broker maps, and
nothing left after `down` (fleet); a way back from any state (`recover`); each
run's peer its own, ports and peers returned, every run with one verdict (runner);
no answer taken for another request's and no request lost (Windows channel); agents
after the broker, everything recorded removed, nothing foreign touched (Windows fleet).

## 2. The modules

| Module | Models | State |
|---|---|---|
| `LeaseManager` | `lease_manager.py`, `atomic_write_text` | the two files, per process the call's position, loaded table and open file; what each endpoint was given |
| `MCLeaseManager` | instances for TLC: model values, symmetry | |
| `LeaseManagerProofs` | theorems, and the refinement of `LeaseTable` | |
| `LeaseTable` | what leases promise, without files and processes: the abstract specification `LeaseManager` implements | one table |
| `HostNetwork` | `ensure_bridge`, `delete_bridge`, `egress.py`, in the order of up, down, recover | bridge, ownership file, forwarding, rules, egress file, broker; the command's position and memory |
| `HostNetworkProofs` | theorems | |
| `LinuxFleet` | up, acceptance, down, recover, restart with the endpoint's kernel objects | brokers, agents, keepers, namespaces, addresses; the four files; per process its memory |
| `LinuxFleetProofs` | what each step does to the memory of its command; typing; the broker's map | |
| `LinuxFleetLifecycle` | theorems about what up, down and restart leave | |
| `ScenarioRunner` | `ScenarioRunner.run`, `PortAllocator`, the pool of `execute`, `ground_truth.py`, the peers and clients of `common/` | per run its position, port, peer process, accepted connections and the two log files; the allocator's set; a concurrent `down` |
| `MCScenarioRunner` | instances for TLC: runs whose port searches begin at the same port | |
| `ScenarioRunnerProofs` | theorems | |
| `RemoteCall` | what the Windows channel promises a caller: the abstract specification | per call its state, executions and outcomes |
| `SupervisorChannel` | `command_channel.py` and `supervisor.ps1` | mailboxes, responses, `ready.json`, per slot the supervisor's position in its loop and its agent |
| `SupervisorChannelProofs` | lemmas about the channel's steps, for the two modules below that extend it | |
| `CallHistory` | `SupervisorChannel` with the history of every call, and the mapping to `RemoteCall` | the channel's, and `state`, `runs`, `redo`, `outcome` |
| `CallHistoryProofs` | theorems: the refinement and its invariant | |
| `WindowsFleet` | up, down, scenario and acceptance of the Windows fleet; extends `SupervisorChannel`, so that commands and supervisors run side by side | what runs on the host, what is saved on disk, the memory of the command in progress |
| `WindowsFleetProofs` | theorems | |
| `MCWindowsFleet` | instances for TLC: the commands users give | |

**`LeaseManager`.** `allocate` is `Call`, `LoadTable`, then `KeepLease`, `Choose` or
`NoFreeAddress`, then `OpenTmp`, `WriteTmp`, `Replace`, `Return`: one action
wherever another process may come in between. SHA-256 is replaced by an arbitrary
function, chosen in `Init`, so that each hash of slots and generations is covered. Addresses
are offsets in the subnet. A file open for writing keeps being written after it
was renamed (`fd`, `AfterRename`), because the temporary name is shared. `held` is
not in the code: it is what the caller configured on the endpoint.

**`HostNetwork`.** Every `pc` is one command or file operation. `then` says where
`disable()` returns to: to up's handler when it was called by enable's handler, to
the user after a failed up, to the rest of the command after down. `admin` is the forwarding value
the administrator set and is only for stating what restoring means. Commands the code runs unchecked
have a kind of fault of their own: `undo` for those of `disable()` (egress.py:78-86), `link` for
`ip link del` of the bridge, whose ownership file is removed all the same (network.py:116-117).

**`LinuxFleet`.** A process and a namespace are identities; an agent remembers
the namespace it is in, a broker the map it was started with. An identity is
taken again only when nothing mentions it, which makes the state space finite
and takes the reuse of pids out (planned as a module of its own). `cli[c]` is
what one command holds in memory: `runtime` and `endpoints` were loaded when it
began, or built by up. A lease is a serial number here. NAT and bridges of others are
`HostNetwork`'s alone; `ensure_bridge` and `delete_bridge` are here step by step too (the actions
under `EnsureBridge` and `DeleteBridge`, the file `owner`), because a recover meets the refusal of a bridge
without its ownership file (network.py:44-47). Two kinds of faults are of down: `down`, a step
that raises, after which down ends and recover goes on with up (fleet_manager.py:329-333), and
`silent`, an unchecked `ip netns del` or `ip link del` that fails (network.py:101, 116). The namespace
then keeps its name and loses its interface; only `create_endpoint`, which wants to add
it again, notices.

`acceptance` is up, a scenario and down in a `finally` block: one that up refuses because a
fleet is running loads that fleet's records and takes it down (fleet_manager.py:423-425).

**`ScenarioRunner`.** A run is a thread of the command's pool; the steps of
`run` that another thread, a peer, another program or a `down` may come between are
actions of their own, `acquire` is one because of its lock. A peer is `starting` until it binds, `dying`
from the signal until its socket is gone. A port that has lingering
connections counts as bound, as a listener does. Numbers of connections are
scaled down to one for the script; a beacon's server is counted up to three.
Only the automatically wired scenarios are modelled, with the gateway as target and without a `port`
parameter: `beacon` is 001, `exact` is 008, 014 and 015 with a count, `default` is 014 and 015 without.
Connections of the client run in threads, whose exceptions do not
reach its exit status (tcp_lab_client.py:33-38), so that `exact` scripts end well
whatever their connections met. `down` is here the termination of the recorded peers, then the end of the
scripts, between which runs go on; a killed command's runs are `lost`. A beacon's script
waits for the answer of whoever accepted its connection (`AwaitsAnswer`), which may never come.

The number of connections: for 014 and 015 without a count the peer expects 101 or 251
(scenario_scheduler.py:114) while the scripts make 40 or 100, although the comment in lines
115-116 says that the counts agree. Such a peer never completes; the run waits five seconds,
passes, and kills it. `default` runs are in the passing run, since no property is lost by it.

**`SupervisorChannel`.** One action per file operation that the other side can observe:
`Post`, `Receive` and `GiveUp` of a client; `Start`, `Boot`, `Take`, `Finish`, `Answer`,
`Remove`, `Proceed` of a supervisor. The identifiers are UUIDs whose order is that of the file
names, hence of execution within one listing, and has nothing to do with the order of
calls: `Post` takes any unused one. A client that gives up takes nothing back.
A supervisor that is lost (`Crash`) leaves the mailbox, and the next one in that directory
lists it; `ready.json` is never removed either. In PowerShell `$Pid` is a read-only variable, so
the assignment in supervisor.ps1:111 raises after the agent has been started and the
client is answered "error". Whether it does is the constant `StartAnswers`; the
runs allow both answers.

**`CallHistory`.** Adds to each action what it means for the call it is about, without
restricting any. `RemoteCall` lets a call run once, and once more for each time that its
supervisor was lost with it or could not remove it (`redo`).

**`WindowsFleet`.** One command at a time, the supervisors of all endpoints beside it.
`cli` is its memory; `then` holds the steps of `acceptance` that are left, and an exception
of up drops all of them while one in a scenario keeps `down` (acceptance.py: up is outside the
`try`, down in its `finally`). `past` records the kinds of mishaps that happened, for the properties
alone. Pids are numbers that are used again: a foreign process may get the number of a broker
that ended. Names of calls are drawn as in `SupervisorChannel`, but only their order within
one mailbox matters, which keeps two names enough. `StepIgnored` is each command whose failure nobody
looks at: stopping and removing a container, `taskkill` in down and in up's handler (fleet_manager.py:231, 238, 261),
removing the network, and `rmtree` of the directory with `runtime.json` (264), which is `stale` when it stays.

What the model shows of failed commands, beside the properties: an up that fails after the
broker was started stops the broker only, and leaves containers that the next up replaces and a
network that no later down removes, because that next up finds it and records that it is not its
own (`again`, docker_runtime.py:33-41); a container whose `endpoint.json` was not written yet is
seen by no down; a killed up leaves the bootstrap at the pipe, and every further up fails on
it; a shutdown that timed out, or whose container was stopped between the answer and the removal
(supervisor.ps1:144-145, the fault `race`), is carried out by the next supervisor.

## 3. The runs

Passing runs:

* `lease_one_process`: one process, two slots, a pool of the addresses 2, 3 and 4
  of which 4 is the gateway, one rotation per slot, two kills. The pool is one too small for two
  slots and a rotation to a new address, so the exhausted branch is reached, and every hash occurs.
  Checked: the file is always a complete table of distinct non-reserved addresses; endpoints do not
  share an address (unless a process was killed between saving a lease
  and using it); allocate gives up only when it must; a rotation leaves its address; and
  the file is the table of `LeaseTable` (`ImplementsTable`): each call changes it in one step, to a
  free address and with the next generation, or not at all, wherever the process is killed.
  After `release`, which no caller uses, a slot starts again with generation 0.
* `host_faults`: three faults of any kind, with and without NAT. Three are enough
  for a fault in up, one in the down that follows, and one in between. Unchecked
  commands of `disable()` and `delete_bridge` that fail (`undo`, `link`) are among them. 156 241 states.
* `fleet_faults`: two endpoints, all commands, up with one and with two endpoints, failing
  commands, reboots and dying agents, two faults. A smaller up after a larger one is what makes
  `fleet.json` hide endpoints.
* `fleet_crashes`: up with one and with two endpoints, down with `--purge-state` and recover, with kills,
  failing file writes, reboots, dying processes and the two kinds of failures of down, two faults (707 528 states).
  The two sizes make `fleet.json` hide a slot from the recover, the purge makes an `endpoint.json`
  disappear: both defeat recover in the way `RecoverWorks` names. Rotation is not in this run, to keep it small:
  `BrokerMapCurrent` is proved for it, and rotation without kills is in `fleet_faults`.
* `runner_faults`: two runs, two workers, two ports with both searches beginning at the same
  one, every mix of the three kinds of scenario, one fault of any of seven kinds (and a `down`
  after a kill), one readiness probe before the deadline. 275 400 states. Two runs are enough to take the
  same port at the same time, and one after the other while the first peer is still
  dying; a probe may come before the peer listens, and then be the last. Deadlock is not
  checked: the command ends with its runs.
* `channel_faults`: one supervisor and two names of calls, four types of command, two faults.
  Names are used again, so the number of calls is not bounded; two make a listing of more than one,
  a call that comes while another is executed, and a response nobody reads beside one somebody
  waits for. Two faults are a supervisor lost twice with the same call. Deadlock is not checked:
  abandoned responses may use up both names.
* `windows_faults`: two endpoints, two commands one after the other out of up, down, a scenario and
  acceptance, one fault of any of ten kinds. Two commands are one that fails or is killed and one that
  meets what it left; acceptance alone has four steps. Deadlock is not checked: users stop giving commands.

Two slots are the least that have an endpoint before and one after a failure; nothing in the code
depends on a third. Two faults are one in a command and one in the command meant to repair it.

Conditions on properties. `Only(kinds)` in a property says which faults it holds
for. They were found by dropping the condition and reading the counterexample:

* `DownRestores` and `FailedUpRestores` exclude a kill and a failed file write: forwarding is
  switched on before the restoration file is written (egress.py:53), and the
  bridge is made before its ownership file (network.py:49); and a broker that
  dies, see below.
* `RulesAreRecorded` excludes an `iptables -D` that fails: `disable()` does not look at its status
  and removes the restoration file all the same (egress.py:78, 87). The rule is
  then removed only by a later command that runs with NAT enabled. `RecoverWorks` includes that failure.
* `ForeignBridgeSafe` excludes reboots (and file faults and kills that leave a
  torn or stale ownership file): the ownership file survives a reboot and then
  claims whatever has the name.
* `OneAgentPerSlot`, `UpIsHealthy`, `DownIsClean` and `FailedUpIsContained` exclude kills, failed writes of
  files, and a broker that dies (`fleet_broker_dies`). A kill between starting the broker and
  saving its record (fleet_manager.py:123-126) leaves a broker no `down` finds. A
  failed save of `runtime.json` in `restart` leaves an agent no record names.
* `DownIsClean` and `FailedUpIsContained` also name the one object that may stay (`Hidden`): when an up
  fails while it creates an endpoint that `fleet.json`, written by an earlier and
  smaller up, does not list, its namespace is in no list that up's handler or a later down works
  from (fleet_manager.py:105). cli.py:60 calls down removing the fleet's kernel objects, which
  this is not. `--purge-state` then removes the last record of it, which is why such a purge is
  excluded (`"purge"` among the kinds).
* All fleet properties are for one command at a time. With two, `BrokerMapCurrent`
  and `SingleAgents` fail within a few steps (two `up`s; `restart` during `up`):
  `runtime.json` is loaded, changed and saved without a lock.

* `OwnPeer` holds between the runs of one command. A program that takes the port between
  the probe of `acquire` and the peer's bind answers the readiness probe in the
  peer's place, and so does the peer of a killed command.
* `PortsReturned` and `PeersStopped` exclude a file that cannot be written: an error
  in lines 181-192, or in the unlink of line 227, leaves the port allocated; one
  in writing `peer-process.json` leaves a peer that no handler has.
* `DownStopsPeers` excludes a kill between starting a peer and recording it
  (scenario_scheduler.py:122-128).
* `PassMeansServed` excludes, for the exact scenarios, a peer that dies and a `down`: the
  client's status does not show the failed connections and the run passes. A beacon notices.

* `UpIsServed` and `AgentsAfterBroker` exclude commands left in a mailbox by a client that gave up, a lost
  supervisor or a failed removal: an old shutdown ends the supervisor that up
  has just started. `ScriptsWithinRuns` likewise: a script outlives its timeout.
* `OthersSpared` excludes brokers that die by themselves, reboots, killed commands and a `taskkill` that
  fails: after each, `runtime.json` names a pid that may be anybody's (fleet_manager.py:234-239). So does a
  `runtime.json` that down could not remove; it counts among the failures nobody looks at (`ignored`).
* `DownIsClean` of the Windows fleet excludes the failures nobody looks at, of down's own steps and of `taskkill` in
  up's handler, which leaves a broker that no record names (fleet_manager.py:231, 238), and
  for the broker and the network what the property's comment lists.
* `ForeignNetworkKept` excludes kills and reboots between making a network and forgetting it, and a
  `runtime.json` that down could not remove (`rmtree` with `ignore_errors`, fleet_manager.py:264): `network_owned`
  then speaks of a network that is gone, and the next down removes one of that name that somebody else
  made. All other failures nobody looks at are included.
* `RecoverWorks` of both modules excludes a bridge without its ownership file when recover begins (`Orphaned`). A
  kill or a failed write after `ip link add` leaves one (network.py:49-56), an `ip link del` that fails silently does
  (116-117), and somebody else's bridge is one; up and recover refuse it (44-47), and only its removal by hand helps.
  In `LinuxFleet` there is one more thing recover cannot deal with (`Overlooked`): an agent that `runtime.json`
  does not record, in a slot whose `endpoint.json` is not listed, because an older `fleet.json` hides it or a purge
  removed it. Neither the record nor the cgroup clean-up of that slot finds it, and up starts a second agent beside it.
* `DownIsClean` of the Linux fleet excludes the faults `down` and `silent`: what a silent `ip netns del` or
  `ip link del` of the down itself leaves is still there when it returns.
* `RulesAreRecorded`, `DownRestores` and `FailedUpRestores` say nothing of the forwarding value that is lost by
  a failed or killed save (egress.py:53-56), nor `ForeignBridgeSafe` of what a reboot makes possible, nor `PassMeansServed`
  of a dying peer: these hazards are listed in `PROJECT.json` as covered by no property.
* `ServedInTurn` ends its claim when the supervisor is lost or told to shut down.

Violation runs, each a finding in `PROJECT.json`:

| Run | What the code does | What is said of it |
|---|---|---|
| `lease_two_commands` | two commands choose the same address | test_fleet_phase2.py:26-27, lease_manager.py:16-17 |
| `host_broker_forwarding` | forwarding stays on after `down` | PHASE2 document, line 115 |
| `host_killed_recover` | recover refuses the bridge of a killed up | PHASE2 document, line 235 |
| `fleet_broker_dies` | two agents per endpoint | PHASE2 document, line 33 |
| `windows_stale_command` | a start-agent that timed out is carried out in the next up, before its broker exists | PHASE3 document, line 108 |

Fairness. Safety properties need none. `RecoverWorks` uses weak fairness of
a command's own steps: a process that was started is scheduled, its own waits have deadlines, and the
programs it runs (`ip`, `iptables`, the enrollment) return, which command.py:39 waits for without a limit. Nobody is assumed to start a command, and no fault is
assumed to happen or to stop; the property speaks of a recover that begins when the budget of faults is used up.
`EveryRunEnds` uses weak fairness of each run's thread, script included, in every state but one: a beacon's script
that waits for an answer (`AwaitsAnswer`). `launcher.run` has no timeout (scenario_scheduler.py:203)
and the script's curl has no `--max-time` (scenarios/001-periodic-http-beacon/linux/run.sh:21), so a
peer, or another program at the port, that accepts and never answers keeps the run there until a down ends the
script. The property says so: a run ends, or waits like this for ever, or stays in the queue behind such
runs that hold all workers. Nothing is assumed of peers and of other programs. All other waits have
limits: the readiness loop and the wait for the peer in the runner, 30 seconds for each socket operation in
common/client/tcp_lab_client.py:12. With as many workers as runs (the bound of `runner_faults`) nothing waits in the queue, so
the third case only shows with more runs than workers.

`ServedInTurn` uses weak fairness of each supervisor's own loop (`Works`), which polls as long as its
container runs; it is not assumed that supervisors come back, clients wait, or scripts fail. It does assume that
what the supervisor carries out ends: `Start-Process -Wait` for an enrollment or a script has no timeout
(supervisor.ps1:71, 86), and one that hangs keeps every later command waiting.

Every property of a passing run has a `Mutant...` definition beside the
definition it breaks: a plausible mistake (a dropped test, an off-by-one, a
handler that does not clean up) under which TLC finds the property violated.

## 4. The proofs

Every invariant and every action property of the passing runs is a theorem, for every set of slots and
processes, every subnet, every list of commands and any number of faults and kills, under the conditions
on faults that the property states. The assumptions are the ones the modules name on
their constants (at least four addresses, a gateway in the subnet, bounds that are natural numbers,
`Commands \subseteq Seq(FleetStep)`, at least two pids), and, where a theorem says so, that one process
(`OneProcess` of the leases) or one command (`OneCommand` of the Linux fleet: `Cli` has at most one element)
runs at a time. Without that the properties are false, see section 3.

* `LeaseManagerProofs!LeaseFileAlwaysSound`. `LeaseFileSound` alone is not inductive: the
  file's next content is a table in some process's memory, reached through
  the temporary file. The invariant says that each of the four places a table can be (both
  files, memory, and the memory of a process that is about to write) holds a sound
  one. A process only changes one slot of a table it loaded, to an address the loop
  accepted, which keeps a sound table sound; `Replace` moves a table and makes none. So the file is
  sound even in the runs where two processes give endpoints the same address: what is lost is an update,
  never the file.
* `LeaseManagerProofs!NeverGivesUpEarly`. The candidate function is a rotation
  of the pool: for each address there is a probe in `0 .. Span - 1` (lemma on
  `%`), so an empty set of acceptable probes means an empty set of acceptable addresses.
* `HostNetworkProofs!RulesAlwaysRecorded`. Strengthened with the program counter: between saving
  the file and removing it the rules still present are those the loop has yet to delete; at
  `restore` and `unsave` there are none. All of it holds until a deletion fails unnoticed.
* `HostNetworkProofs!DownAlwaysRestores`, `FailedUpAlwaysRestores`, from `Restoring`, which says of every step of up and
  down what the steps behind it have done and the steps before it will undo: nothing was changed before the
  file with the old forwarding value is written, that value is the administrator's, a bridge has its
  ownership file except while it is being written, and where no broker runs between commands
  nothing is left. The handler in `enable` and the one in `up` go through the same positions as a down.
* `HostNetworkProofs!ForeignBridgeKept`. From the invariant that, without reboots, kills and
  failed writes, an ownership file means the bridge is the lab's or is just being deleted.
* `ScenarioRunnerProofs!ScriptsMeetTheirPeer`. The code neither waits for a killed peer nor for
  its socket to close before the port is given out again, so `OwnPeer` needs to know what the probe in
  `acquire` achieves. The invariant `Apart` says that a run between acquire and release has
  its port allocated, and that every other run that ever had the port is past its release with a
  peer that is gone. It is established by `acquire`, which has seen nobody listen, together with
  `PeersHosted` (a peer that could still begin to listen belongs to a run that holds its
  port), and kept because only a run that holds a port starts a peer on it.
* `ScenarioRunnerProofs!PeersAlwaysStopped`, from `PeersHosted`; `PortsAlwaysReturned`, from `PortsHeld`
  (each allocated port has a run that has yet to release it); `GroundTruthAlwaysAgrees`, from
  `LogState`, which says what both files hold at each step of a run.
* `ScenarioRunnerProofs!PassAlwaysMeansServed`, from `Conversations`: a run that has reached its script has a peer
  that served exactly the readiness probe, and after the script one that served more. It needs `Apart`, since a
  connection goes to whoever listens on the port, and `Limit`: with a limit of one the probe would
  use up the peer. `DownAlwaysStopsPeers`, from `PeersRecorded`: until a down comes, a living
  peer is recorded or belongs to the run that is about to record it.
* `LinuxFleetProofs!TypeCorrect`, for any number of commands at a time, and `BrokerMapAlwaysCurrent`, for one. `Controlled`
  says which position goes with which command; `Attributed` says of up's list of endpoints, then
  of the broker that was started with it, that a slot's namespace is the one listed or is gone. It is
  kept because a slot is given a namespace only while no recorded broker runs.
* `LinuxFleetLifecycle`: three invariants, each on top of the one before. `Contained`, for `OneAgentPerSlotAlways`: what
  runs is in the records of the command at work, or in the files when there is none (`Settled`); it follows
  up, restart, the handler and down position by position, because after a start and before the
  save that follows it only the memory of the command knows the process. `Found`, for
  `DownAlwaysCleans` and `FailedUpAlwaysContained`: each namespace has an `endpoint.json`, because up writes it first,
  so the list that down works from is complete but for those that `fleet.json` hides.
  Both rest on `Owned` as well: while a bridge exists its ownership file does, but between the steps of the
  command that makes or removes it, so that down, which deletes no bridge without the file, deletes it.
  `Healthful`, for `UpAlwaysHealthy`: of the slots up is through with, agent, keeper, lease, address
  and map agree. After a restart or a dead agent nothing is claimed until the next up.
* `LeaseManagerProofs!OneProcessImplementsTable`: with one process at a time `LeaseManager` implements `LeaseTable`,
  for every hash, pool and number of kills. The only step that changes the file is `Replace`, so what
  has to be known there is that the temporary file is a change of the current table that the
  abstract one allows. The invariant `Alone` carries this from the load on: the memory of the process is the file
  (nobody else writes it), then differs from it by one allowed change, and so does the
  temporary file once it is complete. `OneProcessSharesNothing` adds that what an endpoint was given is
  what the file keeps for it. `OneProcessRotationMoves` needs `Moved` beside it: a rotation that
  has saved its lease and not returned differs from what its endpoint still has. The inequality of the two saved
  addresses is the loop's test; that the old one is what the endpoint has is `Served`, as in `OneProcessSharesNothing`.
* `CallHistoryProofs!ChannelImplementsCalls`: the channel implements `RemoteCall`, for all sets of slots and calls and any
  number of lost supervisors. The invariant `CallInv` says that what a supervisor has in hand is in its own
  mailbox (`Handled`), that no command is in two (`OneMailbox`), that a command still in its mailbox was executed
  exactly as often as a supervisor was lost with it, and once more if one has it in hand
  (`Counted`), and that a response is an outcome of an execution of that call (`Heard`,
  `Answered`). `NoCallIsLost` is a part of it: the supervisor answers before it removes.
* `WindowsFleetProofs`: one invariant, `FleetInv`, of fifteen named parts; the supervisors move beside the command, so each
  part has to survive their steps too. `Mail` is what ties the two sides together: unless a client gave up or a removal
  failed, the mailboxes hold what the command waits for and what was just answered, nothing else, and a supervisor
  executes only that. `ScriptsAlwaysWithinRuns` (with `Runs`) and `AgentsAlwaysAfterBroker` (with
  `BrokerServes`) are consequences. `UpAlwaysServed` needs four stages: `Prepared` (containers have the recorded roots),
  `Connected` (the broker has the recorded map), `Started` (the agents answered for run; this must begin at
  the supervisor's answer, before the client reads it), `Served`. `DownAlwaysCleans` needs that a broker has a number
  somebody knows (`BrokerKnown`), and that no container without a record is left behind (`Cleared`, `Found`).
  `ForeignNetworkAlwaysKept` is `NetworkOwned`: unless a `runtime.json` outlives its network, what the command or the file
  claims as the fleet's own is the lab's, through every other failure, noticed or not; `OthersAlwaysSpared` is `BrokerLives`: the number that
  is killed is the broker's, and then nobody else's.
* `TypeCorrect` of `LeaseManager`, `HostNetwork`, `LinuxFleet`, `ScenarioRunner`, `CallHistory` and `WindowsFleet`.

Model-checked only: liveness under fairness (`RecoverWorks` of `HostNetwork` and of `LinuxFleet`, `EveryRunEnds`,
`ServedInTurn`), which is outside the reach of the prover, and the five violations of section 3.

## 5. Not modelled yet, and the plan

1. Proofs: what is left is the safety that the liveness properties rest on, such as that a
   recover, wherever it is, has a step to take, and the measure that decreases with it.
2. `ProcessLauncher`: `terminate` looks at the start time and signals the pid afterwards
   (process_launcher.py:78); the reuse of a pid in between. `Enrollment`: one-time tokens and a partially
   enrolled fleet. `BaselineReadiness`: the accept loop over a database that is written.
3. The scheduler's `plan` and the command `schedule` of both fleets; scenarios with a target
   or a port of their own; `purge-state` of the Windows fleet; the verdicts of the automation.
4. Two Linux commands at once: nothing but the absence of locks is to be shown of most pairs
   (see above); of restarts of different endpoints, that a down afterwards cleans up.

Left out for good: personas (one draw, persisted), DNS files, argument parsing and
output, the contents of databases, the single-purpose scenario scripts.
