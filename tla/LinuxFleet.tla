----------------------------- MODULE LinuxFleet -----------------------------
(***************************************************************************)
(* The life of a Linux fleet: the commands up, down, recover, restart and  *)
(* acceptance of fleet/orchestrator/fleet_manager.py, with the kernel      *)
(* objects fleet/linux/endpoint_host.py creates for them.                  *)
(*                                                                         *)
(* Each command is an operating system process (Cli) that works through    *)
(* its steps with what it loaded into memory when it began; no lock keeps  *)
(* two of them apart.  Steps are separated wherever the code creates or    *)
(* destroys a kernel object, or saves a file, so that a step can fail, the *)
(* process be killed, the host reboot, or another command run in between.  *)
(*                                                                         *)
(* Processes and network namespaces have identities: a pid with its start  *)
(* time, and an inode.  The code compares them (ProcessLauncher.alive, the *)
(* broker's map), and so does the model; an identity is taken again only   *)
(* when nothing mentions it any more.  A process of an endpoint is in its  *)
(* slot's cgroup, which is where cleanup finds it.                         *)
(*                                                                         *)
(* Left out: NAT (module HostNetwork), bridges of others, the choice of    *)
(* addresses (module LeaseManager: here a lease is a serial number),       *)
(* personas, enrollment but for its failure, scenarios.                    *)
(***************************************************************************)
EXTENDS Integers, FiniteSets

CONSTANTS N,           \* slots 1 .. N, in the order up creates them
          Cli,         \* CLI processes that may run at the same time
          Commands,    \* the commands they run
          Counts,      \* the values of --count
          Faults,      \* the kinds of faults that may happen
          MaxFaults,   \* bound on their number
          MaxLease,    \* bound on the leases one slot is given
          MaxId        \* identities of one kind that exist at a time

Slot == 1 .. N
CommandKinds == {"up", "acceptance", "down", "purge", "recover", "restart", "rotate"}
Ups == {"up", "acceptance", "recover"}
FaultKinds ==
    {"command",    \* a command that up or restart runs fails
     "file",       \* a file that up or restart saves cannot be written
     "kill",       \* a CLI process is killed
     "reboot",     \* the host restarts
     "agent",      \* an agent dies
     "broker",     \* a sensor broker dies
     "down",       \* a step of down, or of up's handler, raises
     "silent",     \* a command fails that down or create_endpoint runs unchecked
     "purge"}      \* down --purge-state removed the record of a namespace it left

ASSUME SlotAssumption == N \in Nat \ {0}
ASSUME CommandsAssumption == Commands \subseteq CommandKinds
ASSUME CountsAssumption == Counts \subseteq Slot
ASSUME FaultsAssumption == Faults \subseteq FaultKinds
ASSUME BoundsAssumption ==
    MaxFaults \in Nat /\ MaxLease \in Nat \ {0} /\ MaxId \in Nat

Id == 1 .. MaxId
None == 0                        \* no process, no namespace, no address
Address == 0 .. MaxLease

(* An endpoint.json; no file is an endpoint without an address. *)
Endpoint == [ns : Id \cup {None}, keeper : Id \cup {None}, ip : Address]
NoEndpoint == [ns |-> None, keeper |-> None, ip |-> None]

NoAgents == [s \in Slot |-> None]
NoEndpoints == [s \in Slot |-> NoEndpoint]

VARIABLES
    \* the kernel
    brokers,   \* live sensor brokers, each with its --map of slots to namespaces
    agents,    \* live agents, each with its slot and the namespace it is in
    keepers,   \* live UTS keepers
    netns,     \* per slot, the namespace its name stands for
    address,   \* per slot, the address on the namespace's interface
    bridge,    \* whether the fleet's bridge exists
    \* files
    runtime,   \* runtime.json: the broker and per slot the agent, as pids
    endpoint,  \* per slot, endpoint.json
    manifest,  \* fleet.json: no file, or the slots of the last complete up
    owner,     \* network-bridge.json: absent, opened but not written, written
    lease,     \* leases.json: per slot, the serial of its lease
    \* the commands
    cli,       \* per CLI process, what it has in memory
    last,      \* how the last command ended, if nothing happened since
    faults     \* how many faults happened, and of which kinds

kernel == <<brokers, agents, keepers, netns, address, bridge>>
files == <<runtime, endpoint, manifest, lease, owner>>
vars == <<kernel, files, cli, last, faults>>

NoRuntime == [broker |-> None, agents |-> NoAgents]
NoManifest == {None}

Steps ==
    {"idle", "check", "bridge", "addBridge", "openOwner", "writeOwner", "setAddress",
     "prepare", "netns", "keeper", "endpoint", "saveKeeper",
     "enroll", "broker", "saveBroker", "awaitBroker",
     "agent", "saveAgent", "checkAgent", "manifest", "scenario",
     "stopAgents", "stopBroker", "cleanup", "deleteBridge", "unlinkOwner", "unlink",
     "stopAgent", "lease", "flush", "addAddress", "saveAddress"}

Memory ==
    [cmd : CommandKinds \cup {"none"},
     pc : Steps,
     count : Slot,                          \* up, recover: --count
     at : Slot,                             \* the slot a loop, or restart, is at
     runtime : [broker : Id \cup {None}, agents : [Slot -> Id \cup {None}]],
     endpoints : [Slot -> Endpoint],        \* the list of endpoints
     then : {"return", "raise"}]            \* how the shared cleanup ends

Idle == [cmd |-> "none", pc |-> "idle", count |-> 1, at |-> 1, runtime |-> NoRuntime,
         endpoints |-> NoEndpoints, then |-> "return"]

TypeOK ==
    /\ brokers \subseteq [pid : Id, map : [Slot -> Id \cup {None}]]
    /\ agents \subseteq [pid : Id, slot : Slot, ns : Id]
    /\ keepers \subseteq [pid : Id, slot : Slot]
    /\ netns \in [Slot -> Id \cup {None}]
    /\ address \in [Slot -> Address]
    /\ bridge \in BOOLEAN
    /\ runtime \in [broker : Id \cup {None}, agents : [Slot -> Id \cup {None}]]
    /\ endpoint \in [Slot -> Endpoint]
    /\ manifest \in (SUBSET Slot) \cup {NoManifest}
    /\ lease \in [Slot -> Address]
    /\ owner \in {"absent", "torn", "written"}
    /\ cli \in [Cli -> Memory]
    /\ last \in {"none", "up_ok", "up_failed", "down_ok", "restart_ok"}
    /\ faults \in [count : 0 .. MaxFaults, kinds : SUBSET FaultKinds]

Init ==
    /\ brokers = {} /\ agents = {} /\ keepers = {}
    /\ netns = [s \in Slot |-> None] /\ address = [s \in Slot |-> None]
    /\ bridge = FALSE
    /\ runtime = NoRuntime /\ endpoint = NoEndpoints
    /\ manifest = NoManifest /\ lease = [s \in Slot |-> None] /\ owner = "absent"
    /\ cli = [c \in Cli |-> Idle]
    /\ last = "none" /\ faults = [count |-> 0, kinds |-> {}]

-----------------------------------------------------------------------------
(* Identities.                                                             *)

Pids(processes) == {x.pid : x \in processes}
Values(f) == {f[s] : s \in Slot}

(* The smallest identity that nothing mentions; MaxId leaves one.          *)
Fresh(mentioned) ==
    {i \in Id \ mentioned : \A j \in Id \ mentioned : i <= j}

FreshBroker == Fresh(Pids(brokers) \cup {runtime.broker}
                     \cup {cli[c].runtime.broker : c \in Cli})
FreshAgent == Fresh(Pids(agents) \cup Values(runtime.agents)
                    \cup UNION {Values(cli[c].runtime.agents) : c \in Cli})
FreshKeeper == Fresh(Pids(keepers) \cup {endpoint[s].keeper : s \in Slot}
                     \cup UNION {{cli[c].endpoints[s].keeper : s \in Slot} : c \in Cli})
FreshNs == Fresh(Values(netns) \cup {endpoint[s].ns : s \in Slot}
                 \cup {a.ns : a \in agents} \cup (UNION {Values(b.map) : b \in brokers})
                 \cup UNION {{cli[c].endpoints[s].ns : s \in Slot} : c \in Cli})

BrokerAlive(record) == record \in Pids(brokers)

(* endpoints(): the endpoint.json files, of the manifest's slots if there   *)
(* is a manifest.                                                           *)
Listed(s) == endpoint[s] # NoEndpoint /\ (manifest = NoManifest \/ s \in manifest)
EndpointList == [s \in Slot |-> IF Listed(s) THEN endpoint[s] ELSE NoEndpoint]

-----------------------------------------------------------------------------
(* The control of one command.                                             *)

At(c, step) == cli[c].pc = step
Becomes(c, memory) == cli' = [cli EXCEPT ![c] = memory]
Goto(c, step) == Becomes(c, [cli[c] EXCEPT !.pc = step])

(* The command returns or raises and its process ends. *)
Over(c, how) ==
    /\ Becomes(c, Idle)
    /\ last' = how

Quiet == UNCHANGED <<last, faults>>

(* The loops of up go over the slots in order, then on to the next stage. *)
Advance(m, again, next) ==
    IF m.at < m.count THEN [m EXCEPT !.pc = again, !.at = @ + 1]
    ELSE [m EXCEPT !.pc = next, !.at = 1]

(* Definitions called Mutant... are plausible mistakes in the definition    *)
(* after them; a run under each shows that its property would notice.      *)

(* The handler forgets to undo what up has done. *)
MutantFailed(m) == [m EXCEPT !.pc = "unlink", !.then = "raise"]

(* up's exception handler: _cleanup_partial with what up has in memory. *)
Failed(m) == [m EXCEPT !.pc = "stopAgents", !.then = "raise"]

(* What up had appended to its list when it failed: the slot it was        *)
(* creating is not in it.                                                  *)
Appended(m) ==
    IF m.pc \in {"prepare", "netns", "keeper", "endpoint", "saveKeeper"}
    THEN [m EXCEPT !.endpoints[m.at] = NoEndpoint] ELSE m

Fault(kind) ==
    /\ kind \in Faults
    /\ faults.count < MaxFaults
    /\ faults' = [count |-> faults.count + 1, kinds |-> faults.kinds \cup {kind}]

(* A user starts a command. *)
Starting(c, cmd) ==
    /\ At(c, "idle")
    /\ cmd \in Commands
    /\ last' = "none"
    /\ UNCHANGED <<kernel, files, faults>>

StartUp(c) ==
    \E cmd \in {"up", "acceptance"}, n \in Counts :
        /\ Starting(c, cmd)
        /\ cmd = "acceptance" => n = N
        /\ Becomes(c, [Idle EXCEPT !.cmd = cmd, !.pc = "check", !.count = n])

(* down loads runtime.json and lists the endpoints first. *)
Loaded(m) == [m EXCEPT !.pc = "stopAgents", !.runtime = runtime, !.endpoints = EndpointList]

StartDown(c) ==
    \E cmd \in {"down", "purge", "recover"}, n \in Counts :
        /\ Starting(c, cmd)
        /\ cmd # "recover" => \A x \in Counts : n <= x
        /\ Becomes(c, Loaded([Idle EXCEPT !.cmd = cmd, !.count = n]))

StartRestart(c) ==
    \E cmd \in {"restart", "rotate"}, s \in Slot :
        /\ Starting(c, cmd)
        /\ Listed(s)
        /\ Becomes(c, [Idle EXCEPT !.cmd = cmd, !.pc = "stopAgent", !.at = s,
                                   !.runtime = runtime, !.endpoints = EndpointList])

-----------------------------------------------------------------------------
(* up.                                                                     *)

(* up does not look for a running fleet. *)
MutantCheck(c) ==
    /\ At(c, "check")
    /\ Becomes(c, [cli[c] EXCEPT !.pc = "bridge", !.at = 1, !.runtime = NoRuntime,
                                 !.endpoints = NoEndpoints])
    /\ UNCHANGED <<kernel, files>> /\ Quiet

(* Only a recorded broker that runs makes up refuse.  acceptance then goes *)
(* to its finally block all the same, and runtime.json is there.           *)
Check(c) ==
    /\ At(c, "check")
    /\ IF BrokerAlive(runtime.broker)
       THEN IF cli[c].cmd = "acceptance"
            THEN Becomes(c, Loaded(cli[c])) /\ UNCHANGED last
            ELSE Over(c, "none")
       ELSE /\ Becomes(c, [cli[c] EXCEPT !.pc = "bridge", !.at = 1, !.runtime = NoRuntime,
                                         !.endpoints = NoEndpoints])
            /\ UNCHANGED last
    /\ UNCHANGED <<kernel, files, faults>>

(* ensure_bridge: a bridge that exists must have its ownership file; it     *)
(* need not be readable.                                                   *)
CheckBridge(c) ==
    /\ At(c, "bridge")
    /\ Becomes(c, IF bridge /\ owner = "absent" THEN Failed(cli[c])
                  ELSE [cli[c] EXCEPT !.pc = IF bridge THEN "setAddress" ELSE "addBridge"])
    /\ UNCHANGED <<kernel, files>> /\ Quiet

(* ip link add fails when another command was faster. *)
AddBridge(c) ==
    /\ At(c, "addBridge")
    /\ bridge' = TRUE
    /\ Becomes(c, IF bridge THEN Failed(cli[c]) ELSE [cli[c] EXCEPT !.pc = "openOwner"])
    /\ UNCHANGED <<brokers, agents, keepers, netns, address, files>> /\ Quiet

(* write_text of the ownership file is not atomic. *)
OpenOwner(c) ==
    /\ At(c, "openOwner")
    /\ owner' = "torn"
    /\ Goto(c, "writeOwner")
    /\ UNCHANGED <<kernel, runtime, endpoint, manifest, lease>> /\ Quiet

WriteOwner(c) ==
    /\ At(c, "writeOwner")
    /\ owner' = "written"
    /\ Goto(c, "setAddress")
    /\ UNCHANGED <<kernel, runtime, endpoint, manifest, lease>> /\ Quiet

SetBridgeAddress(c) ==
    /\ At(c, "setAddress")
    /\ Becomes(c, IF bridge THEN [cli[c] EXCEPT !.pc = "prepare"] ELSE Failed(cli[c]))
    /\ UNCHANGED <<kernel, files>> /\ Quiet

EnsureBridge(c) ==
    CheckBridge(c) \/ AddBridge(c) \/ OpenOwner(c) \/ WriteOwner(c) \/ SetBridgeAddress(c)

(* A slot that never had a lease gets its first; endpoint.json is reset. *)
Prepare(c) ==
    LET s == cli[c].at
        e == [NoEndpoint EXCEPT !.ip = IF lease[s] = None THEN 1 ELSE lease[s]]
    IN
    /\ At(c, "prepare")
    /\ lease' = [lease EXCEPT ![s] = e.ip]
    /\ endpoint' = [endpoint EXCEPT ![s] = e]
    /\ Becomes(c, [cli[c] EXCEPT !.pc = "netns", !.endpoints[s] = e])
    /\ UNCHANGED <<kernel, runtime, manifest, owner>> /\ Quiet

(* create_endpoint: a namespace of that name is deleted first.             *)
CreateNetns(c) ==
    LET s == cli[c].at IN
    /\ At(c, "netns")
    /\ \E ns \in FreshNs : netns' = [netns EXCEPT ![s] = ns]
    /\ address' = [address EXCEPT ![s] = cli[c].endpoints[s].ip]
    /\ Goto(c, "keeper")
    /\ UNCHANGED <<brokers, agents, keepers, bridge, files>> /\ Quiet

StartKeeper(c) ==
    LET s == cli[c].at IN
    /\ At(c, "keeper")
    /\ \E pid \in FreshKeeper :
          /\ keepers' = keepers \cup {[pid |-> pid, slot |-> s]}
          /\ Becomes(c, [cli[c] EXCEPT !.pc = "endpoint", !.endpoints[s].keeper = pid])
    /\ UNCHANGED <<brokers, agents, netns, address, bridge, files>> /\ Quiet

(* The namespace's inode and the keeper go into endpoint.json; a namespace *)
(* that is gone makes netns_inode raise.                                   *)
RecordEndpoint(c) ==
    LET m == cli[c]  s == m.at  e == [m.endpoints[s] EXCEPT !.ns = netns[s]] IN
    /\ At(c, "endpoint")
    /\ IF netns[s] = None
       THEN /\ Becomes(c, Failed(Appended(m)))
            /\ UNCHANGED endpoint
       ELSE /\ Becomes(c, [m EXCEPT !.pc = "saveKeeper", !.endpoints[s] = e])
            /\ endpoint' = [endpoint EXCEPT ![s] = e]
    /\ UNCHANGED <<kernel, runtime, manifest, lease, owner>> /\ Quiet

(* runtime.json is overwritten with the records of this up.  Only now does *)
(* up append the endpoint to its list.                                     *)
SaveKeeper(c) ==
    /\ At(c, "saveKeeper")
    /\ runtime' = cli[c].runtime
    /\ Becomes(c, Advance(cli[c], "prepare", "enroll"))
    /\ UNCHANGED <<kernel, endpoint, manifest, lease, owner>> /\ Quiet

Enroll(c) ==
    /\ At(c, "enroll")
    /\ Goto(c, "broker")
    /\ UNCHANGED <<kernel, files>> /\ Quiet

StartBroker(c) ==
    LET m == cli[c]  map == [s \in Slot |-> m.endpoints[s].ns] IN
    /\ At(c, "broker")
    /\ \E pid \in FreshBroker :
          /\ brokers' = brokers \cup {[pid |-> pid, map |-> map]}
          /\ Becomes(c, [m EXCEPT !.pc = "saveBroker", !.runtime.broker = pid])
    /\ UNCHANGED <<agents, keepers, netns, address, bridge, files>> /\ Quiet

SaveBroker(c) ==
    /\ At(c, "saveBroker")
    /\ runtime' = cli[c].runtime
    /\ Goto(c, "awaitBroker")
    /\ UNCHANGED <<kernel, endpoint, manifest, lease, owner>> /\ Quiet

(* The broker creates its socket, or it has exited. *)
AwaitBroker(c) ==
    /\ At(c, "awaitBroker")
    /\ Becomes(c, IF BrokerAlive(cli[c].runtime.broker)
                  THEN [cli[c] EXCEPT !.pc = "agent", !.at = 1]
                  ELSE Failed(cli[c]))
    /\ UNCHANGED <<kernel, files>> /\ Quiet

(* An agent enters its keeper's UTS namespace and its slot's network       *)
(* namespace, or exits at once.                                            *)
CanEnter(s, e) == e.keeper \in Pids(keepers) /\ netns[s] # None

StartAgent(c) ==
    LET m == cli[c]  s == m.at IN
    /\ At(c, "agent")
    /\ m.endpoints[s].keeper # None
    /\ \E pid \in FreshAgent :
          /\ agents' = IF CanEnter(s, m.endpoints[s])
                       THEN agents \cup {[pid |-> pid, slot |-> s, ns |-> netns[s]]}
                       ELSE agents
          /\ Becomes(c, [m EXCEPT !.pc = "saveAgent", !.runtime.agents[s] = pid])
    /\ UNCHANGED <<brokers, keepers, netns, address, bridge, files>> /\ Quiet

(* process_context: restart of an endpoint whose creation was cut short. *)
NoKeeper(c) ==
    /\ At(c, "agent")
    /\ cli[c].endpoints[cli[c].at].keeper = None
    /\ Over(c, "none")
    /\ UNCHANGED <<kernel, files, faults>>

(* runtime.json is not saved after an agent was started. *)
MutantSaveAgent(c) ==
    LET s == cli[c].at IN
    /\ At(c, "saveAgent")
    /\ endpoint' = [endpoint EXCEPT ![s] = cli[c].endpoints[s]]
    /\ Goto(c, "checkAgent")
    /\ UNCHANGED <<kernel, runtime, manifest, lease, owner>> /\ Quiet

SaveAgent(c) ==
    LET s == cli[c].at IN
    /\ At(c, "saveAgent")
    /\ endpoint' = [endpoint EXCEPT ![s] = cli[c].endpoints[s]]
    /\ runtime' = cli[c].runtime
    /\ Goto(c, "checkAgent")
    /\ UNCHANGED <<kernel, manifest, lease, owner>> /\ Quiet

(* An agent that exited makes up clean up, and restart raise. *)
CheckAgent(c) ==
    LET m == cli[c] IN
    /\ At(c, "checkAgent")
    /\ \/ /\ m.runtime.agents[m.at] \in Pids(agents)
          /\ IF m.cmd \in Ups
             THEN Becomes(c, Advance(m, "agent", "manifest")) /\ UNCHANGED last
             ELSE Over(c, "restart_ok")
       \/ /\ m.runtime.agents[m.at] \notin Pids(agents)
          /\ IF m.cmd \in Ups
             THEN Becomes(c, Failed(m)) /\ UNCHANGED last
             ELSE Over(c, "none")
    /\ UNCHANGED <<kernel, files, faults>>

(* The manifest counts its slots from 0. *)
MutantWriteManifest(c) ==
    /\ At(c, "manifest")
    /\ manifest' = 0 .. cli[c].count - 1
    /\ Over(c, "up_ok")
    /\ UNCHANGED <<kernel, runtime, endpoint, lease, owner, faults>>

(* fleet.json is written last. *)
WriteManifest(c) ==
    /\ At(c, "manifest")
    /\ manifest' = 1 .. cli[c].count
    /\ IF cli[c].cmd = "acceptance"
       THEN Goto(c, "scenario") /\ UNCHANGED last
       ELSE Over(c, "up_ok")
    /\ UNCHANGED <<kernel, runtime, endpoint, lease, owner, faults>>

(* acceptance runs a scenario (module ScenarioRunner) and goes down, passed *)
(* or not.                                                                 *)
RunScenario(c) ==
    /\ At(c, "scenario")
    /\ Becomes(c, Loaded(cli[c]))
    /\ UNCHANGED <<kernel, files>> /\ Quiet

-----------------------------------------------------------------------------
(* down, and _cleanup_partial: agents, broker, endpoints in reverse order, *)
(* bridge, runtime.json.                                                   *)

StopAgents(c) ==
    /\ At(c, "stopAgents")
    /\ agents' = {a \in agents : a.pid \notin Values(cli[c].runtime.agents)}
    /\ Goto(c, "stopBroker")
    /\ UNCHANGED <<brokers, keepers, netns, address, bridge, files>> /\ Quiet

StopBroker(c) ==
    /\ At(c, "stopBroker")
    /\ brokers' = {b \in brokers : b.pid # cli[c].runtime.broker}
    /\ Goto(c, "cleanup")
    /\ UNCHANGED <<agents, keepers, netns, address, bridge, files>> /\ Quiet

Pending(m) == {s \in Slot : m.endpoints[s] # NoEndpoint}

(* The processes of the slot's cgroup are not killed. *)
MutantCleanEndpoint(c) ==
    LET m == cli[c] IN
    /\ At(c, "cleanup")
    /\ \E s \in Pending(m) :
          /\ \A x \in Pending(m) : x <= s
          /\ netns' = [netns EXCEPT ![s] = None]
          /\ address' = [address EXCEPT ![s] = None]
          /\ Becomes(c, [m EXCEPT !.endpoints[s] = NoEndpoint])
    /\ UNCHANGED <<brokers, agents, keepers, bridge, files>> /\ Quiet

(* cleanup_kernel_environment: everything in the slot's cgroup is killed,  *)
(* then the namespace deleted.                                             *)
CleanEndpoint(c) ==
    LET m == cli[c] IN
    /\ At(c, "cleanup")
    /\ \E s \in Pending(m) :
          /\ \A x \in Pending(m) : x <= s
          /\ agents' = {a \in agents : a.slot # s}
          /\ keepers' = {k \in keepers : k.slot # s}
          /\ netns' = [netns EXCEPT ![s] = None]
          /\ address' = [address EXCEPT ![s] = None]
          /\ Becomes(c, [m EXCEPT !.endpoints[s] = NoEndpoint])
    /\ UNCHANGED <<brokers, bridge, files>> /\ Quiet

EndpointsClean(c) ==
    /\ At(c, "cleanup")
    /\ Pending(cli[c]) = {}
    /\ Goto(c, "deleteBridge")
    /\ UNCHANGED <<kernel, files>> /\ Quiet

(* delete_bridge: only with an ownership file that can be read. *)
DeleteLink(c) ==
    /\ At(c, "deleteBridge")
    /\ bridge' = (bridge /\ owner # "written")
    /\ Goto(c, IF owner = "written" THEN "unlinkOwner" ELSE "unlink")
    /\ UNCHANGED <<brokers, agents, keepers, netns, address, files>> /\ Quiet

ForgetOwner(c) ==
    /\ At(c, "unlinkOwner")
    /\ owner' = "absent"
    /\ Goto(c, "unlink")
    /\ UNCHANGED <<kernel, runtime, endpoint, manifest, lease>> /\ Quiet

DeleteBridge(c) == DeleteLink(c) \/ ForgetOwner(c)

(* recover ends with down. *)
MutantUnlinkRuntime(c) ==
    /\ At(c, "unlink")
    /\ runtime' = NoRuntime
    /\ Over(c, IF cli[c].then = "raise" THEN "up_failed" ELSE "down_ok")
    /\ UNCHANGED <<kernel, endpoint, manifest, lease, owner, faults>>

(* The last step; with --purge-state the state directory goes too. *)
UnlinkRuntime(c) ==
    LET m == cli[c]
        purged == m.cmd = "purge"
        forgets == purged /\ \E s \in Slot : netns[s] # None
    IN
    /\ At(c, "unlink")
    /\ runtime' = NoRuntime
    /\ endpoint' = IF purged THEN NoEndpoints ELSE endpoint
    /\ manifest' = IF purged THEN NoManifest ELSE manifest
    /\ lease' = IF purged THEN [s \in Slot |-> None] ELSE lease
    /\ owner' = IF purged THEN "absent" ELSE owner
    /\ IF m.cmd = "recover" /\ m.then = "return"
       THEN Goto(c, "check") /\ UNCHANGED last
       ELSE Over(c, IF m.then = "raise" THEN "up_failed" ELSE "down_ok")
    /\ faults' = IF forgets THEN [faults EXCEPT !.kinds = @ \cup {"purge"}] ELSE faults
    /\ UNCHANGED kernel

-----------------------------------------------------------------------------
(* restart, with or without --rotate-ip.                                   *)

(* The record of the agent is dropped, the agent is not. *)
MutantStopAgent(c) ==
    LET m == cli[c] IN
    /\ At(c, "stopAgent")
    /\ Becomes(c, [m EXCEPT !.pc = IF m.cmd = "rotate" THEN "lease" ELSE "agent",
                            !.runtime.agents[m.at] = None])
    /\ UNCHANGED <<kernel, files>> /\ Quiet

StopAgent(c) ==
    LET m == cli[c] IN
    /\ At(c, "stopAgent")
    /\ agents' = {a \in agents : a.pid # m.runtime.agents[m.at]}
    /\ Becomes(c, [m EXCEPT !.pc = IF m.cmd = "rotate" THEN "lease" ELSE "agent",
                            !.runtime.agents[m.at] = None])
    /\ UNCHANGED <<brokers, keepers, netns, address, bridge, files>> /\ Quiet

(* rotate_ip: the lease first, then the interface, then endpoint.json. *)
RotateLease(c) ==
    LET m == cli[c] IN
    /\ At(c, "lease")
    /\ IF lease[m.at] < MaxLease
       THEN /\ lease' = [lease EXCEPT ![m.at] = @ + 1]
            /\ Becomes(c, [m EXCEPT !.pc = "flush", !.endpoints[m.at].ip = lease'[m.at]])
            /\ UNCHANGED last
       ELSE /\ Over(c, "none")                   \* no free address
            /\ UNCHANGED lease
    /\ UNCHANGED <<kernel, runtime, endpoint, manifest, owner, faults>>

(* The commands on the interface fail when the namespace is gone. *)
FlushAddress(c) ==
    LET s == cli[c].at IN
    /\ At(c, "flush")
    /\ address' = [address EXCEPT ![s] = None]
    /\ IF netns[s] = None
       THEN Over(c, "none")
       ELSE Goto(c, "addAddress") /\ UNCHANGED last
    /\ UNCHANGED <<brokers, agents, keepers, netns, bridge, files, faults>>

AddAddress(c) ==
    LET s == cli[c].at IN
    /\ At(c, "addAddress")
    /\ IF netns[s] = None
       THEN Over(c, "none") /\ UNCHANGED address
       ELSE /\ address' = [address EXCEPT ![s] = cli[c].endpoints[s].ip]
            /\ Goto(c, "saveAddress") /\ UNCHANGED last
    /\ UNCHANGED <<brokers, agents, keepers, netns, bridge, files, faults>>

SaveAddress(c) ==
    LET s == cli[c].at IN
    /\ At(c, "saveAddress")
    /\ endpoint' = [endpoint EXCEPT ![s] = cli[c].endpoints[s]]
    /\ Goto(c, "agent")
    /\ UNCHANGED <<kernel, runtime, manifest, lease, owner>> /\ Quiet

-----------------------------------------------------------------------------
(* Faults.                                                                 *)

(* The steps that run a command or wait for one, and those that save a     *)
(* file.  A file that cannot be written keeps its old content.             *)
StepsThatFail(kind) ==
    [command |-> {"addBridge", "setAddress", "netns", "keeper", "enroll", "broker", "awaitBroker", "agent",
                  "flush", "addAddress"},
     file |-> {"openOwner", "writeOwner", "prepare", "endpoint", "saveKeeper", "saveBroker", "saveAgent", "manifest",
               "lease", "saveAddress"}][kind]

(* A step of up raises.  create_endpoint deletes the namespace it was      *)
(* creating.                                                               *)
UpStepFails(c) ==
    LET m == cli[c]  s == m.at IN
    /\ \E kind \in {"command", "file"} : Fault(kind) /\ m.pc \in StepsThatFail(kind)
    /\ m.cmd \in Ups
    /\ netns' = IF m.pc = "netns" THEN [netns EXCEPT ![s] = None] ELSE netns
    /\ address' = IF m.pc = "netns" THEN [address EXCEPT ![s] = None] ELSE address
    /\ Becomes(c, Failed(Appended(m)))
    /\ UNCHANGED <<brokers, agents, keepers, bridge, files, last>>

(* A step of restart raises, and nothing is undone. *)
RestartStepFails(c) ==
    /\ \E kind \in {"command", "file"} : Fault(kind) /\ cli[c].pc \in StepsThatFail(kind)
    /\ cli[c].cmd \in {"restart", "rotate"}
    /\ Over(c, "none")
    /\ UNCHANGED <<kernel, files>>

(* A step of down raises: down ends, and recover goes on with up.  One of   *)
(* _cleanup_partial ends up there.                                         *)
DownStepFails(c) ==
    /\ Fault("down")
    /\ cli[c].pc \in {"stopAgents", "stopBroker", "cleanup", "deleteBridge", "unlinkOwner",
                      "unlink"}
    /\ IF cli[c].cmd = "recover" /\ cli[c].then = "return"
       THEN Goto(c, "check") /\ UNCHANGED last
       ELSE Over(c, "none")
    /\ UNCHANGED <<kernel, files>>

(* ip netns del and ip link del fail and nobody looks: the namespace stays  *)
(* without its interface, the bridge without its ownership file.  Only     *)
(* create_endpoint notices, when it adds the namespace it wanted to delete. *)
StaysBehind(c) ==
    LET m == cli[c] IN
    /\ Fault("silent")
    /\ \/ /\ At(c, "deleteBridge") /\ owner = "written"
          /\ Goto(c, "unlinkOwner")
          /\ UNCHANGED <<agents, keepers, address>>
       \/ /\ At(c, "cleanup")
          /\ \E s \in Pending(m) :
                /\ \A x \in Pending(m) : x <= s
                /\ agents' = {a \in agents : a.slot # s}
                /\ keepers' = {k \in keepers : k.slot # s}
                /\ address' = [address EXCEPT ![s] = None]
                /\ Becomes(c, [m EXCEPT !.endpoints[s] = NoEndpoint])
       \/ /\ At(c, "netns") /\ netns[m.at] # None
          /\ address' = [address EXCEPT ![m.at] = None]
          /\ Becomes(c, Failed(Appended(m)))
          /\ UNCHANGED <<agents, keepers>>
    /\ UNCHANGED <<brokers, netns, bridge, files, last>>

Kill(c) ==
    /\ Fault("kill")
    /\ ~ At(c, "idle")
    /\ Over(c, "none")
    /\ UNCHANGED <<kernel, files>>

(* The kernel's objects go, and runtime.json with the /run file system.    *)
Reboot ==
    /\ Fault("reboot")
    /\ brokers' = {} /\ agents' = {} /\ keepers' = {}
    /\ netns' = [s \in Slot |-> None] /\ address' = [s \in Slot |-> None]
    /\ bridge' = FALSE
    /\ runtime' = NoRuntime
    /\ cli' = [c \in Cli |-> Idle]
    /\ last' = "none"
    /\ UNCHANGED <<endpoint, manifest, lease, owner>>

AgentDies ==
    /\ Fault("agent")
    /\ \E a \in agents : agents' = agents \ {a}
    /\ last' = "none"
    /\ UNCHANGED <<brokers, keepers, netns, address, bridge, files, cli>>

BrokerDies ==
    /\ Fault("broker")
    /\ \E b \in brokers : brokers' = brokers \ {b}
    /\ last' = "none"
    /\ UNCHANGED <<agents, keepers, netns, address, bridge, files, cli>>

-----------------------------------------------------------------------------
UpStep(c) ==
    \/ Check(c) \/ EnsureBridge(c) \/ Prepare(c) \/ CreateNetns(c) \/ StartKeeper(c)
    \/ RecordEndpoint(c) \/ SaveKeeper(c) \/ Enroll(c) \/ StartBroker(c) \/ SaveBroker(c)
    \/ AwaitBroker(c) \/ StartAgent(c) \/ SaveAgent(c) \/ CheckAgent(c) \/ WriteManifest(c)
    \/ RunScenario(c)

DownStep(c) ==
    \/ StopAgents(c) \/ StopBroker(c) \/ CleanEndpoint(c) \/ EndpointsClean(c)
    \/ DeleteBridge(c) \/ UnlinkRuntime(c)

RestartStep(c) ==
    \/ StopAgent(c) \/ RotateLease(c) \/ FlushAddress(c) \/ AddAddress(c) \/ SaveAddress(c)
    \/ NoKeeper(c)

Step(c) == UpStep(c) \/ DownStep(c) \/ RestartStep(c)

Next ==
    \/ \E c \in Cli : StartUp(c) \/ StartDown(c) \/ StartRestart(c) \/ Step(c)
                      \/ UpStepFails(c) \/ RestartStepFails(c) \/ DownStepFails(c)
                      \/ StaysBehind(c) \/ Kill(c)
    \/ Reboot \/ AgentDies \/ BrokerDies

Spec == Init /\ [][Next]_vars

(* A command that was started runs on, and the programs it runs return:     *)
(* command.py waits for them without a limit.  Nobody has to start one.    *)
FairSpec == Spec /\ \A c \in Cli : WF_vars(Step(c))

-----------------------------------------------------------------------------
(* Properties.                                                             *)

(* Most properties hold only as long as nothing worse than these kinds of  *)
(* faults happened.                                                        *)
Only(kinds) == faults.kinds \subseteq kinds

OfSlot(processes, s) == {x \in processes : x.slot = s}

(* The netns attribution of the running broker is valid: as long as the    *)
(* recorded broker runs, the name of a slot it maps stands for the         *)
(* namespace it maps, or for none.  Whatever fails, dies or is killed.     *)
BrokerMapCurrent ==
    \A b \in brokers : b.pid = runtime.broker =>
        \A s \in Slot : b.map[s] # None => netns[s] \in {b.map[s], None}

(* "One real broker-mode neta-agent observe --all process per endpoint"    *)
(* (phase 2 document, line 33): restart, up and recover stop the agent     *)
(* they replace, through its record or through the slot's cgroup.          *)
SingleAgents == \A s \in Slot : Cardinality(OfSlot(agents, s)) <= 1
OneAgentPerSlot == Only({"command", "reboot", "agent", "purge"}) => SingleAgents

(* What up leaves when it returns, and status calls healthy: one agent,    *)
(* the recorded one, in the namespace that endpoint.json and the broker's  *)
(* map name, with a keeper, and the leased address on its interface.       *)
Healthy(s) ==
    /\ \E a \in agents : /\ OfSlot(agents, s) = {a}
                         /\ a.pid = runtime.agents[s]
                         /\ a.ns = netns[s]
    /\ endpoint[s].keeper \in Pids(keepers)
    /\ endpoint[s].ns = netns[s]
    /\ endpoint[s].ip = address[s] /\ address[s] = lease[s]
    /\ \E b \in brokers : b.pid = runtime.broker /\ b.map[s] = netns[s]

UpIsHealthy ==
    last = "up_ok" /\ Only({"command", "reboot", "purge"})
        => manifest # NoManifest /\ \A s \in manifest : Healthy(s)

(* down, and acceptance after it has failed or passed or met a fleet that  *)
(* was running, removes all kernel objects but one kind: the namespace an  *)
(* up left that failed while it was creating an endpoint which fleet.json, *)
(* written by an earlier and smaller up, does not list (fleet_manager.py:  *)
(* 105).  Once --purge-state has removed the record of such a namespace,   *)
(* nothing hides it and nothing finds it.                                  *)
NothingRuns == brokers = {} /\ agents = {} /\ keepers = {}
Hidden(s) == manifest # NoManifest /\ s \notin manifest

DownIsClean ==
    last = "down_ok" /\ Only({"command", "reboot", "agent"}) =>
        NothingRuns /\ ~ bridge /\ \A s \in Slot : netns[s] # None => Hidden(s)

(* An up whose commands fail leaves no process and no bridge.  It may leave *)
(* the namespace of the endpoint it was creating, which is not in its list *)
(* yet, but then one that the next down finds, unless fleet.json hides it. *)
FailedUpIsContained ==
    last = "up_failed" /\ Only({"command", "reboot", "agent"}) =>
        NothingRuns /\ ~ bridge /\ \A s \in Slot : netns[s] # None => Listed(s) \/ Hidden(s)

(* Two things recover cannot deal with: a bridge without its ownership     *)
(* file, which ensure_bridge refuses (network.py:44), and an agent that     *)
(* runtime.json does not record in a slot that endpoints() does not list,  *)
(* because fleet.json hides it or its endpoint.json was purged.            *)
Orphaned == bridge /\ owner = "absent"
Overlooked(n) ==
    \E a \in agents :
        a.slot <= n /\ ~ Listed(a.slot) /\ a.pid \notin Values(runtime.agents)

(* A recover that is started after the last fault, whatever that left      *)
(* behind but these two, makes every endpoint it is asked for healthy.     *)
RecoverWorks ==
    \A c \in Cli :
        (cli[c].cmd = "recover" /\ cli[c].then = "return" /\ At(c, "stopAgents")
            /\ faults.count = MaxFaults /\ ~ Orphaned /\ ~ Overlooked(cli[c].count))
        ~> (last = "up_ok" /\ \A s \in manifest : Healthy(s))

=============================================================================
