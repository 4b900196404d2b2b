---------------------------- MODULE HostNetwork -----------------------------
(***************************************************************************)
(* What the Linux fleet changes on the host itself: the bridge and the     *)
(* file that says the fleet created it (fleet/linux/network.py,            *)
(* ensure_bridge and delete_bridge), and with --enable-nat the forwarding  *)
(* sysctl, three tagged iptables rules and the file that says how to undo  *)
(* them (fleet/linux/egress.py, enable and disable), in the order in which *)
(* up, _cleanup_partial, down and recover of                               *)
(* fleet/orchestrator/fleet_manager.py run them.                           *)
(*                                                                         *)
(* One command runs at a time.  Each of its steps is one command or one    *)
(* file operation of the code, so that it can fail, or the process can be  *)
(* killed, or the host can reboot, between any two.  Endpoints, broker and *)
(* agents are the fleet's (module LinuxFleet); here they are one step of   *)
(* up that may fail and a broker that may die.                             *)
(***************************************************************************)
EXTENDS Integers

CONSTANTS Faults,      \* the kinds of faults that may happen
          MaxFaults,   \* bound on their number
          Modes        \* whether commands run with --enable-nat, without, or both

FaultKinds ==
    {"command",    \* a command whose exit status is checked fails
     "undo",       \* a command of disable() fails, which nobody notices
     "link",       \* the command of delete_bridge fails, which nobody notices
     "file",       \* writing a file fails
     "kill",       \* the CLI process is killed
     "reboot",     \* the host restarts
     "broker",     \* the sensor broker dies
     "foreign"}    \* somebody else creates an interface of the bridge's name

ASSUME FaultsAssumption == Faults \subseteq FaultKinds
ASSUME MaxFaultsAssumption == MaxFaults \in Nat
ASSUME ModesAssumption == Modes \subseteq {"nat", "plain"}

VARIABLES
    bridge,    \* the interface of that name: none, the lab's, somebody else's
    owner,     \* network-bridge.json: absent, opened but not written, written
    forward,   \* net.ipv4.ip_forward
    rules,     \* the tagged rules in the firewall
    saved,     \* network-egress.json
    broker,    \* whether the recorded sensor broker runs
    pc,        \* the step the command in progress is at
    cmd,       \* the command in progress
    mode,      \* whether it runs with --enable-nat
    prev,      \* the forwarding value enable() has read
    rule,      \* the rule its loop is at
    then,      \* what follows disable(): the rest of the command
    admin,     \* the forwarding value the host's administrator set
    last,      \* how the last command ended, if nothing happened since
    faults     \* how many faults happened, and of which kinds

host == <<bridge, owner, forward, rules, saved, broker>>
local == <<pc, cmd, mode, prev, rule, then>>
vars == <<host, local, admin, last, faults>>

Rules == 1 .. 3
NoState == [kind |-> "absent", previous |-> 0]
Egress == [kind : {"absent", "written"}, previous : {0, 1}]

(* changed_ip_forward is saved too; it says no more than the previous value. *)
Changed(state) == state.previous # 1

Steps == {"idle", "check", "add", "open", "write", "address",
          "forward", "save", "rule", "rest", "agents",
          "link", "unlink", "unrule", "restore", "unsave", "end"}

TypeOK ==
    /\ bridge \in {"none", "lab", "other"}
    /\ owner \in {"absent", "torn", "written"}
    /\ forward \in {0, 1}
    /\ rules \subseteq Rules
    /\ saved \in Egress
    /\ broker \in {"stopped", "running"}
    /\ pc \in Steps
    /\ cmd \in {"none", "up", "down", "recover"}
    /\ mode \in {"nat", "plain"}
    /\ prev \in {0, 1}
    /\ rule \in 0 .. 4
    /\ then \in {"cleanup", "raise", "ok"}
    /\ admin \in {0, 1}
    /\ last \in {"none", "up_ok", "up_failed", "down_ok"}
    /\ faults \in [count : 0 .. MaxFaults, kinds : SUBSET FaultKinds]

(* A host the lab has never run on. *)
Init ==
    /\ bridge = "none" /\ owner = "absent" /\ rules = {} /\ saved = NoState
    /\ admin \in {0, 1} /\ forward = admin
    /\ broker = "stopped"
    /\ pc = "idle" /\ cmd = "none" /\ mode = "plain" /\ prev = 0 /\ rule = 0 /\ then = "ok"
    /\ last = "none" /\ faults = [count |-> 0, kinds |-> {}]

-----------------------------------------------------------------------------
Goto(step) == pc' = step

(* The command is over: its memory is gone. *)
Over(how) ==
    /\ Goto("idle")
    /\ cmd' = "none" /\ mode' = "plain" /\ prev' = 0 /\ rule' = 0 /\ then' = "ok"
    /\ last' = how

(* A step that touches none of the command's memory but its position. *)
Steady == UNCHANGED <<cmd, mode, prev, rule, then, admin, last, faults>>

(* The exception handler of up: _cleanup_partial terminates the broker,     *)
(* then deletes the bridge.                                                 *)
(* Definitions called Mutant... are plausible mistakes in the definition    *)
(* after them; a run under each shows that its property would notice.      *)

(* The bridge is left to the next down. *)
MutantCleanup ==
    /\ broker' = "stopped"
    /\ then' = "raise"
    /\ Goto("end")

Cleanup ==
    /\ broker' = "stopped"
    /\ then' = "raise"
    /\ Goto("link")

Fault(kind) ==
    /\ kind \in Faults
    /\ faults.count < MaxFaults
    /\ faults' = [count |-> faults.count + 1, kinds |-> faults.kinds \cup {kind}]

-----------------------------------------------------------------------------
(* up: refused while the recorded broker runs. *)
StartUp ==
    /\ pc = "idle" /\ broker = "stopped"
    /\ cmd' = "up" /\ mode' \in Modes
    /\ Goto("check")
    /\ last' = "none"
    /\ UNCHANGED <<host, prev, rule, then, admin, faults>>

(* down, and recover before it goes on with up; both terminate the broker  *)
(* first.                                                                  *)
StartDown ==
    /\ pc = "idle"
    /\ cmd' \in {"down", "recover"} /\ mode' \in Modes
    /\ broker' = "stopped"
    /\ then' = "ok"
    /\ Goto("link")
    /\ last' = "none"
    /\ UNCHANGED <<bridge, owner, forward, rules, saved, prev, rule, admin, faults>>

-----------------------------------------------------------------------------
(* ensure_bridge.                                                          *)

(* A bridge that exists must have its ownership file; it need not be       *)
(* readable.                                                               *)
CheckBridge ==
    /\ pc = "check"
    /\ \/ /\ bridge # "none" /\ owner = "absent"
          /\ Cleanup
          /\ UNCHANGED <<cmd, mode, prev, rule, admin, last, faults>>
       \/ /\ bridge # "none" /\ owner # "absent"
          /\ Goto("address")
          /\ UNCHANGED broker /\ Steady
       \/ /\ bridge = "none"
          /\ Goto("add")
          /\ UNCHANGED broker /\ Steady
    /\ UNCHANGED <<bridge, owner, forward, rules, saved>>

AddBridge ==
    /\ pc = "add"
    /\ bridge = "none"
    /\ bridge' = "lab"
    /\ Goto("open")
    /\ UNCHANGED <<owner, forward, rules, saved, broker>> /\ Steady

(* write_text of the ownership file is not atomic. *)
OpenOwner ==
    /\ pc = "open"
    /\ owner' = "torn"
    /\ Goto("write")
    /\ UNCHANGED <<bridge, forward, rules, saved, broker>> /\ Steady

WriteOwner ==
    /\ pc = "write"
    /\ owner' = "written"
    /\ Goto("address")
    /\ UNCHANGED <<bridge, forward, rules, saved, broker>> /\ Steady

SetAddress ==
    /\ pc = "address"
    /\ Goto(IF mode = "nat" THEN "forward" ELSE "rest")
    /\ UNCHANGED host /\ Steady

-----------------------------------------------------------------------------
(* LinuxEgressManager.enable.                                              *)

SetForwarding ==
    /\ pc = "forward"
    /\ prev' = forward
    /\ forward' = 1
    /\ Goto("save")
    /\ UNCHANGED <<bridge, owner, rules, saved, broker>>
    /\ UNCHANGED <<cmd, mode, rule, then, admin, last, faults>>

SaveEgress ==
    /\ pc = "save"
    /\ saved' = [kind |-> "written", previous |-> prev]
    /\ rule' = 1
    /\ Goto("rule")
    /\ UNCHANGED <<bridge, owner, forward, rules, broker>>
    /\ UNCHANGED <<cmd, mode, prev, then, admin, last, faults>>

(* The loop runs past the last rule. *)
MutantAddRule ==
    /\ pc = "rule"
    /\ rules' = rules \cup {rule}
    /\ rule' = rule + 1
    /\ Goto(IF rule = 4 THEN "rest" ELSE "rule")
    /\ UNCHANGED <<bridge, owner, forward, saved, broker>>
    /\ UNCHANGED <<cmd, mode, prev, then, admin, last, faults>>

(* A rule that is there already is not added twice. *)
AddRule ==
    /\ pc = "rule"
    /\ rules' = rules \cup {rule}
    /\ rule' = rule + 1
    /\ Goto(IF rule = 3 THEN "rest" ELSE "rule")
    /\ UNCHANGED <<bridge, owner, forward, saved, broker>>
    /\ UNCHANGED <<cmd, mode, prev, then, admin, last, faults>>

-----------------------------------------------------------------------------
(* The rest of up: endpoints, broker, agents, fleet.json. *)

StartBroker ==
    /\ pc = "rest"
    /\ broker' = "running"
    /\ Goto("agents")
    /\ UNCHANGED <<bridge, owner, forward, rules, saved>> /\ Steady

UpDone ==
    /\ pc = "agents"
    /\ Over("up_ok")
    /\ UNCHANGED <<host, admin, faults>>

(* A checked command fails.  Inside enable()'s loop the handler runs       *)
(* disable() before the error reaches up's.                                *)
CommandFails ==
    /\ Fault("command")
    /\ \/ /\ pc \in {"add", "address", "forward", "rest", "agents"}
          /\ Cleanup
          /\ UNCHANGED rule
       \/ /\ pc = "rule"
          /\ Goto("unrule") /\ rule' = 3 /\ then' = "cleanup"
          /\ UNCHANGED broker
    /\ UNCHANGED <<bridge, owner, forward, rules, saved, cmd, mode, prev, admin, last>>

(* disable() ignores what its commands return: the rule or the forwarding  *)
(* value stays and the loop goes on.                                       *)
UndoFails ==
    /\ Fault("undo")
    /\ \/ /\ pc = "unrule"
          /\ rule' = rule - 1
          /\ Goto(IF rule = 1 THEN "restore" ELSE "unrule")
       \/ /\ pc = "restore"
          /\ Goto("unsave")
          /\ UNCHANGED rule
    /\ UNCHANGED <<host, cmd, mode, prev, then, admin, last>>

(* Nor does delete_bridge look at what its command returns: the bridge      *)
(* stays, and the file that says whose it is goes all the same.            *)
LinkStays ==
    /\ Fault("link")
    /\ pc = "link" /\ owner = "written"
    /\ Goto("unlink")
    /\ UNCHANGED <<host, cmd, mode, prev, rule, then, admin, last>>

(* A file cannot be written; nothing of it, or nothing but its name, is    *)
(* there.                                                                  *)
FileFails ==
    /\ Fault("file")
    /\ pc \in {"open", "write", "save", "rest", "agents"}
    /\ Cleanup
    /\ UNCHANGED <<bridge, owner, forward, rules, saved, cmd, mode, prev, rule, admin, last>>

-----------------------------------------------------------------------------
(* delete_bridge: only with an ownership file that can be read. *)

AfterBridge == IF mode = "nat" \/ (cmd # "up" /\ then = "ok" /\ saved.kind = "written")
               THEN "unrule" ELSE "end"

(* The bridge is deleted whether or not the lab owns it. *)
MutantDeleteLink ==
    /\ pc = "link"
    /\ bridge' = "none"
    /\ Goto("unlink")
    /\ UNCHANGED <<owner, forward, rules, saved, broker>> /\ Steady

DeleteLink ==
    /\ pc = "link"
    /\ IF owner = "written"
       THEN /\ bridge' = "none"
            /\ Goto("unlink")
            /\ UNCHANGED rule
       ELSE /\ Goto(AfterBridge)
            /\ rule' = 3
            /\ UNCHANGED bridge
    /\ UNCHANGED <<owner, forward, rules, saved, broker>>
    /\ UNCHANGED <<cmd, mode, prev, then, admin, last, faults>>

ForgetOwner ==
    /\ pc = "unlink"
    /\ owner' = "absent"
    /\ Goto(AfterBridge)
    /\ rule' = 3
    /\ UNCHANGED <<bridge, forward, rules, saved, broker>>
    /\ UNCHANGED <<cmd, mode, prev, then, admin, last, faults>>

(* disable() gives up after the first rule. *)
MutantDeleteRule ==
    /\ pc = "unrule"
    /\ rules' = rules \ {rule}
    /\ rule' = rule - 1
    /\ Goto("restore")
    /\ UNCHANGED <<bridge, owner, forward, saved, broker>>
    /\ UNCHANGED <<cmd, mode, prev, then, admin, last, faults>>

(* LinuxEgressManager.disable: the rules in reverse, the sysctl, the file. *)
DeleteRule ==
    /\ pc = "unrule"
    /\ rules' = rules \ {rule}
    /\ rule' = rule - 1
    /\ Goto(IF rule = 1 THEN "restore" ELSE "unrule")
    /\ UNCHANGED <<bridge, owner, forward, saved, broker>>
    /\ UNCHANGED <<cmd, mode, prev, then, admin, last, faults>>

(* The sysctl is not put back. *)
MutantRestoreForwarding ==
    /\ pc = "restore"
    /\ Goto("unsave")
    /\ UNCHANGED host /\ Steady

RestoreForwarding ==
    /\ pc = "restore"
    /\ forward' = IF saved.kind = "written" /\ Changed(saved)
                  THEN saved.previous ELSE forward
    /\ Goto("unsave")
    /\ UNCHANGED <<bridge, owner, rules, saved, broker>> /\ Steady

ForgetEgress ==
    /\ pc = "unsave"
    /\ saved' = NoState
    /\ IF then = "cleanup"
       THEN Cleanup
       ELSE Goto("end") /\ UNCHANGED <<broker, then>>
    /\ UNCHANGED <<bridge, owner, forward, rules>>
    /\ UNCHANGED <<cmd, mode, prev, rule, admin, last, faults>>

(* recover ends with down. *)
MutantFinish ==
    /\ pc = "end"
    /\ Over(IF then = "ok" THEN "down_ok" ELSE "up_failed")
    /\ UNCHANGED <<host, admin, faults>>

(* _cleanup_partial lets up raise; down returns, and recover goes on. *)
Finish ==
    /\ pc = "end"
    /\ IF then = "ok" /\ cmd = "recover"
       THEN /\ Goto("check")
            /\ UNCHANGED <<cmd, mode, prev, rule, then, last>>
       ELSE Over(IF then = "ok" THEN "down_ok" ELSE "up_failed")
    /\ UNCHANGED <<host, admin, faults>>

-----------------------------------------------------------------------------
(* What happens to the host. *)

Kill ==
    /\ Fault("kill")
    /\ pc # "idle"
    /\ Over("none")
    /\ UNCHANGED <<host, admin>>

(* Interfaces, rules and processes are gone, sysctls are as configured;    *)
(* the state directory survives.                                           *)
Reboot ==
    /\ Fault("reboot")
    /\ bridge' = "none" /\ rules' = {} /\ forward' = admin /\ broker' = "stopped"
    /\ Over("none")
    /\ UNCHANGED <<owner, saved, admin>>

BrokerDies ==
    /\ Fault("broker")
    /\ broker = "running"
    /\ broker' = "stopped"
    /\ last' = "none"
    /\ UNCHANGED <<bridge, owner, forward, rules, saved, local, admin>>

ForeignBridge ==
    /\ Fault("foreign")
    /\ bridge = "none" /\ pc = "idle"
    /\ bridge' = "other"
    /\ last' = "none"
    /\ UNCHANGED <<owner, forward, rules, saved, broker, local, admin>>

Step ==
    \/ CheckBridge \/ AddBridge \/ OpenOwner \/ WriteOwner \/ SetAddress
    \/ SetForwarding \/ SaveEgress \/ AddRule \/ StartBroker \/ UpDone
    \/ DeleteLink \/ ForgetOwner \/ DeleteRule \/ RestoreForwarding \/ ForgetEgress
    \/ Finish

FaultStep ==
    \/ CommandFails \/ UndoFails \/ LinkStays \/ FileFails
    \/ Kill \/ Reboot \/ BrokerDies \/ ForeignBridge

Next == StartUp \/ StartDown \/ Step \/ FaultStep

Spec == Init /\ [][Next]_vars

(* A command that was started runs on, and so do ip, iptables and sysctl.  *)
(* Nobody has to start one.                                                *)
FairSpec == Spec /\ WF_vars(Step)

-----------------------------------------------------------------------------
(* Properties.                                                             *)

(* Several properties hold only as long as nothing worse than these kinds  *)
(* of faults happened; the others lose them, and the README says how.      *)
Only(kinds) == faults.kinds \subseteq kinds

(* While a tagged rule is in the firewall, the file that lets disable()    *)
(* undo it exists (egress.py:55): whatever else fails, is killed or is     *)
(* retried.  A rule that disable() itself could not delete is forgotten,   *)
(* because the file is removed all the same (egress.py:78, 87).            *)
RulesAreRecorded ==
    Only(FaultKinds \ {"undo"}) => (rules # {} => saved.kind = "written")

(* No rule is left, forwarding is what the administrator set, there is no   *)
(* bridge of the lab and no file that claims one.  (An ownership file that *)
(* a reboot cut short may stay: delete_bridge cannot read it.)             *)
Restored ==
    /\ rules = {} /\ forward = admin
    /\ bridge # "lab" /\ owner # "written"

(* down undoes what the commands before it did, the failed ones and those  *)
(* that a reboot cut short included, and leaves nothing to restore.        *)
DownRestores ==
    last = "down_ok" /\ Only({"command", "reboot"}) => Restored /\ saved = NoState

(* An up that failed by itself took back what it, or a fleet it replaced,  *)
(* had changed (_cleanup_partial, and the handler in enable).              *)
FailedUpRestores == last = "up_failed" /\ Only({"command", "reboot"}) => Restored

(* egress.py, disable: "down" puts back the forwarding value that was      *)
(* there before the fleet.                                                 *)
DownRestoresForwarding ==
    last = "down_ok" /\ Only({"broker"}) => forward = admin

(* The lab never deletes an interface it did not create: an ownership file *)
(* only exists beside a bridge the lab made, unless a reboot came between. *)
ForeignBridgeSafe ==
    [][bridge = "other" /\ Only({"foreign", "command", "undo", "link", "broker"})'
         => bridge' = "other"]_vars

(* A recover that is started after the last fault; the fleet is up. *)
RecoverStarts ==
    cmd = "recover" /\ pc = "link" /\ then = "ok" /\ faults.count = MaxFaults
Recovered == cmd = "none" /\ last = "up_ok"

(* A bridge without its ownership file, which ensure_bridge refuses.       *)
Orphaned == bridge # "none" /\ owner = "absent"

(* recover brings the fleet up whatever failed, noticed or not, was killed, *)
(* or died before, with one exception: a bridge without its ownership file. *)
(* A kill right after ip link add leaves one (network.py:49), an ip link   *)
(* del that fails silently does (network.py:116), and somebody else's      *)
(* bridge is one.                                                          *)
RecoverWorks == RecoverStarts /\ ~ Orphaned ~> Recovered

(* It should after a command that was killed, whatever that left (cli.py   *)
(* and the phase 2 document: recover is for a crash), but does not.        *)
RecoverWorksAfterKill == RecoverStarts /\ Only({"kill"}) ~> Recovered

=============================================================================
