-------------------------- MODULE HostNetworkProofs --------------------------
(***************************************************************************)
(* For every set of faults, however many of them and whatever the mix of   *)
(* commands with and without NAT: a tagged rule is in the firewall only    *)
(* while the file that lets disable() remove it exists; a bridge of        *)
(* somebody else is never taken for this fleet's nor deleted; and a down,  *)
(* or an up that fails, leaves forwarding, rules and bridge as found.      *)
(***************************************************************************)
EXTENDS HostNetwork, TLAPS

LEMMA FaultType ==
    ASSUME TypeOK, NEW kind, Fault(kind)
    PROVE  faults' \in [count : 0 .. MaxFaults, kinds : SUBSET FaultKinds]
BY MaxFaultsAssumption, FaultsAssumption DEF Fault, TypeOK

(* The rule counter stays in range: the loops start at an end of the list   *)
(* and leave at the other.                                                  *)
RuleInRange == pc \in {"rule", "unrule"} => rule \in Rules

Typed == TypeOK /\ RuleInRange

LEMMA TypedInit == Init => Typed
BY MaxFaultsAssumption DEF Init, Typed, TypeOK, RuleInRange, Steps, Egress, NoState, Rules

LEMMA TypedNext == Typed /\ [Next]_vars => Typed'
<1> SUFFICES ASSUME Typed, [Next]_vars
             PROVE  Typed'
  OBVIOUS
<1> USE DEF Typed, TypeOK, RuleInRange, Steps, Goto, Steady, Cleanup, host, local
<1>1. CASE StartUp
  BY <1>1, ModesAssumption DEF StartUp
<1>2. CASE StartDown
  BY <1>2, ModesAssumption DEF StartDown
<1>3. CASE CheckBridge
  BY <1>3 DEF CheckBridge
<1>4. CASE AddBridge \/ OpenOwner \/ WriteOwner \/ SetAddress
  BY <1>4 DEF AddBridge, OpenOwner, WriteOwner, SetAddress
<1>5. CASE SetForwarding
  BY <1>5 DEF SetForwarding
<1>6. CASE SaveEgress
  BY <1>6 DEF SaveEgress, Egress, Rules
<1>7. CASE AddRule
  BY <1>7 DEF AddRule, Rules
<1>8. CASE StartBroker
  BY <1>8 DEF StartBroker
<1>9. CASE UpDone
  BY <1>9 DEF UpDone, Over
<1>10. CASE DeleteLink
  BY <1>10 DEF DeleteLink, AfterBridge, Rules
<1>11. CASE ForgetOwner
  BY <1>11 DEF ForgetOwner, AfterBridge, Rules
<1>12. CASE DeleteRule
  BY <1>12 DEF DeleteRule, Rules
<1>13. CASE RestoreForwarding
  BY <1>13 DEF RestoreForwarding, Egress, Changed
<1>14. CASE ForgetEgress
  BY <1>14 DEF ForgetEgress, Egress, NoState
<1>15. CASE Finish
  BY <1>15 DEF Finish, Over
<1>16. CASE CommandFails
  BY <1>16, FaultType DEF CommandFails, Rules
<1>17. CASE FileFails \/ LinkStays
  BY <1>17, FaultType DEF FileFails, LinkStays
<1>22. CASE UndoFails
  <2>1. faults' \in [count : 0 .. MaxFaults, kinds : SUBSET FaultKinds]
    BY <1>22, FaultType DEF UndoFails
  <2>2. rule' \in 0 .. 4 /\ (pc' = "unrule" => rule' \in Rules) /\ pc' \in {"unrule", "restore", "unsave"}
    BY <1>22 DEF UndoFails, Rules
  <2> QED
    BY <1>22, <2>1, <2>2 DEF UndoFails
<1>18. CASE Kill
  BY <1>18, FaultType DEF Kill, Over
<1>19. CASE Reboot
  BY <1>19, FaultType DEF Reboot, Over
<1>20. CASE BrokerDies \/ ForeignBridge
  BY <1>20, FaultType DEF BrokerDies, ForeignBridge
<1>21. CASE UNCHANGED vars
  BY <1>21 DEF vars
<1> QED
  BY <1>1, <1>2, <1>3, <1>4, <1>5, <1>6, <1>7, <1>8, <1>9, <1>10, <1>11, <1>12, <1>13,
     <1>14, <1>15, <1>16, <1>17, <1>18, <1>19, <1>20, <1>21, <1>22
     DEF Next, Step, FaultStep

(* Types are preserved by every step of every command and by every fault. *)
THEOREM TypeCorrect == Spec => []TypeOK
<1>1. Typed => TypeOK
  BY DEF Typed
<1> QED
  BY <1>1, TypedInit, TypedNext, PTL DEF Spec

-----------------------------------------------------------------------------
(***************************************************************************)
(* RulesAreRecorded is not inductive: disable() removes the rules one by   *)
(* one and the file only after the last.  While it is at rule r, the rules *)
(* above r are gone.  All of it holds until a deletion fails unnoticed.    *)
(***************************************************************************)
LEMMA KindsGrow ==
    ASSUME TypeOK, [Next]_vars
    PROVE  faults.kinds \subseteq faults'.kinds
<1>1. ASSUME NEW kind, Fault(kind)
      PROVE  faults.kinds \subseteq faults'.kinds
  BY <1>1 DEF Fault
<1>2. CASE StartUp \/ StartDown
  BY <1>2 DEF StartUp, StartDown
<1>3. CASE Step
  BY <1>3 DEF Step, Steady, CheckBridge, AddBridge, OpenOwner, WriteOwner, SetAddress,
              SetForwarding, SaveEgress, AddRule, StartBroker, UpDone, DeleteLink,
              ForgetOwner, DeleteRule, RestoreForwarding, ForgetEgress, Finish
<1>4. CASE FaultStep
  BY <1>1, <1>4 DEF FaultStep, CommandFails, UndoFails, LinkStays, FileFails, Kill, Reboot,
                    BrokerDies, ForeignBridge
<1>5. CASE UNCHANGED vars
  BY <1>5 DEF vars
<1> QED
  BY <1>2, <1>3, <1>4, <1>5 DEF Next

Noticed == Only(FaultKinds \ {"undo"})

Undoing ==
    /\ pc = "rule" => saved.kind = "written"
    /\ pc = "unrule" => \A r \in rules : r <= rule
    /\ pc \in {"restore", "unsave"} => rules = {}

(* Whatever fails, dies or is killed on the way, a tagged rule is in the    *)
(* firewall only while the state file that disable() starts from exists, as *)
(* long as iptables itself reports its failures.                            *)
THEOREM RulesAlwaysRecorded == Spec => []RulesAreRecorded
<1> DEFINE Recorded == rules # {} => saved.kind = "written"
           IInv == Noticed => Recorded /\ Undoing
<1>1. Init => IInv
  BY DEF Init, Undoing
<1>2. Typed /\ IInv /\ [Next]_vars => IInv'
  <2> SUFFICES ASSUME Typed, IInv, [Next]_vars, Noticed'
               PROVE  Recorded' /\ Undoing'
    OBVIOUS
  <2>0. Noticed /\ Recorded /\ Undoing
    BY KindsGrow DEF Noticed, Only, Typed
  <2> HIDE DEF IInv
  <2> USE <2>0 DEF Typed, TypeOK, RuleInRange, Undoing, Goto, Steady,
              Cleanup, Rules, host, local
  <2>1. CASE StartUp \/ StartDown
    BY <2>1 DEF StartUp, StartDown
  <2>2. CASE CheckBridge \/ AddBridge \/ OpenOwner \/ WriteOwner \/ SetAddress
    BY <2>2 DEF CheckBridge, AddBridge, OpenOwner, WriteOwner, SetAddress
  <2>3. CASE SetForwarding \/ SaveEgress
    BY <2>3 DEF SetForwarding, SaveEgress
  <2>4. CASE AddRule
    BY <2>4 DEF AddRule
  <2>5. CASE StartBroker \/ UpDone \/ Finish
    BY <2>5 DEF StartBroker, UpDone, Finish, Over
  <2>6. CASE DeleteLink \/ ForgetOwner
    <3>1. rules' = rules /\ saved' = saved /\ rule' \in {rule, 3}
          /\ pc' \in {"unlink", "unrule", "end"} /\ (pc' = "unrule" => rule' = 3)
      BY <2>6 DEF DeleteLink, ForgetOwner, AfterBridge
    <3> QED
      BY <3>1
  <2>7. CASE DeleteRule
    <3>1. \A r \in rules' : r <= rule - 1
      BY <2>7 DEF DeleteRule
    <3>2. rule = 1 => rules' = {}
      BY <3>1, <2>7 DEF DeleteRule
    <3> QED
      BY <2>7, <3>1, <3>2 DEF DeleteRule
  <2>8. CASE RestoreForwarding \/ ForgetEgress
    BY <2>8 DEF RestoreForwarding, ForgetEgress
  <2>9. CASE CommandFails \/ FileFails
    <3>1. rules' = rules /\ saved' = saved
          /\ pc' \in {"link", "unrule"} /\ (pc' = "unrule" => rule' = 3)
      BY <2>9 DEF CommandFails, FileFails
    <3> QED
      BY <3>1
  <2>10. CASE Kill \/ Reboot
    BY <2>10 DEF Kill, Reboot, Over
  <2>11. CASE BrokerDies \/ ForeignBridge \/ LinkStays
    BY <2>11 DEF BrokerDies, ForeignBridge, LinkStays
  <2>12. CASE UNCHANGED vars
    BY <2>12 DEF vars
  <2>13. CASE UndoFails
    <3>1. ~ Noticed'
      BY <2>13 DEF UndoFails, Fault, Noticed, Only
    <3> QED
      BY <3>1
  <2> QED
    BY <2>1, <2>2, <2>3, <2>4, <2>5, <2>6, <2>7, <2>8, <2>9, <2>10, <2>11, <2>12, <2>13
       DEF Next, Step, FaultStep
<1>3. IInv => RulesAreRecorded
  BY DEF RulesAreRecorded, Noticed
<1> QED
  BY <1>1, <1>2, <1>3, TypedInit, TypedNext, PTL DEF Spec

-----------------------------------------------------------------------------
(***************************************************************************)
(* The lab deletes no foreign interface as long as neither a reboot nor a  *)
(* kill separates a bridge from its ownership file: until then there is a  *)
(* file only beside a bridge of the lab, or while delete_bridge is between *)
(* its two steps, when nobody else's interface can appear.                 *)
(***************************************************************************)
Orderly == Only({"foreign", "command", "undo", "link", "broker"})

OwnerMarksBridge ==
    Orderly =>
        /\ owner # "absent" => bridge = "lab" \/ (pc = "unlink" /\ bridge = "none")
        /\ pc \in {"open", "write"} => bridge = "lab"

LEMMA OrderlyBefore == TypeOK /\ [Next]_vars /\ Orderly' => Orderly
BY KindsGrow DEF Orderly, Only

LEMMA OwnerMarksBridgeNext ==
    TypeOK /\ OwnerMarksBridge /\ [Next]_vars => OwnerMarksBridge'
<1> SUFFICES ASSUME TypeOK, OwnerMarksBridge, [Next]_vars, Orderly'
             PROVE  OwnerMarksBridge'
  BY DEF OwnerMarksBridge
<1>0. Orderly
  BY OrderlyBefore
<1> USE <1>0 DEF TypeOK, OwnerMarksBridge, Goto, Steady, Cleanup, host, local
<1>1. CASE StartUp \/ StartDown
  BY <1>1 DEF StartUp, StartDown
<1>2. CASE CheckBridge
  BY <1>2 DEF CheckBridge
<1>3. CASE AddBridge \/ OpenOwner \/ WriteOwner \/ SetAddress
  BY <1>3 DEF AddBridge, OpenOwner, WriteOwner, SetAddress
<1>4. CASE SetForwarding \/ SaveEgress \/ AddRule \/ StartBroker
  BY <1>4 DEF SetForwarding, SaveEgress, AddRule, StartBroker
<1>5. CASE DeleteLink \/ ForgetOwner
  BY <1>5 DEF DeleteLink, ForgetOwner, AfterBridge
<1>6. CASE DeleteRule \/ RestoreForwarding \/ ForgetEgress
  BY <1>6 DEF DeleteRule, RestoreForwarding, ForgetEgress
<1>7. CASE UpDone \/ Finish
  BY <1>7 DEF UpDone, Finish, Over
<1>8. CASE CommandFails \/ UndoFails \/ LinkStays
  BY <1>8 DEF CommandFails, UndoFails, LinkStays
<1>9. CASE FileFails \/ Kill \/ Reboot
  <2>1. ~ Orderly'
    BY <1>9 DEF FileFails, Kill, Reboot, Fault, Orderly, Only
  <2> QED
    BY <2>1
<1>10. CASE BrokerDies \/ ForeignBridge
  BY <1>10 DEF BrokerDies, ForeignBridge
<1>11. CASE UNCHANGED vars
  BY <1>11 DEF vars
<1> QED
  BY <1>1, <1>2, <1>3, <1>4, <1>5, <1>6, <1>7, <1>8, <1>9, <1>10, <1>11
     DEF Next, Step, FaultStep

(* However the commands are mixed and fail, and whenever a foreign         *)
(* interface appears between two of them, no step of the lab removes it.   *)
THEOREM ForeignBridgeKept == Spec => ForeignBridgeSafe
<1>1. Init => OwnerMarksBridge
  BY DEF Init, OwnerMarksBridge
<1>2. TypeOK /\ OwnerMarksBridge /\ [Next]_vars
        => [bridge = "other" /\ Orderly' => bridge' = "other"]_vars
  <2> SUFFICES ASSUME TypeOK, OwnerMarksBridge, [Next]_vars, bridge = "other", Orderly'
               PROVE  bridge' = "other"
    OBVIOUS
  <2>0. Orderly
    BY OrderlyBefore
  <2>1. CASE StartUp \/ StartDown
    BY <2>1 DEF StartUp, StartDown, host
  <2>2. CASE DeleteLink
    BY <2>0, <2>2 DEF DeleteLink, OwnerMarksBridge
  <2>3. CASE Step /\ ~ DeleteLink
    BY <2>3 DEF Step, CheckBridge, AddBridge, OpenOwner, WriteOwner, SetAddress, host,
                SetForwarding, SaveEgress, AddRule, StartBroker, UpDone, ForgetOwner,
                DeleteRule, RestoreForwarding, ForgetEgress, Finish
  <2>4. CASE Reboot
    <3>1. ~ Orderly'
      BY <2>4 DEF Reboot, Fault, Orderly, Only
    <3> QED
      BY <3>1
  <2>5. CASE FaultStep /\ ~ Reboot
    BY <2>5 DEF FaultStep, CommandFails, UndoFails, LinkStays, FileFails, Kill, BrokerDies,
                ForeignBridge, host
  <2>6. CASE UNCHANGED vars
    BY <2>6 DEF vars, host
  <2> QED
    BY <2>1, <2>2, <2>3, <2>4, <2>5, <2>6 DEF Next
<1>3. Typed => TypeOK
  BY DEF Typed
<1> QED
  BY <1>1, <1>2, <1>3, TypedInit, TypedNext, OwnerMarksBridgeNext, PTL
     DEF Spec, ForeignBridgeSafe, Orderly

-----------------------------------------------------------------------------
(***************************************************************************)
(* What down and a failed up restore, as long as commands fail and the     *)
(* host restarts, and no more.  Without a running broker and between two   *)
(* commands nothing of the lab is there; inside a command, what it has     *)
(* done so far is undone by the steps it has left.                         *)
(***************************************************************************)
Calm == Only({"command", "reboot"})

Untouched == rules = {} /\ forward = admin

(* The value that disable() would restore is the administrator's. *)
SavedValue ==
    /\ forward \in {admin, 1}
    /\ saved.kind = "absent" => saved = NoState
    /\ saved.kind = "written" => saved.previous = admin
    /\ pc = "save" => prev = admin

(* Where a command is building the fleet, and where it takes it down. *)
Building ==
    /\ pc \in {"check", "add", "open", "write", "address", "forward"} => Untouched
    /\ pc \in {"check", "add"} => bridge = "none"
    /\ pc \in {"forward", "save", "rule"} => mode = "nat"
    /\ pc = "save" => rules = {}
    /\ pc = "rule" => saved.kind = "written"
    /\ pc \in {"rest", "agents"} => Untouched \/ (mode = "nat" /\ saved.kind = "written")

TakingDown ==
    /\ pc \in {"link", "unlink"} =>
          \/ Untouched
          \/ saved.kind = "written" /\ (mode = "nat" \/ (cmd # "up" /\ then = "ok"))
    /\ pc = "unlink" => bridge = "none"
    /\ pc = "unrule" => \A r \in rules : r <= rule
    /\ pc \in {"restore", "unsave"} => rules = {}
    /\ pc \in {"unrule", "restore"} => forward = admin \/ saved.kind = "written"
    /\ pc = "unsave" => forward = admin
    /\ pc \in {"unrule", "restore", "unsave"} /\ then # "cleanup" =>
          bridge = "none" /\ owner # "written"
    /\ pc = "end" => Untouched /\ bridge = "none" /\ owner # "written"
                     /\ (then = "ok" => saved = NoState)
    /\ pc \in {"link", "unlink", "end"} => then # "cleanup"
    /\ pc \in {"link", "unlink"} /\ then = "ok" => cmd # "up"

(* A bridge of the lab has its ownership file but where it is being made. *)
BridgeOwned ==
    /\ bridge # "other"
    /\ bridge = "lab" /\ pc \notin {"open", "write"} => owner = "written"

BetweenCommands ==
    /\ broker = "running" => pc \in {"idle", "agents"}
    /\ pc = "agents" => broker = "running"
    /\ last # "none" => pc = "idle"
    /\ pc = "idle" /\ broker = "stopped" => Untouched /\ bridge = "none"
    /\ pc = "idle" /\ broker = "running" => Untouched \/ saved.kind = "written"
    /\ last \in {"down_ok", "up_failed"} => broker = "stopped" /\ owner # "written"
    /\ last = "down_ok" => saved = NoState

Restoring == SavedValue /\ Building /\ TakingDown /\ BridgeOwned /\ BetweenCommands

LEMMA RestoringInit == Init => Restoring
BY DEF Init, Restoring, SavedValue, Building, TakingDown, BridgeOwned, BetweenCommands,
       Untouched, NoState

LEMMA CalmBefore == TypeOK /\ [Next]_vars /\ Calm' => Calm
BY KindsGrow DEF Calm, Only

LEMMA RestoringNext ==
    ASSUME Typed, Restoring, [Next]_vars, Calm'
    PROVE  Restoring'
<1> USE DEF Typed, TypeOK, RuleInRange, Goto, Steady, Cleanup, host, local, Restoring,
            SavedValue, Building, TakingDown, BridgeOwned, BetweenCommands, Untouched
<1>1. CASE StartUp
  BY <1>1 DEF StartUp
<1>2. CASE StartDown
  BY <1>2 DEF StartDown
<1>3. CASE CheckBridge
  BY <1>3 DEF CheckBridge
<1>4. CASE AddBridge \/ OpenOwner \/ WriteOwner
  BY <1>4 DEF AddBridge, OpenOwner, WriteOwner
<1>5. CASE SetAddress
  BY <1>5 DEF SetAddress
<1>6. CASE SetForwarding
  BY <1>6 DEF SetForwarding
<1>7. CASE SaveEgress
  BY <1>7 DEF SaveEgress
<1>8. CASE AddRule
  BY <1>8 DEF AddRule
<1>9. CASE StartBroker
  BY <1>9 DEF StartBroker
<1>10. CASE UpDone
  BY <1>10 DEF UpDone, Over
<1>11. CASE DeleteLink
  BY <1>11 DEF DeleteLink, AfterBridge, Egress, Rules
<1>12. CASE ForgetOwner
  BY <1>12 DEF ForgetOwner, AfterBridge, Egress, Rules
<1>13. CASE DeleteRule
  BY <1>13 DEF DeleteRule, Rules
<1>14. CASE RestoreForwarding
  BY <1>14 DEF RestoreForwarding, Changed, Egress, NoState
<1>15. CASE ForgetEgress
  BY <1>15 DEF ForgetEgress, NoState
<1>16. CASE Finish
  BY <1>16 DEF Finish, Over
<1>17. CASE CommandFails
  BY <1>17 DEF CommandFails, Rules
<1>18. CASE Reboot
  BY <1>18 DEF Reboot, Over
<1>19. CASE UndoFails \/ LinkStays \/ FileFails \/ Kill \/ BrokerDies \/ ForeignBridge
  <2>1. ASSUME NEW kind \in {"undo", "link", "file", "kill", "broker", "foreign"}, Fault(kind)
        PROVE  ~ Calm'
    BY <2>1 DEF Fault, Calm, Only
  <2>2. \E kind \in {"undo", "link", "file", "kill", "broker", "foreign"} : Fault(kind)
    BY <1>19 DEF UndoFails, LinkStays, FileFails, Kill, BrokerDies, ForeignBridge
  <2> QED
    BY <2>1, <2>2
<1>20. CASE UNCHANGED vars
  BY <1>20 DEF vars
<1> QED
  BY <1>1, <1>2, <1>3, <1>4, <1>5, <1>6, <1>7, <1>8, <1>9, <1>10, <1>11, <1>12, <1>13,
     <1>14, <1>15, <1>16, <1>17, <1>18, <1>19, <1>20 DEF Next, Step, FaultStep

(* Restoring holds for as long as the faults are failed commands and       *)
(* reboots.                                                                *)
LEMMA RestoringInvariant == Spec => [](Calm => Restoring)
<1>1. Typed => TypeOK
  BY DEF Typed
<1>2. Init => (Calm => Restoring)
  BY RestoringInit
<1>3. Typed /\ (Calm => Restoring) /\ [Next]_vars => (Calm => Restoring)'
  BY <1>1, RestoringNext, CalmBefore
<1> QED
  BY <1>2, <1>3, TypedInit, TypedNext, PTL DEF Spec

(* Whatever commands were tried, failed or were cut short by a reboot      *)
(* before, a down that returns leaves no rule, no bridge, no state file    *)
(* and the administrator's forwarding value.                               *)
THEOREM DownAlwaysRestores == Spec => []DownRestores
<1>1. (Calm => Restoring) => DownRestores
  BY DEF Calm, Restoring, TakingDown, BridgeOwned, BetweenCommands, DownRestores, Restored,
         Untouched
<1> QED
  BY <1>1, RestoringInvariant, PTL

(* An up that fails by itself takes back what it did, NAT included. *)
THEOREM FailedUpAlwaysRestores == Spec => []FailedUpRestores
<1>1. (Calm => Restoring) => FailedUpRestores
  BY DEF Calm, Restoring, TakingDown, BridgeOwned, BetweenCommands, FailedUpRestores, Restored,
         Untouched
<1> QED
  BY <1>1, RestoringInvariant, PTL

=============================================================================
