---------------------------- MODULE CallHistory ----------------------------
(***************************************************************************)
(* The command channel of module SupervisorChannel under any clients, with *)
(* the history of its calls: what each client heard and what became of its *)
(* command.  The history shows that the channel keeps what RemoteCall      *)
(* promises; no step looks at it.                                          *)
(***************************************************************************)
EXTENDS SupervisorChannel

VARIABLES state, runs, redo, outcome     \* see RemoteCall

history == <<state, runs, redo, outcome>>
allVars == <<vars, history>>

HistoryTypeOK ==
    /\ TypeOK
    /\ state \in [Id -> {"unused", "waiting", "timeout", "ok", "error"}]
    /\ runs \in [Id -> Nat]
    /\ redo \in [Id -> Nat]
    /\ outcome \in [Id -> SUBSET {"ok", "error"}]

HistoryInit ==
    /\ Init
    /\ state = [i \in Id |-> "unused"]
    /\ runs = [i \in Id |-> 0]
    /\ redo = [i \in Id |-> 0]
    /\ outcome = [i \in Id |-> {}]

Request(i, s, t) ==
    /\ Post(i, s, t)
    /\ state' = [state EXCEPT ![i] = "waiting"]
    /\ runs' = [runs EXCEPT ![i] = 0]
    /\ redo' = [redo EXCEPT ![i] = 0]
    /\ outcome' = [outcome EXCEPT ![i] = {}]
    /\ UNCHANGED faults

Returns(i) ==
    /\ Receive(i)
    /\ state' = [state EXCEPT ![i] = responses[i]]
    /\ UNCHANGED <<runs, redo, outcome, faults>>

TimesOut(i) ==
    /\ GiveUp(i)
    /\ state' = [state EXCEPT ![i] = "timeout"]
    /\ UNCHANGED <<runs, redo, outcome, faults>>

Execute(s) ==
    /\ Take(s)
    /\ runs' = [runs EXCEPT ![sup'[s].at] = @ + 1]
    /\ UNCHANGED <<state, redo, outcome, faults>>

Executed(s) ==
    /\ Finish(s)
    /\ outcome' = [outcome EXCEPT ![sup[s].at] = @ \cup {sup'[s].status}]
    /\ UNCHANGED <<state, runs, redo, faults>>

Unseen(s) == (Start(s) \/ Boot(s) \/ Answer(s) \/ Remove(s)) /\ UNCHANGED <<history, faults>>

(* The command in hand, if there is one, will be executed again. *)
Again(s) ==
    /\ redo' = IF sup[s].at \in Id THEN [redo EXCEPT ![sup[s].at] = @ + 1] ELSE redo
    /\ UNCHANGED <<state, runs, outcome>>

Goes(s) == Fault("crash") /\ Crash(s) /\ Again(s)

Stays(s) == Fault("remove") /\ RemoveFails(s) /\ Again(s)

AgentGoes(s) == Fault("agent") /\ AgentDies(s) /\ UNCHANGED history

Supervise(s) == Execute(s) \/ Executed(s) \/ Unseen(s)

HistoryNext ==
    \/ \E i \in Id, s \in Slot, t \in Types : Request(i, s, t)
    \/ \E i \in Id : Returns(i) \/ TimesOut(i)
    \/ \E s \in Slot : Supervise(s) \/ Goes(s) \/ Stays(s) \/ AgentGoes(s)

HistorySpec == HistoryInit /\ [][HistoryNext]_allVars

(* The supervisor's loop goes on as long as its container runs.  Nothing is *)
(* asked of clients, nor of who starts containers.  What it carries out is   *)
(* assumed to end: Start-Process -Wait (supervisor.ps1:71, 86) has no limit. *)
Works(s) == sup[s].pc # "off" /\ Supervise(s)

FairSpec == HistorySpec /\ \A s \in Slot : WF_allVars(Works(s))

-----------------------------------------------------------------------------
(* Properties.                                                             *)

(* Wherever supervisors are lost, a call somebody waits for is not: its    *)
(* command is still there, or its response is (supervisor.ps1:144-145      *)
(* answers before it removes).                                             *)
NothingLost ==
    \A i \in waiting : responses[i] # "none" \/ \E s \in Slot : i \in commands[s]

(* Clients hear an outcome of their own call, and a call is executed once, *)
(* unless the supervisor was lost with it or could not remove it.          *)
Calls == INSTANCE RemoteCall

ImplementsCalls == Calls!Spec

(* A command in the mailbox of a supervisor that keeps running is executed *)
(* and removed, whatever clients send after it: a listing is worked off    *)
(* before the next one is made (supervisor.ps1:100-105).                   *)
ServedInTurn ==
    \A s \in Slot, i \in Id :
        i \in commands[s] ~> i \notin commands[s] \/ sup[s].pc = "off"

=============================================================================
