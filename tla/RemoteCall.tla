----------------------------- MODULE RemoteCall -----------------------------
(***************************************************************************)
(* What the command channel of a Windows endpoint promises to its callers  *)
(* (fleet/windows/command_channel.py): a call runs once, and once more for *)
(* every time its supervisor was lost while it had it in hand; its caller  *)
(* hears an outcome of one of its runs, or nothing.  A caller that stopped *)
(* waiting has taken nothing back: its call may still run.                 *)
(***************************************************************************)
EXTENDS Integers

CONSTANT Id         \* names of calls

VARIABLES
    state,    \* per call: unused, waiting, or how it ended for its caller
    runs,     \* per call, how often it was executed
    redo,     \* per call, how often its supervisor was lost or kept it
    outcome   \* per call, how its executions ended

Ends == {"ok", "error"}

Init ==
    /\ state = [i \in Id |-> "unused"]
    /\ runs = [i \in Id |-> 0]
    /\ redo = [i \in Id |-> 0]
    /\ outcome = [i \in Id |-> {}]

Invoke(i) ==
    /\ state[i] # "waiting"
    /\ state' = [state EXCEPT ![i] = "waiting"]
    /\ runs' = [runs EXCEPT ![i] = 0]
    /\ redo' = [redo EXCEPT ![i] = 0]
    /\ outcome' = [outcome EXCEPT ![i] = {}]

Run(i) ==
    /\ state[i] # "unused"
    /\ runs[i] <= redo[i]
    /\ runs' = [runs EXCEPT ![i] = @ + 1]
    /\ UNCHANGED <<state, redo, outcome>>

End(i) ==
    /\ runs[i] > redo[i]
    /\ \E e \in Ends : outcome' = [outcome EXCEPT ![i] = @ \cup {e}]
    /\ UNCHANGED <<state, runs, redo>>

Lose(i) ==
    /\ runs[i] > redo[i]
    /\ redo' = [redo EXCEPT ![i] = @ + 1]
    /\ UNCHANGED <<state, runs, outcome>>

Return(i) ==
    /\ state[i] = "waiting"
    /\ \E e \in outcome[i] : state' = [state EXCEPT ![i] = e]
    /\ UNCHANGED <<runs, redo, outcome>>

GiveUp(i) ==
    /\ state[i] = "waiting"
    /\ state' = [state EXCEPT ![i] = "timeout"]
    /\ UNCHANGED <<runs, redo, outcome>>

Next == \E i \in Id : Invoke(i) \/ Run(i) \/ End(i) \/ Lose(i) \/ Return(i) \/ GiveUp(i)

Spec == Init /\ [][Next]_<<state, runs, redo, outcome>>

=============================================================================
