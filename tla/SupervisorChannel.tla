------------------------- MODULE SupervisorChannel -------------------------
(***************************************************************************)
(* The command channel of the Windows endpoints                            *)
(* (fleet/windows/command_channel.py) and the supervisor at its other end  *)
(* (fleet/windows/supervisor.ps1).                                         *)
(*                                                                         *)
(* A client writes commands/<id>.json in the endpoint's control directory  *)
(* and waits for responses/<id>.json; the supervisor, the first process of *)
(* the endpoint's container, lists the commands, executes them one by one  *)
(* in the order of their names, writes each response and removes the       *)
(* command.  The directory is on the host: it survives the container.      *)
(* Identifiers are random UUIDs, so the order of the names says nothing of *)
(* the order of the calls: a new call has any identifier nobody mentions.  *)
(***************************************************************************)
EXTENDS Integers, FiniteSets

CONSTANTS Slot,          \* endpoint slots
          Id,            \* identifiers of calls, ordered as their names are
          Types,         \* the commands clients send
          StartAnswers,  \* how start-agent ends once it has started the agent
          Faults,        \* the faults that may happen
          MaxFaults      \* bound on their number

ASSUME IdAssumption == Id \subseteq Nat \ {0}
ASSUME TypesAssumption ==
    Types \subseteq {"start-agent", "stop-agent", "agent-command", "scenario", "shutdown"}
ASSUME StartAssumption == StartAnswers \subseteq {"ok", "error"}
ASSUME FaultsAssumption == MaxFaults \in Nat

VARIABLES
    commands,   \* per slot, the identifiers in commands/
    type,       \* per identifier, what its command asks for
    responses,  \* per identifier, what responses/ holds for it
    waiting,    \* the identifiers clients wait for
    ready,      \* per slot, whether ready.json exists
    sup,        \* per slot, the supervisor
    agent,      \* per slot, whether it has an agent running
    faults      \* how many faults happened

channel == <<commands, type, responses, waiting, ready, sup, agent>>
vars == <<channel, faults>>

Off == [pc |-> "off", batch |-> {}, at |-> 0, status |-> "none"]
Supervisor == [pc : {"off", "boot", "poll", "execute", "answer", "remove"},
               batch : SUBSET Id, at : Id \cup {0}, status : {"none", "ok", "error"}]

TypeOK ==
    /\ commands \in [Slot -> SUBSET Id]
    /\ type \in [Id -> Types \cup {"none"}]
    /\ responses \in [Id -> {"none", "ok", "error"}]
    /\ waiting \in SUBSET Id
    /\ ready \in [Slot -> {"no", "yes"}]
    /\ sup \in [Slot -> Supervisor]
    /\ agent \in [Slot -> {"none", "running"}]
    /\ faults \in 0 .. MaxFaults

Init ==
    /\ commands = [s \in Slot |-> {}]
    /\ type = [i \in Id |-> "none"]
    /\ responses = [i \in Id |-> "none"]
    /\ waiting = {}
    /\ ready = [s \in Slot |-> "no"]
    /\ sup = [s \in Slot |-> Off]
    /\ agent = [s \in Slot |-> "none"]
    /\ faults = 0

Fault(kind) == kind \in Faults /\ faults < MaxFaults /\ faults' = faults + 1

-----------------------------------------------------------------------------
(* The client (SupervisorChannel.request).                                 *)

(* Definitions called Mutant... are plausible mistakes in the definition    *)
(* after them; a run under each shows that its property would notice.       *)

MutantUnused(i) == i \notin waiting       \* numbered by each client for itself

(* An identifier no client waits for and no file and no supervisor has. *)
Unused(i) ==
    /\ i \notin waiting
    /\ responses[i] = "none"
    /\ \A s \in Slot : i \notin commands[s] \cup sup[s].batch \cup {sup[s].at}

Post(i, s, t) ==
    /\ Unused(i)
    /\ waiting' = waiting \cup {i}
    /\ commands' = [commands EXCEPT ![s] = @ \cup {i}]
    /\ type' = [type EXCEPT ![i] = t]
    /\ UNCHANGED <<responses, ready, sup, agent>>

(* The response is read and unlinked; its status is what the caller gets. *)
Receive(i) ==
    /\ i \in waiting
    /\ responses[i] # "none"
    /\ waiting' = waiting \ {i}
    /\ responses' = [responses EXCEPT ![i] = "none"]
    /\ UNCHANGED <<commands, type, ready, sup, agent>>

(* The deadline passes, or the client is killed.  The command stays. *)
GiveUp(i) ==
    /\ i \in waiting
    /\ waiting' = waiting \ {i}
    /\ UNCHANGED <<commands, type, responses, ready, sup, agent>>

-----------------------------------------------------------------------------
(* The supervisor.                                                         *)

Start(s) ==
    /\ sup[s].pc = "off"
    /\ sup' = [sup EXCEPT ![s] = [Off EXCEPT !.pc = "boot"]]
    /\ UNCHANGED <<commands, type, responses, waiting, ready, agent>>

(* Nothing ever removes ready.json: that of an earlier life is in its place. *)
Boot(s) ==
    /\ sup[s].pc = "boot"
    /\ ready' = [ready EXCEPT ![s] = "yes"]
    /\ sup' = [sup EXCEPT ![s].pc = "poll"]
    /\ UNCHANGED <<commands, type, responses, waiting, agent>>

(* The rest of the last listing, or a new one when that is used up. *)
MutantListing(s) == commands[s]              \* lists again after every command
Listing(s) == IF sup[s].batch # {} THEN sup[s].batch ELSE commands[s]

Least(ids) == {i \in ids : \A j \in ids : i <= j}

Take(s) ==
    /\ sup[s].pc = "poll"
    /\ \E i \in Least(Listing(s)) :
          sup' = [sup EXCEPT ![s] = [pc |-> "execute", batch |-> Listing(s) \ {i},
                                     at |-> i, status |-> "none"]]
    /\ UNCHANGED <<commands, type, responses, waiting, ready, agent>>

(* How a command may end, and what it leaves of the agent. *)
MutantEndsOf(t) == IF t = "start-agent" THEN StartAnswers ELSE {"ok", "failed"}
Stops == {"stop-agent", "shutdown"}

EndsOf(t) == IF t = "start-agent" THEN StartAnswers
             ELSE IF t \in Stops THEN {"ok"} ELSE {"ok", "error"}

AgentAfter(s, t) == IF t = "start-agent" THEN "running"
                    ELSE IF t \in Stops THEN "none" ELSE agent[s]

(* The command is removed before it is answered. *)
MutantFinish(s) ==
    LET i == sup[s].at IN
    /\ sup[s].pc = "execute"
    /\ \E e \in EndsOf(type[i]) : sup' = [sup EXCEPT ![s].pc = "answer", ![s].status = e]
    /\ commands' = [commands EXCEPT ![s] = @ \ {i}]
    /\ agent' = [agent EXCEPT ![s] = AgentAfter(s, type[i])]
    /\ UNCHANGED <<type, responses, waiting, ready>>

Finish(s) ==
    LET i == sup[s].at IN
    /\ sup[s].pc = "execute"
    /\ \E e \in EndsOf(type[i]) : sup' = [sup EXCEPT ![s].pc = "answer", ![s].status = e]
    /\ agent' = [agent EXCEPT ![s] = AgentAfter(s, type[i])]
    /\ UNCHANGED <<commands, type, responses, waiting, ready>>

Answer(s) ==
    /\ sup[s].pc = "answer"
    /\ responses' = [responses EXCEPT ![sup[s].at] = sup[s].status]
    /\ sup' = [sup EXCEPT ![s].pc = "remove"]
    /\ UNCHANGED <<commands, type, waiting, ready, agent>>

(* The supervisor exits after a shutdown; its finally block stops the agent. *)
Proceed(s) ==
    IF type[sup[s].at] = "shutdown"
    THEN sup' = [sup EXCEPT ![s] = Off] /\ agent' = [agent EXCEPT ![s] = "none"]
    ELSE sup' = [sup EXCEPT ![s] = [Off EXCEPT !.pc = "poll", !.batch = sup[s].batch]]
         /\ UNCHANGED agent

Remove(s) ==
    /\ sup[s].pc = "remove"
    /\ commands' = [commands EXCEPT ![s] = @ \ {sup[s].at}]
    /\ type' = [type EXCEPT ![sup[s].at] = "none"]
    /\ Proceed(s)
    /\ UNCHANGED <<responses, waiting, ready>>

(* Remove-Item fails, silently: the command will be listed again. *)
RemoveFails(s) ==
    /\ sup[s].pc = "remove"
    /\ Proceed(s)
    /\ UNCHANGED <<commands, type, responses, waiting, ready>>

(* The container is stopped or dies, and all its processes with it. *)
Crash(s) ==
    /\ sup[s].pc # "off"
    /\ sup' = [sup EXCEPT ![s] = Off]
    /\ agent' = [agent EXCEPT ![s] = "none"]
    /\ UNCHANGED <<commands, type, responses, waiting, ready>>

AgentDies(s) ==
    /\ agent[s] = "running"
    /\ agent' = [agent EXCEPT ![s] = "none"]
    /\ UNCHANGED <<commands, type, responses, waiting, ready, sup>>

(* The supervisor's loop. *)
Work(s) == Boot(s) \/ Take(s) \/ Finish(s) \/ Answer(s) \/ Remove(s)

=============================================================================
