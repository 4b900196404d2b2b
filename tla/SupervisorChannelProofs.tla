----------------------- MODULE SupervisorChannelProofs -----------------------
(***************************************************************************)
(* What the steps of the command channel make of the supervisors' records, *)
(* for the proofs about the modules that extend it: CallHistory and        *)
(* WindowsFleet.                                                           *)
(***************************************************************************)
EXTENDS SupervisorChannel, TLAPS

(* What the steps of a supervisor make of its record: first the parts of   *)
(* records that are changed in part.                                       *)
LEMMA PcUpdate ==
    ASSUME NEW r \in Supervisor, NEW p \in {"boot", "poll", "remove"}
    PROVE  /\ [r EXCEPT !.pc = p] \in Supervisor
           /\ [r EXCEPT !.pc = p].pc = p
           /\ [r EXCEPT !.pc = p].at = r.at
           /\ [r EXCEPT !.pc = p].batch = r.batch
           /\ [r EXCEPT !.pc = p].status = r.status
<1>1. [r EXCEPT !.pc = p] \in Supervisor
  BY Zenon DEF Supervisor
<1> QED
  BY <1>1, SMT DEF Supervisor

Others(s) == \A x \in Slot \ {s} : sup'[x] = sup[x]

LEMMA RecordEffect ==
    ASSUME TypeOK, NEW s \in Slot, NEW r \in Supervisor, sup' = [sup EXCEPT ![s] = r]
    PROVE  sup' \in [Slot -> Supervisor] /\ Others(s) /\ sup'[s] = r
  BY DEF TypeOK, Others

LEMMA TakeEffect ==
    ASSUME TypeOK, NEW s \in Slot, Take(s)
    PROVE  /\ sup' \in [Slot -> Supervisor] /\ Others(s)
           /\ sup'[s].pc = "execute"
           /\ sup'[s].at \in Listing(s)
           /\ sup'[s].batch = Listing(s) \ {sup'[s].at}
<1>1. Listing(s) \in SUBSET Id
  BY DEF TypeOK, Listing, Supervisor
<1>2. PICK i \in Least(Listing(s)) :
          sup' = [sup EXCEPT ![s] = [pc |-> "execute", batch |-> Listing(s) \ {i},
                                     at |-> i, status |-> "none"]]
  BY DEF Take
<1>3. i \in Listing(s)
  BY DEF Least
<1> DEFINE r == [pc |-> "execute", batch |-> Listing(s) \ {i}, at |-> i, status |-> "none"]
<1>4. r \in Supervisor
  BY <1>1, <1>3 DEF Supervisor
<1>5. sup' \in [Slot -> Supervisor] /\ Others(s) /\ sup'[s] = r
  BY <1>2, <1>4, RecordEffect
<1> QED
  BY <1>3, <1>5

LEMMA FinishEffect ==
    ASSUME TypeOK, NEW s \in Slot, Finish(s)
    PROVE  /\ sup' \in [Slot -> Supervisor] /\ Others(s)
           /\ sup'[s].pc = "answer"
           /\ sup'[s].at = sup[s].at /\ sup'[s].batch = sup[s].batch
           /\ sup'[s].status \in {"ok", "error"}
<1>1. PICK e \in EndsOf(type[sup[s].at]) :
          sup' = [sup EXCEPT ![s].pc = "answer", ![s].status = e]
  BY DEF Finish
<1>2. e \in {"ok", "error"}
  BY StartAssumption DEF EndsOf
<1>3. sup[s] \in Supervisor /\ sup \in [Slot -> Supervisor]
  BY DEF TypeOK
<1>4. PICK r : r = [sup[s] EXCEPT !.pc = "answer", !.status = e]
  OBVIOUS
<1>5. /\ r \in Supervisor
      /\ r.pc = "answer" /\ r.at = sup[s].at /\ r.batch = sup[s].batch /\ r.status = e
  <2>1. r \in Supervisor
    BY <1>2, <1>3, <1>4, Zenon DEF Supervisor
  <2>2. r.pc = "answer" /\ r.at = sup[s].at /\ r.batch = sup[s].batch /\ r.status = e
    BY <1>3, <1>4, SMT DEF Supervisor
  <2>3. QED
    BY <2>1, <2>2
<1>6. sup' = [sup EXCEPT ![s] = r]
  BY <1>1, <1>3, <1>4
<1>7. sup' \in [Slot -> Supervisor] /\ Others(s) /\ sup'[s] = r
  BY <1>3, <1>5, <1>6, RecordEffect
<1> QED
  BY <1>2, <1>5, <1>7

LEMMA PcEffect ==
    ASSUME TypeOK, NEW s \in Slot, NEW p \in {"poll", "remove"},
           sup' = [sup EXCEPT ![s].pc = p]
    PROVE  /\ sup' \in [Slot -> Supervisor] /\ Others(s)
           /\ sup'[s].pc = p /\ sup'[s].at = sup[s].at
           /\ sup'[s].batch = sup[s].batch
<1> DEFINE r == [sup[s] EXCEPT !.pc = p]
<1>1. sup[s] \in Supervisor /\ sup' = [sup EXCEPT ![s] = r]
  BY DEF TypeOK
<1>2. r \in Supervisor /\ r.pc = p /\ r.at = sup[s].at /\ r.batch = sup[s].batch
  <2> p \in {"boot", "poll", "remove"}
    OBVIOUS
  <2> QED
    BY <1>1, PcUpdate, Zenon
<1>3. sup' \in [Slot -> Supervisor] /\ Others(s) /\ sup'[s] = r
  BY <1>1, <1>2, RecordEffect
<1> QED
  BY <1>2, <1>3

(* A supervisor that starts, ends or goes on to its next command has none  *)
(* in hand.                                                                *)
Emptied(s) ==
    /\ sup' \in [Slot -> Supervisor] /\ Others(s)
    /\ sup'[s].pc \in {"off", "boot", "poll"} /\ sup'[s].at = 0
    /\ sup'[s].batch \subseteq sup[s].batch

LEMMA OffEffect ==
    ASSUME TypeOK, NEW s \in Slot, NEW r \in Supervisor,
           r.pc \in {"off", "boot", "poll"}, r.at = 0, r.batch \subseteq sup[s].batch,
           sup' = [sup EXCEPT ![s] = r]
    PROVE  Emptied(s)
  BY RecordEffect DEF Emptied

LEMMA NextUpdate ==
    ASSUME NEW r \in Supervisor, NEW b \in SUBSET Id
    PROVE  LET u == [r EXCEPT !.pc = "poll", !.batch = b]
           IN  u \in Supervisor /\ u.pc = "poll" /\ u.at = r.at /\ u.batch = b
<1> DEFINE u == [r EXCEPT !.pc = "poll", !.batch = b]
<1>1. u \in Supervisor
  BY Zenon DEF Supervisor
<1>2. u.pc = "poll" /\ u.at = r.at /\ u.batch = b
  BY SMT DEF Supervisor
<1> QED
  BY <1>1, <1>2

LEMMA QuitEffect ==
    ASSUME TypeOK, NEW s \in Slot,
           Start(s) \/ Crash(s) \/ Proceed(s)
    PROVE  Emptied(s)
<1>1. Off \in Supervisor /\ Off.pc = "off" /\ Off.at = 0 /\ Off.batch = {}
  BY DEF Off, Supervisor
<1>2. sup[s].batch \in SUBSET Id
  BY DEF TypeOK, Supervisor
<1>3. CASE Start(s)
  <2> DEFINE u == [Off EXCEPT !.pc = "boot"]
  <2>1. u \in Supervisor /\ u.pc = "boot" /\ u.at = 0 /\ u.batch = {}
    BY <1>1, PcUpdate
  <2> HIDE DEF u
  <2>2. sup' = [sup EXCEPT ![s] = u]
    BY <1>3 DEF Start, u
  <2> QED
    BY <2>1, <2>2, OffEffect
<1>4. CASE sup' = [sup EXCEPT ![s] = Off]
  BY <1>1, <1>4, OffEffect
<1>5. CASE sup' = [sup EXCEPT ![s] = [Off EXCEPT !.pc = "poll", !.batch = sup[s].batch]]
  <2> DEFINE u == [Off EXCEPT !.pc = "poll", !.batch = sup[s].batch]
  <2>1. u \in Supervisor /\ u.pc = "poll" /\ u.at = 0 /\ u.batch = sup[s].batch
    BY <1>1, <1>2, NextUpdate
  <2> HIDE DEF u
  <2>2. sup' = [sup EXCEPT ![s] = u]
    BY <1>5 DEF u
  <2> QED
    BY <2>1, <2>2, OffEffect
<1> QED
  BY <1>3, <1>4, <1>5 DEF Crash, Proceed

-----------------------------------------------------------------------------
(* The types of supervisors are kept.                                      *)

LEMMA SupervisorType ==
    ASSUME TypeOK, NEW s \in Slot,
           \/ Start(s) \/ Boot(s) \/ Take(s) \/ Finish(s) \/ Answer(s)
           \/ Remove(s) \/ RemoveFails(s) \/ Crash(s)
    PROVE  sup' \in [Slot -> Supervisor]
<1>1. CASE Boot(s)
  BY <1>1, PcEffect DEF Boot
<1>2. CASE Answer(s)
  BY <1>2, PcEffect DEF Answer
<1>3. CASE Start(s) \/ Remove(s) \/ RemoveFails(s) \/ Crash(s)
  BY <1>3, QuitEffect DEF Emptied, Remove, RemoveFails
<1> QED
  BY <1>1, <1>2, <1>3, TakeEffect, FinishEffect
-----------------------------------------------------------------------------
(* What the steps of the channel make of the supervisors and their agents.  *)
Aside(s) == Others(s) /\ \A x \in Slot \ {s} : agent'[x] = agent[x]

LEMMA CrashOff ==
    ASSUME TypeOK, NEW s \in Slot, Crash(s)
    PROVE  /\ sup[s].pc # "off" /\ sup'[s].pc = "off" /\ sup'[s].batch = {}
           /\ agent'[s] = "none" /\ Aside(s)
           /\ UNCHANGED <<commands, type, responses, waiting, ready>>
BY DEF Crash, Off, Aside, Others, TypeOK

LEMMA StartBoot ==
    ASSUME TypeOK, NEW s \in Slot, Start(s)
    PROVE  /\ sup[s].pc = "off" /\ sup'[s].pc = "boot" /\ sup'[s].batch = {}
           /\ Others(s)
           /\ UNCHANGED <<commands, type, responses, waiting, ready, agent>>
BY DEF Start, Off, Others, TypeOK

LEMMA ProceedEffect ==
    ASSUME TypeOK, NEW s \in Slot, Proceed(s)
    PROVE  /\ Aside(s) /\ sup'[s].at = 0 /\ sup'[s].batch \subseteq sup[s].batch
           /\ \/ /\ type[sup[s].at] = "shutdown"
                 /\ sup'[s].pc = "off" /\ agent'[s] = "none"
              \/ /\ type[sup[s].at] # "shutdown"
                 /\ sup'[s].pc = "poll" /\ UNCHANGED agent
<1>1. Off \in Supervisor /\ Off.pc = "off" /\ Off.at = 0 /\ Off.batch = {}
  BY DEF Off, Supervisor
<1>2. sup[s].batch \in SUBSET Id
  BY DEF TypeOK, Supervisor
<1>3. CASE type[sup[s].at] = "shutdown"
  <2>1. sup' = [sup EXCEPT ![s] = Off] /\ agent' = [agent EXCEPT ![s] = "none"]
    BY <1>3 DEF Proceed
  <2>2. Others(s) /\ sup'[s] = Off
    BY <1>1, <2>1, RecordEffect
  <2>3. QED
    BY <1>1, <1>3, <2>1, <2>2 DEF Aside, TypeOK
<1>4. CASE type[sup[s].at] # "shutdown"
  <2> DEFINE u == [Off EXCEPT !.pc = "poll", !.batch = sup[s].batch]
  <2>1. u \in Supervisor /\ u.pc = "poll" /\ u.at = 0 /\ u.batch = sup[s].batch
    BY <1>1, <1>2, NextUpdate
  <2> HIDE DEF u
  <2>2. sup' = [sup EXCEPT ![s] = u] /\ UNCHANGED agent
    BY <1>4 DEF Proceed, u
  <2>3. Others(s) /\ sup'[s] = u
    BY <2>1, <2>2, RecordEffect
  <2>4. QED
    BY <1>4, <2>1, <2>2, <2>3 DEF Aside
<1>5. QED
  BY <1>3, <1>4

LEMMA WorkEffect ==
    ASSUME TypeOK, NEW s \in Slot, Work(s)
    PROVE  /\ Aside(s) /\ sup[s].pc # "off"
           /\ \/ /\ sup[s].pc = "boot" /\ sup'[s].pc = "poll" /\ sup'[s].batch = sup[s].batch
                 /\ UNCHANGED <<commands, type, responses, waiting, agent>>
              \/ /\ sup[s].pc = "poll" /\ sup'[s].pc = "execute"
                 /\ sup'[s].at \in Listing(s) /\ sup'[s].batch = Listing(s) \ {sup'[s].at}
                 /\ UNCHANGED <<commands, type, responses, waiting, agent>>
              \/ /\ sup[s].pc = "execute" /\ sup'[s].pc = "answer"
                 /\ sup'[s].at = sup[s].at /\ sup'[s].batch = sup[s].batch
                 /\ sup'[s].status \in {"ok", "error"}
                 /\ agent'[s] = AgentAfter(s, type[sup[s].at])
                 /\ UNCHANGED <<commands, type, responses, waiting>>
              \/ /\ sup[s].pc = "answer" /\ sup'[s].pc = "remove"
                 /\ sup'[s].at = sup[s].at /\ sup'[s].batch = sup[s].batch
                 /\ responses' = [responses EXCEPT ![sup[s].at] = sup[s].status]
                 /\ UNCHANGED <<commands, type, waiting, agent>>
              \/ /\ sup[s].pc = "remove" /\ Proceed(s)
                 /\ commands' = [commands EXCEPT ![s] = @ \ {sup[s].at}]
                 /\ type' = [type EXCEPT ![sup[s].at] = "none"]
                 /\ UNCHANGED <<responses, waiting>>
<1>1. CASE Boot(s)
  BY <1>1, PcEffect DEF Boot, Aside
<1>2. CASE Take(s)
  BY <1>2, TakeEffect DEF Take, Aside
<1>3. CASE Finish(s)
  BY <1>3, FinishEffect DEF Finish, Aside, TypeOK
<1>4. CASE Answer(s)
  BY <1>4, PcEffect DEF Answer, Aside
<1>5. CASE Remove(s)
  BY <1>5, ProceedEffect DEF Remove
<1>6. QED
  BY <1>1, <1>2, <1>3, <1>4, <1>5 DEF Work

LEMMA ChannelType ==
    ASSUME TypeOK, NEW s \in Slot, faults' \in 0 .. MaxFaults,
           Start(s) \/ Work(s) \/ RemoveFails(s) \/ Crash(s) \/ AgentDies(s)
    PROVE  TypeOK'
<1>1. sup' \in [Slot -> Supervisor]
  BY SupervisorType DEF Work, AgentDies, TypeOK
<1>2. CASE Start(s) \/ Crash(s) \/ AgentDies(s) \/ RemoveFails(s)
  BY <1>1, <1>2 DEF Start, Crash, AgentDies, RemoveFails, Proceed, TypeOK
<1>3. CASE Boot(s) \/ Take(s)
  BY <1>1, <1>3 DEF Boot, Take, TypeOK
<1>4. CASE Finish(s)
  <2>1. AgentAfter(s, type[sup[s].at]) \in {"none", "running"}
    BY DEF AgentAfter, TypeOK
  <2>2. QED
    BY <1>1, <1>4, <2>1 DEF Finish, TypeOK
<1>5. CASE Answer(s)
  <2>1. sup[s].status \in {"none", "ok", "error"}
    BY DEF TypeOK, Supervisor
  <2>2. QED
    BY <1>1, <1>5, <2>1 DEF Answer, TypeOK
<1>6. CASE Remove(s)
  BY <1>1, <1>6 DEF Remove, Proceed, TypeOK
<1>7. QED
  BY <1>2, <1>3, <1>4, <1>5, <1>6 DEF Work

LEMMA CallType ==
    ASSUME TypeOK, faults' \in 0 .. MaxFaults, NEW i \in Id, NEW s \in Slot, NEW t \in Types,
           Post(i, s, t) \/ Receive(i) \/ GiveUp(i), UNCHANGED <<ready, sup, agent>>
    PROVE  TypeOK'
BY DEF Post, Receive, GiveUp, TypeOK
=============================================================================
