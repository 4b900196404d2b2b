------------------------- MODULE CallHistoryProofs -------------------------
(***************************************************************************)
(* What holds of the command channel for any endpoints, identifiers and    *)
(* commands and any number of lost supervisors: no call is lost, and the   *)
(* channel keeps what module RemoteCall promises.                          *)
(***************************************************************************)
EXTENDS CallHistory, SupervisorChannelProofs

-----------------------------------------------------------------------------
(* The type invariant.                                                     *)

LEMMA TypeStep == HistoryTypeOK /\ [HistoryNext]_allVars => HistoryTypeOK'
<1> SUFFICES ASSUME HistoryTypeOK, [HistoryNext]_allVars PROVE HistoryTypeOK'
  OBVIOUS
<1> USE DEF HistoryTypeOK
<1>1. ASSUME NEW i \in Id, NEW s \in Slot, NEW t \in Types, Request(i, s, t) PROVE HistoryTypeOK'
  BY <1>1 DEF Request, Post, TypeOK
<1>2. ASSUME NEW i \in Id, Returns(i) PROVE HistoryTypeOK'
  BY <1>2 DEF Returns, Receive, TypeOK
<1>3. ASSUME NEW i \in Id, TimesOut(i) PROVE HistoryTypeOK'
  BY <1>3 DEF TimesOut, GiveUp, TypeOK
<1>4. ASSUME NEW s \in Slot, Execute(s) PROVE HistoryTypeOK'
  <2>1. sup' \in [Slot -> Supervisor]
    BY <1>4, SupervisorType DEF Execute
  <2>2. runs' \in [Id -> Nat]
    <3> DEFINE i == sup'[s].at
    <3>1. runs' = [runs EXCEPT ![i] = runs[i] + 1]
      BY <1>4 DEF Execute
    <3>2. i \in Id
      BY <1>4, TakeEffect DEF Execute, Listing, TypeOK, Supervisor
    <3> HIDE DEF i
    <3>3. runs[i] + 1 \in Nat
      BY <3>2
    <3> QED
      BY <3>1, <3>3
  <2>3. UNCHANGED <<commands, type, responses, waiting, ready, agent, state, redo, outcome, faults>>
    BY <1>4 DEF Execute, Take
  <2> QED
    BY <2>1, <2>2, <2>3 DEF TypeOK
<1>5. ASSUME NEW s \in Slot, Executed(s) PROVE HistoryTypeOK'
  <2>1. sup' \in [Slot -> Supervisor] /\ sup'[s].status \in {"ok", "error"}
    BY <1>5, FinishEffect DEF Executed
  <2>2. agent' \in [Slot -> {"none", "running"}]
    BY <1>5 DEF Executed, Finish, AgentAfter, TypeOK
  <2>3. outcome' \in [Id -> SUBSET {"ok", "error"}]
    BY <1>5, <2>1 DEF Executed
  <2>4. UNCHANGED <<commands, type, responses, waiting, ready, state, runs, redo, faults>>
    BY <1>5 DEF Executed, Finish
  <2> QED
    BY <2>1, <2>2, <2>3, <2>4 DEF TypeOK
<1>6. ASSUME NEW s \in Slot, Unseen(s) PROVE HistoryTypeOK'
  <2>1. sup' \in [Slot -> Supervisor]
    BY <1>6, SupervisorType DEF Unseen
  <2>2. CASE Answer(s)
    <3>1. sup[s].status \in {"none", "ok", "error"}
      BY DEF TypeOK, Supervisor
    <3> QED
      BY <1>6, <2>1, <2>2, <3>1 DEF Unseen, Answer, history, TypeOK
  <2>3. CASE Start(s) \/ Boot(s) \/ Remove(s)
    BY <1>6, <2>1, <2>3 DEF Unseen, Start, Boot, Remove, Proceed, history, TypeOK
  <2> QED
    BY <1>6, <2>2, <2>3 DEF Unseen
<1>7. ASSUME NEW s \in Slot, Goes(s) \/ Stays(s) PROVE HistoryTypeOK'
  <2>1. sup' \in [Slot -> Supervisor]
    BY <1>7, SupervisorType DEF Goes, Stays
  <2>2. redo' \in [Id -> Nat]
    BY <1>7 DEF Goes, Stays, Again
  <2>3. faults' \in 0 .. MaxFaults
    BY <1>7, FaultsAssumption DEF Goes, Stays, Fault, TypeOK
  <2> QED
    BY <1>7, <2>1, <2>2, <2>3 DEF Goes, Stays, Again, Crash, RemoveFails, Proceed, TypeOK
<1>8. ASSUME NEW s \in Slot, AgentGoes(s) PROVE HistoryTypeOK'
  BY <1>8, FaultsAssumption DEF AgentGoes, AgentDies, Fault, history, TypeOK
<1>9. CASE UNCHANGED allVars
  BY <1>9 DEF allVars, vars, channel, history, TypeOK
<1> QED
  BY <1>1, <1>2, <1>3, <1>4, <1>5, <1>6, <1>7, <1>8, <1>9 DEF HistoryNext, Supervise

(* Every reachable state is well typed, whatever is asked and lost. *)
THEOREM TypeCorrect == HistorySpec => []HistoryTypeOK
<1>1. HistoryInit => HistoryTypeOK
  BY FaultsAssumption DEF HistoryInit, Init, HistoryTypeOK, TypeOK, Off, Supervisor
<1> QED
  BY <1>1, TypeStep, PTL DEF HistorySpec

-----------------------------------------------------------------------------
(* A supervisor has in hand, and on the rest of its list, commands of its  *)
(* own mailbox.                                                            *)
Busy(s) == sup[s].pc \in {"execute", "answer", "remove"}

Handled ==
    \A s \in Slot :
        /\ IF Busy(s) THEN sup[s].at \in commands[s] ELSE sup[s].at = 0
        /\ sup[s].batch \subseteq commands[s] \ {sup[s].at}

OneMailbox == \A s, x \in Slot : s # x => commands[s] \cap commands[x] = {}

(* A command that is there was executed once for every time a supervisor   *)
(* was lost with it, and once more if one has it in hand.                  *)
Counted ==
    \A s \in Slot : \A i \in commands[s] :
        /\ state[i] # "unused"
        /\ runs[i] = IF sup[s].at = i THEN redo[i] + 1 ELSE redo[i]

Heard ==
    \A i \in Id :
        /\ i \in waiting <=> state[i] = "waiting"
        /\ responses[i] # "none" => responses[i] \in outcome[i]

Answered ==
    \A s \in Slot :
        /\ sup[s].pc = "answer" => sup[s].status \in outcome[sup[s].at]
        /\ sup[s].pc = "remove" /\ sup[s].at \in waiting => responses[sup[s].at] # "none"

CallInv ==
    HistoryTypeOK /\ Handled /\ OneMailbox /\ Counted /\ Heard /\ Answered /\ NothingLost

(* The identifiers in the mailbox are not 0, so one in hand is one of Id.  *)
LEMMA InHand ==
    ASSUME TypeOK, Handled, NEW s \in Slot
    PROVE  /\ 0 \notin Id
           /\ Busy(s) <=> sup[s].at \in Id
           /\ commands[s] \subseteq Id
  BY IdAssumption DEF TypeOK, Handled

LEMMA RequestStep ==
    ASSUME CallInv, NEW i \in Id, NEW s \in Slot, NEW t \in Types, Request(i, s, t)
    PROVE  Handled' /\ OneMailbox' /\ Counted' /\ Heard' /\ Answered' /\ NothingLost'
<1> USE DEF CallInv, HistoryTypeOK, TypeOK
<1>1. /\ i \notin waiting /\ responses[i] = "none"
      /\ \A x \in Slot : i \notin commands[x] /\ i \notin sup[x].batch /\ i # sup[x].at
  BY DEF Request, Post, Unused
<1>2. /\ waiting' = waiting \cup {i}
      /\ commands' = [commands EXCEPT ![s] = @ \cup {i}]
      /\ UNCHANGED <<responses, sup>>
      /\ state' = [state EXCEPT ![i] = "waiting"]
      /\ runs' = [runs EXCEPT ![i] = 0] /\ redo' = [redo EXCEPT ![i] = 0]
      /\ outcome' = [outcome EXCEPT ![i] = {}]
  BY DEF Request, Post
<1>3. Handled'
  BY <1>1, <1>2 DEF Handled, Busy
<1>4. OneMailbox'
  BY <1>1, <1>2 DEF OneMailbox
<1>5. Counted'
  BY <1>1, <1>2 DEF Counted
<1>6. Heard'
  BY <1>1, <1>2 DEF Heard
<1>7. Answered'
  BY <1>1, <1>2 DEF Answered
<1>8. NothingLost'
  BY <1>1, <1>2 DEF NothingLost
<1> QED
  BY <1>3, <1>4, <1>5, <1>6, <1>7, <1>8

LEMMA ClientStep ==
    ASSUME CallInv, NEW i \in Id, Returns(i) \/ TimesOut(i)
    PROVE  Handled' /\ OneMailbox' /\ Counted' /\ Heard' /\ Answered' /\ NothingLost'
<1> USE DEF CallInv, HistoryTypeOK, TypeOK
<1>1. /\ i \in waiting /\ waiting' = waiting \ {i}
      /\ UNCHANGED <<commands, sup, runs, redo, outcome>>
  BY DEF Returns, Receive, TimesOut, GiveUp
<1>2. \E v \in {"timeout", "ok", "error"} : state' = [state EXCEPT ![i] = v]
  BY DEF Returns, Receive, TimesOut, GiveUp
<1>3. responses' = responses \/ responses' = [responses EXCEPT ![i] = "none"]
  BY DEF Returns, Receive, TimesOut, GiveUp
<1>4. Handled' /\ OneMailbox'
  BY <1>1 DEF Handled, Busy, OneMailbox
<1>5. Counted'
  BY <1>1, <1>2 DEF Counted
<1>6. Heard'
  BY <1>1, <1>2, <1>3 DEF Heard
<1>7. Answered' /\ NothingLost'
  BY <1>1, <1>3 DEF Answered, NothingLost
<1> QED
  BY <1>4, <1>5, <1>6, <1>7

LEMMA ExecuteStep ==
    ASSUME CallInv, NEW s \in Slot, Execute(s)
    PROVE  Handled' /\ OneMailbox' /\ Counted' /\ Heard' /\ Answered' /\ NothingLost'
<1> USE DEF CallInv, HistoryTypeOK
<1> DEFINE i == sup'[s].at
<1>1. /\ sup' \in [Slot -> Supervisor] /\ Others(s) /\ sup'[s].pc = "execute"
      /\ i \in Listing(s) /\ sup'[s].batch = Listing(s) \ {i}
  BY TakeEffect DEF Execute
<1>2. sup[s].pc = "poll" /\ UNCHANGED <<commands, responses, waiting>>
  BY DEF Execute, Take
<1>3. runs' = [runs EXCEPT ![i] = @ + 1] /\ UNCHANGED <<state, redo, outcome>>
  BY DEF Execute
<1>4. Listing(s) \subseteq commands[s] /\ sup[s].at = 0
  BY <1>2 DEF Listing, Handled, Busy
<1>5. Handled'
  BY <1>1, <1>2, <1>4 DEF Handled, Busy, Others
<1>6. i \in Id /\ 0 \notin Id
  BY <1>1, <1>4, InHand
<1> HIDE DEF i
<1>7. Counted'
  <2> SUFFICES ASSUME NEW x \in Slot, NEW j \in commands[x]
               PROVE  /\ state[j] # "unused"
                      /\ runs'[j] = IF sup'[x].at = j THEN redo[j] + 1 ELSE redo[j]
    BY <1>2, <1>3 DEF Counted
  <2>1. CASE x = s
    BY <1>1, <1>3, <1>4, <1>6, <2>1, InHand DEF Counted, TypeOK, i
  <2>2. CASE x # s
    <3>1. j # i /\ sup'[x] = sup[x]
      BY <1>1, <1>4, <2>2 DEF OneMailbox, Others
    <3> QED
      BY <1>3, <3>1, <2>2, InHand DEF Counted
  <2> QED
    BY <2>1, <2>2
<1>8. Answered'
  BY <1>1, <1>2, <1>3 DEF Answered, Others
<1> QED
  BY <1>2, <1>3, <1>5, <1>7, <1>8 DEF OneMailbox, Heard, NothingLost

LEMMA ExecutedStep ==
    ASSUME CallInv, NEW s \in Slot, Executed(s)
    PROVE  Handled' /\ OneMailbox' /\ Counted' /\ Heard' /\ Answered' /\ NothingLost'
<1> USE DEF CallInv, HistoryTypeOK
<1> DEFINE i == sup[s].at
           e == sup'[s].status
<1>1. /\ sup' \in [Slot -> Supervisor] /\ Others(s) /\ sup'[s].pc = "answer"
      /\ sup'[s].at = i /\ sup'[s].batch = sup[s].batch /\ e \in {"ok", "error"}
  BY FinishEffect DEF Executed
<1>2. sup[s].pc = "execute" /\ UNCHANGED <<commands, responses, waiting>>
  BY DEF Executed, Finish
<1>3. outcome' = [outcome EXCEPT ![i] = @ \cup {e}] /\ UNCHANGED <<state, runs, redo>>
  BY DEF Executed
<1>4. i \in Id
  BY <1>2, InHand DEF Busy
<1> HIDE DEF i, e
<1>5. Handled'
  BY <1>1, <1>2 DEF Handled, Busy, Others, i
<1>6. Counted'
  BY <1>1, <1>2, <1>3 DEF Counted, Others, i
<1>7. \A j \in Id : outcome[j] \subseteq outcome'[j]
  BY <1>3
<1>8. e \in outcome'[i]
  BY <1>3, <1>4
<1>9. Answered'
  <2> SUFFICES ASSUME NEW x \in Slot
               PROVE  /\ sup'[x].pc = "answer" => sup'[x].status \in outcome'[sup'[x].at]
                      /\ sup'[x].pc = "remove" /\ sup'[x].at \in waiting =>
                            responses[sup'[x].at] # "none"
    BY <1>2 DEF Answered
  <2>1. CASE x = s
    BY <1>1, <1>8, <2>1 DEF e
  <2>2. CASE x # s
    BY <1>1, <1>7, <2>2, InHand DEF Answered, Others, Busy
  <2> QED
    BY <2>1, <2>2
<1>10. Heard'
  BY <1>2, <1>3, <1>7 DEF Heard
<1> QED
  BY <1>2, <1>5, <1>6, <1>9, <1>10 DEF OneMailbox, NothingLost

(* Between the end of a command and the next one in hand.                  *)
LEMMA AnswerStep ==
    ASSUME CallInv, NEW s \in Slot, Answer(s), UNCHANGED history
    PROVE  Handled' /\ OneMailbox' /\ Counted' /\ Heard' /\ Answered' /\ NothingLost'
<1> USE DEF CallInv, HistoryTypeOK, history
<1> DEFINE i == sup[s].at
           e == sup[s].status
<1>1. /\ sup' \in [Slot -> Supervisor] /\ Others(s) /\ sup'[s].pc = "remove"
      /\ sup'[s].at = i /\ sup'[s].batch = sup[s].batch
  BY PcEffect DEF Answer
<1>2. sup[s].pc = "answer" /\ UNCHANGED <<commands, waiting>>
      /\ responses' = [responses EXCEPT ![i] = e]
  BY DEF Answer
<1>3. i \in Id /\ e \in outcome[i] /\ e # "none"
  BY <1>2, InHand DEF Busy, Answered, TypeOK
<1> HIDE DEF i, e
<1>4. Handled'
  BY <1>1, <1>2 DEF Handled, Busy, Others, i
<1>5. Counted'
  BY <1>1, <1>2 DEF Counted, Others, i
<1>6. responses'[i] # "none" /\ \A j \in Id : responses[j] # "none" => responses'[j] # "none"
  BY <1>2, <1>3 DEF TypeOK
<1>7. Answered'
  <2> SUFFICES ASSUME NEW x \in Slot
               PROVE  /\ sup'[x].pc = "answer" => sup'[x].status \in outcome[sup'[x].at]
                      /\ sup'[x].pc = "remove" /\ sup'[x].at \in waiting =>
                            responses'[sup'[x].at] # "none"
    BY <1>2 DEF Answered
  <2>1. CASE x = s
    BY <1>1, <1>6, <2>1
  <2>2. CASE x # s
    BY <1>1, <1>6, <2>2, InHand DEF Answered, Others, Busy
  <2> QED
    BY <2>1, <2>2
<1>8. Heard'
  BY <1>2, <1>3 DEF Heard, TypeOK
<1>9. NothingLost'
  BY <1>2, <1>6 DEF NothingLost, TypeOK
<1> QED
  BY <1>2, <1>4, <1>5, <1>7, <1>8, <1>9 DEF OneMailbox

LEMMA BootStep ==
    ASSUME CallInv, NEW s \in Slot, Boot(s), UNCHANGED history
    PROVE  Handled' /\ OneMailbox' /\ Counted' /\ Heard' /\ Answered' /\ NothingLost'
<1> USE DEF CallInv, HistoryTypeOK, history
<1>1. /\ sup' \in [Slot -> Supervisor] /\ Others(s) /\ sup'[s].pc = "poll"
      /\ sup'[s].at = sup[s].at /\ sup'[s].batch = sup[s].batch
  BY PcEffect DEF Boot
<1>2. sup[s].pc = "boot" /\ UNCHANGED <<commands, waiting, responses>>
  BY DEF Boot
<1>3. Handled' /\ Counted'
  BY <1>1, <1>2 DEF Handled, Counted, Busy, Others
<1>4. Answered'
  BY <1>1, <1>2 DEF Answered, Others
<1> QED
  BY <1>2, <1>3, <1>4 DEF OneMailbox, Heard, NothingLost

LEMMA EmptiedHandled ==
    ASSUME TypeOK, Handled, NEW s \in Slot, Emptied(s),
           commands[s] \ {sup[s].at} \subseteq commands'[s],
           \A x \in Slot \ {s} : commands'[x] = commands[x]
    PROVE  Handled'
<1> SUFFICES ASSUME NEW x \in Slot
             PROVE  /\ IF Busy(x)' THEN sup'[x].at \in commands'[x] ELSE sup'[x].at = 0
                    /\ sup'[x].batch \subseteq commands'[x] \ {sup'[x].at}
  BY DEF Handled
<1>1. CASE x = s
  <2>1. ~ Busy(x)' /\ sup'[x].at = 0 /\ sup'[x].batch \subseteq sup[s].batch
    BY <1>1 DEF Emptied, Busy
  <2>2. sup[s].batch \subseteq commands'[s] /\ 0 \notin sup[s].batch
    BY InHand DEF Handled
  <2> QED
    BY <1>1, <2>1, <2>2
<1>2. CASE x # s
  <2>1. sup'[x] = sup[x] /\ commands'[x] = commands[x]
    BY <1>2 DEF Emptied, Others
  <2> QED
    BY <2>1 DEF Handled, Busy
<1> QED
  BY <1>1, <1>2

(* A command in hand that was answered is removed.                         *)
LEMMA RemoveStep ==
    ASSUME CallInv, NEW s \in Slot, Remove(s), UNCHANGED history
    PROVE  Handled' /\ OneMailbox' /\ Counted' /\ Heard' /\ Answered' /\ NothingLost'
<1> USE DEF CallInv, HistoryTypeOK, history
<1> DEFINE i == sup[s].at
<1>1. Emptied(s)
  BY QuitEffect DEF Remove
<1>2. sup[s].pc = "remove" /\ UNCHANGED <<responses, waiting>>
      /\ commands' = [commands EXCEPT ![s] = @ \ {i}]
  BY DEF Remove
<1>3. i \in commands[s] /\ i \in Id /\ (i \in waiting => responses[i] # "none")
  BY <1>2, InHand DEF Busy, Handled, Answered
<1>4. commands'[s] = commands[s] \ {i} /\ \A x \in Slot \ {s} : commands'[x] = commands[x]
  BY <1>2 DEF TypeOK
<1>5. Handled'
  BY <1>1, <1>4, EmptiedHandled
<1> HIDE DEF i
<1>6. OneMailbox'
  BY <1>4 DEF OneMailbox
<1>7. Counted'
  <2> SUFFICES ASSUME NEW x \in Slot, NEW j \in commands'[x]
               PROVE  /\ state[j] # "unused"
                      /\ runs[j] = IF sup'[x].at = j THEN redo[j] + 1 ELSE redo[j]
    BY DEF Counted
  <2>1. CASE x = s
    BY <1>1, <1>4, <2>1, InHand DEF Counted, Emptied, i
  <2>2. CASE x # s
    BY <1>1, <1>4, <2>2 DEF Counted, Emptied, Others
  <2> QED
    BY <2>1, <2>2
<1>8. Answered'
  BY <1>1, <1>2 DEF Answered, Emptied, Others
<1>9. NothingLost'
  <2> SUFFICES ASSUME NEW j \in waiting, responses[j] = "none"
               PROVE  \E x \in Slot : j \in commands'[x]
    BY <1>2 DEF NothingLost
  <2>1. PICK x \in Slot : j \in commands[x]
    BY DEF NothingLost
  <2> QED
    BY <1>3, <1>4, <2>1
<1> QED
  BY <1>2, <1>5, <1>6, <1>7, <1>8, <1>9 DEF Heard

(* A supervisor is lost, or could not remove its command, or starts: the   *)
(* command in hand, if there is one, is due once more.                     *)
LEMMA AgainStep ==
    ASSUME CallInv, NEW s \in Slot, Emptied(s), Again(s),
           UNCHANGED <<commands, responses, waiting>>
    PROVE  Handled' /\ OneMailbox' /\ Counted' /\ Heard' /\ Answered' /\ NothingLost'
<1> USE DEF CallInv, HistoryTypeOK
<1> DEFINE i == sup[s].at
<1>1. Handled'
  BY EmptiedHandled
<1>2. /\ redo' = IF i \in Id THEN [redo EXCEPT ![i] = @ + 1] ELSE redo
      /\ UNCHANGED <<state, runs, outcome>>
  BY DEF Again
<1>3. Counted'
  <2> SUFFICES ASSUME NEW x \in Slot, NEW j \in commands[x]
               PROVE  /\ state[j] # "unused"
                      /\ runs[j] = IF sup'[x].at = j THEN redo'[j] + 1 ELSE redo'[j]
    BY <1>2 DEF Counted
  <2>0. j \in Id /\ 0 \notin Id
    BY InHand
  <2>1. CASE x = s
    <3>1. sup'[x].at # j /\ redo'[j] = IF i = j THEN redo[j] + 1 ELSE redo[j]
      BY <1>2, <2>0, <2>1 DEF Emptied
    <3> QED
      BY <2>1, <3>1 DEF Counted
  <2>2. CASE x # s
    <3>1. sup'[x] = sup[x]
      BY <2>2 DEF Emptied, Others
    <3>2. i # j
      <4>1. CASE i \in Id
        BY <2>2, <4>1, InHand DEF OneMailbox, Handled
      <4> QED
        BY <2>0, <4>1
    <3>3. redo'[j] = redo[j]
      BY <1>2, <2>0, <3>2
    <3> QED
      BY <3>1, <3>3 DEF Counted
  <2> QED
    BY <2>1, <2>2
<1>4. Answered'
  BY <1>2 DEF Answered, Emptied, Others
<1> QED
  BY <1>1, <1>2, <1>3, <1>4 DEF OneMailbox, Heard, NothingLost

(* A supervisor that is off has nothing in hand. *)
LEMMA StartAgain ==
    ASSUME CallInv, NEW s \in Slot, Start(s), UNCHANGED history
    PROVE  Again(s)
<1>1. sup[s].at \notin Id
  BY InHand DEF Start, Busy, CallInv, HistoryTypeOK
<1> QED
  BY <1>1 DEF Again, history

LEMMA CallStep == CallInv /\ [HistoryNext]_allVars => CallInv'
<1> SUFFICES ASSUME CallInv, [HistoryNext]_allVars PROVE CallInv'
  OBVIOUS
<1> DEFINE Goal == Handled' /\ OneMailbox' /\ Counted' /\ Heard' /\ Answered' /\ NothingLost'
<1>1. ASSUME NEW i \in Id, NEW s \in Slot, NEW t \in Types, Request(i, s, t) PROVE Goal
  BY <1>1, RequestStep
<1>2. ASSUME NEW i \in Id, Returns(i) \/ TimesOut(i) PROVE Goal
  BY <1>2, ClientStep
<1>3. ASSUME NEW s \in Slot, Execute(s) \/ Executed(s) PROVE Goal
  BY <1>3, ExecuteStep, ExecutedStep
<1>4. ASSUME NEW s \in Slot, Unseen(s) PROVE Goal
  <2>1. UNCHANGED history
    BY <1>4 DEF Unseen
  <2>2. CASE Start(s)
    <3>1. Emptied(s) /\ UNCHANGED <<commands, responses, waiting>>
      BY <2>2, QuitEffect DEF Start, CallInv, HistoryTypeOK
    <3> QED
      BY <2>1, <2>2, <3>1, StartAgain, AgainStep
  <2> QED
    BY <1>4, <2>1, <2>2, BootStep, AnswerStep, RemoveStep DEF Unseen
<1>5. ASSUME NEW s \in Slot, Goes(s) \/ Stays(s) PROVE Goal
  <2>1. Emptied(s) /\ UNCHANGED <<commands, responses, waiting>>
    BY <1>5, QuitEffect DEF Goes, Stays, Crash, RemoveFails, CallInv, HistoryTypeOK
  <2> QED
    BY <1>5, <2>1, AgainStep DEF Goes, Stays
<1>6. ASSUME (\E s \in Slot : AgentGoes(s)) \/ UNCHANGED allVars PROVE Goal
  BY <1>6 DEF AgentGoes, AgentDies, allVars, vars, channel, history,
     CallInv, Handled, Busy, OneMailbox, Counted, Heard, Answered, NothingLost
<1>7. HistoryTypeOK'
  BY TypeStep DEF CallInv
<1>8. Goal
  BY <1>1, <1>2, <1>3, <1>4, <1>5, <1>6 DEF HistoryNext, Supervise
<1> QED
  BY <1>7, <1>8 DEF CallInv

LEMMA CallInit == HistoryInit => CallInv
<1> SUFFICES ASSUME HistoryInit PROVE CallInv
  OBVIOUS
<1>1. HistoryTypeOK
  BY FaultsAssumption DEF HistoryInit, Init, HistoryTypeOK, TypeOK, Off, Supervisor
<1>2. Handled /\ Answered
  BY DEF HistoryInit, Init, Off, Handled, Busy, Answered
<1> QED
  BY <1>1, <1>2 DEF HistoryInit, Init, CallInv, OneMailbox, Counted, Heard, NothingLost

LEMMA CallInvariant == HistorySpec => []CallInv
  BY CallInit, CallStep, PTL DEF HistorySpec

(* Wherever supervisors are lost, the command of a call somebody waits for *)
(* is in a mailbox or its response is there (supervisor.ps1:144-145).      *)
THEOREM NoCallIsLost == HistorySpec => []NothingLost
<1>1. CallInv => NothingLost
  BY DEF CallInv
<1> QED
  BY <1>1, CallInvariant, PTL

-----------------------------------------------------------------------------
(* The refinement.                                                         *)

CallVars == <<state, runs, redo, outcome>>

LEMMA CallsStep == CallInv /\ [HistoryNext]_allVars => [Calls!Next]_CallVars
<1> SUFFICES ASSUME CallInv, [HistoryNext]_allVars PROVE [Calls!Next]_CallVars
  OBVIOUS
<1> USE DEF CallInv, HistoryTypeOK, CallVars
<1>1. ASSUME NEW i \in Id, NEW s \in Slot, NEW t \in Types, Request(i, s, t)
      PROVE  Calls!Next
  <2>1. state[i] # "waiting"
    BY <1>1 DEF Request, Post, Unused, Heard
  <2>2. Calls!Invoke(i)
    BY <1>1, <2>1 DEF Request, Calls!Invoke
  <2> QED
    BY <2>2 DEF Calls!Next
<1>2. ASSUME NEW i \in Id, Returns(i) PROVE Calls!Next
  <2>1. state[i] = "waiting" /\ responses[i] \in outcome[i]
    BY <1>2 DEF Returns, Receive, Heard
  <2>2. Calls!Return(i)
    BY <1>2, <2>1 DEF Returns, Calls!Return
  <2> QED
    BY <2>2 DEF Calls!Next
<1>3. ASSUME NEW i \in Id, TimesOut(i) PROVE Calls!Next
  <2>1. Calls!GiveUp(i)
    BY <1>3 DEF TimesOut, GiveUp, Heard, Calls!GiveUp
  <2> QED
    BY <2>1 DEF Calls!Next
<1>4. ASSUME NEW s \in Slot, Execute(s) PROVE Calls!Next
  <2> DEFINE i == sup'[s].at
  <2>1. i \in commands[s] /\ sup[s].at = 0
    BY <1>4, TakeEffect DEF Execute, Take, Listing, Handled, Busy
  <2>2. i \in Id /\ i # 0
    BY <2>1, InHand
  <2>3. runs' = [runs EXCEPT ![i] = @ + 1] /\ UNCHANGED <<state, redo, outcome>>
    BY <1>4 DEF Execute
  <2>4. state[i] # "unused" /\ runs[i] = redo[i]
    BY <2>1, <2>2 DEF Counted
  <2> HIDE DEF i
  <2>5. Calls!Run(i)
    BY <2>2, <2>3, <2>4 DEF Calls!Run
  <2> QED
    BY <2>2, <2>5 DEF Calls!Next
<1>5. ASSUME NEW s \in Slot, sup[s].at \in Id
      PROVE  runs[sup[s].at] > redo[sup[s].at]
  <2>1. sup[s].at \in commands[s]
    BY <1>5, InHand DEF Handled
  <2>2. runs[sup[s].at] = redo[sup[s].at] + 1 /\ redo[sup[s].at] \in Nat
    BY <1>5, <2>1 DEF Counted
  <2> QED
    BY <2>2
<1>6. ASSUME NEW s \in Slot, Executed(s) PROVE Calls!Next
  <2> DEFINE i == sup[s].at
             e == sup'[s].status
  <2>1. i \in Id /\ e \in {"ok", "error"}
    BY <1>6, FinishEffect, InHand DEF Executed, Finish, Busy
  <2>2. outcome' = [outcome EXCEPT ![i] = @ \cup {e}] /\ UNCHANGED <<state, runs, redo>>
    BY <1>6 DEF Executed
  <2>3. runs[i] > redo[i]
    BY <1>5, <2>1
  <2> HIDE DEF i, e
  <2>4. Calls!End(i)
    BY <2>1, <2>2, <2>3 DEF Calls!End, Calls!Ends
  <2> QED
    BY <2>1, <2>4 DEF Calls!Next
<1>7. ASSUME NEW s \in Slot, Again(s) PROVE [Calls!Next]_CallVars
  <2>1. CASE sup[s].at \in Id
    <3>1. Calls!Lose(sup[s].at)
      BY <1>5, <1>7, <2>1 DEF Again, Calls!Lose
    <3> QED
      BY <2>1, <3>1 DEF Calls!Next
  <2>2. CASE sup[s].at \notin Id
    BY <1>7, <2>2 DEF Again
  <2> QED
    BY <2>1, <2>2
<1>8. CASE \/ \E s \in Slot : Unseen(s) \/ AgentGoes(s)
           \/ UNCHANGED allVars
  BY <1>8 DEF Unseen, AgentGoes, allVars, history
<1> QED
  BY <1>1, <1>2, <1>3, <1>4, <1>6, <1>7, <1>8 DEF HistoryNext, Supervise, Goes, Stays

(* The channel keeps what RemoteCall promises: clients hear an outcome of  *)
(* their own call, which runs once and once more per lost supervisor.      *)
THEOREM ChannelImplementsCalls == HistorySpec => ImplementsCalls
<1>1. HistoryInit => Calls!Init
  BY DEF HistoryInit, Calls!Init
<1> QED
  BY <1>1, CallsStep, CallInvariant, PTL DEF HistorySpec, ImplementsCalls, Calls!Spec, CallVars

=============================================================================
