------------------------- MODULE LeaseManagerProofs -------------------------
(***************************************************************************)
(* What holds of the leases for every set of slots, every number of CLI    *)
(* processes, every subnet and every hash, with and without kills:         *)
(* leases.json never holds a duplicated or reserved address, and allocate  *)
(* gives up only when the pool is exhausted; and what holds beyond that    *)
(* when one process runs at a time.                                        *)
(***************************************************************************)
EXTENDS LeaseManager, TLAPS

(* The arithmetic of the probe loop. *)
LEMMA ModIdentity ==
    ASSUME NEW n \in Nat \ {0}, NEW x \in 0 .. n - 1
    PROVE  x % n = x
OBVIOUS

LEMMA ModWrap ==
    ASSUME NEW n \in Nat \ {0}, NEW x \in 0 .. n - 1
    PROVE  (x + n) % n = x
OBVIOUS

LEMMA ModBounds ==
    ASSUME NEW n \in Nat \ {0}, NEW x \in Nat
    PROVE  x % n \in 0 .. n - 1
OBVIOUS

LEMMA SpanPositive == Span \in Nat \ {0} /\ Last = First + Span - 1
BY SubnetAssumption DEF Span, First, Last

(* A candidate is an address of the pool (_candidate). *)
LEMMA CandidateInPool ==
    ASSUME TypeOK, NEW s \in Slot, NEW g \in Gen, NEW i \in Probes
    PROVE  Candidate(s, g, i) \in Pool
<1> DEFINE o == offset[<<s, g>>]
<1>1. o \in 0 .. Span - 1
  BY DEF TypeOK
<1>2. o + i \in Nat
  BY <1>1, SpanPositive DEF Probes
<1> HIDE DEF o
<1>3. (o + i) % Span \in 0 .. Span - 1
  BY <1>2, SpanPositive, ModBounds
<1>4. First + ((o + i) % Span) \in First .. Last
  BY <1>3, SpanPositive DEF First
<1> QED
  BY <1>4 DEF Candidate, Pool, o

(* The probes of one call reach every address of the pool (line 64). *)
LEMMA ProbesCoverPool ==
    ASSUME TypeOK, NEW s \in Slot, NEW g \in Gen, NEW a \in Pool
    PROVE  \E i \in Probes : Candidate(s, g, i) = a
<1> DEFINE o == offset[<<s, g>>]
           d == a - First
<1>1. o \in 0 .. Span - 1
  BY DEF TypeOK
<1>2. d \in 0 .. Span - 1 /\ First + d = a
  BY SpanPositive DEF Pool, First
<1> HIDE DEF o, d
<1>3. CASE o <= d
  <2>1. d - o \in Probes /\ o + (d - o) = d
    BY <1>1, <1>2, <1>3, SpanPositive DEF Probes
  <2>2. (o + (d - o)) % Span = d
    BY <2>1, <1>2, SpanPositive, ModIdentity
  <2>3. Candidate(s, g, d - o) = a
    BY <2>2, <1>2 DEF Candidate, o
  <2> QED
    BY <2>1, <2>3
<1>4. CASE d < o
  <2>1. (d - o) + Span \in Probes /\ o + ((d - o) + Span) = d + Span
    BY <1>1, <1>2, <1>4, SpanPositive DEF Probes
  <2>2. (o + ((d - o) + Span)) % Span = d
    BY <2>1, <1>2, SpanPositive, ModWrap
  <2>3. Candidate(s, g, (d - o) + Span) = a
    BY <2>2, <1>2 DEF Candidate, o
  <2> QED
    BY <2>1, <2>3
<1> QED
  BY <1>1, <1>2, <1>3, <1>4, SpanPositive

-----------------------------------------------------------------------------
(* Types.                                                                  *)

LEMMA TableFacts ==
    /\ NoLease \notin Lease
    /\ EmptyTable \in Table
    /\ \A t \in Table : Full(t) \in File
    /\ Absent \in File /\ Truncated \in File
BY DEF NoLease, Lease, Pool, First, EmptyTable, Table, Full, File, Absent, Truncated

LEMMA NextGenType ==
    ASSUME NEW t \in Table, NEW s \in Slot
    PROVE  NextGen(t, s) \in Nat
BY GenAssumption, TableFacts DEF NextGen, Table, Lease, NoLease, Gen

LEMMA EndedType ==
    ASSUME TypeOK, NEW p \in Proc, Ended(p)
    PROVE  /\ pc' \in [Proc -> Control]
           /\ op' \in [Proc -> {"allocate", "rotate", "release"}]
           /\ snap' \in [Proc -> Table]
BY TableFacts DEF TypeOK, Ended, Control

(* The lease a choice saves is well-formed. *)
LEMMA NewLeaseType ==
    ASSUME TypeOK, NEW t \in Table, NEW s \in Slot, NEW i \in Probes,
           NextGen(t, s) \in Gen
    PROVE  NewLease(t, s, i) \in Lease
BY CandidateInPool DEF NewLease, Lease

(* Every step of every process, killed ones included, keeps the lease file, *)
(* the temporary file and each process's copy of the table well-formed.     *)
THEOREM TypeCorrect == Spec => []TypeOK
<1>1. Init => TypeOK
  BY TableFacts, GenAssumption, KillsAssumption DEF Init, TypeOK, Control, Gen
<1>2. TypeOK /\ [Next]_vars => TypeOK'
  <2> SUFFICES ASSUME TypeOK, [Next]_vars
               PROVE  TypeOK'
    OBVIOUS
  <2> USE TableFacts
  <2>1. ASSUME NEW p \in Proc, Call(p) PROVE TypeOK'
    BY <2>1, GenAssumption, OpsAssumption DEF Call, TypeOK, Control, Gen
  <2>2. ASSUME NEW p \in Proc, LoadTable(p) PROVE TypeOK'
    BY <2>2, EndedType DEF LoadTable, TypeOK, Control, File
  <2>3. ASSUME NEW p \in Proc, KeepLease(p) PROVE TypeOK'
    BY <2>3 DEF KeepLease, TypeOK, Control
  <2>4. ASSUME NEW p \in Proc, Choose(p) PROVE TypeOK'
    <3>1. PICK i \in Probes :
              snap' = [snap EXCEPT ![p][slot[p]] = NewLease(snap[p], slot[p], i)]
      BY <2>4 DEF Choose, FreeProbes
    <3>2. NewLease(snap[p], slot[p], i) \in Lease
      BY <2>4, NewLeaseType DEF Choose, TypeOK
    <3>3. snap' \in [Proc -> Table]
      BY <3>1, <3>2 DEF TypeOK, Table
    <3> QED
      BY <2>4, <3>3 DEF Choose, TypeOK, Control
  <2>5. ASSUME NEW p \in Proc, NoFreeAddress(p) PROVE TypeOK'
    BY <2>5 DEF NoFreeAddress, TypeOK, Control
  <2>6. ASSUME NEW p \in Proc, Release(p) PROVE TypeOK'
    <3>1. held' \in [Slot -> Pool \cup {0}]
      BY <2>6 DEF Release, TypeOK
    <3>2. CASE snap[p][slot[p]] # NoLease
      <4>1. [snap[p] EXCEPT ![slot[p]] = NoLease] \in Table
        BY DEF TypeOK, Table
      <4>2. snap' \in [Proc -> Table]
        BY <2>6, <3>2, <4>1 DEF Release, TypeOK
      <4>3. pc' \in [Proc -> Control]
        BY <2>6, <3>2 DEF Release, TypeOK, Control
      <4> QED
        BY <2>6, <3>1, <3>2, <4>2, <4>3 DEF Release, TypeOK
    <3>3. CASE snap[p][slot[p]] = NoLease
      BY <2>6, <3>1, <3>3, EndedType DEF Release, TypeOK
    <3> QED
      BY <3>2, <3>3
  <2>7. ASSUME NEW p \in Proc, OpenTmp(p) PROVE TypeOK'
    BY <2>7 DEF OpenTmp, TypeOK, Control
  <2>8. ASSUME NEW p \in Proc, WriteTmp(p) PROVE TypeOK'
    BY <2>8 DEF WriteTmp, TypeOK, Control
  <2>9. ASSUME NEW p \in Proc, Replace(p) PROVE TypeOK'
    <3>1. CASE tmp.kind = "absent"
      BY <2>9, <3>1, EndedType DEF Replace, TypeOK
    <3>2. CASE tmp.kind # "absent"
      <4>1. fd' \in [Proc -> {"none", "tmp", "leases", "unlinked"}]
        BY <2>9, <3>2 DEF Replace, TypeOK, AfterRename
      <4>2. leases' \in File /\ tmp' \in File
        BY <2>9, <3>2 DEF Replace, TypeOK
      <4>3. CASE op[p] = "release"
        BY <2>9, <3>2, <4>1, <4>2, <4>3, EndedType DEF Replace, TypeOK
      <4>4. CASE op[p] # "release"
        BY <2>9, <3>2, <4>1, <4>2, <4>4 DEF Replace, TypeOK, Control
      <4> QED
        BY <4>3, <4>4
    <3> QED
      BY <3>1, <3>2
  <2>10. ASSUME NEW p \in Proc, Return(p) PROVE TypeOK'
    BY <2>10, EndedType DEF Return, TypeOK, Table, Lease, NoLease
  <2>11. ASSUME NEW p \in Proc, Raise(p) PROVE TypeOK'
    BY <2>11, EndedType DEF Raise, TypeOK
  <2>12. ASSUME NEW p \in Proc, Kill(p) PROVE TypeOK'
    BY <2>12, EndedType, KillsAssumption DEF Kill, TypeOK
  <2>13. CASE UNCHANGED vars
    BY <2>13 DEF vars, TypeOK
  <2> QED
    BY <2>1, <2>2, <2>3, <2>4, <2>5, <2>6, <2>7, <2>8, <2>9, <2>10, <2>11,
       <2>12, <2>13 DEF Next, Step
<1> QED
  BY <1>1, <1>2, PTL DEF Spec

-----------------------------------------------------------------------------
(***************************************************************************)
(* The lease file.  Every table anywhere, in the file, in the temporary    *)
(* file or in the memory of a process, is sound: a process saves a table   *)
(* it loaded, changed in one slot to an address the loaded table did not   *)
(* use, so that the soundness of one does not depend on the others.        *)
(***************************************************************************)
TablesSound ==
    /\ TableSound(leases.table)
    /\ TableSound(tmp.table)
    /\ \A p \in Proc : TableSound(snap[p])

LEMMA EmptyTableSound ==
    /\ TableSound(EmptyTable) /\ TableSound(Absent.table)
    /\ TableSound(Truncated.table)
    /\ \A t : Full(t).table = t
BY DEF TableSound, EmptyTable, Absent, Truncated, Full

(* The new lease of a slot keeps a sound table sound. *)
LEMMA NewLeaseSound ==
    ASSUME TypeOK, NEW t \in Table, TableSound(t), NEW s \in Slot, NextGen(t, s) \in Gen,
           NEW rotate \in BOOLEAN, NEW i \in FreeProbes(t, s, rotate)
    PROVE  TableSound([t EXCEPT ![s] = NewLease(t, s, i)])
<1> DEFINE a == Candidate(s, NextGen(t, s), i)
           u == [t EXCEPT ![s] = NewLease(t, s, i)]
<1>1. i \in Probes /\ Acceptable(t, s, rotate, a)
  BY DEF FreeProbes
<1>2. a \in Pool \ {Gateway}
  BY <1>1, CandidateInPool DEF Acceptable
<1>3. NewLease(t, s, i).address = a
  BY DEF NewLease
<1>4. u[s].address = a /\ \A x \in Slot \ {s} : u[x] = t[x]
  BY <1>3 DEF Table
<1>5. \A x \in Slot \ {s} : t[x] # NoLease => t[x].address # a
  BY <1>1 DEF Acceptable, Used
<1> HIDE DEF u, a
<1>6. \A x \in Slot : u[x] # NoLease => u[x].address \in Pool \ {Gateway}
  BY <1>2, <1>4 DEF TableSound
<1>7. ASSUME NEW x \in Slot, NEW y \in Slot, x # y, u[x] # NoLease, u[y] # NoLease
      PROVE  u[x].address # u[y].address
  <2>1. CASE x = s
    BY <2>1, <1>4, <1>5, <1>7
  <2>2. CASE y = s
    BY <2>2, <1>4, <1>5, <1>7
  <2>3. CASE x # s /\ y # s
    BY <2>3, <1>4, <1>7 DEF TableSound
  <2> QED
    BY <2>1, <2>2, <2>3
<1>8. TableSound(u)
  BY <1>6, <1>7 DEF TableSound
<1> QED
  BY <1>8 DEF u

LEMMA EndedSound ==
    ASSUME TypeOK, TablesSound, NEW p \in Proc, Ended(p)
    PROVE  \A q \in Proc : TableSound(snap'[q])
BY EmptyTableSound DEF TypeOK, TablesSound, Ended

(* leases.json never holds a duplicated or a reserved address, however     *)
(* many commands run at the same time and wherever they are killed.        *)
THEOREM LeaseFileAlwaysSound == Spec => []LeaseFileSound
<1>1. Init => TablesSound
  BY EmptyTableSound DEF Init, TablesSound
<1>2. TypeOK /\ TablesSound /\ [Next]_vars => TablesSound'
  <2> SUFFICES ASSUME TypeOK, TablesSound, [Next]_vars
               PROVE  TablesSound'
    OBVIOUS
  <2> USE DEF TypeOK
  <2>1. ASSUME NEW p \in Proc, Call(p) PROVE TablesSound'
    BY <2>1 DEF Call, TablesSound, TableSound
  <2>2. ASSUME NEW p \in Proc, LoadTable(p) PROVE TablesSound'
    BY <2>2, EndedSound DEF LoadTable, TablesSound
  <2>3. ASSUME NEW p \in Proc, KeepLease(p) PROVE TablesSound'
    BY <2>3 DEF KeepLease, TablesSound
  <2>4. ASSUME NEW p \in Proc, Choose(p) PROVE TablesSound'
    <3>1. PICK i \in FreeProbes(snap[p], slot[p], Rotating(p)) :
              snap' = [snap EXCEPT ![p][slot[p]] = NewLease(snap[p], slot[p], i)]
      BY <2>4 DEF Choose
    <3>2. TableSound([snap[p] EXCEPT ![slot[p]] = NewLease(snap[p], slot[p], i)])
      BY <2>4, NewLeaseSound DEF Choose, TablesSound, Rotating
    <3>3. \A q \in Proc : TableSound(snap'[q])
      BY <3>1, <3>2 DEF TablesSound
    <3> QED
      BY <2>4, <3>3 DEF Choose, TablesSound
  <2>5. ASSUME NEW p \in Proc, NoFreeAddress(p) PROVE TablesSound'
    BY <2>5 DEF NoFreeAddress, TablesSound
  <2>6. ASSUME NEW p \in Proc, Release(p) PROVE TablesSound'
    <3>1. CASE snap[p][slot[p]] # NoLease
      <4>1. TableSound([snap[p] EXCEPT ![slot[p]] = NoLease])
        BY DEF TablesSound, TableSound, Table
      <4> QED
        BY <2>6, <3>1, <4>1 DEF Release, TablesSound
    <3>2. CASE snap[p][slot[p]] = NoLease
      BY <2>6, <3>2, EndedSound DEF Release, TablesSound
    <3> QED
      BY <3>1, <3>2
  <2>7. ASSUME NEW p \in Proc, OpenTmp(p) PROVE TablesSound'
    BY <2>7, EmptyTableSound DEF OpenTmp, TablesSound
  <2>8. ASSUME NEW p \in Proc, WriteTmp(p) PROVE TablesSound'
    BY <2>8, EmptyTableSound DEF WriteTmp, TablesSound
  <2>9. ASSUME NEW p \in Proc, Replace(p) PROVE TablesSound'
    BY <2>9, EmptyTableSound, EndedSound DEF Replace, TablesSound
  <2>10. ASSUME NEW p \in Proc, Return(p) PROVE TablesSound'
    BY <2>10, EndedSound DEF Return, TablesSound
  <2>11. ASSUME NEW p \in Proc, Raise(p) PROVE TablesSound'
    BY <2>11, EndedSound DEF Raise, TablesSound
  <2>12. ASSUME NEW p \in Proc, Kill(p) PROVE TablesSound'
    BY <2>12, EndedSound DEF Kill, TablesSound
  <2>13. CASE UNCHANGED vars
    BY <2>13 DEF vars, TablesSound
  <2> QED
    BY <2>1, <2>2, <2>3, <2>4, <2>5, <2>6, <2>7, <2>8, <2>9, <2>10, <2>11,
       <2>12, <2>13 DEF Next, Step
<1>3. TablesSound => LeaseFileSound
  BY DEF TablesSound, LeaseFileSound
<1> QED
  BY <1>1, <1>2, <1>3, TypeCorrect, PTL DEF Spec

-----------------------------------------------------------------------------
(* A process that gives up found no acceptable probe, in a table that       *)
(* nobody changes under it.                                                 *)
ExhaustedMeansNoProbe ==
    \A p \in Proc : pc[p] = "exhausted" =>
        /\ NextGen(snap[p], slot[p]) \in Gen
        /\ FreeProbes(snap[p], slot[p], Rotating(p)) = {}

(* "no free address is available" is raised only when every address of the *)
(* pool is the gateway, another slot's or the one rotated away.            *)
THEOREM NeverGivesUpEarly == Spec => []GivesUpOnlyWhenFull
<1>1. Init => ExhaustedMeansNoProbe
  BY DEF Init, ExhaustedMeansNoProbe
<1>2. TypeOK /\ ExhaustedMeansNoProbe /\ [Next]_vars => ExhaustedMeansNoProbe'
  <2> SUFFICES ASSUME TypeOK, ExhaustedMeansNoProbe, [Next]_vars,
                      NEW q \in Proc, pc'[q] = "exhausted"
               PROVE  /\ NextGen(snap'[q], slot'[q]) \in Gen
                      /\ FreeProbes(snap[q], slot[q], Rotating(q))' = {}
    BY DEF ExhaustedMeansNoProbe
  <2>1. offset' = offset
    BY DEF Next, Step, vars, Call, LoadTable, KeepLease, Choose, NoFreeAddress, Release,
           OpenTmp, WriteTmp, Replace, Return, Raise, Kill
  <2>a. ASSUME snap'[q] = snap[q], slot'[q] = slot[q], op'[q] = op[q]
        PROVE  /\ NextGen(snap[q], slot[q])' = NextGen(snap[q], slot[q])
               /\ FreeProbes(snap[q], slot[q], Rotating(q))'
                    = FreeProbes(snap[q], slot[q], Rotating(q))
    BY <2>1, <2>a DEF FreeProbes, Candidate, Rotating
  <2>2. \/ /\ pc[q] = "exhausted" /\ snap'[q] = snap[q] /\ slot'[q] = slot[q]
           /\ op'[q] = op[q]
        \/ /\ NoFreeAddress(q)
    <3>1. CASE UNCHANGED vars
      BY <3>1 DEF vars
    <3>2. ASSUME NEW p \in Proc, Call(p) \/ Step(p) \/ Kill(p), p # q
          PROVE  pc[q] = "exhausted" /\ snap'[q] = snap[q] /\ slot'[q] = slot[q]
                 /\ op'[q] = op[q]
      BY <3>2 DEF TypeOK, Step, Call, LoadTable, KeepLease, Choose, NoFreeAddress, Release,
           OpenTmp, WriteTmp, Replace, Return, Raise, Kill, Ended
    <3>3. ASSUME Call(q) \/ Step(q) \/ Kill(q), ~ NoFreeAddress(q)
          PROVE  FALSE
      BY <3>3 DEF TypeOK, Step, Call, LoadTable, KeepLease, Choose, Release,
           OpenTmp, WriteTmp, Replace, Return, Raise, Kill, Ended
    <3> QED
      BY <3>1, <3>2, <3>3 DEF Next
  <2>3. CASE pc[q] = "exhausted" /\ snap'[q] = snap[q] /\ slot'[q] = slot[q]
             /\ op'[q] = op[q]
    BY <2>1, <2>3, <2>a DEF ExhaustedMeansNoProbe
  <2>4. CASE NoFreeAddress(q)
    BY <2>1, <2>4, <2>a DEF NoFreeAddress
  <2> QED
    BY <2>2, <2>3, <2>4
<1>3. TypeOK /\ ExhaustedMeansNoProbe => GivesUpOnlyWhenFull
  <2> SUFFICES ASSUME TypeOK, ExhaustedMeansNoProbe, NEW p \in Proc,
                      pc[p] = "exhausted", NEW a \in Pool,
                      Acceptable(snap[p], slot[p], Rotating(p), a)
               PROVE  FALSE
    BY DEF GivesUpOnlyWhenFull
  <2>1. slot[p] \in Slot /\ NextGen(snap[p], slot[p]) \in Gen
    BY DEF TypeOK, ExhaustedMeansNoProbe
  <2>2. PICK i \in Probes : Candidate(slot[p], NextGen(snap[p], slot[p]), i) = a
    BY <2>1, ProbesCoverPool
  <2>3. i \in FreeProbes(snap[p], slot[p], Rotating(p))
    BY <2>2 DEF FreeProbes
  <2> QED
    BY <2>3 DEF ExhaustedMeansNoProbe
<1> QED
  BY <1>1, <1>2, <1>3, TypeCorrect, PTL DEF Spec

-----------------------------------------------------------------------------
(***************************************************************************)
(* With one CLI process at a time, wherever processes are killed: the      *)
(* lease file is the abstract table of module LeaseTable, no two endpoints *)
(* have the same address, and rotations move endpoints.                    *)
(***************************************************************************)
OneProcess == \A p, q \in Proc : p = q

(* A change of one slot that the abstract table allows. *)
FreeIn(t, s) ==
    {a \in Pool \ {Gateway} : \A x \in Slot \ {s} : t[x] = NoLease \/ t[x].address # a}

Granted(t, u, s, a, g) == u = [t EXCEPT ![s] = [address |-> a, generation |-> g]]

Allocated(t, u, s) == t[s] = NoLease /\ \E a \in FreeIn(t, s) : Granted(t, u, s, a, 0)

Rotated(t, u, s) ==
    /\ t[s] # NoLease
    /\ \E a \in FreeIn(t, s) \ {t[s].address} : Granted(t, u, s, a, t[s].generation + 1)

Released(t, u, s) == t[s] # NoLease /\ u = [t EXCEPT ![s] = NoLease]

Allowed(t, u, s) == Allocated(t, u, s) \/ Rotated(t, u, s) \/ Released(t, u, s)

(* The choice of allocate is a change the table allows. *)
LEMMA ChoiceAllowed ==
    ASSUME TypeOK, NEW t \in Table, NEW s \in Slot, NEW rotate \in BOOLEAN,
           rotate \/ t[s] = NoLease, NextGen(t, s) \in Gen,
           NEW i \in FreeProbes(t, s, rotate)
    PROVE  LET u == [t EXCEPT ![s] = NewLease(t, s, i)]
           IN  /\ Allocated(t, u, s) \/ Rotated(t, u, s)
               /\ u[s] # NoLease
<1> DEFINE a == Candidate(s, NextGen(t, s), i)
           u == [t EXCEPT ![s] = NewLease(t, s, i)]
<1>1. i \in Probes /\ Acceptable(t, s, rotate, a)
  BY DEF FreeProbes
<1>2. a \in Pool \ {Gateway}
  BY <1>1, CandidateInPool DEF Acceptable
<1>3. a \in FreeIn(t, s)
  BY <1>1, <1>2 DEF Acceptable, Used, FreeIn
<1>4. NewLease(t, s, i) = [address |-> a, generation |-> NextGen(t, s)]
  BY DEF NewLease
<1>5. Granted(t, u, s, a, NextGen(t, s))
  BY <1>4 DEF Granted
<1>6. u[s] # NoLease
  BY <1>4, <1>2, TableFacts DEF Table, NoLease, Pool, First
<1> HIDE DEF a, u
<1>7. CASE t[s] = NoLease
  BY <1>3, <1>5, <1>6, <1>7 DEF Allocated, NextGen, u
<1>8. CASE t[s] # NoLease
  <2>1. a # t[s].address
    BY <1>1, <1>8 DEF Acceptable
  <2> QED
    BY <2>1, <1>3, <1>5, <1>6, <1>8 DEF Rotated, NextGen, u
<1> QED
  BY <1>7, <1>8

(***************************************************************************)
(* The process works on the table the file holds: what it loaded is what   *)
(* is there, what it is to save is an allowed change of it, and the        *)
(* temporary file is its own.  No other process comes in between.          *)
(***************************************************************************)
Current(step, o, s, t, f, table, file) ==
    /\ step = "choose" => t = table
    /\ step \in {"open", "write", "replace"} =>
          /\ Allowed(table, t, s)
          /\ o # "release" => t[s] # NoLease
    /\ step = "write" => f = "tmp"
    /\ step = "replace" => file = Full(t)
    /\ step = "return" => t = table /\ t[s] # NoLease

Alone ==
    /\ leases.kind # "truncated"
    /\ \A p \in Proc : Current(pc[p], op[p], slot[p], snap[p], fd[p], leases.table, tmp)

LEMMA IdleCurrent ==
    ASSUME NEW o, NEW s, NEW t, NEW f, NEW table, NEW file
    PROVE  /\ Current("idle", o, s, t, f, table, file)
           /\ Current("load", o, s, t, f, table, file)
           /\ Current("exhausted", o, s, t, f, table, file)
BY DEF Current

LEMMA EndedCurrent ==
    ASSUME TypeOK, NEW p \in Proc, Ended(p)
    PROVE  pc'[p] = "idle"
BY DEF TypeOK, Ended

LEMMA FullKind == \A t : Full(t).kind = "full" /\ Full(t).table = t
BY DEF Full

LEMMA StepKeepsAlone ==
    ASSUME OneProcess, TypeOK, Alone, [Next]_vars
    PROVE  /\ Alone'
           /\ \/ leases' = leases
              \/ \E s \in Slot : Allowed(leases.table, leases'.table, s)
<1> DEFINE CurrentOf(p) ==
             Current(pc[p], op[p], slot[p], snap[p], fd[p], leases.table, tmp)
<1>0. CASE UNCHANGED vars
  BY <1>0 DEF vars, Alone
<1>1. ASSUME NEW p \in Proc, Call(p) \/ Step(p) \/ Kill(p)
      PROVE  /\ Alone'
             /\ \/ leases' = leases
                \/ \E s \in Slot : Allowed(leases.table, leases'.table, s)
  <2>0. CurrentOf(p) /\ leases.kind # "truncated" /\ slot[p] \in Slot /\ snap[p] \in Table
    BY DEF Alone, TypeOK
  <2>a. ASSUME CurrentOf(p)', leases'.kind # "truncated" PROVE Alone'
    BY <2>a DEF OneProcess, Alone
  <2>1. CASE Call(p)
    <3>1. pc'[p] = "load" /\ leases' = leases
      BY <2>1 DEF Call, TypeOK
    <3> QED
      BY <3>1, <2>0, <2>a, IdleCurrent
  <2>2. CASE LoadTable(p)
    <3>1. leases' = leases /\ pc'[p] = "choose" /\ snap'[p] = leases.table
      BY <2>2, <2>0 DEF LoadTable, TypeOK
    <3>2. CurrentOf(p)'
      BY <3>1 DEF Current
    <3> QED
      BY <3>1, <3>2, <2>0, <2>a
  <2>3. CASE KeepLease(p)
    <3>1. leases' = leases /\ pc'[p] = "return" /\ UNCHANGED <<snap, slot, tmp, op, fd>>
          /\ pc[p] = "choose" /\ snap[p][slot[p]] # NoLease
      BY <2>3 DEF KeepLease, TypeOK
    <3>2. CurrentOf(p)'
      BY <3>1, <2>0 DEF Current
    <3> QED
      BY <3>1, <3>2, <2>0, <2>a
  <2>4. CASE Choose(p)
    <3>1. PICK i \in FreeProbes(snap[p], slot[p], Rotating(p)) :
              snap' = [snap EXCEPT ![p][slot[p]] = NewLease(snap[p], slot[p], i)]
      BY <2>4 DEF Choose
    <3>2. leases' = leases /\ pc'[p] = "open" /\ UNCHANGED <<slot, tmp, op, fd>>
          /\ pc[p] = "choose" /\ NextGen(snap[p], slot[p]) \in Gen
          /\ (Rotating(p) \/ snap[p][slot[p]] = NoLease) /\ Rotating(p) \in BOOLEAN
      BY <2>4 DEF Choose, TypeOK, Rotating
    <3> DEFINE u == [snap[p] EXCEPT ![slot[p]] = NewLease(snap[p], slot[p], i)]
    <3>3. snap'[p] = u
      BY <3>1 DEF TypeOK
    <3>4. (Allocated(snap[p], u, slot[p]) \/ Rotated(snap[p], u, slot[p]))
          /\ u[slot[p]] # NoLease
      BY <3>2, <2>0, ChoiceAllowed
    <3>5. snap[p] = leases.table
      BY <3>2, <2>0 DEF Current
    <3> HIDE DEF u
    <3>6. CurrentOf(p)'
      BY <3>2, <3>3, <3>4, <3>5 DEF Current, Allowed
    <3> QED
      BY <3>2, <3>6, <2>0, <2>a
  <2>5. CASE NoFreeAddress(p)
    <3>1. pc'[p] = "exhausted" /\ leases' = leases
      BY <2>5 DEF NoFreeAddress, TypeOK
    <3> QED
      BY <3>1, <2>0, <2>a, IdleCurrent
  <2>6. CASE Release(p)
    <3>0. leases' = leases
      BY <2>6 DEF Release
    <3>1. CASE snap[p][slot[p]] = NoLease
      <4>1. pc'[p] = "idle"
        BY <2>6, <3>1, EndedCurrent DEF Release
      <4> QED
        BY <3>0, <4>1, <2>0, <2>a, IdleCurrent
    <3>2. CASE snap[p][slot[p]] # NoLease
      <4> DEFINE u == [snap[p] EXCEPT ![slot[p]] = NoLease]
      <4>1. snap'[p] = u /\ pc'[p] = "open" /\ UNCHANGED <<slot, op>>
            /\ pc[p] = "choose" /\ op[p] = "release"
        BY <2>6, <3>2 DEF Release, TypeOK
      <4>2. snap[p] = leases.table
        BY <4>1, <2>0 DEF Current
      <4>3. Allowed(leases.table, u, slot[p])
        BY <4>2, <3>2 DEF Allowed, Released
      <4> HIDE DEF u
      <4>4. CurrentOf(p)'
        BY <3>0, <4>1, <4>3 DEF Current
      <4> QED
        BY <3>0, <4>4, <2>0, <2>a
    <3> QED
      BY <3>1, <3>2
  <2>7. CASE OpenTmp(p)
    <3>1. leases' = leases /\ pc'[p] = "write" /\ fd'[p] = "tmp"
          /\ UNCHANGED <<slot, op, snap>> /\ pc[p] = "open"
      BY <2>7 DEF OpenTmp, TypeOK
    <3>2. CurrentOf(p)'
      BY <3>1, <2>0 DEF Current
    <3> QED
      BY <3>1, <3>2, <2>0, <2>a
  <2>8. CASE WriteTmp(p)
    <3>1. fd[p] = "tmp" /\ pc[p] = "write"
      BY <2>8, <2>0 DEF WriteTmp, Current
    <3>2. leases' = leases /\ pc'[p] = "replace" /\ tmp' = Full(snap[p])
          /\ UNCHANGED <<slot, op, snap>>
      BY <2>8, <3>1 DEF WriteTmp, TypeOK
    <3>3. CurrentOf(p)'
      BY <3>1, <3>2, <2>0 DEF Current
    <3> QED
      BY <3>2, <3>3, <2>0, <2>a
  <2>9. CASE Replace(p)
    <3>1. tmp = Full(snap[p]) /\ pc[p] = "replace" /\ Allowed(leases.table, snap[p], slot[p])
          /\ (op[p] # "release" => snap[p][slot[p]] # NoLease)
      BY <2>9, <2>0 DEF Replace, Current
    <3>2. leases' = tmp /\ slot' = slot /\ tmp.kind # "absent"
      BY <2>9, <3>1, FullKind DEF Replace
    <3>3. leases'.table = snap[p] /\ leases'.kind # "truncated"
      BY <3>1, <3>2, FullKind
    <3>4. CurrentOf(p)'
      <4>1. CASE op[p] = "release"
        <5>1. pc'[p] = "idle"
          BY <2>9, <3>2, <4>1, EndedCurrent DEF Replace
        <5> QED
          BY <5>1, IdleCurrent
      <4>2. CASE op[p] # "release"
        <5>1. pc'[p] = "return" /\ snap' = snap
          BY <2>9, <3>2, <4>2 DEF Replace, TypeOK
        <5> QED
          BY <5>1, <3>1, <3>2, <3>3, <4>2 DEF Current
      <4> QED
        BY <4>1, <4>2
    <3> QED
      BY <3>1, <3>3, <3>4, <2>0, <2>a
  <2>10. CASE Return(p) \/ Raise(p) \/ Kill(p)
    <3>1. pc'[p] = "idle" /\ leases' = leases
      BY <2>10, EndedCurrent DEF Return, Raise, Kill
    <3> QED
      BY <3>1, <2>0, <2>a, IdleCurrent
  <2> QED
    BY <1>1, <2>1, <2>2, <2>3, <2>4, <2>5, <2>6, <2>7, <2>8, <2>9, <2>10 DEF Step
<1> QED
  BY <1>0, <1>1 DEF Next

LEMMA InitAlone == Init => Alone
BY DEF Init, Alone, Current, Absent

(* With one process at a time, killed wherever it may be, leases.json is   *)
(* the abstract table (lease_manager.py, atomic_write_text).               *)
THEOREM OneProcessImplementsTable ==
    ASSUME OneProcess
    PROVE  Spec => ImplementsTable
<1>1. Init => Leases!Init
  BY DEF Init, Leases!Init, Absent, EmptyTable, NoLease, Leases!NoLease
<1>2. TypeOK /\ Alone /\ [Next]_vars => [Leases!Next]_(leases.table)
  <2> SUFFICES ASSUME TypeOK, Alone, [Next]_vars, NEW s \in Slot,
                      Allowed(leases.table, leases'.table, s)
               PROVE  Leases!Next
    BY StepKeepsAlone
  <2> USE DEF NoLease, Leases!NoLease
  <2>1. FreeIn(leases.table, s) = Leases!Free(s)
    BY DEF FreeIn, Leases!Free
  <2>2. Leases!Allocate(s) \/ Leases!Rotate(s) \/ Leases!Release(s)
    BY <2>1 DEF Allowed, Allocated, Rotated, Released, Granted,
       Leases!Allocate, Leases!Rotate, Leases!Release, Leases!Gets
  <2> QED
    BY <2>2 DEF Leases!Next
<1>3. TypeOK /\ Alone /\ [Next]_vars => Alone'
  BY StepKeepsAlone
<1> QED
  BY <1>1, <1>2, <1>3, InitAlone, TypeCorrect, PTL DEF Spec, ImplementsTable, Leases!Spec

-----------------------------------------------------------------------------
(***************************************************************************)
(* An endpoint has the address the file gives its slot, or its slot is the *)
(* one whose new lease is saved and not yet returned; a release takes the  *)
(* endpoint's address away before it takes the lease.                      *)
(***************************************************************************)
Held(s) ==
    held[s] # 0 =>
        /\ leases.table[s] # NoLease
        /\ \/ leases.table[s].address = held[s]
           \/ \E p \in Proc : pc[p] = "return" /\ slot[p] = s

Saving(p) == pc[p] \in {"open", "write", "replace"}

Served ==
    kills = 0 =>
        /\ \A s \in Slot : Held(s)
        /\ \A p \in Proc : Saving(p) /\ op[p] = "release" => held[slot[p]] = 0
        /\ \A s, x \in Slot : s # x /\ held[s] # 0 => held[s] # held[x]

LEMMA StepKeepsServed ==
    ASSUME OneProcess, TypeOK, Alone, LeaseFileSound, Served, [Next]_vars
    PROVE  Served'
<1>0. CASE UNCHANGED vars
  BY <1>0 DEF vars, Served, Held, Saving
<1>1. ASSUME NEW p \in Proc, Call(p) \/ Step(p)
      PROVE  Served'
  <2> SUFFICES ASSUME kills = 0, kills' = 0
               PROVE  Served'
    BY <1>1 DEF Served, Step, Call, LoadTable, KeepLease, Choose, NoFreeAddress, Release,
       OpenTmp, WriteTmp, Replace, Return, Raise
  <2>0. /\ \A q \in Proc : q = p
        /\ slot[p] \in Slot /\ \A s \in Slot : Held(s)
        /\ Saving(p) /\ op[p] = "release" => held[slot[p]] = 0
        /\ \A s, x \in Slot : s # x /\ held[s] # 0 => held[s] # held[x]
        /\ Current(pc[p], op[p], slot[p], snap[p], fd[p], leases.table, tmp)
    BY DEF OneProcess, Served, Alone, TypeOK
  (* A step that gives no address and changes no lease. *)
  <2>a. ASSUME UNCHANGED <<leases, held>>, pc[p] # "return",
               Saving(p)' /\ op'[p] = "release" => held[slot'[p]] = 0
        PROVE  Served'
    BY <2>a, <2>0 DEF Served, Held
  <2>1. CASE Call(p)
    <3>1. pc[p] = "idle" /\ pc'[p] = "load" /\ UNCHANGED <<leases, held>>
      BY <2>1 DEF Call, TypeOK
    <3> QED
      BY <3>1, <2>a DEF Saving
  <2>2. CASE LoadTable(p)
    <3>1. pc[p] = "load" /\ pc'[p] = "choose" /\ UNCHANGED <<leases, held>>
      BY <2>2 DEF LoadTable, TypeOK, Alone
    <3> QED
      BY <3>1, <2>a DEF Saving
  <2>3. CASE KeepLease(p) \/ NoFreeAddress(p)
    <3>1. pc[p] = "choose" /\ pc'[p] \in {"return", "exhausted"}
          /\ UNCHANGED <<leases, held>>
      BY <2>3 DEF KeepLease, NoFreeAddress, TypeOK
    <3> QED
      BY <3>1, <2>a DEF Saving
  <2>4. CASE Choose(p)
    <3>1. pc[p] = "choose" /\ op[p] # "release" /\ UNCHANGED <<leases, held, op>>
      BY <2>4 DEF Choose
    <3> QED
      BY <3>1, <2>a
  <2>5. CASE Release(p)
    <3>1. /\ pc[p] = "choose" /\ leases' = leases /\ slot' = slot
          /\ held'[slot[p]] = 0
          /\ \A s \in Slot \ {slot[p]} : held'[s] = held[s]
      BY <2>5 DEF Release, TypeOK
    <3>2. \A s \in Slot : Held(s)'
      BY <3>1, <2>0 DEF Held
    <3>3. \A s, x \in Slot : s # x /\ held'[s] # 0 => held'[s] # held'[x]
      BY <3>1, <2>0
    <3> QED
      BY <3>1, <3>2, <3>3, <2>0 DEF Served
  <2>6. CASE OpenTmp(p) \/ Raise(p)
    <3>1. /\ UNCHANGED <<leases, held>> /\ pc[p] \in {"open", "exhausted"}
          /\ pc'[p] \in {"write", "idle"}
          /\ pc[p] = "open" => UNCHANGED <<op, slot>>
          /\ pc[p] = "exhausted" => pc'[p] = "idle"
      BY <2>6, EndedCurrent DEF OpenTmp, Raise, TypeOK
    <3> QED
      BY <3>1, <2>0, <2>a DEF Saving
  <2>7. CASE WriteTmp(p)
    <3>1. fd[p] = "tmp" /\ pc[p] = "write"
      BY <2>7, <2>0 DEF WriteTmp, Current
    <3>2. UNCHANGED <<leases, held, op, slot>>
      BY <2>7, <3>1 DEF WriteTmp
    <3> QED
      BY <3>1, <3>2, <2>0, <2>a DEF Saving
  <2>8. CASE Replace(p)
    <3>1. /\ pc[p] = "replace" /\ tmp = Full(snap[p])
          /\ Allowed(leases.table, snap[p], slot[p])
          /\ op[p] # "release" => snap[p][slot[p]] # NoLease
          /\ op[p] = "release" => held[slot[p]] = 0
      BY <2>8, <2>0 DEF Replace, Current, Saving
    <3>2. /\ leases'.table = snap[p] /\ UNCHANGED <<held, slot>>
          /\ op[p] = "release" => pc'[p] = "idle"
          /\ op[p] # "release" => pc'[p] = "return"
      BY <2>8, <3>1, FullKind, EndedCurrent DEF Replace, TypeOK
    <3>3. \A s \in Slot \ {slot[p]} : leases'.table[s] = leases.table[s]
      BY <3>1, <3>2, <2>0 DEF Allowed, Allocated, Rotated, Released, Granted, TypeOK, Table, File
    <3>4. ASSUME NEW s \in Slot PROVE Held(s)'
      <4>1. CASE s # slot[p]
        BY <4>1, <3>1, <3>2, <3>3, <2>0 DEF Held
      <4>2. CASE s = slot[p]
        BY <4>2, <3>1, <3>2 DEF Held
      <4> QED
        BY <4>1, <4>2
    <3>5. ~ Saving(p)'
      BY <3>2 DEF Saving
    <3> QED
      BY <3>2, <3>4, <3>5, <2>0 DEF Served
  <2>9. CASE Return(p)
    <3> DEFINE s == slot[p]
    <3>1. /\ pc[p] = "return" /\ pc'[p] = "idle" /\ leases' = leases
          /\ held' = [held EXCEPT ![s] = snap[p][s].address]
      BY <2>9, EndedCurrent DEF Return
    <3>2. snap[p] = leases.table /\ leases.table[s] # NoLease
      BY <3>1, <2>0 DEF Current
    <3>3. /\ held'[s] = leases.table[s].address
          /\ \A x \in Slot \ {s} : held'[x] = held[x]
      BY <3>1, <3>2, <2>0 DEF TypeOK
    <3>4. \A x \in Slot \ {s} : held[x] # 0 =>
              leases.table[x] # NoLease /\ leases.table[x].address = held[x]
      BY <2>0 DEF Held
    <3>5. \A x \in Slot \ {s} : held[x] # 0 => held[x] # held'[s]
      BY <3>2, <3>3, <3>4, <2>0 DEF LeaseFileSound, TableSound
    <3>6. held'[s] # 0
      <4>1. leases.table[s].address \in Pool
        BY <3>2, <2>0 DEF LeaseFileSound, TableSound
      <4> QED
        BY <4>1, <3>3 DEF Pool, First
    <3>7. \A x \in Slot : Held(x)'
      BY <3>1, <3>2, <3>3, <3>4 DEF Held
    <3>8. \A x, y \in Slot : x # y /\ held'[x] # 0 => held'[x] # held'[y]
      BY <3>3, <3>5, <3>6, <2>0
    <3>9. ~ Saving(p)'
      BY <3>1 DEF Saving
    <3> QED
      BY <3>7, <3>8, <3>9, <2>0 DEF Served
  <2> QED
    BY <1>1, <2>1, <2>2, <2>3, <2>4, <2>5, <2>6, <2>7, <2>8, <2>9 DEF Step
<1>2. ASSUME NEW p \in Proc, Kill(p)
      PROVE  Served'
  <2>1. kills' # 0
    BY <1>2, KillsAssumption DEF Kill, TypeOK
  <2> QED
    BY <2>1 DEF Served
<1> QED
  BY <1>0, <1>1, <1>2 DEF Next

(* With one process at a time and none killed, no two endpoints have the   *)
(* same address: what an endpoint was given is what the file keeps for it. *)
THEOREM OneProcessSharesNothing ==
    ASSUME OneProcess
    PROVE  Spec => []NoSharedAddress
<1>1. Init => Served
  BY DEF Init, Served, Held, Saving
<1>2. TypeOK /\ Alone /\ LeaseFileSound /\ Served /\ [Next]_vars => Served' /\ Alone'
  BY StepKeepsServed, StepKeepsAlone
<1>3. Served => NoSharedAddress
  BY DEF Served, NoSharedAddress
<1> QED
  BY <1>1, <1>2, <1>3, InitAlone, TypeCorrect, LeaseFileAlwaysSound, PTL DEF Spec

-----------------------------------------------------------------------------
(* What a rotation has saved and not yet returned is not the address its     *)
(* endpoint has.                                                            *)
Moved ==
    kills = 0 =>
        \A p \in Proc : pc[p] = "return" /\ Rotating(p) =>
            held[slot[p]] # leases.table[slot[p]].address

(* The rename of a rotation takes the slot's lease to another address. *)
LEMMA RenameMoves ==
    ASSUME TypeOK, Alone, NEW p \in Proc, Replace(p), Rotating(p)
    PROVE  /\ leases'.table[slot[p]] # NoLease
           /\ leases.table[slot[p]] # NoLease =>
                 leases'.table[slot[p]].address # leases.table[slot[p]].address
<1> DEFINE s == slot[p]  t == leases.table
<1>1. /\ Current(pc[p], op[p], s, snap[p], fd[p], t, tmp)
      /\ pc[p] = "replace" /\ op[p] = "rotate" /\ s \in Slot /\ t \in Table
  BY DEF Alone, Replace, Rotating, TypeOK, File
<1>2. tmp = Full(snap[p]) /\ Allowed(t, snap[p], s) /\ snap[p][s] # NoLease
  BY <1>1 DEF Current
<1>3. leases'.table = snap[p]
  BY <1>2, FullKind DEF Replace
<1>4. ASSUME t[s] # NoLease PROVE snap[p][s].address # t[s].address
  <2>1. Rotated(t, snap[p], s)
    BY <1>1, <1>2, <1>4 DEF Allowed, Allocated, Released, Table
  <2>2. QED
    BY <1>1, <2>1 DEF Rotated, Granted, Table
<1>5. QED
  BY <1>2, <1>3, <1>4

LEMMA StepKeepsMoved ==
    ASSUME OneProcess, TypeOK, LeaseFileSound, LeaseFileSound', Alone, Served, Moved, [Next]_vars
    PROVE  Moved'
<1>0. CASE UNCHANGED vars
  BY <1>0 DEF vars, Moved, Rotating
<1>1. ASSUME NEW p \in Proc, Call(p) \/ Step(p) \/ Kill(p), kills = 0,
             pc'[p] = "return", op'[p] = "rotate"
      PROVE  held'[slot'[p]] # leases'.table[slot'[p]].address
  <2>1. Replace(p) /\ Rotating(p) /\ UNCHANGED <<slot, held>>
    <3>1. ~ Call(p) /\ ~ LoadTable(p) /\ ~ KeepLease(p) /\ ~ Choose(p) /\ ~ NoFreeAddress(p)
      BY <1>1 DEF Call, LoadTable, Ended, KeepLease, Choose, NoFreeAddress, TypeOK
    <3>2. ~ Release(p) /\ ~ OpenTmp(p) /\ ~ WriteTmp(p) /\ ~ Return(p) /\ ~ Raise(p) /\ ~ Kill(p)
      BY <1>1 DEF Release, Ended, OpenTmp, WriteTmp, Return, Raise, Kill, TypeOK
    <3>3. Replace(p)
      BY <1>1, <3>1, <3>2 DEF Step
    <3>4. QED
      BY <1>1, <3>3 DEF Replace, Ended, Rotating, TypeOK
  <2>2. slot[p] \in Slot /\ pc[p] = "replace" /\ \A q \in Proc : q = p
    BY <2>1 DEF TypeOK, Replace, OneProcess
  <2>3. /\ leases'.table[slot[p]] # NoLease
        /\ leases.table[slot[p]] # NoLease =>
              leases'.table[slot[p]].address # leases.table[slot[p]].address
    BY <2>1, RenameMoves
  <2>4. CASE held[slot[p]] = 0
    <3>1. leases'.table[slot[p]].address \in Pool
      BY <2>2, <2>3 DEF LeaseFileSound, TableSound
    <3>2. QED
      BY <2>1, <2>4, <3>1 DEF Pool, First
  <2>5. CASE held[slot[p]] # 0
    <3>1. leases.table[slot[p]] # NoLease /\ leases.table[slot[p]].address = held[slot[p]]
      BY <1>1, <2>2, <2>5 DEF Served, Held
    <3>2. QED
      BY <2>1, <2>3, <3>1
  <2>6. QED
    BY <2>4, <2>5
<1>2. ASSUME NEW p \in Proc, Call(p) \/ Step(p) \/ Kill(p), kills' = 0
      PROVE  kills = 0
  BY <1>2, KillsAssumption DEF Call, Step, Kill, LoadTable, KeepLease, Choose, NoFreeAddress,
     Release, OpenTmp, WriteTmp, Replace, Return, Raise, TypeOK
<1>3. ASSUME NEW p \in Proc, Call(p) \/ Step(p) \/ Kill(p)
      PROVE  Moved'
  BY <1>1, <1>2, <1>3 DEF Moved, Rotating, OneProcess
<1> QED
  BY <1>0, <1>3 DEF Next

(* With one process at a time, a rotation that is saved leaves the address   *)
(* the slot had, and the endpoint it is returned to gets another one than it *)
(* has, unless a process was killed before (allocate(rotate=True), line 67; *)
(* restart, which configures the endpoint with what it returns).            *)
THEOREM OneProcessRotationMoves ==
    ASSUME OneProcess
    PROVE  Spec => RotationMoves
<1>1. Init => Served /\ Moved
  BY DEF Init, Served, Held, Saving, Moved
<1>2. TypeOK /\ Alone /\ LeaseFileSound /\ LeaseFileSound' /\ Served /\ Moved /\ [Next]_vars
        => Alone' /\ Served' /\ Moved'
  BY StepKeepsAlone, StepKeepsServed, StepKeepsMoved
<1>3. TypeOK /\ Alone /\ Moved /\ [Next]_vars =>
        [\A p \in Proc :
           /\ Replace(p) /\ Rotating(p) /\ leases.table[slot[p]] # NoLease
                => leases'.table[slot[p]].address # leases.table[slot[p]].address
           /\ Return(p) /\ Rotating(p) /\ kills = 0
                => held'[slot[p]] # held[slot[p]]]_vars
  <2> SUFFICES ASSUME TypeOK, Alone, Moved, NEW p \in Proc
               PROVE  /\ Replace(p) /\ Rotating(p) /\ leases.table[slot[p]] # NoLease
                           => leases'.table[slot[p]].address # leases.table[slot[p]].address
                      /\ Return(p) /\ Rotating(p) /\ kills = 0
                           => held'[slot[p]] # held[slot[p]]
    OBVIOUS
  <2>1. ASSUME Return(p), Rotating(p), kills = 0
        PROVE  held'[slot[p]] # held[slot[p]]
    <3>1. pc[p] = "return" /\ held' = [held EXCEPT ![slot[p]] = snap[p][slot[p]].address]
      BY <2>1 DEF Return
    <3>2. snap[p] = leases.table
      BY <3>1 DEF Alone, Current
    <3>3. held[slot[p]] # leases.table[slot[p]].address
      BY <2>1, <3>1 DEF Moved
    <3>4. QED
      BY <3>1, <3>2, <3>3 DEF TypeOK
  <2>2. QED
    BY <2>1, RenameMoves
<1> QED
  BY <1>1, <1>2, <1>3, InitAlone, TypeCorrect, LeaseFileAlwaysSound, PTL DEF Spec, RotationMoves

=============================================================================
