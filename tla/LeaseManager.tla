---------------------------- MODULE LeaseManager ----------------------------
(***************************************************************************)
(* The persistent address leases of the Linux fleet                        *)
(* (fleet/orchestrator/lease_manager.py) and the file replacement they are *)
(* saved with (atomic_write_text, fleet/orchestrator/command.py).          *)
(*                                                                         *)
(* Every command of the fleet's CLI is an operating system process of its  *)
(* own, and nothing locks leases.json: a call of allocate is a read of the *)
(* file, a choice, and a write of leases.json.tmp followed by a rename.    *)
(* Proc is the set of CLI processes that may run at the same time.         *)
(*                                                                         *)
(* Addresses are offsets from the network address, as the code computes    *)
(* them.  The SHA-256 of "seed:slot:generation", reduced modulo the size   *)
(* of the pool, is any function from slots and generations to the pool:    *)
(* the initial states range over all of them.                              *)
(***************************************************************************)
EXTENDS Integers, FiniteSets

CONSTANTS Slot,          \* endpoint slots
          Proc,          \* CLI processes
          NumAddresses,  \* size of the subnet (network and broadcast included)
          Gateway,       \* the bridge's address
          MaxGen,        \* bound on the rotations of one slot
          Ops,           \* the calls the processes make
          MaxKills       \* bound on the processes killed in the middle of a call

ASSUME SubnetAssumption == NumAddresses \in Nat /\ NumAddresses >= 4
ASSUME GatewayAssumption == Gateway \in 0 .. NumAddresses - 1
ASSUME GenAssumption == MaxGen \in Nat
ASSUME OpsAssumption == Ops \subseteq {"allocate", "rotate", "release"}
ASSUME KillsAssumption == MaxKills \in Nat

(***************************************************************************)
(* The pool: the subnet without the network address, the address after it  *)
(* and the broadcast address.                                              *)
(***************************************************************************)
(* Definitions called Mutant... are plausible mistakes in the definition    *)
(* after them; a run under each shows that its property would notice.       *)
First == 2
Last == NumAddresses - 2
MutantSpan == NumAddresses - 2            \* counts the broadcast address
Span == NumAddresses - 3
Pool == First .. Last
Gen == 0 .. MaxGen

Lease == [address : Pool, generation : Gen]
NoLease == [address |-> 0, generation |-> 0]
Table == [Slot -> Lease \cup {NoLease}]
EmptyTable == [s \in Slot |-> NoLease]

(* What a path names: nothing, a file that was opened for writing and is   *)
(* still empty, or a complete lease table.                                 *)
Absent == [kind |-> "absent", table |-> EmptyTable]
Truncated == [kind |-> "truncated", table |-> EmptyTable]
Full(t) == [kind |-> "full", table |-> t]
File == [kind : {"absent", "truncated", "full"}, table : Table]

VARIABLES
    leases,    \* the file leases.json
    tmp,       \* the file leases.json.tmp
    offset,    \* the hash: a slot and a generation to an offset in the pool
    pc,        \* where each process is in its call
    op,        \* the call each process makes
    slot,      \* the slot it makes it for
    snap,      \* the table the process loaded, then the one it is to save
    fd,        \* where the file the process opened for writing is now
    held,      \* per slot, the address its endpoint was last given
    calls,     \* per slot, the rotations asked for
    kills      \* how many processes were killed

vars == <<leases, tmp, offset, pc, op, slot, snap, fd, held, calls, kills>>

Control == {"idle", "load", "choose", "open", "write", "replace", "return", "exhausted"}

TypeOK ==
    /\ leases \in File
    /\ tmp \in File
    /\ offset \in [Slot \X Gen -> 0 .. Span - 1]
    /\ pc \in [Proc -> Control]
    /\ op \in [Proc -> {"allocate", "rotate", "release"}]
    /\ slot \in [Proc -> Slot]
    /\ snap \in [Proc -> Table]
    /\ fd \in [Proc -> {"none", "tmp", "leases", "unlinked"}]
    /\ held \in [Slot -> Pool \cup {0}]
    /\ calls \in [Slot -> Gen]
    /\ kills \in 0 .. MaxKills

Init ==
    /\ leases = Absent
    /\ tmp = Absent
    /\ offset \in [Slot \X Gen -> 0 .. Span - 1]
    /\ pc = [p \in Proc |-> "idle"]
    /\ op \in [Proc -> {"allocate"}]
    /\ \E s \in Slot : slot = [p \in Proc |-> s]
    /\ snap = [p \in Proc |-> EmptyTable]
    /\ fd = [p \in Proc |-> "none"]
    /\ held = [s \in Slot |-> 0]
    /\ calls = [s \in Slot |-> 0]
    /\ kills = 0

-----------------------------------------------------------------------------
(* The choice of an address.                                               *)

Candidate(s, g, probe) == First + ((offset[<<s, g>>] + probe) % Span)

MutantUsed(t, s) == {t[s].address}        \* forgets the other slots
Used(t, s) == {t[x].address : x \in {y \in Slot \ {s} : t[y] # NoLease}}

(* Rotation may choose the address it is to leave. *)
MutantAcceptable(t, s, rotate, a) == a # Gateway /\ a \notin Used(t, s)

Acceptable(t, s, rotate, a) ==
    /\ a # Gateway
    /\ a \notin Used(t, s)
    /\ ~ (rotate /\ a = t[s].address)

MutantProbes == 0 .. Span - 2             \* one probe short
Probes == 0 .. Span - 1

(* The generation of a slot with a lease is not incremented. *)
MutantNextGen(t, s) == IF t[s] = NoLease THEN 0 ELSE t[s].generation

NextGen(t, s) == IF t[s] = NoLease THEN 0 ELSE t[s].generation + 1

(* The probes the loop of allocate may stop at; it stops at the first.     *)
FreeProbes(t, s, rotate) ==
    {i \in Probes : Acceptable(t, s, rotate, Candidate(s, NextGen(t, s), i))}

NewLease(t, s, i) ==
    [address |-> Candidate(s, NextGen(t, s), i), generation |-> NextGen(t, s)]

-----------------------------------------------------------------------------
(* A call of allocate(slot), allocate(slot, rotate=True) or release(slot). *)

Rotating(p) == op[p] = "rotate"

(* The process returns, raises or is killed: what it held in memory is gone. *)
Ended(p) ==
    /\ pc' = [pc EXCEPT ![p] = "idle"]
    /\ op' = [op EXCEPT ![p] = "allocate"]
    /\ snap' = [snap EXCEPT ![p] = EmptyTable]

Call(p) ==
    /\ pc[p] = "idle"
    /\ \E o \in Ops, s \in Slot :
          /\ op' = [op EXCEPT ![p] = o]
          /\ slot' = [slot EXCEPT ![p] = s]
          /\ IF o = "rotate"
             THEN /\ held[s] # 0              \* restart: of an endpoint that has one
                  /\ calls[s] < MaxGen
                  /\ calls' = [calls EXCEPT ![s] = @ + 1]
             ELSE UNCHANGED calls
    /\ pc' = [pc EXCEPT ![p] = "load"]
    /\ UNCHANGED <<leases, tmp, offset, snap, fd, held, kills>>

(* _load.  A file that is being written by somebody else is not JSON: the   *)
(* call raises.                                                             *)
LoadTable(p) ==
    /\ pc[p] = "load"
    /\ IF leases.kind = "truncated"
       THEN Ended(p)
       ELSE /\ pc' = [pc EXCEPT ![p] = "choose"]
            /\ snap' = [snap EXCEPT ![p] = leases.table]
            /\ UNCHANGED op
    /\ UNCHANGED <<leases, tmp, offset, slot, fd, held, calls, kills>>

(* allocate without rotation of a slot that has a lease returns it unchanged. *)
KeepLease(p) ==
    /\ pc[p] = "choose"
    /\ op[p] = "allocate"
    /\ snap[p][slot[p]] # NoLease
    /\ pc' = [pc EXCEPT ![p] = "return"]
    /\ UNCHANGED <<leases, tmp, offset, op, slot, snap, fd, held, calls, kills>>

(* The first acceptable candidate becomes the slot's lease. *)
Choose(p) ==
    LET t == snap[p]  s == slot[p] IN
    /\ pc[p] = "choose"
    /\ op[p] = "rotate" \/ (op[p] = "allocate" /\ t[s] = NoLease)
    /\ NextGen(t, s) \in Gen     \* holds by the bound on calls
    /\ \E i \in FreeProbes(t, s, Rotating(p)) :
          /\ \A j \in FreeProbes(t, s, Rotating(p)) : i <= j
          /\ snap' = [snap EXCEPT ![p][s] = NewLease(t, s, i)]
    /\ pc' = [pc EXCEPT ![p] = "open"]
    /\ UNCHANGED <<leases, tmp, offset, op, slot, fd, held, calls, kills>>

(* The loop runs out of probes: "no free address is available". *)
NoFreeAddress(p) ==
    LET t == snap[p]  s == slot[p] IN
    /\ pc[p] = "choose"
    /\ op[p] = "rotate" \/ (op[p] = "allocate" /\ t[s] = NoLease)
    /\ NextGen(t, s) \in Gen
    /\ FreeProbes(t, s, Rotating(p)) = {}
    /\ pc' = [pc EXCEPT ![p] = "exhausted"]
    /\ UNCHANGED <<leases, tmp, offset, op, slot, snap, fd, held, calls, kills>>

(* Nothing in the program calls release; a caller's endpoint would have     *)
(* given its address up.                                                   *)
Release(p) ==
    /\ pc[p] = "choose"
    /\ op[p] = "release"
    /\ held' = [held EXCEPT ![slot[p]] = 0]
    /\ IF snap[p][slot[p]] # NoLease
       THEN /\ snap' = [snap EXCEPT ![p][slot[p]] = NoLease]
            /\ pc' = [pc EXCEPT ![p] = "open"]
            /\ UNCHANGED op
       ELSE Ended(p)
    /\ UNCHANGED <<leases, tmp, offset, slot, fd, calls, kills>>

(***************************************************************************)
(* atomic_write_text: open and truncate the temporary file (its name does  *)
(* not depend on the process), write it, rename it over the target.  The   *)
(* rename moves the file others may have open for writing.                 *)
(***************************************************************************)
OpenTmp(p) ==
    /\ pc[p] = "open"
    /\ tmp' = Truncated
    /\ fd' = [fd EXCEPT ![p] = "tmp"]
    /\ pc' = [pc EXCEPT ![p] = "write"]
    /\ UNCHANGED <<leases, offset, op, slot, snap, held, calls, kills>>

WriteTmp(p) ==
    /\ pc[p] = "write"
    /\ tmp' = IF fd[p] = "tmp" THEN Full(snap[p]) ELSE tmp
    /\ leases' = IF fd[p] = "leases" THEN Full(snap[p]) ELSE leases
    /\ fd' = [fd EXCEPT ![p] = "none"]
    /\ pc' = [pc EXCEPT ![p] = "replace"]
    /\ UNCHANGED <<offset, op, slot, snap, held, calls, kills>>

(* Where a file open for writing is after the rename of leases.json.tmp. *)
AfterRename == [none |-> "none", tmp |-> "leases", leases |-> "unlinked",
                unlinked |-> "unlinked"]

(* os.replace; it raises when another process renamed the file before. *)
Replace(p) ==
    /\ pc[p] = "replace"
    /\ IF tmp.kind = "absent"
       THEN /\ Ended(p)
            /\ UNCHANGED <<leases, tmp, fd>>
       ELSE /\ leases' = tmp
            /\ tmp' = Absent
            /\ fd' = [q \in Proc |-> AfterRename[fd[q]]]
            /\ IF op[p] = "release"
               THEN Ended(p)
               ELSE /\ pc' = [pc EXCEPT ![p] = "return"]
                    /\ UNCHANGED <<op, snap>>
    /\ UNCHANGED <<offset, slot, held, calls, kills>>

(* The caller configures the endpoint with the address it got. *)
Return(p) ==
    /\ pc[p] = "return"
    /\ held' = [held EXCEPT ![slot[p]] = snap[p][slot[p]].address]
    /\ Ended(p)
    /\ UNCHANGED <<leases, tmp, offset, slot, fd, calls, kills>>

(* The error reaches the user and the process ends. *)
Raise(p) ==
    /\ pc[p] = "exhausted"
    /\ Ended(p)
    /\ UNCHANGED <<leases, tmp, offset, slot, fd, held, calls, kills>>

(* The process is killed in the middle of a call; its files stay as they are. *)
Kill(p) ==
    /\ kills < MaxKills
    /\ kills' = kills + 1
    /\ pc[p] # "idle"
    /\ Ended(p)
    /\ fd' = [fd EXCEPT ![p] = "none"]
    /\ UNCHANGED <<leases, tmp, offset, slot, held, calls>>

Step(p) ==
    \/ LoadTable(p) \/ KeepLease(p) \/ Choose(p) \/ NoFreeAddress(p)
    \/ Release(p) \/ OpenTmp(p) \/ WriteTmp(p) \/ Replace(p)
    \/ Return(p) \/ Raise(p)

Next == \E p \in Proc : Call(p) \/ Step(p) \/ Kill(p)

Spec == Init /\ [][Next]_vars

-----------------------------------------------------------------------------
(* Properties.                                                             *)

(* The addresses of a lease table are pool addresses, none is the gateway's *)
(* and no two slots share one (used and the gateway test in allocate).     *)
TableSound(t) ==
    /\ \A s \in Slot : t[s] # NoLease => t[s].address \in Pool \ {Gateway}
    /\ \A s, x \in Slot :
          s # x /\ t[s] # NoLease /\ t[x] # NoLease => t[s].address # t[x].address

(* Whatever the processes do to each other's updates, leases.json never    *)
(* holds a table with a duplicated or a reserved address: each process     *)
(* saves a table it loaded and changed in one slot.                        *)
LeaseFileSound == TableSound(leases.table)

(* No two endpoints are configured with the same address, unless a process *)
(* was killed after it had saved a lease and before the endpoint got it.   *)
NoSharedAddress ==
    kills = 0 => \A s, x \in Slot : s # x /\ held[s] # 0 => held[s] # held[x]

(* allocate gives up only when every address of the pool is the gateway,   *)
(* another slot's or the one that is rotated away: the loop's range covers *)
(* the whole pool whatever the hash (line 64).                             *)
GivesUpOnlyWhenFull ==
    \A p \in Proc : pc[p] = "exhausted" =>
        \A a \in Pool : ~ Acceptable(snap[p], slot[p], Rotating(p), a)

(* A rotation leaves the address the saved lease had before, and with no   *)
(* process killed that is the one its endpoint has.                        *)
RotationMoves ==
    [][\A p \in Proc :
         /\ Replace(p) /\ Rotating(p) /\ leases.table[slot[p]] # NoLease
              => leases'.table[slot[p]].address # leases.table[slot[p]].address
         /\ Return(p) /\ Rotating(p) /\ kills = 0
              => held'[slot[p]] # held[slot[p]]]_vars

(* The file is the abstract table of module LeaseTable: seen from outside, *)
(* each call takes effect in the rename, whole or not at all, and each     *)
(* change is one the table allows: a free address, generation 0 for a new  *)
(* lease and the next generation for a rotated one.  It is so as long as   *)
(* one process runs at a time, which may be killed in the middle of any    *)
(* call; with two, one may undo the other's rotation.                      *)
Leases == INSTANCE LeaseTable WITH table <- leases.table, Usable <- Pool \ {Gateway}

ImplementsTable == Leases!Spec

=============================================================================
