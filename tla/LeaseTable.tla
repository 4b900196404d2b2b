----------------------------- MODULE LeaseTable -----------------------------
(***************************************************************************)
(* What the persistent leases promise (lease_manager.py:16-17): a slot     *)
(* keeps its address until it is rotated, a rotation moves it to a         *)
(* different free address and increments its generation, and a released    *)
(* slot starts again.  There are no processes and no files here: a table   *)
(* changes at once, or not at all.                                         *)
(***************************************************************************)
EXTENDS Integers

CONSTANTS Slot,     \* endpoint slots
          Usable    \* the addresses an endpoint may have

VARIABLE table      \* per slot, its lease

NoLease == [address |-> 0, generation |-> 0]

Init == table = [s \in Slot |-> NoLease]

(* The addresses no other slot has. *)
Free(s) == {a \in Usable : \A x \in Slot \ {s} : table[x] = NoLease \/ table[x].address # a}

Gets(s, a, g) == table' = [table EXCEPT ![s] = [address |-> a, generation |-> g]]

Allocate(s) ==
    /\ table[s] = NoLease
    /\ \E a \in Free(s) : Gets(s, a, 0)

Rotate(s) ==
    /\ table[s] # NoLease
    /\ \E a \in Free(s) \ {table[s].address} : Gets(s, a, table[s].generation + 1)

Release(s) ==
    /\ table[s] # NoLease
    /\ table' = [table EXCEPT ![s] = NoLease]

Next == \E s \in Slot : Allocate(s) \/ Rotate(s) \/ Release(s)

Spec == Init /\ [][Next]_table

=============================================================================
