--------------------------- MODULE MCLeaseManager ---------------------------
(* Instances of LeaseManager for TLC.  Slots and processes are model values *)
(* and interchangeable: the specification names none of them.               *)
EXTENDS LeaseManager, TLC

CONSTANTS s1, s2, p1, p2

TwoSlots == {s1, s2}
OneProcess == {p1}
TwoProcesses == {p1, p2}

AllocateOnly == {"allocate", "rotate"}
AllOps == {"allocate", "rotate", "release"}

Interchangeable == Permutations(Slot) \cup Permutations(Proc)
=============================================================================
