------------------------------ MODULE MCValet ------------------------------
(* Instances of Valet for TLC. *)
EXTENDS Valet, TLC

CONSTANTS r1, r2, p1, p2, s1

TwoRequests == {r1, r2}
OnePlate == {p1}
OneSlot == {s1}
Symmetry == Permutations(TwoRequests)
=============================================================================
