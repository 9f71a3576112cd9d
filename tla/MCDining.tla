------------------------------ MODULE MCDining ------------------------------
(* Instances of Dining for TLC. *)
EXTENDS Dining, TLC

CONSTANTS a1, a2, r1, r2, o1, o2, small, large

TwoActors == {a1, a2}
TwoReservations == {r1, r2}
TwoOrders == {o1, o2}
TwoTables == {small, large}
Seats == [t \in TwoTables |-> IF t = small THEN 2 ELSE 4]
OneSlot == {{19, 20}}
TwoSlots == {{19, 20}, {20, 21}}

Alike == Permutations(TwoActors) \cup Permutations(TwoReservations)
         \cup Permutations(TwoOrders)
=============================================================================
