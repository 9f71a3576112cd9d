----------------------------- MODULE MCWaitlist -----------------------------
(* Instances of Waitlist for TLC. *)
EXTENDS Waitlist, TLC

CONSTANTS a1, a2, small, large, couple, trio, duo

TwoActors == {a1, a2}
TwoTables == {small, large}
Seats == [t \in TwoTables |-> IF t = small THEN 2 ELSE 4]
Groups == {couple, trio, duo}
Sizes == [g \in Groups |-> IF g = trio THEN 3 ELSE 2]

Alike == Permutations(TwoActors) \cup Permutations({couple, duo})
=============================================================================
