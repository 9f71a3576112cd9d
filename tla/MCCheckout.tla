----------------------------- MODULE MCCheckout -----------------------------
(* Instances of Checkout for TLC. *)
EXTENDS Checkout, TLC

CONSTANTS t1, t2, g, s, tea, cake, o1, o2, o3

TwoTabs == {t1, t2}
OneGuest == {g}
OneStaff == {s}
TwoItems == {tea, cake}
Orders3 == {o1, o2, o3}
Baskets == {<<[item |-> tea, qty |-> 2]>>,
            <<[item |-> cake, qty |-> 1], [item |-> tea, qty |-> 1]>>}
TeaOnly == [i \in TwoItems |-> IF i = tea THEN 2 ELSE NoCount]
Restocks == {0, 2}

Alike == Permutations(TwoTabs) \cup Permutations(Orders3)
=============================================================================
