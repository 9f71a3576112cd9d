----------------------------- MODULE MCSessions -----------------------------
(* Instances of Sessions for TLC. *)
EXTENDS Sessions, TLC

CONSTANTS t1, t2, home, r1, r2, p, q, o1

TwoTabs == {t1, t2}
OneBrowser == {home}
Shared == [t \in TwoTabs |-> home]
TwoRequests == {r1, r2}
TwoPasswords == {p, q}
OneOrder == {o1}

Alike == Permutations({t1, t2}) \cup Permutations(TwoRequests) \cup Permutations(TwoPasswords)
=============================================================================
