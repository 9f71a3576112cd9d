---------------------------- MODULE MCCouponUse ----------------------------
(* Instances of CouponUse for TLC. *)
EXTENDS CouponUse, TLC

CONSTANTS c1, c2, c3, ann, bob

ThreeCheckouts == {c1, c2, c3}
TwoCustomers == {ann, bob}

CustomersAndGuests == TwoCustomers \cup {"guest"}
Everyone == CustomersAndGuests \cup {"room"}

Interchangeable == Permutations(Checkouts) \cup Permutations(TwoCustomers)
=============================================================================
