--------------------------- MODULE MCOrderPayment ---------------------------
(* Instances of OrderPayment for TLC. *)
EXTENDS OrderPayment, TLC

CONSTANTS r1, r2

TwoRequests == {r1, r2}
Symmetry == Permutations(TwoRequests)

CancelOps == {"updateStatus", "cancelOrder", "cancelItems", "processRefund",
              "createRazorpayOrder", "verify", "webhook"}
RefundOps == {"updateStatus", "cancelOrder", "processRefund",
              "createRazorpayOrder", "verify", "webhook"}

LiveOps == RefundOps \cup {"failed"}
=============================================================================
