---------------------------- MODULE OrderLedger ----------------------------
(***************************************************************************)
(* What the order and payment services promise about one order, as if each *)
(* request ran alone: the status walks the transition map or is cancelled, *)
(* money is recorded once per settlement, and nothing that was never paid  *)
(* is refunded.  OrderPayment, where a request reads the document and      *)
(* saves it later, is shown to implement this module.                      *)
(***************************************************************************)
EXTENDS OrderRules

CONSTANT ForceAllowed     \* staff may use the force-status override

VARIABLES method, status, units, pay, paid   \* paid: payment.paidAt is set
vars == <<method, status, units, pay, paid>>

Init == /\ method \in Methods
        /\ status = "NEW_ORDER"
        /\ units = OrderedUnits
        /\ pay = "PENDING"
        /\ paid = FALSE

\* A move to next also settles an offline payment when the order arrives.
MoveTo(next) ==
    /\ status' = next
    /\ IF SettlesOnDelivery(next, method, pay)
       THEN pay' = "PAID" /\ paid' = TRUE
       ELSE UNCHANGED <<pay, paid>>
    /\ UNCHANGED <<method, units>>

Advance == \E next \in Transitions[status] : MoveTo(next)

Force == ForceAllowed /\ \E next \in Statuses : MoveTo(next)

CancelAll == /\ status \in Cancellable
             /\ status' = "CANCELLED"
             /\ UNCHANGED <<method, units, pay, paid>>

CancelUnits == /\ status \in Cancellable
               /\ \E k \in 1 .. units :
                    /\ units' = units - k
                    /\ status' = IF k = units THEN "CANCELLED" ELSE status
               /\ UNCHANGED <<method, pay, paid>>

\* A genuine payment settles the order whatever its method: verify asks for
\* none, and takes the payment of another order when the document names no
\* gateway order of its own.
Settle == /\ pay # "PAID"
          /\ pay' = "PAID"
          /\ paid' = TRUE
          /\ UNCHANGED <<method, status, units>>

Fail == /\ pay # "PAID"
        /\ pay' = "FAILED"
        /\ UNCHANGED <<method, status, units, paid>>

Retry == /\ method = "RAZORPAY"
         /\ pay = "FAILED"
         /\ pay' = "PENDING"
         /\ UNCHANGED <<method, status, units, paid>>

Refund == /\ paid
          /\ pay' \in {"REFUNDED", "PARTIALLY_REFUNDED"}
          /\ UNCHANGED <<method, status, units, paid>>

Next == \/ Advance \/ Force \/ CancelAll \/ CancelUnits
        \/ Settle \/ Fail \/ Retry \/ Refund

Spec == Init /\ [][Next]_vars
=============================================================================
