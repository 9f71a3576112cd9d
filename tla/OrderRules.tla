----------------------------- MODULE OrderRules -----------------------------
(***************************************************************************)
(* The fixed rules of the order domain (backend/src/constants/index.ts and *)
(* the total of services/pricing.service.ts), shared by the abstract       *)
(* ledger of an order and by the detailed model of its handlers.           *)
(***************************************************************************)
EXTENDS Naturals

CONSTANTS OrderedUnits,   \* units on the order when it is placed
          Discount,       \* coupon discount frozen on the order, in units
          Surcharges,     \* what a unit costs on top: tax and service charge
          Methods         \* payment methods an instance considers

\* The methods both checkout schemas accept; no caller stores TABLE_BILLING.
CheckoutMethods == {"RAZORPAY", "COD", "ROOM_BILLING"}

ASSUME OrderRulesAssumption ==
    /\ OrderedUnits \in Nat \ {0}
    /\ Discount \in Nat
    /\ Surcharges \subseteq Nat
    /\ Methods \subseteq CheckoutMethods
    /\ Methods # {}

Statuses == {"NEW_ORDER", "ACCEPTED", "PREPARING", "READY",
             "OUT_FOR_DELIVERY", "DELIVERED", "CANCELLED", "REJECTED"}
PayStatuses == {"PENDING", "PAID", "FAILED", "REFUNDED", "PARTIALLY_REFUNDED"}
RefundStatuses == {"NOT_REQUIRED", "REQUESTED", "INITIATED",
                   "PROCESSING", "REFUNDED", "FAILED"}

Transitions ==
    [s \in Statuses |->
        CASE s = "NEW_ORDER"        -> {"ACCEPTED", "REJECTED"}
          [] s = "ACCEPTED"         -> {"PREPARING"}
          [] s = "PREPARING"        -> {"READY"}
          [] s = "READY"            -> {"OUT_FOR_DELIVERY", "DELIVERED"}
          [] s = "OUT_FOR_DELIVERY" -> {"DELIVERED"}
          [] OTHER                  -> {}]

Cancellable == {"NEW_ORDER", "ACCEPTED", "PREPARING", "READY"}

\* What units cost: one unit of money each for the subtotal, from which the
\* discount is taken and never more, and the surcharge in force for each.
Total(units, surcharge) ==
    (IF units > Discount THEN units - Discount ELSE 0) + surcharge * units

\* Cash and room billing count as collected when the order is delivered.
SettlesOnDelivery(next, method, pay) ==
    next = "DELIVERED" /\ method # "RAZORPAY" /\ pay = "PENDING"
=============================================================================
