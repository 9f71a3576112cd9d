----------------------------- MODULE CouponUse -----------------------------
(***************************************************************************)
(* One coupon and the checkouts that use it: customer checkouts and guest  *)
(* checkouts of modules/order/order.service.ts, room bookings of           *)
(* modules/room/roomBooking.service.ts, and the administrator's edits.     *)
(*                                                                         *)
(* A checkout first looks the coupon up and counts redemptions (reads),    *)
(* then takes a use from the coupon's counter and, for a customer, one     *)
(* from the counter of that customer (guarded atomic updates), creates its *)
(* order and records the redemption.  Between any two of these steps other *)
(* checkouts run and the administrator edits.                              *)
(***************************************************************************)
EXTENDS Naturals, FiniteSets

CONSTANTS Checkouts,      \* requests that send the coupon's code, each made once
          Users,          \* customer accounts
          Callers,        \* who checks out: customers, "guest", "room"
          Limits,         \* usage limits the administrator sets
          PerUserLimits,  \* per-user limits the administrator sets
          Edits,          \* what the administrator edits under way
          MaxCrashes      \* bound: checkouts that die half way

NoLimit == 0              \* a coupon without usageLimit; a limit is positive

ASSUME CouponUseAssumption ==
    /\ IsFiniteSet(Checkouts)
    /\ Users \cap {"guest", "room"} = {}
    /\ Callers \subseteq Users \cup {"guest", "room"}
    /\ Limits \subseteq Nat \ {0}
    /\ PerUserLimits \subseteq Nat \ {0}
    /\ Edits \subseteq {"limit", "perUser", "status", "delete"}
    /\ MaxCrashes \in Nat

VARIABLES
    coupon,    \* the document: status, limit, per-user limit, usedCount
    rows,      \* customers with a CouponUserCounter row
    count,     \* the count in that row
    caller,    \* caller[c]: who makes checkout c
    pc,        \* pc[c]: how far checkout c is
    cap,       \* cap[c]: the per-user limit checkout c read
    ordered,   \* checkouts that created a discounted order or booking
    redeemed,  \* checkouts with a CouponRedemption record
    peak       \* the largest limits the coupon ever had
vars == <<coupon, rows, count, caller, pc, cap, ordered, redeemed, peak>>

Customer(c) == caller[c] \in Users
Of(u) == {c \in Checkouts : caller[c] = u}

\* n uses leave room for another one under the limit.
Below(n, limit) == limit = NoLimit \/ n < limit

\* The larger of two usage limits.
Wider(a, b) == IF a = NoLimit \/ b = NoLimit THEN NoLimit
               ELSE IF a < b THEN b ELSE a

Init == /\ coupon \in [status : {"active"}, limit : Limits \cup {NoLimit},
                       perUser : PerUserLimits, used : {0}]
        /\ rows = {}
        /\ count = [u \in Users |-> 0]
        /\ caller \in [Checkouts -> Callers]
        /\ pc = [c \in Checkouts |-> "start"]
        /\ cap = [c \in Checkouts |-> 0]
        /\ ordered = {}
        /\ redeemed = {}
        /\ peak = [limit |-> coupon.limit, perUser |-> coupon.perUser]

Goto(c, l) == pc' = [pc EXCEPT ![c] = l]

-----------------------------------------------------------------------------
(* validateCoupon: two reads, a preview of the limits.                      *)

\* The code names a live coupon with a use left.
Lookup(c) ==
    /\ pc[c] = "start"
    /\ coupon.status = "active"
    /\ Below(coupon.used, coupon.limit)
    /\ Goto(c, IF Customer(c) THEN "looked" ELSE "validated")
    /\ cap' = [cap EXCEPT ![c] = coupon.perUser]
    /\ UNCHANGED <<coupon, rows, count, caller, ordered, redeemed, peak>>

\* It does not, or the kitchen, the dates or the order's value exclude it.
LookupRefused(c) ==
    /\ pc[c] = "start"
    /\ Goto(c, "refused")
    /\ UNCHANGED <<coupon, rows, count, caller, cap, ordered, redeemed, peak>>

\* The redemptions of the customer against the limit read before.
CountRedemptions(c) ==
    /\ pc[c] = "looked"
    /\ Goto(c, IF Cardinality(redeemed \cap Of(caller[c])) >= cap[c]
               THEN "refused" ELSE "validated")
    /\ UNCHANGED <<coupon, rows, count, caller, cap, ordered, redeemed, peak>>

-----------------------------------------------------------------------------
(* Reservations.                                                            *)

\* Mutant: leaves the limit to the preview.
ReservableWhileActive == coupon.status = "active"

\* reserveCoupon: a guarded increment.  A room booking ignores its answer.
Reservable == coupon.status = "active" /\ Below(coupon.used, coupon.limit)

Reserve(c) ==
    /\ pc[c] = "validated"
    /\ Reservable
    /\ coupon' = [coupon EXCEPT !.used = @ + 1]
    /\ Goto(c, IF Customer(c) THEN "counting" ELSE "holding")
    /\ UNCHANGED <<rows, count, caller, cap, ordered, redeemed, peak>>

ReserveMissed(c) ==
    /\ pc[c] = "validated"
    /\ ~Reservable
    /\ Goto(c, IF caller[c] = "room" THEN "unreserved" ELSE "refused")
    /\ UNCHANGED <<coupon, rows, count, caller, cap, ordered, redeemed, peak>>

\* Mutant: increments whatever row there is.
CountUserUnguarded(c) ==
    LET u == caller[c]
    IN  /\ pc[c] = "counting"
        /\ count' = IF u \in rows THEN [count EXCEPT ![u] = @ + 1] ELSE count
        /\ Goto(c, IF u \in rows THEN "holding" ELSE "inserting")
        /\ UNCHANGED <<coupon, rows, caller, cap, ordered, redeemed, peak>>

\* reserveUserLimit: the upsert finds a row below the limit, or finds none.
CountUser(c) ==
    LET u == caller[c]
        found == u \in rows /\ count[u] < cap[c]
    IN  /\ pc[c] = "counting"
        /\ count' = IF found THEN [count EXCEPT ![u] = @ + 1] ELSE count
        /\ Goto(c, IF found THEN "holding" ELSE "inserting")
        /\ UNCHANGED <<coupon, rows, caller, cap, ordered, redeemed, peak>>

\* Having found none it inserts a row, which the unique index refuses if the
\* customer has one by now.
InsertUser(c) ==
    LET u == caller[c]
        inserted == u \notin rows
    IN  /\ pc[c] = "inserting"
        /\ rows' = rows \cup {u}
        /\ count' = IF inserted THEN [count EXCEPT ![u] = 1] ELSE count
        /\ Goto(c, IF inserted THEN "holding" ELSE "overLimit")
        /\ UNCHANGED <<coupon, caller, cap, ordered, redeemed, peak>>

\* Mutant: after a failed order only the coupon's use is given back.
ReleaseCouponOnly(c) ==
    /\ pc[c] \in {"overLimit", "releasing"}
    /\ coupon' = IF coupon.status # "deleted" /\ coupon.used > 0
                 THEN [coupon EXCEPT !.used = @ - 1] ELSE coupon
    /\ Goto(c, "refused")
    /\ UNCHANGED <<rows, count, caller, cap, ordered, redeemed, peak>>

\* releaseCoupon, after the customer's limit or a failed order.
Release(c) ==
    /\ pc[c] \in {"overLimit", "releasing"}
    /\ coupon' = IF coupon.status # "deleted" /\ coupon.used > 0
                 THEN [coupon EXCEPT !.used = @ - 1] ELSE coupon
    /\ Goto(c, IF pc[c] = "releasing" /\ Customer(c)
               THEN "releasingUser" ELSE "refused")
    /\ UNCHANGED <<rows, count, caller, cap, ordered, redeemed, peak>>

\* releaseUserLimit.
ReleaseUser(c) ==
    LET u == caller[c]
    IN  /\ pc[c] = "releasingUser"
        /\ count' = IF count[u] > 0 THEN [count EXCEPT ![u] = @ - 1] ELSE count
        /\ Goto(c, "refused")
        /\ UNCHANGED <<coupon, rows, caller, cap, ordered, redeemed, peak>>

-----------------------------------------------------------------------------
(* The order or booking, with the discount of the coupon.                   *)

CreateOrder(c) ==
    /\ pc[c] \in {"holding", "unreserved"}
    /\ ordered' = ordered \cup {c}
    /\ Goto(c, IF Customer(c) THEN "recording" ELSE "done")
    /\ UNCHANGED <<coupon, rows, count, caller, cap, redeemed, peak>>

\* Order.create failed for good.  Checkouts give the use back, bookings do not.
CreateFails(c) ==
    /\ pc[c] \in {"holding", "unreserved"}
    /\ Goto(c, IF caller[c] = "room" THEN "refused" ELSE "releasing")
    /\ UNCHANGED <<coupon, rows, count, caller, cap, ordered, redeemed, peak>>

RecordRedemption(c) ==
    /\ pc[c] = "recording"
    /\ redeemed' = redeemed \cup {c}
    /\ Goto(c, "done")
    /\ UNCHANGED <<coupon, rows, count, caller, cap, ordered, peak>>

\* The process stops, or an update fails, and the rest of c does not happen.
Crashed == {c \in Checkouts : pc[c] = "crashed"}

Crash(c) ==
    /\ pc[c] \notin {"start", "done", "refused", "crashed"}
    /\ Cardinality(Crashed) < MaxCrashes
    /\ Goto(c, "crashed")
    /\ UNCHANGED <<coupon, rows, count, caller, cap, ordered, redeemed, peak>>

-----------------------------------------------------------------------------
(* The administrator.  updateCoupon writes only the fields that change and  *)
(* decides nothing on the copy it loads, so it is one step.                 *)

Live(edit) == /\ edit \in Edits
              /\ coupon.status # "deleted"
              /\ UNCHANGED <<rows, count, caller, pc, cap, ordered, redeemed>>

SetUsageLimit ==
    /\ Live("limit")
    /\ \E n \in Limits :
         /\ coupon' = [coupon EXCEPT !.limit = n]
         /\ peak' = [peak EXCEPT !.limit = Wider(@, n)]

SetPerUserLimit ==
    /\ Live("perUser")
    /\ \E n \in PerUserLimits :
         /\ coupon' = [coupon EXCEPT !.perUser = n]
         /\ peak' = [peak EXCEPT !.perUser = IF @ < n THEN n ELSE @]

SetActive ==
    /\ Live("status")
    /\ \E s \in {"active", "inactive"} : coupon' = [coupon EXCEPT !.status = s]
    /\ UNCHANGED peak

DeleteCoupon ==
    /\ Live("delete")
    /\ coupon' = [coupon EXCEPT !.status = "deleted"]
    /\ UNCHANGED peak

Step(c) ==
    \/ Lookup(c) \/ LookupRefused(c) \/ CountRedemptions(c)
    \/ Reserve(c) \/ ReserveMissed(c) \/ CountUser(c) \/ InsertUser(c)
    \/ Release(c) \/ ReleaseUser(c)
    \/ CreateOrder(c) \/ CreateFails(c) \/ RecordRedemption(c) \/ Crash(c)

Next == \/ \E c \in Checkouts : Step(c)
        \/ SetUsageLimit \/ SetPerUserLimit \/ SetActive \/ DeleteCoupon

Spec == Init /\ [][Next]_vars

-----------------------------------------------------------------------------
(* Properties.                                                              *)

CustomerLabels == {"looked", "counting", "inserting", "overLimit",
                   "releasingUser", "recording"}
Labels == CustomerLabels \cup
          {"start", "validated", "holding", "unreserved", "releasing",
           "done", "refused", "crashed"}

\* Every variable has its type, only customers are counted per user, only
\* room bookings go on without a reservation and never give one back, and only
\* orders that exist are recorded as redemptions.
TypeOK ==
    /\ coupon \in [status : {"active", "inactive", "deleted"},
                   limit : Nat, perUser : Nat, used : Nat]
    /\ rows \subseteq Users
    /\ count \in [Users -> Nat]
    /\ caller \in [Checkouts -> Callers]
    /\ pc \in [Checkouts -> Labels]
    /\ cap \in [Checkouts -> Nat]
    /\ ordered \subseteq Checkouts
    /\ redeemed \subseteq ordered
    /\ peak \in [limit : Nat, perUser : Nat]
    /\ \A c \in Checkouts :
         /\ pc[c] \in CustomerLabels => Customer(c)
         /\ pc[c] = "unreserved" => caller[c] = "room"
         /\ pc[c] = "releasing" => caller[c] # "room"
         /\ pc[c] = "recording" => c \in ordered

\* Checkouts that hold a use of the coupon: between the increment and the
\* order or the release, or ordered.
Uses == {c \in Checkouts :
           /\ caller[c] # "room"
           /\ \/ c \in ordered
              \/ pc[c] \in {"counting", "inserting", "overLimit",
                            "holding", "releasing"}}
UserUses(u) == {c \in Of(u) :
                  \/ c \in ordered
                  \/ pc[c] \in {"holding", "releasing", "releasingUser"}}

\* Concurrent checkouts, among them those of guests, never sell more discounts
\* than the largest usage limit the coupon had, however reservations,
\* releases, crashes and edits of the limit interleave, and whatever room
\* bookings do with the same coupon (reserveCoupon, releaseCoupon).
DiscountsWithinLimit ==
    peak.limit # NoLimit => Cardinality(Uses) <= peak.limit

\* Nor does one customer get more discounts than the largest per-user limit
\* (reserveUserLimit: the guarded upsert, with the limit as it was validated).
UserDiscountsWithinLimit ==
    \A u \in Users : Cardinality(UserUses(u)) <= peak.perUser

Lost == {c \in Checkouts : pc[c] = "crashed" /\ c \notin ordered}
RoomsApart == \A c \in Checkouts : caller[c] # "room"

\* When no room booking uses the coupon, a checkout that is refused or fails
\* leaves no use behind in either counter; only one that died half way may
\* (the releases of checkout and guestCheckout).
NothingBurned ==
    RoomsApart =>
      /\ coupon.status # "deleted" =>
             coupon.used <= Cardinality(Uses) + Cardinality(Lost)
      /\ \A u \in Users :
             count[u] <= Cardinality(UserUses(u)) + Cardinality(Lost \cap Of(u))

\* The books of the coupon: types, and no use burned (reserveCoupon,
\* reserveUserLimit and their releases).
CouponBooks == TypeOK /\ NothingBurned
=============================================================================
