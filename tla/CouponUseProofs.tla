-------------------------- MODULE CouponUseProofs --------------------------
(***************************************************************************)
(* Theorems about CouponUse, for any finite set of checkouts, any mix of   *)
(* callers and edits and any limits.  The counters of the code are numbers *)
(* and the properties speak of sets of checkouts; the invariant ties them: *)
(* every checkout that holds a use is counted, and no counter is above its *)
(* limit.                                                                  *)
(***************************************************************************)
EXTENDS CouponUse, FiniteSetTheorems, TLAPS

\* An order exists only at the end of its checkout.
OrderedLate == \A c \in ordered : pc[c] \in {"recording", "done", "crashed"}

\* The coupon's counter covers the uses held and stays within the limit.
CouponCounted ==
    /\ Cardinality(Uses) <= coupon.used
    /\ peak.limit # NoLimit => /\ coupon.limit # NoLimit
                               /\ coupon.limit <= peak.limit
                               /\ coupon.used <= peak.limit

\* So does the counter of each customer, and a missing row counts nothing.
UserCounted(u) ==
    /\ Cardinality(UserUses(u)) <= count[u]
    /\ count[u] <= peak.perUser
    /\ u \notin rows => count[u] = 0

\* No checkout goes by a per-user limit larger than the coupon ever had.
CapsKnown ==
    /\ peak.perUser >= 1
    /\ coupon.perUser <= peak.perUser
    /\ \A c \in Checkouts : cap[c] <= peak.perUser

CouponInv == /\ TypeOK
             /\ OrderedLate
             /\ CouponCounted
             /\ \A u \in Users : UserCounted(u)
             /\ CapsKnown

-----------------------------------------------------------------------------
(* Sets that differ in one checkout at most.                                *)

\* If only c may have entered or left a set, the set's size says which.
LEMMA OneMoves ==
  ASSUME NEW S \in SUBSET Checkouts, NEW T \in SUBSET Checkouts, NEW c,
         \A d \in Checkouts \ {c} : d \in S <=> d \in T
  PROVE  /\ Cardinality(S) \in Nat
         /\ Cardinality(T) \in Nat
         /\ (c \in S <=> c \in T) => Cardinality(T) = Cardinality(S)
         /\ c \notin S /\ c \in T => Cardinality(T) = Cardinality(S) + 1
         /\ c \in S /\ c \notin T => Cardinality(S) = Cardinality(T) + 1
<1>1. IsFiniteSet(S) /\ IsFiniteSet(T)
  BY CouponUseAssumption, FS_Subset
<1>2. Cardinality(S) \in Nat /\ Cardinality(T) \in Nat
  BY <1>1, FS_CardinalityType
<1>3. (c \in S <=> c \in T) => S = T
  OBVIOUS
<1>4. c \notin S /\ c \in T => T = S \cup {c}
  OBVIOUS
<1>5. c \in S /\ c \notin T => S = T \cup {c}
  OBVIOUS
<1>6. c \notin S /\ c \in T => Cardinality(T) = Cardinality(S) + 1
  BY <1>1, <1>4, FS_AddElement
<1>7. c \in S /\ c \notin T => Cardinality(S) = Cardinality(T) + 1
  BY <1>1, <1>5, FS_AddElement
<1> QED BY <1>2, <1>3, <1>6, <1>7

-----------------------------------------------------------------------------
(* Types.                                                                   *)

\* Initial states are well typed.
LEMMA InitType == Init => TypeOK
<1> SUFFICES ASSUME Init PROVE TypeOK
  OBVIOUS
<1>1. coupon \in [status : {"active", "inactive", "deleted"},
                  limit : Nat, perUser : Nat, used : Nat]
  <2>1. coupon \in [status : {"active"}, limit : Limits \cup {NoLimit},
                    perUser : PerUserLimits, used : {0}]
    BY DEF Init
  <2>2. Limits \cup {NoLimit} \subseteq Nat /\ PerUserLimits \subseteq Nat
    BY CouponUseAssumption DEF NoLimit
  <2>3. /\ coupon = [status |-> coupon.status, limit |-> coupon.limit,
                     perUser |-> coupon.perUser, used |-> coupon.used]
        /\ coupon.status = "active" /\ coupon.used = 0
        /\ coupon.limit \in Limits \cup {NoLimit}
        /\ coupon.perUser \in PerUserLimits
    BY <2>1
  <2>4. coupon.limit \in Nat /\ coupon.perUser \in Nat
    BY <2>2, <2>3
  <2> QED BY <2>3, <2>4
<1>2. peak \in [limit : Nat, perUser : Nat]
  BY <1>1 DEF Init
<1>3. /\ pc \in [Checkouts -> Labels]
      /\ \A c \in Checkouts : pc[c] = "start"
  BY DEF Init, Labels
<1> QED BY <1>1, <1>2, <1>3 DEF Init, TypeOK, CustomerLabels

\* A checkout's step keeps the types.
LEMMA StepType ==
  ASSUME TypeOK, NEW c \in Checkouts, Step(c)
  PROVE  TypeOK'
<1> USE DEF TypeOK, Goto, Customer, CustomerLabels, Labels
<1>1. CASE Lookup(c) BY <1>1 DEF Lookup
<1>2. CASE LookupRefused(c) BY <1>2 DEF LookupRefused
<1>3. CASE CountRedemptions(c) BY <1>3 DEF CountRedemptions
<1>4. CASE Reserve(c) BY <1>4 DEF Reserve
<1>5. CASE ReserveMissed(c) BY <1>5 DEF ReserveMissed
<1>6. CASE CountUser(c) BY <1>6 DEF CountUser
<1>7. CASE InsertUser(c) BY <1>7 DEF InsertUser
<1>8. CASE Release(c) BY <1>8 DEF Release
<1>9. CASE ReleaseUser(c) BY <1>9 DEF ReleaseUser
<1>10. CASE CreateOrder(c) BY <1>10 DEF CreateOrder
<1>11. CASE CreateFails(c) BY <1>11 DEF CreateFails
<1>12. CASE RecordRedemption(c) BY <1>12 DEF RecordRedemption
<1>13. CASE Crash(c) BY <1>13 DEF Crash
<1> QED BY <1>1, <1>2, <1>3, <1>4, <1>5, <1>6, <1>7, <1>8, <1>9, <1>10,
           <1>11, <1>12, <1>13 DEF Step

\* The administrator's edits keep the types.
AdminEdit == SetUsageLimit \/ SetPerUserLimit \/ SetActive \/ DeleteCoupon

LEMMA EditType ==
  ASSUME TypeOK, AdminEdit
  PROVE  TypeOK'
<1> USE CouponUseAssumption DEF TypeOK, Live, Customer
<1>1. CASE SetUsageLimit BY <1>1 DEF SetUsageLimit, Wider, NoLimit
<1>2. CASE SetPerUserLimit BY <1>2 DEF SetPerUserLimit
<1>3. CASE SetActive BY <1>3 DEF SetActive
<1>4. CASE DeleteCoupon BY <1>4 DEF DeleteCoupon
<1> QED BY <1>1, <1>2, <1>3, <1>4 DEF AdminEdit

-----------------------------------------------------------------------------
(* What one step moves.                                                     *)

\* A step of c leaves every other checkout where it was.
LEMMA OthersStay ==
  ASSUME TypeOK, NEW c \in Checkouts, Step(c)
  PROVE  /\ caller' = caller
         /\ peak' = peak
         /\ \A d \in Checkouts \ {c} :
              pc'[d] = pc[d] /\ (d \in ordered' <=> d \in ordered)
<1> USE DEF TypeOK, Goto
<1>1. CASE Lookup(c) BY <1>1 DEF Lookup
<1>2. CASE LookupRefused(c) BY <1>2 DEF LookupRefused
<1>3. CASE CountRedemptions(c) BY <1>3 DEF CountRedemptions
<1>4. CASE Reserve(c) BY <1>4 DEF Reserve
<1>5. CASE ReserveMissed(c) BY <1>5 DEF ReserveMissed
<1>6. CASE CountUser(c) BY <1>6 DEF CountUser
<1>7. CASE InsertUser(c) BY <1>7 DEF InsertUser
<1>8. CASE Release(c) BY <1>8 DEF Release
<1>9. CASE ReleaseUser(c) BY <1>9 DEF ReleaseUser
<1>10. CASE CreateOrder(c) BY <1>10 DEF CreateOrder
<1>11. CASE CreateFails(c) BY <1>11 DEF CreateFails
<1>12. CASE RecordRedemption(c) BY <1>12 DEF RecordRedemption
<1>13. CASE Crash(c) BY <1>13 DEF Crash
<1> QED BY <1>1, <1>2, <1>3, <1>4, <1>5, <1>6, <1>7, <1>8, <1>9, <1>10,
           <1>11, <1>12, <1>13 DEF Step

\* So the uses held change by c at most.
LEMMA UsesMove ==
  ASSUME TypeOK, NEW c \in Checkouts, Step(c)
  PROVE  /\ Cardinality(Uses) \in Nat /\ Cardinality(Uses') \in Nat
         /\ (c \in Uses <=> c \in Uses') => Cardinality(Uses') = Cardinality(Uses)
         /\ c \notin Uses /\ c \in Uses'
               => Cardinality(Uses') = Cardinality(Uses) + 1
         /\ c \in Uses /\ c \notin Uses'
               => Cardinality(Uses) = Cardinality(Uses') + 1
<1>1. Uses \in SUBSET Checkouts /\ Uses' \in SUBSET Checkouts
  BY DEF Uses
<1>2. \A d \in Checkouts \ {c} : d \in Uses <=> d \in Uses'
  BY OthersStay DEF Uses
<1> QED BY <1>1, <1>2, OneMoves

\* The same for the uses of one customer.
LEMMA UserUsesMove ==
  ASSUME TypeOK, NEW c \in Checkouts, Step(c), NEW u \in Users
  PROVE  /\ Cardinality(UserUses(u)) \in Nat /\ Cardinality(UserUses(u)') \in Nat
         /\ (c \in UserUses(u) <=> c \in UserUses(u)')
               => Cardinality(UserUses(u)') = Cardinality(UserUses(u))
         /\ c \notin UserUses(u) /\ c \in UserUses(u)'
               => Cardinality(UserUses(u)') = Cardinality(UserUses(u)) + 1
         /\ c \in UserUses(u) /\ c \notin UserUses(u)'
               => Cardinality(UserUses(u)) = Cardinality(UserUses(u)') + 1
<1>1. UserUses(u) \in SUBSET Checkouts /\ UserUses(u)' \in SUBSET Checkouts
  BY DEF UserUses, Of
<1>2. \A d \in Checkouts \ {c} : d \in UserUses(u) <=> d \in UserUses(u)'
  BY OthersStay DEF UserUses, Of
<1> QED BY <1>1, <1>2, OneMoves

\* An edit moves no checkout.
LEMMA EditMovesNothing ==
  ASSUME TypeOK, AdminEdit
  PROVE  /\ UNCHANGED <<rows, count, caller, pc, cap, ordered, redeemed>>
         /\ coupon.used' = coupon.used
         /\ Uses' = Uses
         /\ \A u \in Users : UserUses(u)' = UserUses(u)
         /\ Lost' = Lost
<1>1. UNCHANGED <<rows, count, caller, pc, cap, ordered, redeemed>>
  BY DEF AdminEdit, SetUsageLimit, SetPerUserLimit, SetActive, DeleteCoupon, Live
<1>2. coupon.used' = coupon.used
  BY DEF TypeOK, AdminEdit, SetUsageLimit, SetPerUserLimit, SetActive, DeleteCoupon
<1>3. Uses' = Uses /\ Lost' = Lost
  BY <1>1 DEF Uses, Lost
<1>4. ASSUME NEW u \in Users PROVE UserUses(u)' = UserUses(u)
  BY <1>1 DEF UserUses, Of
<1> QED BY <1>1, <1>2, <1>3, <1>4

-----------------------------------------------------------------------------
(* The invariant.                                                           *)

\* It holds before any checkout starts.
LEMMA InitInv == Init => CouponInv
<1> SUFFICES ASSUME Init PROVE CouponInv
  OBVIOUS
<1>1. TypeOK
  BY InitType
<1>2. Uses = {} /\ \A u \in Users : UserUses(u) = {}
  BY DEF Init, Uses, UserUses, Of
<1>3. Cardinality({}) = 0
  BY FS_EmptySet
<1>4. /\ coupon.used = 0
      /\ peak.limit = coupon.limit /\ peak.perUser = coupon.perUser
      /\ coupon.perUser \in PerUserLimits
  BY DEF Init
<1>5. OrderedLate
  BY DEF Init, OrderedLate
<1>6. CouponCounted
  BY <1>1, <1>2, <1>3, <1>4 DEF CouponCounted, TypeOK
<1>7. \A u \in Users : UserCounted(u)
  BY <1>1, <1>2, <1>3, <1>4 DEF UserCounted, Init, TypeOK
<1>8. CapsKnown
  BY <1>1, <1>4, CouponUseAssumption DEF CapsKnown, Init, TypeOK
<1> QED BY <1>1, <1>5, <1>6, <1>7, <1>8 DEF CouponInv

\* Orders are created at the end of a checkout.
LEMMA StepOrderedLate ==
  ASSUME TypeOK, OrderedLate, NEW c \in Checkouts, Step(c)
  PROVE  OrderedLate'
<1> USE DEF TypeOK, OrderedLate, Goto
<1>1. CASE Lookup(c) BY <1>1 DEF Lookup
<1>2. CASE LookupRefused(c) BY <1>2 DEF LookupRefused
<1>3. CASE CountRedemptions(c) BY <1>3 DEF CountRedemptions
<1>4. CASE Reserve(c) BY <1>4 DEF Reserve
<1>5. CASE ReserveMissed(c) BY <1>5 DEF ReserveMissed
<1>6. CASE CountUser(c) BY <1>6 DEF CountUser
<1>7. CASE InsertUser(c) BY <1>7 DEF InsertUser
<1>8. CASE Release(c) BY <1>8 DEF Release
<1>9. CASE ReleaseUser(c) BY <1>9 DEF ReleaseUser
<1>10. CASE CreateOrder(c) BY <1>10 DEF CreateOrder
<1>11. CASE CreateFails(c) BY <1>11 DEF CreateFails
<1>12. CASE RecordRedemption(c) BY <1>12 DEF RecordRedemption
<1>13. CASE Crash(c) BY <1>13 DEF Crash
<1> QED BY <1>1, <1>2, <1>3, <1>4, <1>5, <1>6, <1>7, <1>8, <1>9, <1>10,
           <1>11, <1>12, <1>13 DEF Step

\* The coupon's counter: Reserve adds the use it counts, under the limit;
\* Release takes off the use it gives back; a crash forgets a counted use;
\* the other steps move no use of a customer or guest.
LEMMA StepCouponCounted ==
  ASSUME TypeOK, OrderedLate, CouponCounted, NEW c \in Checkouts, Step(c)
  PROVE  CouponCounted'
<1> USE UsesMove, OthersStay DEF CouponCounted, TypeOK, Goto, Customer
<1>1. CASE Reserve(c)
  <2>1. c \notin Uses
    BY <1>1, CouponUseAssumption DEF Reserve, Uses, OrderedLate
  <2>2. /\ coupon.limit' = coupon.limit
        /\ coupon.used' = coupon.used + 1
        /\ Below(coupon.used, coupon.limit)
    BY <1>1 DEF Reserve, Reservable
  <2> QED BY <2>1, <2>2 DEF Below
<1>2. CASE Release(c)
  <2>1. caller[c] # "room"
    BY <1>2, CouponUseAssumption DEF Release, CustomerLabels
  <2>2. c \in Uses /\ c \notin Uses'
    BY <1>2, <2>1 DEF Release, Uses, OrderedLate
  <2>3. coupon.limit' = coupon.limit /\ coupon.used' \in {coupon.used, coupon.used - 1}
    BY <1>2 DEF Release
  <2> QED BY <2>2, <2>3
<1>3. ASSUME Lookup(c) \/ LookupRefused(c) \/ CountRedemptions(c)
             \/ ReserveMissed(c) \/ CountUser(c) \/ InsertUser(c)
             \/ ReleaseUser(c) \/ CreateOrder(c) \/ CreateFails(c)
             \/ RecordRedemption(c) \/ Crash(c)
      PROVE  CouponCounted'
  <2>1. UNCHANGED coupon
    BY <1>3 DEF Lookup, LookupRefused, CountRedemptions, ReserveMissed, CountUser,
          InsertUser, ReleaseUser, CreateOrder, CreateFails, RecordRedemption, Crash
  <2>2. c \in Uses' => c \in Uses
    BY <1>3, CouponUseAssumption
       DEF Lookup, LookupRefused, CountRedemptions, ReserveMissed, CountUser,
           InsertUser, ReleaseUser, CreateOrder, CreateFails, RecordRedemption,
           Crash, Uses
  <2> QED BY <2>1, <2>2
<1> QED BY <1>1, <1>2, <1>3 DEF Step

\* The counter of a customer: CountUser and InsertUser add the use they count,
\* below the limit the checkout read; ReleaseUser takes off the one it gives
\* back; other customers' checkouts touch neither.
LEMMA StepUserCounted ==
  ASSUME TypeOK, OrderedLate, CapsKnown, NEW u \in Users, UserCounted(u),
         NEW c \in Checkouts, Step(c)
  PROVE  UserCounted(u)'
<1> USE UserUsesMove, OthersStay DEF UserCounted, TypeOK, Goto, Customer
<1>1. CASE CountUser(c)
  <2>1. CASE caller[c] = u /\ u \in rows /\ count[u] < cap[c]
    <3>1. c \notin UserUses(u)
      BY <1>1, <2>1 DEF CountUser, UserUses, OrderedLate
    <3>2. rows' = rows /\ count'[u] = count[u] + 1
      BY <1>1, <2>1 DEF CountUser
    <3> QED BY <2>1, <3>1, <3>2 DEF CapsKnown
  <2>2. CASE ~(caller[c] = u /\ u \in rows /\ count[u] < cap[c])
    <3>1. c \in UserUses(u)' => c \in UserUses(u)
      BY <1>1, <2>2 DEF CountUser, UserUses, Of
    <3>2. rows' = rows /\ count'[u] = count[u]
      BY <1>1, <2>2 DEF CountUser
    <3> QED BY <3>1, <3>2
  <2> QED BY <2>1, <2>2
<1>2. CASE InsertUser(c)
  <2>1. CASE caller[c] = u /\ u \notin rows
    <3>1. c \notin UserUses(u)
      BY <1>2 DEF InsertUser, UserUses, OrderedLate
    <3>2. u \in rows' /\ count'[u] = 1
      BY <1>2, <2>1 DEF InsertUser
    <3> QED BY <2>1, <3>1, <3>2 DEF CapsKnown
  <2>2. CASE ~(caller[c] = u /\ u \notin rows)
    <3>1. c \in UserUses(u)' => c \in UserUses(u)
      BY <1>2, <2>2 DEF InsertUser, UserUses, Of
    <3>2. rows \subseteq rows' /\ count'[u] = count[u]
      BY <1>2, <2>2 DEF InsertUser
    <3> QED BY <3>1, <3>2
  <2> QED BY <2>1, <2>2
<1>3. CASE ReleaseUser(c)
  <2>1. CASE caller[c] = u
    <3>1. c \in UserUses(u) /\ c \notin UserUses(u)'
      BY <1>3, <2>1 DEF ReleaseUser, UserUses, Of, OrderedLate
    <3>2. rows' = rows /\ count'[u] \in {count[u], count[u] - 1}
      BY <1>3, <2>1 DEF ReleaseUser
    <3>3. count[u] >= 1 /\ count'[u] = count[u] - 1
      BY <1>3, <2>1, <3>1 DEF ReleaseUser
    <3> QED BY <3>1, <3>2, <3>3
  <2>2. CASE caller[c] # u
    <3>1. c \notin UserUses(u) /\ c \notin UserUses(u)'
      BY <2>2 DEF UserUses, Of
    <3>2. rows' = rows /\ count'[u] = count[u]
      BY <1>3, <2>2 DEF ReleaseUser
    <3> QED BY <3>1, <3>2
  <2> QED BY <2>1, <2>2
<1>4. ASSUME Lookup(c) \/ LookupRefused(c) \/ CountRedemptions(c)
             \/ Reserve(c) \/ ReserveMissed(c) \/ Release(c)
             \/ CreateOrder(c) \/ CreateFails(c)
             \/ RecordRedemption(c) \/ Crash(c)
      PROVE  UserCounted(u)'
  <2>1. UNCHANGED <<rows, count>>
    BY <1>4 DEF Lookup, LookupRefused, CountRedemptions, Reserve, ReserveMissed,
          Release, CreateOrder, CreateFails, RecordRedemption, Crash
  <2>2. c \in UserUses(u)' => c \in UserUses(u)
    BY <1>4, CouponUseAssumption
       DEF Lookup, LookupRefused, CountRedemptions, Reserve, ReserveMissed,
           Release, CreateOrder, CreateFails, RecordRedemption, Crash,
           UserUses, Of
  <2> QED BY <2>1, <2>2
<1> QED BY <1>1, <1>2, <1>3, <1>4 DEF Step

\* A checkout reads a per-user limit in force.
LEMMA StepCapsKnown ==
  ASSUME TypeOK, CapsKnown, NEW c \in Checkouts, Step(c)
  PROVE  CapsKnown'
<1> USE OthersStay DEF CapsKnown, TypeOK
<1>1. CASE Lookup(c) BY <1>1 DEF Lookup
<1>2. ASSUME ~Lookup(c) PROVE CapsKnown'
  <2>1. UNCHANGED cap /\ coupon'.perUser = coupon.perUser
    BY <1>2 DEF Step, LookupRefused, CountRedemptions, Reserve, ReserveMissed,
          CountUser, InsertUser, Release, ReleaseUser, CreateOrder, CreateFails,
          RecordRedemption, Crash
  <2> QED BY <2>1
<1> QED BY <1>1, <1>2

\* An edit only widens the peaks, and never beyond what it sets.
LEMMA EditInv ==
  ASSUME CouponInv, AdminEdit
  PROVE  CouponInv'
<1> USE EditMovesNothing DEF CouponInv
<1>1. TypeOK'
  BY EditType
<1>2. OrderedLate'
  BY DEF OrderedLate
<1>3. CouponCounted'
  <2> USE DEF CouponCounted, TypeOK, Wider, NoLimit
  <2>1. CASE SetUsageLimit
    <3>1. PICK n \in Limits : /\ coupon' = [coupon EXCEPT !.limit = n]
                              /\ peak' = [peak EXCEPT !.limit = Wider(@, n)]
      BY <2>1 DEF SetUsageLimit
    <3>2. n \in Nat /\ n # 0
      BY CouponUseAssumption
    <3>3. coupon'.limit = n /\ peak'.limit = Wider(peak.limit, n)
      BY <3>1
    <3>4. Cardinality(Uses') <= coupon'.used
      BY EditMovesNothing
    <3> QED BY <3>2, <3>3, <3>4
  <2>2. CASE SetPerUserLimit \/ SetActive \/ DeleteCoupon
    <3>1. coupon'.limit = coupon.limit /\ peak'.limit = peak.limit
      BY <2>2 DEF SetPerUserLimit, SetActive, DeleteCoupon
    <3> QED BY <3>1
  <2> QED BY <2>1, <2>2 DEF AdminEdit
<1>4. /\ peak'.perUser \in Nat /\ peak'.perUser >= peak.perUser
      /\ coupon'.perUser <= peak'.perUser
  <2> USE CouponUseAssumption DEF TypeOK, CapsKnown
  <2>1. CASE SetPerUserLimit BY <2>1 DEF SetPerUserLimit
  <2>2. CASE SetUsageLimit BY <2>2 DEF SetUsageLimit
  <2>3. CASE SetActive \/ DeleteCoupon BY <2>3 DEF SetActive, DeleteCoupon
  <2> QED BY <2>1, <2>2, <2>3 DEF AdminEdit
<1>5. ASSUME NEW u \in Users PROVE UserCounted(u)'
  <2>1. UserUses(u)' = UserUses(u) /\ count' = count /\ rows' = rows
    BY EditMovesNothing
  <2>2. count[u] \in Nat /\ peak.perUser \in Nat
    BY DEF TypeOK
  <2> QED BY <1>4, <2>1, <2>2 DEF UserCounted
<1>6. CapsKnown'
  BY <1>4 DEF CapsKnown, TypeOK
<1> QED BY <1>1, <1>2, <1>3, <1>5, <1>6

\* Every step keeps the invariant.
LEMMA NextInv == CouponInv /\ [Next]_vars => CouponInv'
<1> SUFFICES ASSUME CouponInv, [Next]_vars PROVE CouponInv'
  OBVIOUS
<1>1. ASSUME NEW c \in Checkouts, Step(c) PROVE CouponInv'
  <2>1. TypeOK' /\ OrderedLate' /\ CouponCounted' /\ CapsKnown'
    BY <1>1, StepType, StepOrderedLate, StepCouponCounted, StepCapsKnown
       DEF CouponInv
  <2>2. ASSUME NEW u \in Users PROVE UserCounted(u)'
    BY <1>1, StepUserCounted DEF CouponInv
  <2> QED BY <2>1, <2>2 DEF CouponInv
<1>2. CASE AdminEdit
  BY <1>2, EditInv
<1>3. CASE UNCHANGED vars
  BY <1>3 DEF vars, CouponInv, TypeOK, OrderedLate, CouponCounted, UserCounted,
        CapsKnown, Uses, UserUses, Of, Customer
<1> QED BY <1>1, <1>2, <1>3 DEF Next, AdminEdit

\* The counters cover the uses and respect the limits in every reachable state:
\* the guarded updates of reserveCoupon and reserveUserLimit and the order of
\* the releases in checkout.
THEOREM CountersCoverUses == Spec => []CouponInv
  BY InitInv, NextInv, PTL DEF Spec

\* Every variable keeps its type, for any set of checkouts (coupon.service.ts).
THEOREM CouponTypes == Spec => []TypeOK
<1>1. CouponInv => TypeOK
  BY DEF CouponInv
<1> QED BY <1>1, CountersCoverUses, PTL

\* Concurrent checkouts never sell more discounts than the largest usage limit
\* (reserveCoupon, coupon.service.ts:127), for any number of checkouts.
THEOREM CouponNotOverSold == Spec => []DiscountsWithinLimit
<1>1. CouponInv => DiscountsWithinLimit
  <2> SUFFICES ASSUME CouponInv, peak.limit # NoLimit
               PROVE  Cardinality(Uses) <= peak.limit
    BY DEF DiscountsWithinLimit
  <2>1. Cardinality(Uses) \in Nat
    BY CouponUseAssumption, FS_Subset, FS_CardinalityType DEF Uses
  <2> QED BY <2>1 DEF CouponInv, CouponCounted, TypeOK
<1> QED BY <1>1, CountersCoverUses, PTL

\* Nor does a customer get more than the largest per-user limit
\* (reserveUserLimit, coupon.service.ts:158).
THEOREM CustomerNotOverServed == Spec => []UserDiscountsWithinLimit
<1>1. CouponInv => UserDiscountsWithinLimit
  <2> SUFFICES ASSUME CouponInv, NEW u \in Users
               PROVE  Cardinality(UserUses(u)) <= peak.perUser
    BY DEF UserDiscountsWithinLimit
  <2>1. Cardinality(UserUses(u)) \in Nat
    BY CouponUseAssumption, FS_Subset, FS_CardinalityType DEF UserUses, Of
  <2>2. count[u] \in Nat /\ peak.perUser \in Nat
    BY DEF CouponInv, TypeOK
  <2> QED BY <2>1, <2>2 DEF CouponInv, UserCounted
<1> QED BY <1>1, CountersCoverUses, PTL

-----------------------------------------------------------------------------
(* Nothing is burned, when no room booking uses the coupon.                 *)

\* The checkouts that died with a use move by c at most.
LEMMA LostMove ==
  ASSUME TypeOK, NEW c \in Checkouts, Step(c)
  PROVE  /\ Cardinality(Lost) \in Nat /\ Cardinality(Lost') \in Nat
         /\ (c \in Lost <=> c \in Lost') => Cardinality(Lost') = Cardinality(Lost)
         /\ c \notin Lost /\ c \in Lost'
               => Cardinality(Lost') = Cardinality(Lost) + 1
         /\ c \in Lost /\ c \notin Lost'
               => Cardinality(Lost) = Cardinality(Lost') + 1
<1>1. Lost \in SUBSET Checkouts /\ Lost' \in SUBSET Checkouts
  BY DEF Lost
<1>2. \A d \in Checkouts \ {c} : d \in Lost <=> d \in Lost'
  BY OthersStay DEF Lost
<1> QED BY <1>1, <1>2, OneMoves

\* Those of one customer likewise.
LostOf(u) == Lost \cap Of(u)

LEMMA LostOfMove ==
  ASSUME TypeOK, NEW c \in Checkouts, Step(c), NEW u \in Users
  PROVE  /\ Cardinality(LostOf(u)) \in Nat /\ Cardinality(LostOf(u)') \in Nat
         /\ (c \in LostOf(u) <=> c \in LostOf(u)')
               => Cardinality(LostOf(u)') = Cardinality(LostOf(u))
         /\ c \notin LostOf(u) /\ c \in LostOf(u)'
               => Cardinality(LostOf(u)') = Cardinality(LostOf(u)) + 1
         /\ c \in LostOf(u) /\ c \notin LostOf(u)'
               => Cardinality(LostOf(u)) = Cardinality(LostOf(u)') + 1
<1>1. LostOf(u) \in SUBSET Checkouts /\ LostOf(u)' \in SUBSET Checkouts
  BY DEF LostOf, Of
<1>2. \A d \in Checkouts \ {c} : d \in LostOf(u) <=> d \in LostOf(u)'
  BY OthersStay DEF Lost, LostOf, Of
<1> QED BY <1>1, <1>2, OneMoves

\* The two halves of NothingBurned.
CouponNotBurned == coupon.status # "deleted" =>
                      coupon.used <= Cardinality(Uses) + Cardinality(Lost)
UserNotBurned(u) == count[u] <= Cardinality(UserUses(u)) + Cardinality(LostOf(u))

\* A checkout that ends early ends after its releases, or is lost.
LEMMA StepCouponNotBurned ==
  ASSUME CouponInv, CouponNotBurned, RoomsApart,
         NEW c \in Checkouts, Step(c)
  PROVE  CouponNotBurned'
<1> USE UsesMove, LostMove, OthersStay
    DEF CouponInv, CouponNotBurned, TypeOK, OrderedLate, Goto, Customer,
        RoomsApart
<1>1. caller[c] # "room"
  OBVIOUS
<1>2. CASE Reserve(c)
  <2>1. c \in Uses' /\ c \notin Uses /\ c \notin Lost
    BY <1>1, <1>2 DEF Reserve, Uses, Lost
  <2>2. coupon'.status = coupon.status /\ coupon'.used = coupon.used + 1
    BY <1>2 DEF Reserve
  <2>3. c \notin Lost'
    BY <1>2 DEF Reserve, Lost
  <2> QED BY <2>1, <2>2, <2>3
<1>3. CASE Release(c)
  <2>1. c \in Uses /\ c \notin Uses' /\ c \notin Lost /\ c \notin Lost'
    BY <1>1, <1>3 DEF Release, Uses, Lost
  <2>2. coupon.used >= 1
    BY <2>1 DEF CouponCounted
  <2>3. /\ coupon'.status = coupon.status
        /\ coupon.status # "deleted" => coupon'.used = coupon.used - 1
    BY <1>3, <2>2 DEF Release
  <2> QED BY <2>1, <2>3
<1>4. CASE Crash(c)
  <2>1. UNCHANGED coupon /\ c \notin Lost /\ (c \in Lost' <=> c \notin ordered)
    BY <1>4 DEF Crash, Lost
  <2>2. c \in Uses /\ c \in ordered => c \in Uses'
    BY <1>4 DEF Crash, Uses
  <2> QED BY <2>1, <2>2
<1>5. ASSUME Lookup(c) \/ LookupRefused(c) \/ CountRedemptions(c)
             \/ ReserveMissed(c) \/ CountUser(c) \/ InsertUser(c)
             \/ ReleaseUser(c) \/ CreateOrder(c) \/ CreateFails(c)
             \/ RecordRedemption(c)
      PROVE  CouponNotBurned'
  <2>1. UNCHANGED coupon
    BY <1>5 DEF Lookup, LookupRefused, CountRedemptions, ReserveMissed, CountUser,
          InsertUser, ReleaseUser, CreateOrder, CreateFails, RecordRedemption
  <2>2. (c \in Uses => c \in Uses') /\ (c \in Lost => c \in Lost')
    BY <1>1, <1>5
       DEF Lookup, LookupRefused, CountRedemptions, ReserveMissed, CountUser,
           InsertUser, ReleaseUser, CreateOrder, CreateFails, RecordRedemption,
           Uses, Lost
  <2> QED BY <2>1, <2>2
<1> QED BY <1>2, <1>3, <1>4, <1>5 DEF Step

\* The same for the counter of a customer.
LEMMA StepUserNotBurned ==
  ASSUME CouponInv, NEW u \in Users, UserNotBurned(u), RoomsApart,
         NEW c \in Checkouts, Step(c)
  PROVE  UserNotBurned(u)'
<1> USE UserUsesMove, LostOfMove, OthersStay
    DEF CouponInv, UserNotBurned, TypeOK, OrderedLate, Goto, Customer,
        RoomsApart
<1>1. CASE CountUser(c)
  <2>1. c \notin UserUses(u) /\ c \notin LostOf(u) /\ c \notin LostOf(u)'
    BY <1>1 DEF CountUser, UserUses, LostOf, Lost
  <2>2. \/ count'[u] = count[u] + 1 /\ c \in UserUses(u)'
        \/ count'[u] = count[u]
    BY <1>1 DEF CountUser, UserUses, Of
  <2> QED BY <2>1, <2>2
<1>2. CASE InsertUser(c)
  <2>1. c \notin UserUses(u) /\ c \notin LostOf(u) /\ c \notin LostOf(u)'
    BY <1>2 DEF InsertUser, UserUses, LostOf, Lost
  <2>2. u \notin rows => count[u] = 0
    BY DEF UserCounted
  <2>3. \/ count'[u] = count[u] + 1 /\ c \in UserUses(u)'
        \/ count'[u] = count[u]
    BY <1>2, <2>2 DEF InsertUser, UserUses, Of
  <2> QED BY <2>1, <2>3
<1>3. CASE ReleaseUser(c)
  <2>1. c \notin LostOf(u) /\ c \notin LostOf(u)'
    BY <1>3 DEF ReleaseUser, LostOf, Lost
  <2>2. CASE caller[c] = u
    <3>1. c \in UserUses(u) /\ c \notin UserUses(u)'
      BY <1>3, <2>2 DEF ReleaseUser, UserUses, Of
    <3>2. count[u] >= 1
      BY <3>1 DEF UserCounted
    <3>3. count'[u] = count[u] - 1
      BY <1>3, <2>2, <3>2 DEF ReleaseUser
    <3> QED BY <2>1, <3>1, <3>3
  <2>3. CASE caller[c] # u
    <3>1. c \notin UserUses(u) /\ c \notin UserUses(u)'
      BY <2>3 DEF UserUses, Of
    <3>2. count'[u] = count[u]
      BY <1>3, <2>3 DEF ReleaseUser
    <3> QED BY <2>1, <3>1, <3>2
  <2> QED BY <2>2, <2>3
<1>4. CASE Crash(c)
  <2>1. UNCHANGED count /\ c \notin LostOf(u)
    BY <1>4 DEF Crash, LostOf, Lost
  <2>2. c \in UserUses(u) => c \in UserUses(u)' \/ c \in LostOf(u)'
    BY <1>4 DEF Crash, UserUses, LostOf, Lost, Of
  <2> QED BY <2>1, <2>2
<1>5. ASSUME Lookup(c) \/ LookupRefused(c) \/ CountRedemptions(c)
             \/ Reserve(c) \/ ReserveMissed(c) \/ Release(c)
             \/ CreateOrder(c) \/ CreateFails(c) \/ RecordRedemption(c)
      PROVE  UserNotBurned(u)'
  <2>1. UNCHANGED count
    BY <1>5 DEF Lookup, LookupRefused, CountRedemptions, Reserve, ReserveMissed,
          Release, CreateOrder, CreateFails, RecordRedemption
  <2>2. /\ c \in UserUses(u) => c \in UserUses(u)'
        /\ c \in LostOf(u) => c \in LostOf(u)'
    BY <1>5, CouponUseAssumption
       DEF Lookup, LookupRefused, CountRedemptions, Reserve, ReserveMissed,
           Release, CreateOrder, CreateFails, RecordRedemption,
           UserUses, LostOf, Lost, Of, CustomerLabels
  <2> QED BY <2>1, <2>2
<1> QED BY <1>1, <1>2, <1>3, <1>4, <1>5 DEF Step

\* Without room bookings, a checkout that is refused or whose order fails gives
\* back what it took, so that only a crash can burn a use (README.md:245 of the
\* backend; order.service.ts:169-172, 215-227, 435-440).
THEOREM FailedCheckoutsBurnNothing == Spec => []CouponBooks
<1> DEFINE Kept == CouponNotBurned /\ \A u \in Users : UserNotBurned(u)
           Inv == CouponInv /\ (RoomsApart => Kept)
<1>1. Init => Inv
  <2> SUFFICES ASSUME Init PROVE Inv
    OBVIOUS
  <2>1. CouponInv
    BY InitInv
  <2>2. /\ Uses = {} /\ Lost = {}
        /\ \A u \in Users : UserUses(u) = {} /\ LostOf(u) = {} /\ count[u] = 0
        /\ coupon.used = 0
    BY DEF Init, Uses, UserUses, Of, Lost, LostOf
  <2> QED BY <2>1, <2>2, FS_EmptySet DEF CouponNotBurned, UserNotBurned
<1>2. Inv /\ [Next]_vars => Inv'
  <2> SUFFICES ASSUME Inv, [Next]_vars PROVE Inv'
    OBVIOUS
  <2>1. CouponInv'
    BY NextInv
  <2>2. ASSUME NEW c \in Checkouts, Step(c), RoomsApart PROVE Kept'
    BY <2>2, StepCouponNotBurned, StepUserNotBurned
  <2>3. ASSUME AdminEdit, RoomsApart PROVE Kept'
    <3>1. /\ coupon.used' = coupon.used /\ Uses' = Uses /\ Lost' = Lost
          /\ count' = count /\ caller' = caller
          /\ \A u \in Users : UserUses(u)' = UserUses(u)
      BY <2>3, EditMovesNothing DEF CouponInv
    <3>2. coupon.status # "deleted"
      BY <2>3 DEF AdminEdit, SetUsageLimit, SetPerUserLimit, SetActive,
            DeleteCoupon, Live
    <3> QED BY <2>3, <3>1, <3>2 DEF CouponNotBurned, UserNotBurned, LostOf, Of
  <2>4. ASSUME UNCHANGED vars, RoomsApart PROVE Kept'
    BY <2>4 DEF vars, CouponNotBurned, UserNotBurned, Uses, UserUses, Lost,
          LostOf, Of
  <2>5. caller' = caller
    <3>1. ASSUME NEW c \in Checkouts, Step(c) PROVE caller' = caller
      BY <3>1, OthersStay DEF CouponInv
    <3> QED BY <3>1, EditMovesNothing DEF Next, AdminEdit, vars, CouponInv
  <2>6. RoomsApart' => Kept'
    <3> SUFFICES ASSUME RoomsApart' PROVE Kept'
      OBVIOUS
    <3>1. RoomsApart
      BY <2>5 DEF RoomsApart
    <3> HIDE DEF Kept
    <3> QED BY <2>2, <2>3, <2>4, <3>1 DEF Next, AdminEdit
  <2> QED BY <2>1, <2>6
<1>3. Inv => CouponBooks
  BY DEF CouponBooks, NothingBurned, CouponInv, CouponNotBurned, UserNotBurned, LostOf
<1> HIDE DEF Inv
<1> QED BY <1>1, <1>2, <1>3, PTL DEF Spec

=============================================================================
