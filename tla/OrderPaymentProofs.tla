------------------------- MODULE OrderPaymentProofs -------------------------
(***************************************************************************)
(* What TLAPS proves of OrderPayment, for every set of requests, every mix *)
(* of handlers and payment methods and every bound: type correctness, that *)
(* only a paid order is ever refunded, that a document version is refunded *)
(* at the gateway at most once, that the handlers implement the ledger,    *)
(* that the kitchen hears of an order once and of an online order only     *)
(* after a genuine payment, which is the one of the gateway order the      *)
(* document names, and, without forced statuses and refunds by hand, that  *)
(* what is refunded stays within the charge.                               *)
(***************************************************************************)
EXTENDS OrderPayment, TLAPS

USE OrderRulesAssumption, OrderPaymentAssumption

-----------------------------------------------------------------------------
(* Lemmas about the document.                                               *)

(* A total is a natural number.                                             *)
LEMMA TotalType ==
    ASSUME NEW u \in Nat, NEW s \in Nat
    PROVE  Total(u, s) \in Nat
<1>1. s * u \in Nat
  OBVIOUS
<1> QED BY <1>1 DEF Total

(* A total never grows when units are cancelled, unless the surcharge does. *)
LEMMA TotalMonotone ==
    \A u, w \in Nat : \A s, t \in Nat :
        w <= u /\ t <= s => Total(w, t) <= Total(u, s)
<1> SUFFICES ASSUME NEW u \in Nat, NEW w \in Nat, NEW s \in Nat, NEW t \in Nat,
                    w <= u, t <= s
             PROVE  Total(w, t) <= Total(u, s)
  OBVIOUS
<1>1. t * w <= s * w
  OBVIOUS
<1>2. s * w <= s * u
  OBVIOUS
<1>3. t * w \in Nat /\ s * w \in Nat /\ s * u \in Nat
  OBVIOUS
<1> QED BY <1>1, <1>2, <1>3 DEF Total

(* The document checkout creates is well formed.                            *)
LEMMA NewOrderType ==
    ASSUME NEW m \in CheckoutMethods, NEW s \in Nat
    PROVE  NewOrder(m, s) \in Orders
<1>1. Total(OrderedUnits, s) \in Nat
  BY TotalType
<1> QED BY <1>1 DEF NewOrder, Orders, Statuses, PayStatuses, RefundStatuses

(* Each transition leads to a status.                                       *)
LEMMA TransitionsType ==
    ASSUME NEW s \in Statuses
    PROVE  Transitions[s] \subseteq Statuses
  BY DEF Transitions, Statuses

(* save() of a well-formed copy leaves a well-formed document.              *)
LEMMA SavedType ==
    ASSUME NEW read \in Orders, NEW doc \in Orders, NEW cur \in Orders
    PROVE  Saved(read, doc, cur) \in Orders
<1> DEFINE S == [f \in DOMAIN cur |-> IF doc[f] # read[f] THEN doc[f] ELSE cur[f]]
<1>1. cur.v + 1 \in Nat
  BY DEF Orders
<1>2. S \in Orders
  BY DEF Orders
<1>3. [S EXCEPT !.v = cur.v + 1] \in Orders
  <2> HIDE DEF S
  <2> QED BY <1>1, <1>2 DEF Orders
<1> QED BY <1>3 DEF Saved

(* Every edit a handler makes keeps the document well formed.               *)
LEMMA StageType ==
    ASSUME NEW o \in Orders
    PROVE  StageFull(o) \in Orders
  BY DEF StageFull, Orders, RefundStatuses

\* Moving an order to a status keeps it well formed.
LEMMA MovedType ==
    ASSUME NEW o \in Orders, NEW next \in Statuses
    PROVE  MovedTo(o, next) \in Orders
  BY DEF MovedTo, Orders, PayStatuses

\* Cancelling the whole order keeps it well formed.
LEMMA CancelledType ==
    ASSUME NEW o \in Orders
    PROVE  CancelledOrder(o) \in Orders
<1>1. [o EXCEPT !.status = "CANCELLED"] \in Orders
  BY DEF Orders, Statuses
<1> QED BY <1>1, StageType DEF CancelledOrder

\* Cancelling units keeps the order well formed: no unit count or amount
\* becomes negative.
LEMMA CancelledItemsType ==
    ASSUME NEW o \in Orders, NEW k \in 1 .. o.units, NEW s \in Nat
    PROVE  CancelledItems(o, k, s) \in Orders
<1> DEFINE left == o.units - k
           total == Total(left, s)
           delta == IF o.total > total THEN o.total - total ELSE 0
<1>1. o.units \in Nat /\ left \in 0 .. OrderedUnits /\ left \in Nat
  BY DEF Orders
<1>2. total \in Nat /\ o.total \in Nat /\ o.amount \in Nat
  BY <1>1, TotalType DEF Orders
<1> HIDE DEF left, total
<1>3. o.amount + delta \in Nat
  BY <1>2
<1> HIDE DEF delta
<1>4. [o EXCEPT !.units = left,
                !.total = total,
                !.status = IF left = 0 THEN "CANCELLED" ELSE @,
                !.refund = IF o.pay = "PAID" /\ delta > 0 THEN "INITIATED" ELSE @,
                !.amount = IF o.pay = "PAID" THEN @ + delta ELSE @] \in Orders
  BY <1>1, <1>2, <1>3 DEF Orders, Statuses, RefundStatuses
<1> QED BY <1>4 DEF CancelledItems, left, total, delta

\* Recording a refund keeps the order well formed.
LEMMA RefundTakenType ==
    ASSUME NEW o \in Orders, NEW result \in RefundStatuses
    PROVE  RefundTaken(o, result) \in Orders
  BY DEF RefundTaken, Orders, PayStatuses

\* The payment handlers keep the order well formed.
LEMMA PaymentEditsType ==
    ASSUME NEW o \in Orders, NEW g \in Nat
    PROVE  /\ Attempted(o, g) \in Orders
           /\ Paid(o, g) \in Orders
           /\ Paid(o, Other) \in Orders
           /\ [o EXCEPT !.pay = "FAILED"] \in Orders
  BY DEF Attempted, Paid, Orders, PayStatuses

\* The refund handlers keep the order well formed.
LEMMA RefundEditsType ==
    ASSUME NEW o \in Orders, NEW s \in RefundStatuses
    PROVE  [o EXCEPT !.refund = s] \in Orders /\ RequestedRefund(o) \in Orders
  BY DEF RequestedRefund, Orders, RefundStatuses

-----------------------------------------------------------------------------
(* Lemmas about requests.                                                   *)

\* A request at any of the program points is a legal request.
LEMMA RequestType ==
    /\ Idle \in RequestStates
    /\ \A pc \in {"idle", "save", "claim", "gateway", "notify"},
          after \in {"done", "notify", "claim", "offer", "refunded", "failed", "heard"},
          read \in Orders, doc \in Orders : At(pc, after, read, doc) \in RequestStates
<1>1. NewOrder("COD", 0) \in Orders
  BY NewOrderType DEF CheckoutMethods
<1> QED BY <1>1 DEF Idle, At, RequestStates

(* Whatever happens to the save, the request goes on in a legal state.      *)
LEMMA AfterSaveType ==
    ASSUME NEW q \in RequestStates
    PROVE  AfterSave(q) \in RequestStates /\ AfterFailedSave(q) \in RequestStates
<1>1. AfterSave(q) \in RequestStates
  BY RequestType DEF AfterSave, RequestStates
<1>2. [q.doc EXCEPT !.refund = "FAILED"] \in Orders /\ q.read \in Orders
  BY RefundEditsType DEF RequestStates, RefundStatuses
<1>3. AfterFailedSave(q) \in RequestStates
  BY <1>2, RequestType DEF AfterFailedSave
<1> QED BY <1>1, <1>3

(* Starting a handler with a well-formed copy preserves the types.          *)
LEMMA BeginType ==
    ASSUME TypeOK, NEW r \in Requests, NEW op, NEW doc \in Orders,
           NEW after \in {"done", "notify", "claim", "offer", "refunded", "failed", "heard"},
           Begin(r, op, after, doc)
    PROVE  TypeOK'
<1>1. At("save", after, order, doc) \in RequestStates
  BY RequestType DEF TypeOK
<1> QED BY <1>1 DEF TypeOK, Begin, gatewayVars, settingVars, historyVars

(* Every handler's first step preserves the types.                          *)
LEMMA LoadType ==
    ASSUME TypeOK, NEW r \in Requests, Load(r)
    PROVE  TypeOK'
<1> USE DEF TypeOK
<1>1. order \in Orders /\ order.status \in Statuses /\ order.gwOrder \in Nat
      /\ surcharge \in Nat
  BY DEF Orders
<1>2. CASE UpdateStatus(r)
  <2> PICK next \in Transitions[order.status] :
             Begin(r, "updateStatus", "done", Advanced(order, next))
    BY <1>2 DEF UpdateStatus
  <2>1. next \in Statuses
    BY <1>1, TransitionsType
  <2>2. Advanced(order, next) \in Orders
    BY <2>1, <1>1, MovedType, StageType DEF Advanced
  <2> QED BY <2>2, BeginType
<1>3. CASE ForceStatus(r)
  <2> PICK next \in Statuses : Begin(r, "forceStatus", "done", Forced(order, next))
    BY <1>3 DEF ForceStatus
  <2>1. Forced(order, next) \in Orders
    BY <1>1, MovedType, StageType DEF Forced
  <2> QED BY <2>1, BeginType
<1>4. CASE CancelOrder(r)
  BY <1>4, <1>1, CancelledType, BeginType DEF CancelOrder
<1>5. CASE CancelItems(r)
  BY <1>5, <1>1, CancelledItemsType, BeginType DEF CancelItems
<1>6. CASE AddInternalNote(r)
  BY <1>6, <1>1, BeginType DEF AddInternalNote
<1>7. CASE RequestRefund(r)
  BY <1>7, <1>1, RefundEditsType, BeginType DEF RequestRefund, RefundStatuses
<1>8. CASE ApproveRefund(r)
  BY <1>8, <1>1, RefundEditsType, BeginType DEF ApproveRefund, RefundStatuses
<1>9. CASE RejectRefund(r)
  BY <1>9, <1>1, RefundEditsType, BeginType DEF RejectRefund, RefundStatuses
<1>10. CASE CreateRazorpayOrder(r)
  <2>1. attempts + 1 \in Nat
    OBVIOUS
  <2>2. Attempted(order, attempts + 1) \in Orders
    BY <2>1, <1>1, PaymentEditsType
  <2>3. At("save", "offer", order, Attempted(order, attempts + 1)) \in RequestStates
    BY <2>2, <1>1, RequestType
  <2> QED BY <1>10, <2>3 DEF CreateRazorpayOrder, settingVars, historyVars
<1>11. CASE VerifyAndSettle(r)
  <2>1. CASE Begin(r, "verify", "done", order)
    BY <2>1, <1>1, BeginType
  <2>2. ASSUME NEW g \in payments \cup {Other}, Begin(r, "verify", "notify", Paid(order, g))
        PROVE  TypeOK'
    <3>1. g \in Nat \/ g = Other
      OBVIOUS
    <3>2. Paid(order, g) \in Orders
      BY <3>1, <1>1, PaymentEditsType
    <3> QED BY <2>2, <3>2, BeginType
  <2> QED BY <1>11, <2>1, <2>2 DEF VerifyAndSettle
<1>12. CASE MarkFailed(r)
  BY <1>12, <1>1, PaymentEditsType, BeginType DEF MarkFailed
<1>13. CASE WebhookCaptured(r)
  BY <1>13, <1>1, PaymentEditsType, BeginType DEF WebhookCaptured
<1>14. CASE WebhookFailed(r)
  BY <1>14, <1>1, PaymentEditsType, BeginType DEF WebhookFailed
<1>15. CASE WebhookRefund(r)
  BY <1>15, <1>1, RefundEditsType, BeginType DEF WebhookRefund, RefundStatuses
<1>16. CASE ProcessRefund(r)
  <2>1. At("claim", "refunded", order, order) \in RequestStates
    BY <1>1, RequestType
  <2> QED BY <1>16, <2>1 DEF ProcessRefund, gatewayVars, settingVars, historyVars
<1> QED BY <1>2, <1>3, <1>4, <1>5, <1>6, <1>7, <1>8, <1>9, <1>10, <1>11,
           <1>12, <1>13, <1>14, <1>15, <1>16 DEF Load

(* Saving, claiming, talking to the gateway and failing preserve the types. *)
LEMMA SaveType ==
    ASSUME TypeOK, NEW r \in Requests,
           Save(r) \/ SaveConflict(r) \/ SaveFault(r) \/ Crash(r) \/ Notify(r)
    PROVE  TypeOK'
<1> USE DEF TypeOK
<1>1. req[r] \in RequestStates
  OBVIOUS
<1>2. req[r].read \in Orders /\ req[r].doc \in Orders
      /\ req[r].doc.gwOrder \in Nat /\ req[r].doc.refundId \in Nat
  BY <1>1 DEF RequestStates, Orders
<1>3. CASE Save(r)
  <2>1. order' \in Orders
    BY <1>2, <1>3, SavedType DEF Save
  <2>2. req' \in [Requests -> RequestStates]
    BY <1>1, <1>3, AfterSaveType DEF Save
  <2>3. offered' \subseteq Nat
    BY <1>2, <1>3 DEF Save
  <2>4. heard' \subseteq Nat
    BY <1>2, <1>3 DEF Save
  <2>5. grown' \in Nat
    <3>1. order.total \in Nat /\ order'.total \in Nat
      BY <2>1 DEF Orders
    <3>2. grown' = IF order'.total > order.total
                   THEN grown + (order'.total - order.total) ELSE grown
      BY <1>3 DEF Save
    <3> QED BY <3>1, <3>2
  <2>6. payments' \subseteq offered'
    BY <1>3 DEF Save
  <2>7. /\ attempts' = attempts /\ refunds' = refunds /\ processed' = processed
        /\ surcharge' = surcharge /\ raised' = raised /\ overtaken' = overtaken
        /\ kitchenNew' = kitchenNew /\ faults' = faults
    BY <1>3 DEF Save, settingVars
  <2> QED BY <2>1, <2>2, <2>3, <2>5, <2>6, <2>7, <2>4
<1>4. CASE SaveConflict(r)
  BY <1>1, <1>4, AfterSaveType DEF SaveConflict, gatewayVars, settingVars, historyVars
<1>5. CASE SaveFault(r)
  BY <1>1, <1>5, AfterSaveType DEF SaveFault, gatewayVars, settingVars, historyVars
<1>6. CASE Crash(r)
  BY <1>6, RequestType DEF Crash, gatewayVars, settingVars, historyVars
<1>7. CASE Notify(r)
  BY <1>7, RequestType DEF Notify, gatewayVars, settingVars, historyVars
<1> QED BY <1>3, <1>4, <1>5, <1>6, <1>7

\* The steps of processRefund preserve the types.
LEMMA RefundStepType ==
    ASSUME TypeOK, NEW r \in Requests,
           Claim(r) \/ GatewayAccepts(r) \/ GatewayRefuses(r) \/ GatewayAnswerLost(r)
    PROVE  TypeOK'
<1> USE DEF TypeOK
<1>1. req[r] \in RequestStates
  OBVIOUS
<1>2. req[r].read \in Orders /\ req[r].doc \in Orders
      /\ [v |-> req[r].read.v, amount |-> req[r].read.amount] \in [v : Nat, amount : Nat]
  BY <1>1 DEF RequestStates, Orders
<1>3. [req[r].doc EXCEPT !.refund = "FAILED"] \in Orders
  BY <1>2, RefundEditsType DEF RefundStatuses
<1>4. CASE Claim(r)
  <2> DEFINE claimed == [order EXCEPT !.refund = "PROCESSING"]
  <2>1. claimed \in Orders
    BY RefundEditsType DEF RefundStatuses
  <2>2. RefundTaken(claimed, "REFUNDED") \in Orders
    BY <2>1, RefundTakenType DEF RefundStatuses
  <2>3. /\ At("gateway", "refunded", claimed, claimed) \in RequestStates
        /\ At("save", "refunded", claimed, RefundTaken(claimed, "REFUNDED")) \in RequestStates
    BY <2>1, <2>2, RequestType
  <2> HIDE DEF claimed
  <2>4. order' \in Orders /\ req' \in [Requests -> RequestStates]
    BY <1>4, <2>1, <2>3, RequestType DEF Claim, claimed
  <2> QED BY <1>4, <2>4 DEF Claim, gatewayVars, settingVars, historyVars
<1>5. CASE GatewayAccepts(r)
  <2> DEFINE id == Len(refunds) + 1
  <2>1. id \in Nat /\ refunds' \in Seq([v : Nat, amount : Nat]) /\ Len(refunds') = id
    BY <1>2, <1>5 DEF GatewayAccepts
  <2>2. ASSUME NEW result \in {"REFUNDED", "PROCESSING"}
        PROVE  At("save", "refunded", req[r].read,
                  [RefundTaken(req[r].doc, result) EXCEPT !.refundId = id]) \in RequestStates
    <3>1. RefundTaken(req[r].doc, result) \in Orders
      BY <1>2, RefundTakenType DEF RefundStatuses
    <3>2. [RefundTaken(req[r].doc, result) EXCEPT !.refundId = id] \in Orders
      <4> HIDE DEF id
      <4> QED BY <3>1, <2>1 DEF Orders
    <3> QED BY <3>2, <1>2, RequestType
  <2>3. req' \in [Requests -> RequestStates]
    BY <2>2, <1>5 DEF GatewayAccepts
  <2>4. processed' \subseteq 1 .. Len(refunds')
    BY <2>1, <1>5 DEF GatewayAccepts
  <2> QED BY <1>5, <2>1, <2>3, <2>4 DEF GatewayAccepts, settingVars, historyVars
<1>6. CASE GatewayRefuses(r)
  BY <1>2, <1>3, <1>6, RequestType DEF GatewayRefuses, gatewayVars, settingVars, historyVars
<1>7. CASE GatewayAnswerLost(r)
  <2>1. refunds' \in Seq([v : Nat, amount : Nat]) /\ Len(refunds') = Len(refunds) + 1
    BY <1>2, <1>7 DEF GatewayAnswerLost
  <2>2. req' \in [Requests -> RequestStates]
    BY <1>2, <1>3, <1>7, RequestType DEF GatewayAnswerLost
  <2> QED BY <1>7, <2>1, <2>2 DEF GatewayAnswerLost, settingVars, historyVars
<1> QED BY <1>4, <1>5, <1>6, <1>7

\* The types hold when the order is placed.
LEMMA TypeInit == Init => TypeOK
<1> SUFFICES ASSUME Init PROVE TypeOK
  OBVIOUS
<1>1. order \in Orders
  BY NewOrderType DEF Init
<1>2. req \in [Requests -> RequestStates]
  BY RequestType DEF Init
<1>3. refunds \in Seq([v : Nat, amount : Nat]) /\ processed \subseteq 1 .. Len(refunds)
  BY DEF Init
<1>4. /\ attempts \in Nat /\ offered \subseteq Nat /\ payments \subseteq offered
      /\ heard \subseteq Nat /\ surcharge \in Surcharges /\ raised \in BOOLEAN
      /\ grown \in Nat /\ overtaken \in BOOLEAN /\ kitchenNew \in Nat /\ faults \in Nat
  BY DEF Init
<1> QED BY <1>1, <1>2, <1>3, <1>4 DEF TypeOK

\* Every step preserves the types.
LEMMA TypeStep == TypeOK /\ [Next]_vars => TypeOK'
<1> SUFFICES ASSUME TypeOK, [Next]_vars PROVE TypeOK'
  OBVIOUS
<1>1. CASE UNCHANGED vars
  BY <1>1 DEF TypeOK, vars, gatewayVars, settingVars, historyVars
<1>2. ASSUME NEW r \in Requests, Load(r) \/ Proceed(r) \/ Fault(r)
      PROVE  TypeOK'
  BY <1>2, LoadType, SaveType, RefundStepType DEF Proceed, Fault
<1>3. CASE CustomerPays
  BY <1>3 DEF TypeOK, CustomerPays, settingVars, historyVars
<1>4. CASE GatewayProcesses
  <2>1. DOMAIN refunds = 1 .. Len(refunds)
    BY DEF TypeOK
  <2>2. processed' \subseteq 1 .. Len(refunds)
    BY <2>1, <1>4 DEF TypeOK, GatewayProcesses
  <2> QED BY <1>4, <2>2 DEF TypeOK, GatewayProcesses, settingVars, historyVars
<1>5. CASE WebhookRefundUnknown
  <2>1. heard' \subseteq Nat
    BY <1>5 DEF TypeOK, WebhookRefundUnknown
  <2> QED BY <1>5, <2>1 DEF TypeOK, WebhookRefundUnknown, settingVars, historyVars
<1>6. CASE SetServiceCharge
  BY <1>6 DEF TypeOK, SetServiceCharge, gatewayVars, historyVars
<1> QED BY <1>1, <1>2, <1>3, <1>4, <1>5, <1>6 DEF Next

(* The document, the copies requests hold and the gateway's records have    *)
(* their types in every reachable state.                                    *)
THEOREM TypeCorrect == Spec => []TypeOK
<1> QED BY TypeInit, TypeStep, PTL DEF Spec

-----------------------------------------------------------------------------
(* The inductive invariant.  A save is accepted only from a request that    *)
(* read the current version, and every accepted save moves the version, so  *)
(* such a request's copy still agrees with the document on all the fields   *)
(* the claim does not touch.  What the handler decided on the copy is       *)
(* therefore a step of the ledger from the document it overwrites.          *)

Agree(o, p) == /\ o.method = p.method /\ o.status = p.status /\ o.units = p.units
               /\ o.pay = p.pay /\ o.paidAt = p.paidAt

\* Fields of the ledger that one edit leaves alone.
SameRest(o, d) == d.units = o.units
SameMoney(o, d) == d.pay = o.pay /\ d.paidAt = o.paidAt
SamePlace(o, d) == d.status = o.status /\ d.units = o.units

MoveStep(o, d) ==
    \E next \in Statuses :
        /\ next \in Transitions[o.status] \/ "forceStatus" \in Ops
        /\ d.status = next
        /\ SameRest(o, d)
        /\ IF SettlesOnDelivery(next, o.method, o.pay)
           THEN d.pay = "PAID" /\ d.paidAt = TRUE
           ELSE SameMoney(o, d)

CancelStep(o, d) ==
    /\ o.status \in Cancellable
    /\ SameMoney(o, d)
    /\ \/ d.status = "CANCELLED" /\ SameRest(o, d)
       \/ \E k \in 1 .. o.units :
             /\ d.units = o.units - k
             /\ d.status = IF k = o.units THEN "CANCELLED" ELSE o.status

PayStep(o, d) ==
    /\ SamePlace(o, d)
    /\ \/ o.pay # "PAID" /\ d.pay = "PAID" /\ d.paidAt = TRUE
       \/ o.pay # "PAID" /\ d.pay = "FAILED" /\ d.paidAt = o.paidAt
       \/ o.method = "RAZORPAY" /\ o.pay = "FAILED" /\ d.pay = "PENDING" /\ d.paidAt = o.paidAt
       \/ o.paidAt /\ d.pay \in {"REFUNDED", "PARTIALLY_REFUNDED"} /\ d.paidAt = o.paidAt

\* The ledger sees a stutter or one of its steps between o and d.
LedgerStep(o, d) ==
    /\ d.method = o.method
    /\ Agree(o, d) \/ MoveStep(o, d) \/ CancelStep(o, d) \/ PayStep(o, d)

PaidRule(o) ==
    o.refund # "NOT_REQUIRED" \/ o.pay = "PAID" \/ o.refundId # 0 => o.paidAt

\* What holds of a request q under way when the document is o.
RequestInv(q, o) ==
    /\ q.read.v <= o.v
    /\ q.read.v = o.v => Agree(q.read, o)
    /\ PaidRule(q.read)
    /\ q.pc = "save" => LedgerStep(q.read, q.doc) /\ PaidRule(q.doc)
    /\ q.pc = "save" /\ q.after = "refunded" => q.doc.paidAt
    /\ q.pc = "gateway" => q.doc = q.read /\ q.read.paidAt

SnapshotInv ==
    /\ PaidRule(order)
    /\ \A r \in Requests : req[r].pc # "idle" => RequestInv(req[r], order)

\* Claims on their way to the gateway and refunds it accepted stand for
\* pairwise different versions; the newest may be the current one only while
\* the document is still PROCESSING.
AtGateway(r) == req[r].pc = "gateway"
Spent(v, o) == v <= o.v /\ (v = o.v => o.refund = "PROCESSING")

ClaimInv ==
    /\ \A r \in Requests : AtGateway(r) => Spent(req[r].read.v, order)
    /\ \A i \in DOMAIN refunds : Spent(refunds[i].v, order)
    /\ \A r, s \in Requests :
         AtGateway(r) /\ AtGateway(s) /\ r # s => req[r].read.v # req[s].read.v
    /\ \A r \in Requests, i \in DOMAIN refunds :
         AtGateway(r) => refunds[i].v # req[r].read.v
    /\ OneRefundPerVersion

-----------------------------------------------------------------------------
(* Each edit is a ledger step from the copy it edits, and keeps PaidRule.   *)

\* Staging a refund touches the refund fields only.
LEMMA StageFields ==
    ASSUME NEW o \in Orders, PaidRule(o)
    PROVE  /\ StageFull(o).method = o.method /\ StageFull(o).status = o.status
           /\ StageFull(o).units = o.units /\ StageFull(o).pay = o.pay
           /\ StageFull(o).paidAt = o.paidAt
           /\ PaidRule(StageFull(o))
  BY DEF StageFull, Orders, PaidRule

\* Moving an order touches its status and, on a delivery, its payment.
LEMMA MovedFields ==
    ASSUME NEW o \in Orders, NEW next \in Statuses, PaidRule(o),
           next \in Transitions[o.status] \/ "forceStatus" \in Ops
    PROVE  /\ MovedTo(o, next).method = o.method
           /\ MoveStep(o, MovedTo(o, next))
           /\ PaidRule(MovedTo(o, next))
<1> DEFINE d == MovedTo(o, next)
<1>1. /\ d.method = o.method /\ d.status = next /\ d.units = o.units
      /\ d.refund = o.refund /\ d.refundId = o.refundId
      /\ IF SettlesOnDelivery(next, o.method, o.pay)
         THEN d.pay = "PAID" /\ d.paidAt = TRUE
         ELSE d.pay = o.pay /\ d.paidAt = o.paidAt
  BY DEF MovedTo, Orders
<1> HIDE DEF d
<1>2. MoveStep(o, d)
  BY <1>1 DEF MoveStep, SameRest, SameMoney
<1>3. PaidRule(d)
  BY <1>1 DEF PaidRule
<1> QED BY <1>1, <1>2, <1>3 DEF d

\* Staging after a move leaves the ledger's view of the move alone.
LEMMA StagedMove ==
    ASSUME NEW o \in Orders, NEW next \in Statuses, PaidRule(o),
           next \in Transitions[o.status] \/ "forceStatus" \in Ops
    PROVE  LET d == StageFull(MovedTo(o, next))
           IN  LedgerStep(o, d) /\ PaidRule(d)
<1> DEFINE e == MovedTo(o, next)
           d == StageFull(e)
<1>1. e \in Orders /\ e.method = o.method /\ MoveStep(o, e) /\ PaidRule(e)
  BY MovedType, MovedFields
<1> HIDE DEF e
<1>2. /\ d.method = e.method /\ d.status = e.status /\ d.units = e.units
      /\ d.pay = e.pay /\ d.paidAt = e.paidAt /\ PaidRule(d)
  BY <1>1, StageFields
<1> HIDE DEF d
<1>3. MoveStep(o, d)
  BY <1>1, <1>2 DEF MoveStep, SameRest, SameMoney
<1> QED BY <1>1, <1>2, <1>3 DEF LedgerStep, d, e

\* updateStatus and forceStatus make a ledger step.
LEMMA MoveEdits ==
    ASSUME NEW o \in Orders, NEW next \in Statuses, PaidRule(o)
    PROVE  /\ next \in Transitions[o.status] =>
                LedgerStep(o, Advanced(o, next)) /\ PaidRule(Advanced(o, next))
           /\ "forceStatus" \in Ops =>
                LedgerStep(o, Forced(o, next)) /\ PaidRule(Forced(o, next))
<1>1. ASSUME next \in Transitions[o.status] \/ "forceStatus" \in Ops
      PROVE  LedgerStep(o, MovedTo(o, next)) /\ PaidRule(MovedTo(o, next))
  BY <1>1, MovedFields DEF LedgerStep
<1> QED BY <1>1, StagedMove DEF Advanced, Forced

\* cancelOrder and cancelItems make a ledger step.
LEMMA CancelEdits ==
    ASSUME NEW o \in Orders, PaidRule(o), o.status \in Cancellable, NEW s \in Nat
    PROVE  /\ LedgerStep(o, CancelledOrder(o)) /\ PaidRule(CancelledOrder(o))
           /\ \A k \in 1 .. o.units :
                LedgerStep(o, CancelledItems(o, k, s)) /\ PaidRule(CancelledItems(o, k, s))
<1>1. LedgerStep(o, CancelledOrder(o)) /\ PaidRule(CancelledOrder(o))
  <2> DEFINE e == [o EXCEPT !.status = "CANCELLED"]
             d == StageFull(e)
  <2>1. /\ e \in Orders /\ e.method = o.method /\ e.status = "CANCELLED"
        /\ e.units = o.units /\ e.pay = o.pay /\ e.paidAt = o.paidAt /\ PaidRule(e)
    BY DEF Orders, Statuses, PaidRule
  <2> HIDE DEF e
  <2>2. /\ d.method = e.method /\ d.status = e.status /\ d.units = e.units
        /\ d.pay = e.pay /\ d.paidAt = e.paidAt /\ PaidRule(d)
    BY <2>1, StageFields
  <2> HIDE DEF d
  <2>3. CancelStep(o, d)
    BY <2>1, <2>2 DEF CancelStep, SameMoney, SameRest
  <2>4. d = CancelledOrder(o)
    BY DEF CancelledOrder, d, e
  <2> QED BY <2>1, <2>2, <2>3, <2>4 DEF LedgerStep
<1>2. ASSUME NEW k \in 1 .. o.units
      PROVE  LedgerStep(o, CancelledItems(o, k, s)) /\ PaidRule(CancelledItems(o, k, s))
  <2> DEFINE d == CancelledItems(o, k, s)
  <2>1. o.units \in Nat /\ (o.units - k = 0 <=> k = o.units)
    BY DEF Orders
  <2>2. /\ d.method = o.method /\ d.units = o.units - k
        /\ d.status = IF o.units - k = 0 THEN "CANCELLED" ELSE o.status
        /\ d.pay = o.pay /\ d.paidAt = o.paidAt
        /\ d.refund = o.refund \/ o.pay = "PAID"
        /\ d.refundId = o.refundId
    BY DEF CancelledItems, Orders
  <2> HIDE DEF d
  <2>3. CancelStep(o, d)
    BY <2>1, <2>2 DEF CancelStep, SameMoney
  <2>4. PaidRule(d)
    BY <2>2 DEF PaidRule
  <2> QED BY <2>2, <2>3, <2>4 DEF LedgerStep, d
<1> QED BY <1>1, <1>2

\* The refund requests leave what the ledger sees alone.
LEMMA RefundEdits ==
    ASSUME NEW o \in Orders, PaidRule(o), o.paidAt, NEW s \in RefundStatuses
    PROVE  /\ LedgerStep(o, RequestedRefund(o)) /\ PaidRule(RequestedRefund(o))
           /\ LedgerStep(o, [o EXCEPT !.refund = s]) /\ PaidRule([o EXCEPT !.refund = s])
  BY DEF RequestedRefund, Orders, LedgerStep, Agree, PaidRule

\* The payment handlers make a ledger step.
LEMMA PayEdits ==
    ASSUME NEW o \in Orders, PaidRule(o), o.pay # "PAID", NEW g \in Nat \cup {Other}
    PROVE  /\ LedgerStep(o, Paid(o, g)) /\ PaidRule(Paid(o, g))
           /\ o.method = "RAZORPAY" =>
                LedgerStep(o, Attempted(o, g)) /\ PaidRule(Attempted(o, g))
           /\ LedgerStep(o, [o EXCEPT !.pay = "FAILED"])
           /\ PaidRule([o EXCEPT !.pay = "FAILED"])
  BY DEF Paid, Attempted, Orders, LedgerStep, Agree, PayStep, SamePlace, PaidRule

\* Recording a refund of a paid order makes a ledger step.
LEMMA TakenEdit ==
    ASSUME NEW o \in Orders, o.paidAt, NEW result \in RefundStatuses, NEW id \in Nat
    PROVE  LET d == RefundTaken(o, result)
               e == [d EXCEPT !.refundId = id]
           IN  /\ LedgerStep(o, d) /\ PaidRule(d) /\ d.paidAt
               /\ LedgerStep(o, e) /\ PaidRule(e) /\ e.paidAt
  BY DEF RefundTaken, Orders, LedgerStep, PayStep, SamePlace, PaidRule

\* Marking a copy FAILED after its save was refused is no ledger step.
LEMMA FailedEdit ==
    ASSUME NEW o \in Orders, NEW d \in Orders, LedgerStep(o, d), d.paidAt
    PROVE  LET e == [d EXCEPT !.refund = "FAILED"]
           IN  LedgerStep(o, e) /\ PaidRule(e)
<1> DEFINE e == [d EXCEPT !.refund = "FAILED"]
<1>1. /\ e.method = d.method /\ e.status = d.status /\ e.units = d.units
      /\ e.pay = d.pay /\ e.paidAt = d.paidAt
  BY DEF Orders
<1> HIDE DEF e
<1>2. LedgerStep(o, e)
  BY <1>1 DEF LedgerStep, Agree, MoveStep, CancelStep, PayStep, SameRest, SameMoney, SamePlace
<1>3. PaidRule(e)
  BY <1>1 DEF PaidRule
<1> QED BY <1>2, <1>3 DEF e

-----------------------------------------------------------------------------
(* An accepted save carries the ledger step over to the document.           *)

\* An accepted save of a current copy leaves what the copy says.
LEMMA SavedFields ==
    ASSUME NEW read \in Orders, NEW doc \in Orders, NEW cur \in Orders,
           Agree(read, cur)
    PROVE  LET new == Saved(read, doc, cur)
           IN  /\ Agree(new, doc)
               /\ new.v = cur.v + 1
               /\ new.refund = doc.refund \/ new.refund = cur.refund
               /\ new.refundId = doc.refundId \/ new.refundId = cur.refundId
  BY DEF Saved, Orders, Agree

\* An accepted save is the ledger step its edit was.
LEMMA SavedStep ==
    ASSUME NEW read \in Orders, NEW doc \in Orders, NEW cur \in Orders,
           Agree(read, cur), LedgerStep(read, doc), PaidRule(doc), PaidRule(cur)
    PROVE  LET new == Saved(read, doc, cur)
           IN  LedgerStep(cur, new) /\ PaidRule(new) /\ new.v = cur.v + 1
<1> DEFINE new == Saved(read, doc, cur)
<1>1. /\ Agree(new, doc) /\ new.v = cur.v + 1
      /\ new.refund = doc.refund \/ new.refund = cur.refund
      /\ new.refundId = doc.refundId \/ new.refundId = cur.refundId
  BY SavedFields
<1> HIDE DEF new
<1>2. LedgerStep(cur, new)
  BY <1>1 DEF LedgerStep, Agree, MoveStep, CancelStep, PayStep, SameRest, SameMoney, SamePlace
<1>3. cur.paidAt => doc.paidAt
  BY DEF LedgerStep, Agree, MoveStep, CancelStep, PayStep, SameRest, SameMoney, SamePlace, Orders
<1>4. PaidRule(new)
  BY <1>1, <1>3 DEF PaidRule, Agree
<1> QED BY <1>1, <1>2, <1>4 DEF new

-----------------------------------------------------------------------------
(* The steps preserve SnapshotInv.                                          *)

\* The document keeps the ledger's fields, or moves to a later version.
Onward(o, p) == \/ p.v = o.v /\ Agree(o, p)
                \/ p.v > o.v

\* A request that is not touched keeps its invariant while the document
\* stays or moves on to a later version.
LEMMA RequestFrame ==
    ASSUME NEW o \in Orders, NEW p \in Orders, Onward(o, p),
           NEW q \in RequestStates, RequestInv(q, o)
    PROVE  RequestInv(q, p)
<1>1. q.read.v \in Nat /\ o.v \in Nat /\ p.v \in Nat
  BY DEF RequestStates, Orders
<1> QED BY <1>1 DEF RequestInv, Onward, Agree

\* A step of one request keeps the invariant of the others.
LEMMA StepFrame ==
    ASSUME TypeOK, SnapshotInv, TypeOK', Onward(order, order'), PaidRule(order'),
           NEW r \in Requests, NEW q, req' = [req EXCEPT ![r] = q],
           q.pc # "idle" => RequestInv(q, order')
    PROVE  SnapshotInv'
<1>1. ASSUME NEW s \in Requests, req'[s].pc # "idle"
      PROVE  RequestInv(req'[s], order')
  <2>1. CASE s = r
    BY <1>1, <2>1 DEF TypeOK
  <2>2. CASE s # r
    <3>1. req'[s] = req[s] /\ req[s] \in RequestStates /\ RequestInv(req[s], order)
      BY <1>1, <2>2 DEF TypeOK, SnapshotInv
    <3> QED BY <3>1, RequestFrame DEF TypeOK
  <2> QED BY <2>1, <2>2
<1> QED BY <1>1 DEF SnapshotInv

\* A document that did not change counts as moved on.
LEMMA SameOnward ==
    ASSUME NEW o \in Orders PROVE Onward(o, o)
  BY DEF Onward, Agree

\* A handler that loads the current document and edits it keeps the
\* invariant.
LEMMA BeginSnapshot ==
    ASSUME TypeOK, SnapshotInv, TypeOK', NEW r \in Requests, NEW op,
           NEW after \in {"done", "notify", "claim", "offer", "heard"}, NEW doc,
           req' = [req EXCEPT ![r] = At("save", after, order, doc)],
           order' = order, LedgerStep(order, doc), PaidRule(doc)
    PROVE  SnapshotInv'
<1> DEFINE q == At("save", after, order, doc)
<1>1. order \in Orders /\ PaidRule(order)
  BY DEF TypeOK, SnapshotInv
<1>2. RequestInv(q, order)
  BY <1>1 DEF At, RequestInv, Agree, Orders
<1> HIDE DEF q
<1>3. req' = [req EXCEPT ![r] = q]
  BY DEF q
<1> QED BY <1>1, <1>2, <1>3, StepFrame, SameOnward

\* Every handler's first step keeps the invariant.
LEMMA LoadSnapshot ==
    ASSUME TypeOK, SnapshotInv, TypeOK', NEW r \in Requests, Load(r)
    PROVE  SnapshotInv'
<1>1. /\ order \in Orders /\ PaidRule(order) /\ order.status \in Statuses
      /\ order.gwOrder \in Nat /\ LedgerStep(order, order)
      /\ order.refund \in RefundStatuses /\ surcharge \in Nat
  BY DEF TypeOK, SnapshotInv, Orders, LedgerStep, Agree
<1> DEFINE New(doc) == LedgerStep(order, doc) /\ PaidRule(doc)
<1>2. ASSUME NEW op, NEW after \in {"done", "notify", "claim", "heard"}, NEW doc,
             Begin(r, op, after, doc), New(doc)
      PROVE  SnapshotInv'
  BY <1>2, BeginSnapshot DEF Begin, gatewayVars, settingVars, historyVars
<1>3. CASE UpdateStatus(r)
  <2> PICK next \in Transitions[order.status] :
             Begin(r, "updateStatus", "done", Advanced(order, next))
    BY <1>3 DEF UpdateStatus
  <2>1. New(Advanced(order, next))
    BY <1>1, TransitionsType, MoveEdits
  <2> QED BY <2>1, <1>2
<1>4. CASE ForceStatus(r)
  <2> PICK next \in Statuses : Begin(r, "forceStatus", "done", Forced(order, next))
    BY <1>4 DEF ForceStatus
  <2>1. New(Forced(order, next))
    BY <1>1, MoveEdits DEF Begin
  <2> QED BY <2>1, <1>2
<1>5. CASE CancelOrder(r)
  <2>1. New(CancelledOrder(order)) /\ Begin(r, "cancelOrder", "done", CancelledOrder(order))
    BY <1>5, <1>1, CancelEdits DEF CancelOrder
  <2> QED BY <2>1, <1>2
<1>6. CASE CancelItems(r)
  <2> PICK k \in 1 .. order.units :
             Begin(r, "cancelItems", "done", CancelledItems(order, k, surcharge))
    BY <1>6 DEF CancelItems
  <2>1. New(CancelledItems(order, k, surcharge))
    BY <1>6, <1>1, CancelEdits DEF CancelItems
  <2> QED BY <2>1, <1>2
<1>7. CASE AddInternalNote(r)
  BY <1>7, <1>1, <1>2 DEF AddInternalNote
<1>8. CASE RequestRefund(r)
  <2>1. order.paidAt
    BY <1>8, <1>1 DEF RequestRefund, PaidRule
  <2>2. New(RequestedRefund(order))
    BY <2>1, <1>1, RefundEdits
  <2> QED BY <1>8, <2>2, <1>2 DEF RequestRefund
<1>9. CASE ApproveRefund(r)
  <2>1. order.paidAt
    BY <1>9, <1>1 DEF ApproveRefund, PaidRule
  <2>2. New([order EXCEPT !.refund = "INITIATED"])
    BY <2>1, <1>1, RefundEdits DEF RefundStatuses
  <2> QED BY <1>9, <2>2, <1>2 DEF ApproveRefund
<1>10. CASE RejectRefund(r)
  <2>1. order.paidAt
    BY <1>10, <1>1 DEF RejectRefund, PaidRule
  <2>2. New([order EXCEPT !.refund = "NOT_REQUIRED"])
    BY <2>1, <1>1, RefundEdits DEF RefundStatuses
  <2> QED BY <1>10, <2>2, <1>2 DEF RejectRefund
<1>11. CASE CreateRazorpayOrder(r)
  <2>1. attempts + 1 \in Nat
    BY DEF TypeOK
  <2>2. New(Attempted(order, attempts + 1))
    BY <1>11, <2>1, <1>1, PayEdits DEF CreateRazorpayOrder
  <2> QED BY <1>11, <2>2, BeginSnapshot DEF CreateRazorpayOrder
<1>12. CASE VerifyAndSettle(r)
  <2>1. CASE Begin(r, "verify", "done", order)
    BY <2>1, <1>1, <1>2
  <2>2. ASSUME NEW g \in payments \cup {Other}, order.pay # "PAID",
               Begin(r, "verify", "notify", Paid(order, g))
        PROVE  SnapshotInv'
    <3>1. g \in Nat \cup {Other}
      BY DEF TypeOK
    <3>2. New(Paid(order, g))
      BY <2>2, <3>1, <1>1, PayEdits
    <3> QED BY <2>2, <3>2, <1>2
  <2> QED BY <1>12, <2>1, <2>2 DEF VerifyAndSettle
<1>13. CASE MarkFailed(r)
  <2>1. New([order EXCEPT !.pay = "FAILED"])
    BY <1>13, <1>1, PayEdits DEF MarkFailed
  <2> QED BY <1>13, <2>1, <1>2 DEF MarkFailed
<1>14. CASE WebhookCaptured(r)
  <2>1. New(Paid(order, order.gwOrder))
    BY <1>14, <1>1, PayEdits DEF WebhookCaptured
  <2> QED BY <1>14, <2>1, <1>2 DEF WebhookCaptured
<1>15. CASE WebhookFailed(r)
  <2>1. New([order EXCEPT !.pay = "FAILED"])
    BY <1>15, <1>1, PayEdits DEF WebhookFailed
  <2> QED BY <1>15, <2>1, <1>2 DEF WebhookFailed
<1>16. CASE WebhookRefund(r)
  <2>1. order.refundId # 0
    BY <1>16 DEF WebhookRefund, TypeOK
  <2>2. order.paidAt
    BY <2>1, <1>1 DEF PaidRule
  <2>3. New([order EXCEPT !.refund = "REFUNDED"])
    BY <2>2, <1>1, RefundEdits DEF RefundStatuses
  <2> QED BY <1>16, <2>3, <1>2 DEF WebhookRefund
<1>17. CASE ProcessRefund(r)
  <2> DEFINE q == At("claim", "refunded", order, order)
  <2>1. RequestInv(q, order)
    BY <1>1 DEF At, RequestInv, Agree, Orders
  <2>2. req' = [req EXCEPT ![r] = q] /\ order' = order
    BY <1>17 DEF ProcessRefund
  <2> HIDE DEF q
  <2> QED BY <2>1, <2>2, <1>1, StepFrame, SameOnward
<1> QED BY <1>3, <1>4, <1>5, <1>6, <1>7, <1>8, <1>9, <1>10, <1>11, <1>12,
           <1>13, <1>14, <1>15, <1>16, <1>17 DEF Load

\* What an accepted save of request r does to the document.
LEMMA SaveFacts ==
    ASSUME TypeOK, SnapshotInv, NEW r \in Requests, Save(r)
    PROVE  /\ LedgerStep(order, order')
           /\ PaidRule(order')
           /\ order'.v = order.v + 1
           /\ order'.method = order.method
<1>1. /\ req[r] \in RequestStates /\ req[r].read \in Orders
      /\ req[r].doc \in Orders /\ order \in Orders
  BY DEF TypeOK, RequestStates
<1>2. RequestInv(req[r], order) /\ PaidRule(order)
  BY DEF SnapshotInv, Save
<1>3. /\ Agree(req[r].read, order)
      /\ LedgerStep(req[r].read, req[r].doc)
      /\ PaidRule(req[r].doc)
  BY <1>2 DEF RequestInv, Save
<1>4. order' = Saved(req[r].read, req[r].doc, order)
  BY DEF Save
<1> QED BY <1>1, <1>2, <1>3, <1>4, SavedStep DEF LedgerStep, Agree

\* A request whose save was refused.
LEMMA RefusedSave ==
    ASSUME TypeOK, SnapshotInv, NEW r \in Requests, req[r].pc = "save",
           AfterFailedSave(req[r]).pc # "idle"
    PROVE  RequestInv(AfterFailedSave(req[r]), order)
<1> DEFINE q == req[r]
           e == [q.doc EXCEPT !.refund = "FAILED"]
<1>1. q \in RequestStates /\ q.read \in Orders /\ q.doc \in Orders
  BY DEF TypeOK, RequestStates
<1>2. q.after = "refunded"
  BY DEF AfterFailedSave, Idle
<1>3. RequestInv(q, order)
  BY DEF SnapshotInv
<1>4. LedgerStep(q.read, q.doc) /\ q.doc.paidAt
  BY <1>2, <1>3 DEF RequestInv
<1>5. LedgerStep(q.read, e) /\ PaidRule(e)
  BY <1>1, <1>4, FailedEdit
<1> HIDE DEF e
<1>6. RequestInv(At("save", "failed", q.read, e), order)
  BY <1>3, <1>5 DEF RequestInv, At
<1> QED BY <1>2, <1>6 DEF AfterFailedSave, e

\* Saving, failing to save, crashing and notifying keep the invariant.
LEMMA SaveSnapshot ==
    ASSUME TypeOK, SnapshotInv, TypeOK', NEW r \in Requests,
           Save(r) \/ SaveConflict(r) \/ SaveFault(r) \/ Crash(r) \/ Notify(r)
    PROVE  SnapshotInv'
<1>1. /\ req[r] \in RequestStates /\ order \in Orders /\ order' \in Orders
      /\ PaidRule(order) /\ Onward(order, order) /\ Idle.pc = "idle"
  BY SameOnward DEF TypeOK, SnapshotInv, Idle
<1>2. CASE Save(r)
  <2>1. Onward(order, order')
    BY <1>1, <1>2, SaveFacts DEF Onward, Orders
  <2>2. RequestInv(req[r], order)
    BY <1>2 DEF SnapshotInv, Save
  <2>3. RequestInv(req[r], order')
    BY <1>1, <2>1, <2>2, RequestFrame
  <2>4. AfterSave(req[r]).pc # "idle" => RequestInv(AfterSave(req[r]), order')
    BY <1>1, <2>3 DEF AfterSave, RequestInv, RequestStates
  <2>5. req' = [req EXCEPT ![r] = AfterSave(req[r])]
    BY <1>2 DEF Save
  <2> QED BY <1>2, <2>1, <2>4, <2>5, SaveFacts, StepFrame
<1>3. CASE SaveConflict(r)
  <2>1. AfterFailedSave(req[r]).pc # "idle" => RequestInv(AfterFailedSave(req[r]), order)
    BY <1>3, RefusedSave DEF SaveConflict
  <2> QED BY <1>1, <1>3, <2>1, StepFrame DEF SaveConflict
<1>4. CASE SaveFault(r)
  <2>1. AfterFailedSave(req[r]).pc # "idle" => RequestInv(AfterFailedSave(req[r]), order)
    BY <1>4, RefusedSave DEF SaveFault
  <2> QED BY <1>1, <1>4, <2>1, StepFrame DEF SaveFault
<1>5. CASE Crash(r)
  BY <1>1, <1>5, StepFrame DEF Crash
<1>6. CASE Notify(r)
  BY <1>1, <1>6, StepFrame DEF Notify
<1> QED BY <1>2, <1>3, <1>4, <1>5, <1>6

\* The steps of processRefund keep the invariant.
LEMMA RefundSnapshot ==
    ASSUME TypeOK, SnapshotInv, TypeOK', NEW r \in Requests,
           Claim(r) \/ GatewayAccepts(r) \/ GatewayRefuses(r) \/ GatewayAnswerLost(r)
    PROVE  SnapshotInv'
<1>1. /\ req[r] \in RequestStates /\ req[r].read \in Orders /\ req[r].doc \in Orders
      /\ order \in Orders /\ order' \in Orders /\ Len(refunds) + 1 \in Nat
      /\ PaidRule(order) /\ Onward(order, order) /\ Idle.pc = "idle"
  BY SameOnward DEF TypeOK, RequestStates, SnapshotInv, Idle
<1>2. CASE Claim(r)
  <2> DEFINE c == [order EXCEPT !.refund = "PROCESSING"]
             t == RefundTaken(c, "REFUNDED")
  <2>1. CASE Claimable(order)
    <3>1. order' = c
      BY <1>2, <2>1 DEF Claim
    <3>2. /\ c \in Orders /\ c.v = order.v /\ Agree(order, c) /\ c.refund = "PROCESSING"
          /\ c.refundId = order.refundId /\ c.pay = order.pay /\ c.method = order.method
      <4>1. c \in Orders
        BY <1>1, RefundEditsType DEF RefundStatuses
      <4>2. /\ c.v = order.v /\ Agree(order, c) /\ c.refund = "PROCESSING"
            /\ c.refundId = order.refundId /\ c.pay = order.pay /\ c.method = order.method
        BY <1>1 DEF Agree, Orders
      <4> QED BY <4>1, <4>2
    <3>3. order.paidAt /\ c.paidAt
      BY <1>1, <2>1, <3>2 DEF Claimable, PaidRule, Agree
    <3>4. PaidRule(c) /\ Onward(order, c)
      BY <3>2, <3>3 DEF PaidRule, Onward
    <3>5. LedgerStep(c, t) /\ PaidRule(t) /\ t.paidAt
      BY <3>2, <3>3, TakenEdit DEF RefundStatuses
    <3>6. c.v <= c.v
      BY <3>2 DEF Orders
    <3> HIDE DEF c, t
    <3>7. /\ RequestInv(At("gateway", "refunded", c, c), c)
          /\ RequestInv(At("save", "refunded", c, t), c)
      BY <3>6, <3>3, <3>4, <3>5 DEF RequestInv, At, Agree
    <3>8. PICK q \in {At("gateway", "refunded", c, c), At("save", "refunded", c, t)} :
             req' = [req EXCEPT ![r] = q]
      BY <1>2, <2>1 DEF Claim, c, t
    <3> QED BY <1>1, <3>1, <3>2, <3>4, <3>7, <3>8, StepFrame
  <2>2. CASE ~Claimable(order)
    BY <1>1, <1>2, <2>2, StepFrame DEF Claim
  <2> QED BY <2>1, <2>2
<1> DEFINE q == req[r]
           e == [q.doc EXCEPT !.refund = "FAILED"]
<1>3. ASSUME q.pc = "gateway"
      PROVE  /\ RequestInv(q, order) /\ q.doc = q.read /\ q.read.paidAt
             /\ LedgerStep(q.read, q.read)
  BY <1>3 DEF SnapshotInv, RequestInv, LedgerStep, Agree
<1>4. ASSUME q.pc = "gateway"
      PROVE  RequestInv(At("save", "failed", q.read, e), order)
  <2>1. LedgerStep(q.read, e) /\ PaidRule(e)
    BY <1>1, <1>3, <1>4, FailedEdit
  <2> HIDE DEF e
  <2> QED BY <1>3, <1>4, <2>1 DEF RequestInv, At
<1>5. CASE GatewayAccepts(r)
  <2> DEFINE N(result) == At("save", "refunded", q.read,
                 [RefundTaken(q.doc, result) EXCEPT !.refundId = Len(refunds) + 1])
  <2>1. ASSUME NEW result \in {"REFUNDED", "PROCESSING"}
        PROVE  RequestInv(N(result), order)
    <3> DEFINE d == [RefundTaken(q.doc, result) EXCEPT !.refundId = Len(refunds) + 1]
    <3>1. q.pc = "gateway"
      BY <1>5 DEF GatewayAccepts
    <3>2. LedgerStep(q.read, d) /\ PaidRule(d) /\ d.paidAt
      BY <1>1, <1>3, <3>1, TakenEdit DEF RefundStatuses
    <3> HIDE DEF d
    <3>3. RequestInv(At("save", "refunded", q.read, d), order)
      BY <1>3, <3>1, <3>2 DEF RequestInv, At
    <3> QED BY <3>3 DEF d
  <2>2. PICK result \in {"REFUNDED", "PROCESSING"} : req' = [req EXCEPT ![r] = N(result)]
    BY <1>5 DEF GatewayAccepts
  <2> HIDE DEF N
  <2> QED BY <1>1, <1>5, <2>1, <2>2, StepFrame DEF GatewayAccepts
<1>6. CASE GatewayRefuses(r)
  <2>1. req' = [req EXCEPT ![r] = At("save", "failed", q.read, e)]
    BY <1>6 DEF GatewayRefuses, TypeOK
  <2> HIDE DEF e
  <2> QED BY <1>1, <1>4, <1>6, <2>1, StepFrame DEF GatewayRefuses
<1>7. CASE GatewayAnswerLost(r)
  <2>1. req' = [req EXCEPT ![r] = At("save", "failed", q.read, e)]
    BY <1>7 DEF GatewayAnswerLost, TypeOK
  <2> HIDE DEF e
  <2> QED BY <1>1, <1>4, <1>7, <2>1, StepFrame DEF GatewayAnswerLost
<1> QED BY <1>2, <1>5, <1>6, <1>7

\* The invariant holds when the order is placed.
LEMMA SnapshotInit == Init => SnapshotInv
<1> SUFFICES ASSUME Init PROVE SnapshotInv
  OBVIOUS
<1>1. PICK m \in Methods : order = NewOrder(m, surcharge)
  BY DEF Init
<1>2. PaidRule(order)
  BY <1>1 DEF NewOrder, PaidRule
<1>3. \A r \in Requests : req[r].pc = "idle"
  BY DEF Init, Idle
<1> QED BY <1>2, <1>3 DEF Init, SnapshotInv

\* Every step keeps the invariant.
LEMMA SnapshotStep == TypeOK /\ SnapshotInv /\ [Next]_vars => SnapshotInv'
<1> SUFFICES ASSUME TypeOK, SnapshotInv, [Next]_vars PROVE SnapshotInv'
  OBVIOUS
<1>1. TypeOK'
  BY TypeStep
<1>2. CASE UNCHANGED vars
  BY <1>2 DEF SnapshotInv, vars
<1>3. ASSUME NEW r \in Requests, Load(r) \/ Proceed(r) \/ Fault(r)
      PROVE  SnapshotInv'
  BY <1>1, <1>3, LoadSnapshot, SaveSnapshot, RefundSnapshot DEF Proceed, Fault
<1>4. CASE CustomerPays
  BY <1>4 DEF SnapshotInv, CustomerPays
<1>5. CASE GatewayProcesses
  BY <1>5 DEF SnapshotInv, GatewayProcesses
<1>6. CASE WebhookRefundUnknown
  BY <1>6 DEF SnapshotInv, WebhookRefundUnknown
<1>7. CASE SetServiceCharge
  BY <1>7 DEF SnapshotInv, SetServiceCharge
<1> QED BY <1>2, <1>3, <1>4, <1>5, <1>6, <1>7 DEF Next

\* The inductive invariant: a copy whose version is still the document's
\* agrees with it, every pending edit is a ledger step from the copy it was
\* made on, and none stages a refund of an order that was never paid.
THEOREM Snapshots == Spec => []SnapshotInv
<1> QED BY SnapshotInit, SnapshotStep, TypeCorrect, PTL DEF Spec

(* No refund is requested, staged, claimed or done for an order that was    *)
(* never paid, for any number of concurrent handlers with stale copies.     *)
THEOREM OnlyPaidIsRefunded == Spec => []RefundNeedsPayment
<1>1. SnapshotInv => RefundNeedsPayment
  BY DEF SnapshotInv, PaidRule, RefundNeedsPayment
<1> QED BY <1>1, Snapshots, PTL

-----------------------------------------------------------------------------
(* The handlers implement the ledger.                                       *)

\* Every step of the system is a ledger step or leaves the document alone.
LEMMA DocumentStep ==
    ASSUME TypeOK, SnapshotInv, [Next]_vars
    PROVE  order' = order \/ LedgerStep(order, order')
<1>1. ASSUME NEW r \in Requests, Load(r)
      PROVE  order' = order
  BY <1>1 DEF Load, Begin, UpdateStatus, ForceStatus, CancelOrder, CancelItems,
       AddInternalNote, RequestRefund, ApproveRefund, RejectRefund,
       CreateRazorpayOrder, VerifyAndSettle, MarkFailed, WebhookCaptured,
       WebhookFailed, WebhookRefund, ProcessRefund
<1>2. ASSUME NEW r \in Requests, Save(r)
      PROVE  LedgerStep(order, order')
  BY <1>2, SaveFacts
<1>3. ASSUME NEW r \in Requests, Claim(r)
      PROVE  order' = order \/ LedgerStep(order, order')
  BY <1>3 DEF Claim, TypeOK, Orders, LedgerStep, Agree
<1>4. ASSUME NEW r \in Requests,
             SaveConflict(r) \/ Notify(r) \/ GatewayAccepts(r) \/ GatewayRefuses(r) \/ Fault(r)
      PROVE  order' = order
  BY <1>4 DEF SaveConflict, Notify, GatewayAccepts, GatewayRefuses, Fault,
       SaveFault, Crash, GatewayAnswerLost
<1> QED BY <1>1, <1>2, <1>3, <1>4 DEF Next, Proceed, CustomerPays, GatewayProcesses,
           WebhookRefundUnknown, SetServiceCharge, vars

\* A ledger step on the fields of the document is a step of the ledger.
LEMMA LedgerSimulates ==
    ASSUME order \in Orders, order' \in Orders, LedgerStep(order, order')
    PROVE  [Ledger!Next]_Ledger!vars
<1> USE DEF Ledger!vars
<1>1. order'.method = order.method
  BY DEF LedgerStep
<1>2. CASE Agree(order, order')
  BY <1>2 DEF Agree
<1>3. CASE MoveStep(order, order')
  <2>1. PICK next \in Statuses :
        /\ next \in Transitions[order.status] \/ "forceStatus" \in Ops
        /\ order'.status = next
        /\ SameRest(order, order')
        /\ IF SettlesOnDelivery(next, order.method, order.pay)
           THEN order'.pay = "PAID" /\ order'.paidAt = TRUE
           ELSE SameMoney(order, order')
    BY <1>3 DEF MoveStep
  <2>2. Ledger!MoveTo(next)
    BY <1>1, <2>1 DEF Ledger!MoveTo, SameRest, SameMoney, SettlesOnDelivery,
         Ledger!SettlesOnDelivery
  <2>3. Ledger!Advance \/ Ledger!Force
    BY <2>1, <2>2 DEF Ledger!Advance, Ledger!Force, Transitions, Ledger!Transitions,
         Statuses, Ledger!Statuses
  <2> QED BY <2>3 DEF Ledger!Next
<1>4. CASE CancelStep(order, order')
  <2>1. Ledger!CancelAll \/ Ledger!CancelUnits
    BY <1>1, <1>4 DEF CancelStep, SameMoney, SameRest, Ledger!CancelAll,
         Ledger!CancelUnits, Cancellable, Ledger!Cancellable
  <2> QED BY <2>1 DEF Ledger!Next
<1>5. CASE PayStep(order, order')
  <2>1. Ledger!Settle \/ Ledger!Fail \/ Ledger!Retry \/ Ledger!Refund
    BY <1>1, <1>5 DEF PayStep, SamePlace, Ledger!Settle, Ledger!Fail, Ledger!Retry,
         Ledger!Refund
  <2> QED BY <2>1 DEF Ledger!Next
<1> QED BY <1>2, <1>3, <1>4, <1>5 DEF LedgerStep

(* However the requests interleave, the order takes the steps of handlers   *)
(* that ran one at a time: optimistic concurrency makes every decision a    *)
(* handler took on its copy valid for the document it overwrites.           *)
THEOREM HandlersImplementLedger == Spec => ImplementsLedger
<1>1. Init => Ledger!Init
  BY DEF Init, NewOrder, Ledger!Init
<1>2. TypeOK /\ TypeOK' /\ SnapshotInv /\ [Next]_vars => [Ledger!Next]_Ledger!vars
  <2> SUFFICES ASSUME TypeOK, TypeOK', SnapshotInv, [Next]_vars
               PROVE  [Ledger!Next]_Ledger!vars
    OBVIOUS
  <2>1. CASE order' = order
    BY <2>1 DEF Ledger!vars
  <2>2. CASE LedgerStep(order, order')
    BY <2>2, LedgerSimulates DEF TypeOK
  <2> QED BY <2>1, <2>2, DocumentStep
<1> QED BY <1>1, <1>2, TypeCorrect, Snapshots, PTL DEF Spec, ImplementsLedger, Ledger!Spec

-----------------------------------------------------------------------------
(* One gateway refund per document version.                                 *)

\* An element of a sequence is of the sequence's type.
LEMMA SeqElement ==
    ASSUME NEW S, NEW s \in Seq(S), NEW i \in 1 .. Len(s)
    PROVE  s[i] \in S
  OBVIOUS

\* Updating one request leaves the others alone.
LEMMA OneRequest ==
    ASSUME TypeOK, NEW r \in Requests, NEW q, req' = [req EXCEPT ![r] = q]
    PROVE  req'[r] = q /\ \A s \in Requests : s # r => req'[s] = req[s]
  BY DEF TypeOK

\* The versions that requests and refunds carry are natural numbers.
LEMMA VersionTypes ==
    ASSUME TypeOK
    PROVE  /\ \A r \in Requests : req[r].read.v \in Nat
           /\ \A i \in DOMAIN refunds : refunds[i].v \in Nat
<1>1. ASSUME NEW r \in Requests
      PROVE  req[r].read.v \in Nat
  <2>1. req[r] \in RequestStates
    BY DEF TypeOK
  <2>2. req[r].read \in Orders
    BY <2>1 DEF RequestStates
  <2> QED BY <2>2 DEF Orders
<1>2. ASSUME NEW i \in DOMAIN refunds
      PROVE  refunds[i].v \in Nat
  <2>1. refunds \in Seq([v : Nat, amount : Nat]) /\ i \in 1 .. Len(refunds)
    BY DEF TypeOK
  <2>2. refunds[i] \in [v : Nat, amount : Nat]
    BY <2>1, SeqElement
  <2> QED BY <2>2
<1> QED BY <1>1, <1>2

\* A step that starts no claim and accepts no refund, and leaves what is
\* spent spent, preserves ClaimInv.
LEMMA ClaimFrame ==
    ASSUME TypeOK, ClaimInv, refunds' = refunds,
           \/ order' = order
           \/ order'.v = order.v + 1 /\ order \in Orders,
           \A r \in Requests : AtGateway(r)' => AtGateway(r) /\ req'[r].read = req[r].read
    PROVE  ClaimInv'
<1>1. \A v \in Nat : Spent(v, order) => Spent(v, order')
  BY DEF Spent, TypeOK, Orders
<1>2. /\ \A r \in Requests : req[r].read.v \in Nat
      /\ \A i \in DOMAIN refunds : refunds[i].v \in Nat
  BY VersionTypes
<1>3. \A r \in Requests : AtGateway(r)' => Spent(req'[r].read.v, order')
  BY <1>1, <1>2 DEF ClaimInv
<1>4. \A i \in DOMAIN refunds : Spent(refunds[i].v, order')
  BY <1>1, <1>2 DEF ClaimInv
<1> QED BY <1>3, <1>4 DEF ClaimInv, OneRefundPerVersion

\* The gateway accepts a refund: the version of its claim is used up.
LEMMA AcceptClaims ==
    ASSUME TypeOK, ClaimInv, NEW r \in Requests, AtGateway(r), order' = order,
           NEW a, refunds' = Append(refunds, [v |-> req[r].read.v, amount |-> a]),
           NEW q, req' = [req EXCEPT ![r] = q], q.pc = "save"
    PROVE  ClaimInv'
<1> DEFINE n == Len(refunds)
           x == [v |-> req[r].read.v, amount |-> a]
<1>1. /\ n \in Nat /\ DOMAIN refunds = 1 .. n /\ DOMAIN refunds' = 1 .. n + 1
      /\ \A i \in 1 .. n : refunds'[i] = refunds[i]
      /\ refunds'[n + 1] = x /\ x.v = req[r].read.v
  <2>1. refunds \in Seq([v : Nat, amount : Nat])
    BY DEF TypeOK
  <2> HIDE DEF x
  <2>2. /\ n \in Nat /\ DOMAIN refunds = 1 .. n /\ DOMAIN refunds' = 1 .. n + 1
        /\ \A i \in 1 .. n : refunds'[i] = refunds[i]
        /\ refunds'[n + 1] = x
    BY <2>1 DEF x
  <2> QED BY <2>2 DEF x
<1> HIDE DEF n, x
<1>2. \A s \in Requests : AtGateway(s)' => s # r /\ AtGateway(s) /\ req'[s] = req[s]
  BY DEF AtGateway, TypeOK
<1>3. \A v : Spent(v, order') <=> Spent(v, order)
  BY DEF Spent
<1>4. \A s \in Requests : AtGateway(s)' => Spent(req'[s].read.v, order')
  BY <1>2, <1>3 DEF ClaimInv
<1>5. \A i \in DOMAIN refunds' : Spent(refunds'[i].v, order')
  BY <1>1, <1>3 DEF ClaimInv
<1>6. \A s, t \in Requests :
        AtGateway(s)' /\ AtGateway(t)' /\ s # t => req'[s].read.v # req'[t].read.v
  BY <1>2 DEF ClaimInv
<1>7. \A s \in Requests, i \in DOMAIN refunds' :
        AtGateway(s)' => refunds'[i].v # req'[s].read.v
  BY <1>1, <1>2 DEF ClaimInv
<1>8. OneRefundPerVersion'
  BY <1>1 DEF ClaimInv, OneRefundPerVersion
<1> QED BY <1>4, <1>5, <1>6, <1>7, <1>8 DEF ClaimInv

\* A claim starts on a version no other claim or refund has.
LEMMA ClaimStarts ==
    ASSUME TypeOK, ClaimInv, NEW r \in Requests, Claim(r)
    PROVE  ClaimInv'
<1>1. CASE ~Claimable(order)
  <2>1. order' = order /\ refunds' = refunds /\ req' = [req EXCEPT ![r] = Idle]
    BY <1>1 DEF Claim, gatewayVars, settingVars, historyVars
  <2>2. Idle.pc # "gateway"
    BY DEF Idle
  <2> QED BY <2>1, <2>2, OneRequest, ClaimFrame DEF AtGateway
<1>2. CASE Claimable(order)
  <2> DEFINE c == [order EXCEPT !.refund = "PROCESSING"]
  <2>1. order' = c /\ refunds' = refunds
    BY <1>2 DEF Claim, gatewayVars, settingVars, historyVars
  <2>2. c.v = order.v /\ c.refund = "PROCESSING" /\ order.v \in Nat
    BY DEF TypeOK, Orders
  <2>3. order.refund # "PROCESSING"
    BY <1>2 DEF Claimable
  <2>4. \A v \in Nat : Spent(v, order) => Spent(v, order') /\ v # order.v
    BY <2>1, <2>2, <2>3 DEF Spent
  <2>5. PICK q : /\ req' = [req EXCEPT ![r] = q]
                 /\ q.pc = "gateway" => q.read = c
    BY <1>2 DEF Claim, At
  <2> HIDE DEF c
  <2>6. \A s \in Requests :
          AtGateway(s)' =>
            \/ s # r /\ AtGateway(s) /\ req'[s] = req[s]
            \/ s = r /\ req'[s].read.v = order.v
    <3>1. req'[r] = q /\ \A s \in Requests : s # r => req'[s] = req[s]
      BY <2>5, OneRequest
    <3> TAKE s \in Requests
    <3> HAVE AtGateway(s)'
    <3>2. CASE s = r
      BY <2>2, <2>5, <3>1, <3>2 DEF AtGateway
    <3>3. CASE s # r
      BY <3>1, <3>3 DEF AtGateway
    <3> QED BY <3>2, <3>3
  <2>7. /\ \A s \in Requests : req[s].read.v \in Nat
        /\ \A i \in DOMAIN refunds : refunds[i].v \in Nat
    BY VersionTypes
  <2>8. Spent(order.v, order')
    BY <2>1, <2>2 DEF Spent
  <2>9. \A s \in Requests : AtGateway(s)' => Spent(req'[s].read.v, order')
    <3> TAKE s \in Requests
    <3> HAVE AtGateway(s)'
    <3>1. CASE s # r /\ AtGateway(s) /\ req'[s] = req[s]
      BY <3>1, <2>4, <2>7 DEF ClaimInv
    <3>2. CASE s = r /\ req'[s].read.v = order.v
      <4>1. req'[s].read.v = order'.v /\ order'.refund = "PROCESSING" /\ order'.v \in Nat
        BY <3>2, <2>1, <2>2
      <4> QED BY <4>1 DEF Spent
    <3> QED BY <3>1, <3>2, <2>6
  <2>10. \A i \in DOMAIN refunds : Spent(refunds[i].v, order')
    BY <2>4, <2>7, <2>1 DEF ClaimInv
  <2>11. \A s, t \in Requests :
          AtGateway(s)' /\ AtGateway(t)' /\ s # t => req'[s].read.v # req'[t].read.v
    BY <2>4, <2>6, <2>7 DEF ClaimInv
  <2>12. \A s \in Requests, i \in DOMAIN refunds :
          AtGateway(s)' => refunds[i].v # req'[s].read.v
    BY <2>4, <2>6, <2>7 DEF ClaimInv
  <2> QED BY <2>1, <2>9, <2>10, <2>11, <2>12 DEF ClaimInv, OneRefundPerVersion
<1> QED BY <1>1, <1>2

\* Every step keeps refunds and claims on versions of their own.
LEMMA ClaimStep == TypeOK /\ [Next]_vars /\ ClaimInv => ClaimInv'
<1> SUFFICES ASSUME TypeOK, [Next]_vars, ClaimInv PROVE ClaimInv'
  OBVIOUS
<1>1. order \in Orders
  BY DEF TypeOK
<1>2. ASSUME NEW r \in Requests, Load(r)
      PROVE  ClaimInv'
  <2>1. order' = order /\ refunds' = refunds
    BY <1>2 DEF Load, Begin, UpdateStatus, ForceStatus, CancelOrder, CancelItems,
       AddInternalNote, RequestRefund, ApproveRefund, RejectRefund,
       CreateRazorpayOrder, VerifyAndSettle, MarkFailed, WebhookCaptured,
       WebhookFailed, WebhookRefund, ProcessRefund, gatewayVars, settingVars, historyVars
  <2>2. \E q : req' = [req EXCEPT ![r] = q] /\ q.pc # "gateway"
    BY <1>2 DEF Load, Begin, UpdateStatus, ForceStatus, CancelOrder, CancelItems,
       AddInternalNote, RequestRefund, ApproveRefund, RejectRefund,
       CreateRazorpayOrder, VerifyAndSettle, MarkFailed, WebhookCaptured,
       WebhookFailed, WebhookRefund, ProcessRefund, At
  <2> QED BY <2>1, <2>2, OneRequest, ClaimFrame DEF AtGateway
<1>3. ASSUME NEW r \in Requests, Save(r)
      PROVE  ClaimInv'
  <2>1. order'.v = order.v + 1 /\ refunds' = refunds
    BY <1>3 DEF Save, Saved, TypeOK, Orders
  <2>2. \E q : req' = [req EXCEPT ![r] = q] /\ q.pc # "gateway"
    <3>1. req[r] \in RequestStates /\ req[r].pc = "save"
      BY <1>3 DEF Save, TypeOK
    <3>2. AfterSave(req[r]).pc # "gateway"
      BY <3>1 DEF AfterSave, Idle, RequestStates
    <3> QED BY <1>3, <3>2 DEF Save
  <2> QED BY <1>1, <2>1, <2>2, OneRequest, ClaimFrame DEF AtGateway
<1>4. ASSUME NEW r \in Requests,
             \/ SaveConflict(r) \/ SaveFault(r) \/ Crash(r) \/ Notify(r) \/ GatewayRefuses(r)
      PROVE  ClaimInv'
  <2>1. order' = order /\ refunds' = refunds
    BY <1>4 DEF SaveConflict, SaveFault, Crash, Notify, GatewayRefuses, gatewayVars, settingVars, historyVars
  <2>2. \E q : req' = [req EXCEPT ![r] = q] /\ q.pc # "gateway"
    <3>1. AfterFailedSave(req[r]).pc # "gateway" /\ Idle.pc # "gateway"
      BY DEF AfterFailedSave, At, Idle
    <3>2. CASE GatewayRefuses(r)
      <4> DEFINE q == At("save", "failed", req[r].read,
                         [req[r].doc EXCEPT !.refund = "FAILED"])
      <4>1. req' = [req EXCEPT ![r] = q]
        BY <3>2 DEF GatewayRefuses, TypeOK
      <4>2. q.pc = "save"
        BY DEF At
      <4> HIDE DEF q
      <4> QED BY <4>1, <4>2
    <3> QED BY <1>4, <3>1, <3>2 DEF SaveConflict, SaveFault, Crash, Notify
  <2> QED BY <2>1, <2>2, OneRequest, ClaimFrame DEF AtGateway
<1>5. ASSUME NEW r \in Requests, GatewayAccepts(r) \/ GatewayAnswerLost(r)
      PROVE  ClaimInv'
  <2>1. /\ AtGateway(r) /\ order' = order
        /\ refunds' = Append(refunds, [v |-> req[r].read.v, amount |-> req[r].read.amount])
    BY <1>5 DEF GatewayAccepts, GatewayAnswerLost, AtGateway
  <2>2. \E q : req' = [req EXCEPT ![r] = q] /\ q.pc = "save"
    BY <1>5 DEF GatewayAccepts, GatewayAnswerLost, At, TypeOK
  <2> QED BY <2>1, <2>2, AcceptClaims
<1>6. ASSUME order' = order, refunds' = refunds, req' = req
      PROVE  ClaimInv'
  BY <1>6, ClaimFrame DEF AtGateway
<1>7. CASE UNCHANGED vars \/ CustomerPays \/ GatewayProcesses \/ WebhookRefundUnknown
           \/ SetServiceCharge
  <2>1. order' = order /\ refunds' = refunds /\ req' = req
    BY <1>7 DEF CustomerPays, GatewayProcesses, WebhookRefundUnknown, SetServiceCharge,
         vars, gatewayVars
  <2> QED BY <2>1, <1>6
<1> QED BY <1>2, <1>3, <1>4, <1>5, <1>7, ClaimStarts DEF Next, Proceed, Fault

(* The claim in processRefund: of all the refunds the gateway accepts, no   *)
(* two were made on the same version of the order, whatever other handlers, *)
(* crashes and lost saves come between.                                     *)
THEOREM ClaimsAreExclusive == Spec => []OneRefundPerVersion
<1>1. Init => ClaimInv
  BY DEF Init, ClaimInv, AtGateway, Idle, OneRefundPerVersion
<1>2. ClaimInv => OneRefundPerVersion
  BY DEF ClaimInv
<1> QED BY <1>1, <1>2, ClaimStep, TypeCorrect, PTL DEF Spec

-----------------------------------------------------------------------------
(* The money an online order was settled with, and who was told of it.      *)

\* An online order that was paid names the payment that paid it.
MoneyRule(o, paid) == o.method = "RAZORPAY" /\ o.paidAt => o.gwPayment \in paid

\* What verifyAndSettle takes for money: the payments made for this order,
\* and the one made for another.
Genuine == payments \cup {Other}

\* No refund of the online order has reached the gateway yet.
Unrefunded == order.method = "RAZORPAY" /\ Len(refunds) = 0

\* What holds of a request under way when the document is o, the payments
\* made are paid, and fresh says that nothing was refunded yet.  Until then a
\* copy read as paid is also saved as paid, so a second handler that wants to
\* settle the order either read it paid already or is refused by its version.
TellInv(q, o, paid, fresh) ==
    /\ q.read.v = o.v => q.read.gwPayment = o.gwPayment
    /\ MoneyRule(q.doc, paid)
    /\ q.pc = "save" /\ q.after = "notify" =>
         q.doc.pay = "PAID" /\ q.doc.paidAt /\ q.read.pay # "PAID"
    /\ q.pc = "notify" => q.after = "notify" /\ o.paidAt
    /\ q.pc = "save" /\ q.after = "offer" => q.doc.gwOrder # 0
    /\ q.pc = "save" /\ fresh /\ q.read.method = "RAZORPAY" /\ q.read.pay = "PAID" =>
         q.doc.pay = "PAID"

Telling(r) == req[r].pc = "notify"

\* At most one request has told the kitchen or is about to.
OnceInv ==
    /\ kitchenNew <= 1
    /\ kitchenNew = 1 => order.pay = "PAID"
    /\ \A r \in Requests : Telling(r) => order.pay = "PAID" /\ kitchenNew = 0
    /\ \A r, s \in Requests : Telling(r) /\ Telling(s) => r = s

KitchenInv ==
    /\ kitchenNew > 0 => order.paidAt
    /\ 0 \notin offered
    /\ MoneyRule(order, Genuine)
    /\ \A r \in Requests :
         req[r].pc # "idle" => TellInv(req[r], order, Genuine, Unrefunded)
    /\ Unrefunded => OnceInv

\* An edit that settles nothing: the payment it names stays the payment made.
KeepsMoney(o, d, paid) ==
    /\ MoneyRule(d, paid)
    /\ o.pay = "PAID" => d.pay = "PAID"

(* Only a good signature or a captured payment makes an online order paid.  *)
LEMMA EditsKeepMoney ==
    ASSUME NEW o \in Orders, NEW paid, MoneyRule(o, paid)
    PROVE  /\ KeepsMoney(o, o, paid)
           /\ KeepsMoney(o, StageFull(o), paid)
           /\ \A next \in Statuses : KeepsMoney(o, MovedTo(o, next), paid)
           /\ KeepsMoney(o, CancelledOrder(o), paid)
           /\ \A k \in 1 .. o.units, s \in Nat :
                KeepsMoney(o, CancelledItems(o, k, s), paid)
           /\ KeepsMoney(o, RequestedRefund(o), paid)
           /\ \A g \in Nat : KeepsMoney(o, Attempted(o, g), paid)
           /\ \A g \in paid : KeepsMoney(o, Paid(o, g), paid)
           /\ o.pay # "PAID" => KeepsMoney(o, [o EXCEPT !.pay = "FAILED"], paid)
           /\ \A s \in RefundStatuses : KeepsMoney(o, [o EXCEPT !.refund = s], paid)
<1> USE DEF KeepsMoney, MoneyRule, Orders
<1>1. KeepsMoney(o, o, paid) /\ KeepsMoney(o, StageFull(o), paid)
  BY DEF StageFull
<1>2. \A next \in Statuses : KeepsMoney(o, MovedTo(o, next), paid)
  BY DEF MovedTo, SettlesOnDelivery
<1>3. KeepsMoney(o, CancelledOrder(o), paid)
  BY DEF CancelledOrder, StageFull
<1>4. \A k \in 1 .. o.units, s \in Nat : KeepsMoney(o, CancelledItems(o, k, s), paid)
  BY DEF CancelledItems
<1>5. KeepsMoney(o, RequestedRefund(o), paid)
  BY DEF RequestedRefund
<1>6. /\ \A g \in Nat : KeepsMoney(o, Attempted(o, g), paid)
      /\ \A g \in paid : KeepsMoney(o, Paid(o, g), paid)
  BY DEF Attempted, Paid
<1>7. /\ o.pay # "PAID" => KeepsMoney(o, [o EXCEPT !.pay = "FAILED"], paid)
      /\ \A s \in RefundStatuses : KeepsMoney(o, [o EXCEPT !.refund = s], paid)
  OBVIOUS
<1> QED BY <1>1, <1>2, <1>3, <1>4, <1>5, <1>6, <1>7

\* Moving and staging in one edit.
LEMMA MovesKeepMoney ==
    ASSUME NEW o \in Orders, NEW paid, MoneyRule(o, paid), NEW next \in Statuses
    PROVE  KeepsMoney(o, Advanced(o, next), paid) /\ KeepsMoney(o, Forced(o, next), paid)
<1> DEFINE e == MovedTo(o, next)
<1>1. e \in Orders /\ KeepsMoney(o, e, paid)
  BY MovedType, EditsKeepMoney
<1> HIDE DEF e
<1>2. KeepsMoney(e, StageFull(e), paid)
  BY <1>1, EditsKeepMoney DEF KeepsMoney
<1>3. KeepsMoney(o, StageFull(e), paid)
  BY <1>1, <1>2 DEF KeepsMoney
<1> QED BY <1>1, <1>3 DEF Advanced, Forced, e

\* A request that is not touched keeps its part while more is paid, the
\* payment of a version stays, and what was paid stays paid.
LEMMA TellFrame ==
    ASSUME NEW o \in Orders, NEW p \in Orders, NEW q \in RequestStates,
           NEW paid, NEW more, paid \subseteq more,
           NEW fresh \in BOOLEAN, NEW still \in BOOLEAN, still => fresh,
           q.read.v <= o.v, p.method = o.method, o.paidAt => p.paidAt,
           \/ p.v = o.v /\ p.gwPayment = o.gwPayment
           \/ p.v > o.v,
           TellInv(q, o, paid, fresh)
    PROVE  TellInv(q, p, more, still)
<1>1. q.read.v \in Nat /\ o.v \in Nat /\ p.v \in Nat
  BY DEF RequestStates, Orders
<1> QED BY <1>1 DEF TellInv, MoneyRule

\* A step of one request that keeps the document's payment, and who may tell
\* the kitchen, keeps the invariant.
LEMMA KitchenFrame ==
    ASSUME TypeOK, SnapshotInv, KitchenInv, TypeOK', NEW r \in Requests,
           NEW q, req' = [req EXCEPT ![r] = q],
           order'.method = order.method, order.paidAt => order'.paidAt,
           \/ order'.v = order.v /\ order'.gwPayment = order.gwPayment
           \/ order'.v > order.v,
           MoneyRule(order', Genuine'), payments \subseteq payments',
           Unrefunded' => Unrefunded,
           0 \notin offered',
           q.pc # "idle" => TellInv(q, order', Genuine', Unrefunded'),
           kitchenNew' > 0 => order'.paidAt,
           Unrefunded' => OnceInv'
    PROVE  KitchenInv'
<1>1. ASSUME NEW s \in Requests, req'[s].pc # "idle"
      PROVE  TellInv(req'[s], order', Genuine', Unrefunded')
  <2>1. CASE s = r
    BY <1>1, <2>1, OneRequest
  <2>2. CASE s # r
    <3>1. req'[s] = req[s]
      BY <2>2, OneRequest
    <3>2. /\ req[s] \in RequestStates /\ order \in Orders /\ order' \in Orders
          /\ TellInv(req[s], order, Genuine, Unrefunded)
          /\ req[s].read.v <= order.v
      BY <1>1, <3>1 DEF TypeOK, KitchenInv, SnapshotInv, RequestInv
    <3>3. /\ Unrefunded \in BOOLEAN /\ Unrefunded' \in BOOLEAN
          /\ Genuine \subseteq Genuine'
      BY DEF Unrefunded, Genuine
    <3> QED BY <3>1, <3>2, <3>3, TellFrame
  <2> QED BY <2>1, <2>2
<1> QED BY <1>1 DEF KitchenInv

\* Nobody new tells the kitchen, and a paid order stays paid.
LEMMA OnceFrame ==
    ASSUME TypeOK, OnceInv, NEW r \in Requests, NEW q,
           req' = [req EXCEPT ![r] = q], q.pc # "notify",
           kitchenNew' = kitchenNew, order.pay = "PAID" => order'.pay = "PAID"
    PROVE  OnceInv'
<1>1. \A s \in Requests : Telling(s)' => Telling(s)
  BY OneRequest DEF Telling
<1> QED BY <1>1 DEF OnceInv

\* A handler that loads the current document keeps the invariant.
LEMMA BeginKitchen ==
    ASSUME TypeOK, SnapshotInv, KitchenInv, TypeOK', NEW r \in Requests,
           NEW after \in {"done", "notify", "claim", "offer", "heard"}, NEW doc,
           req' = [req EXCEPT ![r] = At("save", after, order, doc)],
           order' = order, offered' = offered, payments' = payments,
           refunds' = refunds, kitchenNew' = kitchenNew,
           KeepsMoney(order, doc, Genuine),
           after = "offer" => doc.gwOrder # 0,
           after = "notify" => order.pay # "PAID" /\ doc.pay = "PAID" /\ doc.paidAt
    PROVE  KitchenInv'
<1> DEFINE q == At("save", after, order, doc)
<1>1. /\ q.pc = "save" /\ q.after = after /\ q.read = order /\ q.doc = doc
  BY DEF At
<1> HIDE DEF q
<1>2. TellInv(q, order, Genuine, Unrefunded)
  BY <1>1 DEF TellInv, KeepsMoney
<1>3. /\ Unrefunded' <=> Unrefunded
      /\ Genuine' = Genuine
      /\ req' = [req EXCEPT ![r] = q]
  BY DEF Unrefunded, Genuine, q
<1>4. Unrefunded' => OnceInv'
  BY <1>1, <1>3, OnceFrame DEF KitchenInv
<1>5. q.pc # "idle" => TellInv(q, order', Genuine', Unrefunded')
  BY <1>2, <1>3
<1> QED BY <1>3, <1>4, <1>5, KitchenFrame DEF KitchenInv

\* Every handler's first step keeps the invariant.
LEMMA LoadKitchen ==
    ASSUME TypeOK, SnapshotInv, KitchenInv, TypeOK', NEW r \in Requests, Load(r)
    PROVE  KitchenInv'
<1>1. /\ order \in Orders /\ MoneyRule(order, Genuine) /\ order.status \in Statuses
      /\ order.gwOrder \in Nat /\ attempts \in Nat
      /\ PaidRule(order) /\ surcharge \in Nat
  BY DEF TypeOK, KitchenInv, SnapshotInv, Orders
<1> DEFINE K(doc) == KeepsMoney(order, doc, Genuine)
<1>2. ASSUME NEW op, NEW after \in {"done", "claim", "heard"}, NEW doc,
             Begin(r, op, after, doc), K(doc)
      PROVE  KitchenInv'
  BY <1>2, BeginKitchen DEF Begin, gatewayVars, settingVars, historyVars
<1>3. ASSUME NEW op, NEW g \in Genuine, order.pay # "PAID",
             Begin(r, op, "notify", Paid(order, g))
      PROVE  KitchenInv'
  <2>1. K(Paid(order, g))
    BY <1>1, EditsKeepMoney
  <2>2. Paid(order, g).pay = "PAID" /\ Paid(order, g).paidAt
    BY <1>1 DEF Paid, Orders
  <2> QED BY <1>3, <2>1, <2>2, BeginKitchen DEF Begin, gatewayVars, settingVars, historyVars
<1>4. CASE UpdateStatus(r)
  <2> PICK next \in Transitions[order.status] :
             Begin(r, "updateStatus", "done", Advanced(order, next))
    BY <1>4 DEF UpdateStatus
  <2>1. K(Advanced(order, next))
    BY <1>1, TransitionsType, MovesKeepMoney
  <2> QED BY <2>1, <1>2
<1>5. CASE ForceStatus(r)
  <2> PICK next \in Statuses : Begin(r, "forceStatus", "done", Forced(order, next))
    BY <1>5 DEF ForceStatus
  <2>1. K(Forced(order, next))
    BY <1>1, MovesKeepMoney
  <2> QED BY <2>1, <1>2
<1>6. CASE CancelOrder(r)
  <2>1. K(CancelledOrder(order))
    BY <1>1, EditsKeepMoney
  <2> QED BY <1>6, <2>1, <1>2 DEF CancelOrder
<1>7. CASE CancelItems(r)
  <2> PICK k \in 1 .. order.units :
             Begin(r, "cancelItems", "done", CancelledItems(order, k, surcharge))
    BY <1>7 DEF CancelItems
  <2>1. K(CancelledItems(order, k, surcharge))
    BY <1>1, EditsKeepMoney
  <2> QED BY <2>1, <1>2
<1>8. CASE AddInternalNote(r)
  <2>1. K(order)
    BY <1>1, EditsKeepMoney
  <2> QED BY <1>8, <2>1, <1>2 DEF AddInternalNote
<1>9. CASE RequestRefund(r)
  <2>1. K(RequestedRefund(order))
    BY <1>1, EditsKeepMoney
  <2> QED BY <1>9, <2>1, <1>2 DEF RequestRefund
<1>10. CASE ApproveRefund(r) \/ RejectRefund(r) \/ WebhookRefund(r)
  <2>1. \A s \in RefundStatuses : K([order EXCEPT !.refund = s])
    BY <1>1, EditsKeepMoney
  <2>2. {"INITIATED", "NOT_REQUIRED", "REFUNDED"} \subseteq RefundStatuses
    BY DEF RefundStatuses
  <2> QED BY <1>10, <2>1, <2>2, <1>2 DEF ApproveRefund, RejectRefund, WebhookRefund
<1>11. CASE CreateRazorpayOrder(r)
  <2> DEFINE doc == Attempted(order, attempts + 1)
  <2>1. K(doc) /\ doc.gwOrder # 0
    <3>1. attempts + 1 \in Nat /\ attempts + 1 # 0
      BY <1>1
    <3>2. doc.gwOrder = attempts + 1
      BY <1>1 DEF Attempted, Orders
    <3> QED BY <1>1, <3>1, <3>2, EditsKeepMoney
  <2> HIDE DEF doc
  <2>2. /\ req' = [req EXCEPT ![r] = At("save", "offer", order, doc)]
        /\ order' = order /\ offered' = offered /\ payments' = payments
        /\ refunds' = refunds /\ kitchenNew' = kitchenNew
    BY <1>11 DEF CreateRazorpayOrder, doc
  <2> QED BY <2>1, <2>2, BeginKitchen
<1>12. CASE VerifyAndSettle(r)
  <2>1. K(order)
    BY <1>1, EditsKeepMoney
  <2>2. CASE Begin(r, "verify", "done", order)
    BY <2>1, <2>2, <1>2
  <2>3. ASSUME NEW g \in Genuine, order.pay # "PAID",
               Begin(r, "verify", "notify", Paid(order, g))
        PROVE  KitchenInv'
    BY <2>3, <1>3
  <2> QED BY <1>12, <2>2, <2>3 DEF VerifyAndSettle, Genuine
<1>13. CASE MarkFailed(r) \/ WebhookFailed(r)
  <2>1. order.pay # "PAID" => K([order EXCEPT !.pay = "FAILED"])
    BY <1>1, EditsKeepMoney
  <2> QED BY <1>13, <2>1, <1>2 DEF MarkFailed, WebhookFailed
<1>14. CASE WebhookCaptured(r)
  BY <1>14, <1>3 DEF WebhookCaptured, Genuine
<1>15. CASE ProcessRefund(r)
  <2> DEFINE q == At("claim", "refunded", order, order)
  <2>1. /\ req' = [req EXCEPT ![r] = q] /\ order' = order /\ offered' = offered
        /\ payments' = payments /\ refunds' = refunds /\ kitchenNew' = kitchenNew
    BY <1>15 DEF ProcessRefund, gatewayVars, settingVars, historyVars
  <2>2. q.pc = "claim" /\ q.after = "refunded" /\ q.read = order /\ q.doc = order
    BY DEF At
  <2> HIDE DEF q
  <2>3. /\ TellInv(q, order, Genuine, Unrefunded)
        /\ Unrefunded' <=> Unrefunded
        /\ Genuine' = Genuine
    BY <1>1, <2>1, <2>2 DEF TellInv, Unrefunded, Genuine
  <2>4. Unrefunded' => OnceInv'
    BY <2>1, <2>2, <2>3, OnceFrame DEF KitchenInv
  <2>5. q.pc # "idle" => TellInv(q, order', Genuine', Unrefunded')
    BY <2>1, <2>3 DEF TellInv, MoneyRule
  <2> QED BY <2>1, <2>2, <2>3, <2>4, <2>5, KitchenFrame DEF KitchenInv
<1> QED BY <1>4, <1>5, <1>6, <1>7, <1>8, <1>9, <1>10, <1>11, <1>12, <1>13,
           <1>14, <1>15 DEF Load

\* What an accepted save of request r does to the payment of the document.
LEMMA SaveSettles ==
    ASSUME TypeOK, SnapshotInv, KitchenInv, NEW r \in Requests, Save(r)
    PROVE  /\ order'.pay = req[r].doc.pay /\ order'.paidAt = req[r].doc.paidAt
           /\ req[r].read.pay = order.pay /\ req[r].read.method = order.method
           /\ order.paidAt => order'.paidAt
           /\ MoneyRule(order', Genuine)
           /\ TellInv(req[r], order, Genuine, Unrefunded)
<1>1. /\ req[r] \in RequestStates /\ req[r].read \in Orders
      /\ req[r].doc \in Orders /\ order \in Orders
  BY DEF TypeOK, RequestStates
<1>2. RequestInv(req[r], order) /\ TellInv(req[r], order, Genuine, Unrefunded)
  BY DEF SnapshotInv, KitchenInv, Save
<1>3. /\ Agree(req[r].read, order) /\ LedgerStep(req[r].read, req[r].doc)
      /\ req[r].read.gwPayment = order.gwPayment
      /\ MoneyRule(req[r].doc, Genuine)
  BY <1>2 DEF RequestInv, TellInv, Save
<1>4. order' = Saved(req[r].read, req[r].doc, order)
  BY DEF Save
<1>5. Agree(order', req[r].doc)
  BY <1>1, <1>3, <1>4, SavedFields
<1>6. order'.gwPayment = req[r].doc.gwPayment
  BY <1>1, <1>3, <1>4 DEF Saved, Orders
<1>7. order.paidAt => req[r].doc.paidAt
  BY <1>1, <1>3 DEF LedgerStep, Agree, MoveStep, CancelStep, PayStep, SameRest,
       SameMoney, SamePlace, Orders
<1> QED BY <1>2, <1>3, <1>5, <1>6, <1>7 DEF Agree, MoneyRule

\* An accepted save keeps the invariant: whoever settles the order read it
\* unpaid, so nobody has told the kitchen yet.
LEMMA SaveKitchen ==
    ASSUME TypeOK, SnapshotInv, KitchenInv, TypeOK', NEW r \in Requests, Save(r)
    PROVE  KitchenInv'
<1> DEFINE q == req[r]
           n == AfterSave(q)
<1>1. /\ q \in RequestStates /\ order \in Orders /\ order' \in Orders
      /\ q.pc = "save" /\ RequestInv(q, order)
  BY DEF TypeOK, Save, SnapshotInv
<1>2. /\ order'.pay = q.doc.pay /\ order'.paidAt = q.doc.paidAt
      /\ q.read.pay = order.pay /\ q.read.method = order.method
      /\ order.paidAt => order'.paidAt
      /\ MoneyRule(order', Genuine)
      /\ TellInv(q, order, Genuine, Unrefunded)
  BY SaveSettles
<1>3. order'.v = order.v + 1 /\ order'.method = order.method
  BY SaveFacts
<1>4. /\ payments' = payments /\ refunds' = refunds /\ kitchenNew' = kitchenNew
      /\ req' = [req EXCEPT ![r] = n]
      /\ Genuine' = Genuine /\ (Unrefunded' <=> Unrefunded)
      /\ \/ offered' = offered
         \/ q.after = "offer" /\ offered' = offered \cup {q.doc.gwOrder}
  BY <1>3 DEF Save, Unrefunded, Genuine
<1>5. 0 \notin offered'
  BY <1>1, <1>2, <1>4 DEF TellInv, KitchenInv
<1>6. order'.v > order.v /\ order.v \in Nat /\ q.read.v \in Nat /\ q.read.v <= order.v
  BY <1>1, <1>3 DEF Orders, RequestInv, RequestStates
<1>7. \/ n.pc = "idle"
      \/ /\ n.pc = "notify" /\ q.after = "notify" /\ n.after = q.after
         /\ n.read = q.read /\ n.doc = q.doc
      \/ /\ n.pc = "claim" /\ n.after = "claim"
         /\ n.read = q.read /\ n.doc = q.doc
  BY <1>1 DEF AfterSave, Idle, RequestStates
<1> HIDE DEF n
<1>8. n.pc # "idle" => TellInv(n, order', Genuine', Unrefunded')
  BY <1>1, <1>2, <1>3, <1>4, <1>6, <1>7 DEF TellInv, MoneyRule
<1>9. Unrefunded' => OnceInv'
  <2> SUFFICES ASSUME Unrefunded PROVE OnceInv'
    BY <1>4
  <2>1. OnceInv
    BY DEF KitchenInv
  <2>2. CASE n.pc = "notify"
    <3>1. order.pay # "PAID" /\ order'.pay = "PAID"
      BY <1>1, <1>2, <1>7, <2>2 DEF TellInv
    <3>2. kitchenNew = 0 /\ \A s \in Requests : ~Telling(s)
      BY <2>1, <3>1 DEF OnceInv, TypeOK
    <3>3. \A s \in Requests : Telling(s)' => s = r
      BY <1>4, <3>2, OneRequest DEF Telling
    <3> QED BY <1>4, <3>1, <3>2, <3>3 DEF OnceInv
  <2>3. CASE n.pc # "notify"
    <3>1. order.pay = "PAID" => order'.pay = "PAID"
      BY <1>1, <1>2 DEF TellInv, Unrefunded
    <3> QED BY <1>4, <2>1, <2>3, <3>1, OnceFrame
  <2> QED BY <2>2, <2>3
<1>10. kitchenNew' > 0 => order'.paidAt
  BY <1>2, <1>4 DEF KitchenInv
<1> QED BY <1>2, <1>3, <1>4, <1>5, <1>6, <1>8, <1>9, <1>10, KitchenFrame

\* The kitchen is told, a request ends or its save is refused.
LEMMA EndKitchen ==
    ASSUME TypeOK, SnapshotInv, KitchenInv, TypeOK', NEW r \in Requests,
           SaveConflict(r) \/ SaveFault(r) \/ Crash(r) \/ Notify(r)
    PROVE  KitchenInv'
<1>1. /\ req[r] \in RequestStates /\ order \in Orders
      /\ MoneyRule(order, Genuine) /\ 0 \notin offered
      /\ order' = order /\ payments' = payments /\ offered' = offered
      /\ refunds' = refunds /\ Genuine' = Genuine /\ (Unrefunded' <=> Unrefunded)
  BY DEF TypeOK, KitchenInv, SaveConflict, SaveFault, Crash, Notify, gatewayVars,
     Unrefunded, Genuine
<1>2. CASE Notify(r)
  <2>1. /\ req' = [req EXCEPT ![r] = Idle] /\ Idle.pc = "idle"
        /\ kitchenNew' = kitchenNew + 1 /\ Telling(r) /\ req[r].pc = "notify"
    BY <1>2 DEF Notify, Telling, Idle
  <2>2. order.paidAt
    BY <2>1 DEF KitchenInv, TellInv
  <2>3. ASSUME Unrefunded PROVE OnceInv'
    <3>1. OnceInv
      BY <2>3 DEF KitchenInv
    <3>2. order.pay = "PAID" /\ kitchenNew' = 1 /\ \A s \in Requests : Telling(s) => s = r
      BY <2>1, <3>1 DEF OnceInv
    <3>3. \A s \in Requests : ~Telling(s)'
      BY <2>1, <3>2, OneRequest DEF Telling
    <3> QED BY <1>1, <3>2, <3>3 DEF OnceInv
  <2> QED BY <1>1, <2>1, <2>2, <2>3, KitchenFrame
<1>3. CASE SaveConflict(r) \/ SaveFault(r) \/ Crash(r)
  <2> DEFINE q == req[r]
             e == [q.doc EXCEPT !.refund = "FAILED"]
  <2>1. PICK n : /\ req' = [req EXCEPT ![r] = n]
                 /\ \/ n = Idle
                    \/ n = AfterFailedSave(q) /\ q.pc = "save"
    BY <1>3 DEF SaveConflict, SaveFault, Crash
  <2>2. \/ n = Idle
        \/ /\ n = At("save", "failed", q.read, e)
           /\ q.pc = "save" /\ q.after = "refunded"
    BY <2>1 DEF AfterFailedSave
  <2>3. kitchenNew' = kitchenNew
    BY <1>3 DEF SaveConflict, SaveFault, Crash
  <2>4. /\ e.pay = q.doc.pay /\ e.paidAt = q.doc.paidAt /\ e.method = q.doc.method
        /\ e.gwPayment = q.doc.gwPayment
    BY <1>1 DEF RequestStates, Orders
  <2> HIDE DEF e
  <2>5. n.pc \in {"idle", "save"}
    BY <2>2 DEF Idle, At
  <2>6. n.pc # "idle" => TellInv(n, order, Genuine, Unrefunded)
    <3> SUFFICES ASSUME n.pc # "idle" PROVE TellInv(n, order, Genuine, Unrefunded)
      OBVIOUS
    <3>1. /\ n.pc = "save" /\ n.after = "failed" /\ n.read = q.read /\ n.doc = e
          /\ q.pc = "save"
      BY <2>2 DEF Idle, At
    <3>2. TellInv(q, order, Genuine, Unrefunded)
      BY <3>1 DEF KitchenInv
    <3> QED BY <2>4, <3>1, <3>2 DEF TellInv, MoneyRule
  <2>7. Unrefunded => OnceInv'
    BY <1>1, <2>1, <2>3, <2>5, OnceFrame DEF KitchenInv
  <2>8. n.pc # "idle" => TellInv(n, order', Genuine', Unrefunded')
    BY <1>1, <2>6 DEF TellInv, MoneyRule
  <2> QED BY <1>1, <2>1, <2>3, <2>7, <2>8, KitchenFrame DEF KitchenInv
<1> QED BY <1>2, <1>3

\* The claim: an online order that is paid names its payment, so its refund
\* goes to the gateway and is not settled offline.
LEMMA ClaimKitchen ==
    ASSUME TypeOK, SnapshotInv, KitchenInv, TypeOK', NEW r \in Requests, Claim(r)
    PROVE  KitchenInv'
<1>1. /\ order \in Orders /\ MoneyRule(order, Genuine) /\ 0 \notin offered
      /\ PaidRule(order) /\ payments \subseteq offered
      /\ payments' = payments /\ offered' = offered /\ kitchenNew' = kitchenNew
      /\ refunds' = refunds /\ Genuine' = Genuine /\ 0 \notin Genuine
      /\ Unrefunded' <=> Unrefunded
  <2>1. /\ order \in Orders /\ MoneyRule(order, Genuine) /\ 0 \notin offered
        /\ PaidRule(order) /\ payments \subseteq offered
    BY DEF TypeOK, KitchenInv, SnapshotInv
  <2>2. /\ payments' = payments /\ offered' = offered /\ kitchenNew' = kitchenNew
        /\ refunds' = refunds /\ Genuine' = Genuine
    BY DEF Claim, gatewayVars, Genuine
  <2>3. order'.method = order.method
    BY <2>1 DEF Claim, Orders
  <2>4. 0 \notin Genuine
    BY <2>1 DEF Genuine
  <2> QED BY <2>1, <2>2, <2>3, <2>4 DEF Unrefunded
<1>2. CASE Claimable(order)
  <2> DEFINE c == [order EXCEPT !.refund = "PROCESSING"]
             t == RefundTaken(c, "REFUNDED")
  <2>1. order' = c
    BY <1>2 DEF Claim
  <2>2. /\ c.v = order.v /\ c.method = order.method /\ c.pay = order.pay
        /\ c.paidAt = order.paidAt /\ c.gwPayment = order.gwPayment
        /\ t.method = order.method /\ t.paidAt = order.paidAt
        /\ t.gwPayment = order.gwPayment
    BY <1>1 DEF Orders, RefundTaken
  <2>3. PICK n : /\ req' = [req EXCEPT ![r] = n]
                 /\ n.pc \in {"gateway", "save"} /\ n.after = "refunded" /\ n.read = c
                 /\ n.doc = IF n.pc = "gateway" THEN c ELSE t
                 /\ n.pc = "save" => ~OnlinePaid(c)
    BY <1>2 DEF Claim, At
  <2> HIDE DEF c, t
  <2>4. c.method = "RAZORPAY" /\ c.pay = "PAID" => OnlinePaid(c)
    BY <1>1, <2>2 DEF OnlinePaid, MoneyRule, PaidRule
  <2>5. MoneyRule(c, Genuine)
    BY <1>1, <2>2 DEF MoneyRule
  <2>6. TellInv(n, c, Genuine, Unrefunded)
    BY <1>1, <2>2, <2>3, <2>4 DEF TellInv, MoneyRule
  <2>7. Unrefunded => OnceInv'
    BY <1>1, <2>1, <2>2, <2>3, OnceFrame DEF KitchenInv
  <2>8. n.pc # "idle" => TellInv(n, order', Genuine', Unrefunded')
    BY <1>1, <2>1, <2>6 DEF TellInv, MoneyRule
  <2>9. kitchenNew' > 0 => order'.paidAt
    BY <1>1, <2>1, <2>2 DEF KitchenInv
  <2> QED BY <1>1, <2>1, <2>2, <2>3, <2>5, <2>7, <2>8, <2>9, KitchenFrame
<1>3. CASE ~Claimable(order)
  <2>1. req' = [req EXCEPT ![r] = Idle] /\ order' = order /\ Idle.pc = "idle"
    BY <1>3 DEF Claim, Idle
  <2>2. Unrefunded => OnceInv'
    BY <1>1, <2>1, OnceFrame DEF KitchenInv
  <2> QED BY <1>1, <2>1, <2>2, KitchenFrame DEF KitchenInv
<1> QED BY <1>2, <1>3

\* The gateway answers, or its answer is lost.
LEMMA GatewayKitchen ==
    ASSUME TypeOK, SnapshotInv, KitchenInv, TypeOK', NEW r \in Requests,
           GatewayAccepts(r) \/ GatewayRefuses(r) \/ GatewayAnswerLost(r)
    PROVE  KitchenInv'
<1> DEFINE q == req[r]
           f == [q.doc EXCEPT !.refund = "FAILED"]
           d(result) == [RefundTaken(q.doc, result) EXCEPT !.refundId = Len(refunds) + 1]
<1>1. /\ q \in RequestStates /\ q.doc \in Orders /\ order \in Orders
      /\ MoneyRule(order, Genuine) /\ 0 \notin offered
      /\ order' = order /\ payments' = payments /\ offered' = offered
      /\ kitchenNew' = kitchenNew /\ Genuine' = Genuine
  BY DEF TypeOK, RequestStates, KitchenInv, GatewayAccepts, GatewayRefuses,
     GatewayAnswerLost, gatewayVars, Genuine
<1>2. /\ q.pc = "gateway" /\ q.doc = q.read
      /\ TellInv(q, order, Genuine, Unrefunded)
  BY DEF GatewayAccepts, GatewayRefuses, GatewayAnswerLost, SnapshotInv, RequestInv,
     KitchenInv
<1>3. \A result \in RefundStatuses :
        \A x \in {f, d(result)} :
           /\ x.method = q.doc.method /\ x.paidAt = q.doc.paidAt
           /\ x.gwPayment = q.doc.gwPayment /\ f.pay = q.doc.pay
  BY <1>1 DEF RefundTaken, Orders
<1>4. Unrefunded' => Unrefunded /\ GatewayRefuses(r)
  <2>1. refunds \in Seq([v : Nat, amount : Nat])
    BY DEF TypeOK
  <2>2. \A x : Len(Append(refunds, x)) = Len(refunds) + 1 /\ Len(refunds) \in Nat
    BY <2>1
  <2>3. CASE GatewayAccepts(r) \/ GatewayAnswerLost(r)
    <3>1. PICK x : refunds' = Append(refunds, x)
      BY <2>3 DEF GatewayAccepts, GatewayAnswerLost
    <3> QED BY <2>2, <3>1 DEF Unrefunded
  <2>4. CASE GatewayRefuses(r)
    BY <2>4 DEF GatewayRefuses, gatewayVars, settingVars, historyVars, Unrefunded
  <2> QED BY <2>3, <2>4
<1>5. PICK n : /\ req' = [req EXCEPT ![r] = n]
               /\ n.pc = "save" /\ n.read = q.read /\ n.after \in {"refunded", "failed"}
               /\ \/ n.doc = f
                  \/ \E result \in {"REFUNDED", "PROCESSING"} : n.doc = d(result)
               /\ GatewayRefuses(r) => n.doc = f
  <2>1. CASE GatewayAccepts(r)
    <3>1. PICK result \in {"REFUNDED", "PROCESSING"} :
             req' = [req EXCEPT ![r] = At("save", "refunded", q.read, d(result))]
      BY <2>1 DEF GatewayAccepts
    <3>2. ~GatewayRefuses(r)
      <4>1. refunds \in Seq([v : Nat, amount : Nat])
        BY DEF TypeOK
      <4>2. \A x : Len(Append(refunds, x)) # Len(refunds)
        BY <4>1
      <4> QED BY <2>1, <4>2 DEF GatewayRefuses, GatewayAccepts, gatewayVars, settingVars, historyVars
    <3> HIDE DEF d
    <3> QED BY <3>1, <3>2 DEF At
  <2>2. CASE GatewayRefuses(r) \/ GatewayAnswerLost(r)
    <3>1. req' = [req EXCEPT ![r] = At("save", "failed", q.read, f)]
      BY <2>2 DEF GatewayRefuses, GatewayAnswerLost, TypeOK
    <3> DEFINE n == At("save", "failed", q.read, f)
    <3>2. n.pc = "save" /\ n.after = "failed" /\ n.read = q.read /\ n.doc = f
      BY DEF At
    <3> HIDE DEF f, d, q, n
    <3> QED BY <3>1, <3>2 DEF n
  <2> QED BY <2>1, <2>2
<1> HIDE DEF f, d
<1>6. /\ n.doc.method = q.doc.method /\ n.doc.paidAt = q.doc.paidAt
      /\ n.doc.gwPayment = q.doc.gwPayment
      /\ GatewayRefuses(r) => n.doc.pay = q.doc.pay
  BY <1>3, <1>5 DEF RefundStatuses
<1>7. n.pc # "idle" => TellInv(n, order', Genuine', Unrefunded')
  BY <1>1, <1>2, <1>4, <1>5, <1>6 DEF TellInv, MoneyRule
<1>8. Unrefunded' => OnceInv'
  BY <1>1, <1>4, <1>5, OnceFrame DEF KitchenInv
<1> QED BY <1>1, <1>4, <1>5, <1>7, <1>8, KitchenFrame DEF KitchenInv

\* Every step keeps the invariant.
LEMMA KitchenStep == TypeOK /\ SnapshotInv /\ KitchenInv /\ [Next]_vars => KitchenInv'
<1> SUFFICES ASSUME TypeOK, SnapshotInv, KitchenInv, [Next]_vars PROVE KitchenInv'
  OBVIOUS
<1>1. TypeOK'
  BY TypeStep
<1>2. ASSUME order' = order, req' = req, offered' = offered, refunds' = refunds,
             payments \subseteq payments', kitchenNew' = kitchenNew
      PROVE  KitchenInv'
  <2>1. (Unrefunded' <=> Unrefunded) /\ Genuine \subseteq Genuine'
    BY <1>2 DEF Unrefunded, Genuine
  <2>2. OnceInv' <=> OnceInv
    BY <1>2 DEF OnceInv, Telling
  <2>3. MoneyRule(order', Genuine')
    BY <1>2, <2>1 DEF KitchenInv, MoneyRule
  <2>4. \A r \in Requests : req'[r].pc # "idle" =>
           TellInv(req'[r], order', Genuine', Unrefunded')
    BY <1>2, <2>1 DEF KitchenInv, TellInv, MoneyRule
  <2> QED BY <1>2, <2>1, <2>2, <2>3, <2>4 DEF KitchenInv
<1>3. CASE UNCHANGED vars
  BY <1>2, <1>3 DEF vars, gatewayVars
<1>4. ASSUME NEW r \in Requests, Load(r) \/ Proceed(r) \/ Fault(r)
      PROVE  KitchenInv'
  BY <1>1, <1>4, LoadKitchen, SaveKitchen, EndKitchen, ClaimKitchen, GatewayKitchen
     DEF Proceed, Fault
<1>5. CASE CustomerPays
  BY <1>2, <1>5 DEF CustomerPays
<1>6. CASE GatewayProcesses
  BY <1>2, <1>6 DEF GatewayProcesses
<1>7. CASE WebhookRefundUnknown
  BY <1>2, <1>7 DEF WebhookRefundUnknown
<1>8. CASE SetServiceCharge
  BY <1>2, <1>8 DEF SetServiceCharge, gatewayVars
<1> QED BY <1>3, <1>4, <1>5, <1>6, <1>7, <1>8 DEF Next

\* The invariant holds when the order is placed.
LEMMA KitchenInit == Init => KitchenInv
<1> SUFFICES ASSUME Init PROVE KitchenInv
  OBVIOUS
<1>1. PICK m \in Methods : order = NewOrder(m, surcharge)
  BY DEF Init
<1>2. order.paidAt = FALSE
  BY <1>1 DEF NewOrder
<1>3. \A r \in Requests : req[r].pc = "idle"
  BY DEF Init, Idle
<1> QED BY <1>2, <1>3 DEF Init, KitchenInv, MoneyRule, OnceInv, Telling

\* The inductive invariant: what settled an online order is a payment the
\* customer made, for this order or another, and one request at most tells
\* the kitchen of it.
THEOREM KitchenFollowsMoney == Spec => []KitchenInv
<1> QED BY KitchenInit, KitchenStep, TypeCorrect, Snapshots, PTL DEF Spec

(* The kitchen hears of an online order, and the order counts as paid, only *)
(* after a genuine payment, for any number of attempts, late callbacks and  *)
(* repeated webhooks.  It may be the payment of another order: which, when  *)
(* and only when, is PaymentsAreNamed below.                                *)
THEOREM KitchenNeverCooksUnpaid == Spec => []KitchenWaitsForMoney
<1>1. KitchenInv => KitchenWaitsForMoney
  BY DEF KitchenInv, KitchenWaitsForMoney, MoneyRule, Genuine
<1> QED BY <1>1, KitchenFollowsMoney, PTL

(* The browser callback and the webhook, delivered again and again, tell    *)
(* the kitchen of an online order once between them until the gateway has   *)
(* refunded it, whatever else runs.                                         *)
THEOREM KitchenHearsOnce == Spec => []KitchenToldOnce
<1>1. KitchenInv => KitchenToldOnce
  BY DEF KitchenInv, KitchenToldOnce, OnceInv, Unrefunded
<1> QED BY <1>1, KitchenFollowsMoney, PTL

-----------------------------------------------------------------------------
(* The payment a settlement records belongs to the gateway order the        *)
(* document names when it is saved.                                         *)

\* A copy d of o records no payment, or that of the gateway order o names;
\* the payment of another order only while o names none.
Names(o, d) ==
    d.gwPayment # o.gwPayment =>
        /\ d.gwOrder = o.gwOrder
        /\ o.gwOrder = IF d.gwPayment = Other THEN 0 ELSE d.gwPayment

NameRule(q, o) ==
    /\ q.read.v <= o.v
    /\ q.read.v = o.v => q.read.gwOrder = o.gwOrder /\ q.read.gwPayment = o.gwPayment
    /\ q.pc = "save" => Names(q.read, q.doc)
    /\ q.pc = "gateway" => q.doc = q.read

NameInv == \A r \in Requests : req[r].pc # "idle" => NameRule(req[r], order)

\* The edits of a settlement record the payment of the order named.
LEMMA SettlementNames ==
    ASSUME NEW o \in Orders, NEW g \in Nat \cup {Other},
           o.gwOrder = IF g = Other THEN 0 ELSE g
    PROVE  Names(o, Paid(o, g))
  BY DEF Names, Paid, Orders

\* No other edit records a payment.
LEMMA OthersNameNone ==
    ASSUME NEW o \in Orders
    PROVE  /\ Names(o, o)
           /\ \A next \in Statuses : Names(o, Advanced(o, next)) /\ Names(o, Forced(o, next))
           /\ Names(o, CancelledOrder(o))
           /\ \A k \in 1 .. o.units, s \in Nat : Names(o, CancelledItems(o, k, s))
           /\ Names(o, RequestedRefund(o))
           /\ \A g \in Nat : Names(o, Attempted(o, g))
           /\ Names(o, [o EXCEPT !.pay = "FAILED"])
           /\ \A s \in RefundStatuses : Names(o, [o EXCEPT !.refund = s])
<1> USE DEF Orders
<1>1. \A next \in Statuses : /\ Advanced(o, next).gwPayment = o.gwPayment
                             /\ Forced(o, next).gwPayment = o.gwPayment
  BY DEF Advanced, Forced, MovedTo, StageFull
<1>2. CancelledOrder(o).gwPayment = o.gwPayment
  BY DEF CancelledOrder, StageFull
<1>3. \A k \in 1 .. o.units, s \in Nat : CancelledItems(o, k, s).gwPayment = o.gwPayment
  BY DEF CancelledItems
<1>4. /\ RequestedRefund(o).gwPayment = o.gwPayment
      /\ \A g \in Nat : Attempted(o, g).gwPayment = o.gwPayment
      /\ [o EXCEPT !.pay = "FAILED"].gwPayment = o.gwPayment
      /\ \A s \in RefundStatuses : [o EXCEPT !.refund = s].gwPayment = o.gwPayment
  BY DEF RequestedRefund, Attempted
<1> QED BY <1>1, <1>2, <1>3, <1>4 DEF Names

\* A request that is not touched keeps its part while the document keeps its
\* version and payment or moves on.
LEMMA NameFrame ==
    ASSUME TypeOK, NameInv, order' \in Orders,
           \/ /\ order'.v = order.v /\ order'.gwOrder = order.gwOrder
              /\ order'.gwPayment = order.gwPayment
           \/ order'.v > order.v,
           NEW r \in Requests, NEW q, req' = [req EXCEPT ![r] = q],
           q.pc # "idle" => NameRule(q, order')
    PROVE  NameInv'
<1> SUFFICES ASSUME NEW s \in Requests, req'[s].pc # "idle"
             PROVE  NameRule(req'[s], order')
  BY DEF NameInv
<1>1. CASE s = r
  BY <1>1, OneRequest
<1>2. CASE s # r
  <2>1. req'[s] = req[s] /\ NameRule(req[s], order) /\ req[s].read.v \in Nat
    BY <1>2, OneRequest, VersionTypes DEF NameInv
  <2>2. order.v \in Nat /\ order'.v \in Nat
    BY DEF TypeOK, Orders
  <2> QED BY <2>1, <2>2 DEF NameRule
<1> QED BY <1>1, <1>2

\* Every handler's first step keeps the invariant.
LEMMA LoadNames ==
    ASSUME TypeOK, SnapshotInv, NameInv, NEW r \in Requests, Load(r)
    PROVE  NameInv'
<1>1. /\ order \in Orders /\ order.status \in Statuses /\ order.v \in Nat
      /\ attempts + 1 \in Nat /\ surcharge \in Nat
  BY DEF TypeOK, Orders
<1>2. ASSUME NEW after, NEW doc, order' = order, Names(order, doc),
             req' = [req EXCEPT ![r] = At("save", after, order, doc)]
      PROVE  NameInv'
  <2> DEFINE q == At("save", after, order, doc)
  <2>1. NameRule(q, order')
    BY <1>1, <1>2 DEF NameRule, At
  <2> HIDE DEF q
  <2>2. req' = [req EXCEPT ![r] = q]
    BY <1>2 DEF q
  <2> QED BY <1>1, <1>2, <2>1, <2>2, NameFrame
<1>3. ASSUME NEW op, NEW after, NEW doc, Begin(r, op, after, doc), Names(order, doc)
      PROVE  NameInv'
  BY <1>2, <1>3 DEF Begin
<1>4. CASE UpdateStatus(r) \/ ForceStatus(r)
  <2>1. PICK next \in Statuses :
             \/ Begin(r, "updateStatus", "done", Advanced(order, next))
             \/ Begin(r, "forceStatus", "done", Forced(order, next))
    BY <1>1, <1>4, TransitionsType DEF UpdateStatus, ForceStatus
  <2> QED BY <1>1, <1>3, <2>1, OthersNameNone
<1>5. CASE CancelOrder(r)
  BY <1>1, <1>5, <1>3, OthersNameNone DEF CancelOrder
<1>6. CASE CancelItems(r)
  BY <1>1, <1>6, <1>3, OthersNameNone DEF CancelItems
<1>7. CASE AddInternalNote(r)
  BY <1>1, <1>7, <1>3, OthersNameNone DEF AddInternalNote
<1>8. CASE RequestRefund(r)
  BY <1>1, <1>8, <1>3, OthersNameNone DEF RequestRefund
<1>9. CASE ApproveRefund(r) \/ RejectRefund(r) \/ WebhookRefund(r)
  <2>1. \E op, after : \E s \in RefundStatuses : Begin(r, op, after, [order EXCEPT !.refund = s])
    BY <1>9 DEF ApproveRefund, RejectRefund, WebhookRefund, RefundStatuses
  <2> QED BY <1>1, <2>1, <1>3, OthersNameNone
<1>10. CASE CreateRazorpayOrder(r)
  <2>1. Names(order, Attempted(order, attempts + 1))
    BY <1>1, OthersNameNone
  <2> QED BY <1>10, <2>1, <1>2 DEF CreateRazorpayOrder
<1>11. CASE VerifyAndSettle(r)
  <2>1. CASE Begin(r, "verify", "done", order)
    BY <1>1, <2>1, <1>3, OthersNameNone
  <2>2. ASSUME NEW g \in payments \cup {Other}, order.gwOrder = (IF g = Other THEN 0 ELSE g),
               Begin(r, "verify", "notify", Paid(order, g))
        PROVE  NameInv'
    <3>1. g \in Nat \cup {Other}
      BY DEF TypeOK
    <3>2. Names(order, Paid(order, g))
      BY <1>1, <2>2, <3>1, SettlementNames
    <3> QED BY <2>2, <3>2, <1>3
  <2> QED BY <1>11, <2>1, <2>2 DEF VerifyAndSettle
<1>12. CASE MarkFailed(r) \/ WebhookFailed(r)
  <2>1. PICK op : Begin(r, op, "done", [order EXCEPT !.pay = "FAILED"])
    BY <1>12 DEF MarkFailed, WebhookFailed
  <2> QED BY <1>1, <2>1, <1>3, OthersNameNone
<1>13. CASE WebhookCaptured(r)
  <2>1. order.gwOrder \in Nat /\ order.gwOrder # Other
    BY <1>1 DEF Orders
  <2>2. Names(order, Paid(order, order.gwOrder))
    BY <1>1, <2>1, SettlementNames
  <2> QED BY <1>13, <2>2, <1>3 DEF WebhookCaptured
<1>14. CASE ProcessRefund(r)
  <2> DEFINE q == At("claim", "refunded", order, order)
  <2>1. NameRule(q, order)
    BY <1>1 DEF NameRule, At
  <2>2. req' = [req EXCEPT ![r] = q] /\ order' = order
    BY <1>14 DEF ProcessRefund
  <2> HIDE DEF q
  <2> QED BY <1>1, <2>1, <2>2, NameFrame
<1> QED BY <1>4, <1>5, <1>6, <1>7, <1>8, <1>9, <1>10, <1>11, <1>12, <1>13, <1>14 DEF Load

\* Saving, failing to save, crashing and notifying keep the invariant.
LEMMA SaveNames ==
    ASSUME TypeOK, TypeOK', SnapshotInv, NameInv, NEW r \in Requests,
           Save(r) \/ SaveConflict(r) \/ SaveFault(r) \/ Crash(r) \/ Notify(r)
    PROVE  NameInv'
<1> DEFINE q == req[r]
           e == [q.doc EXCEPT !.refund = "FAILED"]
<1>1. /\ q \in RequestStates /\ q.read \in Orders /\ q.doc \in Orders /\ order \in Orders
      /\ order' \in Orders
      /\ q.pc # "idle" => NameRule(q, order)
  BY DEF TypeOK, RequestStates, NameInv
<1>2. CASE Save(r)
  <2>1. order'.v = order.v + 1
    BY <1>2, SaveFacts
  <2>2. order'.v > order.v /\ q.read.v <= order.v /\ q.read.v \in Nat /\ order.v \in Nat
    BY <1>1, <1>2, <2>1 DEF Save, NameRule, Orders
  <2>3. AfterSave(q).pc # "idle" =>
           AfterSave(q).pc \in {"notify", "claim"} /\ AfterSave(q).read = q.read
    BY <1>1 DEF AfterSave, Idle, RequestStates
  <2>4. AfterSave(q).pc # "idle" => NameRule(AfterSave(q), order')
    BY <2>1, <2>2, <2>3 DEF NameRule
  <2> DEFINE n == AfterSave(q)
  <2>5. req' = [req EXCEPT ![r] = n] /\ (n.pc # "idle" => NameRule(n, order'))
    BY <1>2, <2>4 DEF Save
  <2> HIDE DEF n
  <2> QED BY <1>1, <2>2, <2>5, NameFrame
<1>3. CASE ~Save(r)
  <2>1. PICK n : /\ req' = [req EXCEPT ![r] = n] /\ order' = order
                 /\ \/ n = Idle
                    \/ n = AfterFailedSave(q) /\ q.pc = "save"
    BY <1>3 DEF SaveConflict, SaveFault, Crash, Notify
  <2>2. n = Idle \/ (n = At("save", "failed", q.read, e) /\ q.pc = "save")
    BY <2>1 DEF AfterFailedSave
  <2>3. e.gwPayment = q.doc.gwPayment /\ e.gwOrder = q.doc.gwOrder
    BY <1>1 DEF Orders
  <2> HIDE DEF e
  <2>4. n.pc # "idle" => NameRule(n, order')
    BY <1>1, <2>1, <2>2, <2>3 DEF Idle, At, NameRule, Names
  <2> QED BY <1>1, <2>1, <2>4, NameFrame
<1> QED BY <1>2, <1>3

\* The steps of processRefund keep the invariant: they record no payment.
LEMMA RefundNames ==
    ASSUME TypeOK, TypeOK', SnapshotInv, NameInv, NEW r \in Requests,
           Claim(r) \/ GatewayAccepts(r) \/ GatewayRefuses(r) \/ GatewayAnswerLost(r)
    PROVE  NameInv'
<1> DEFINE q == req[r]
<1>1. /\ q.read \in Orders /\ q.doc \in Orders /\ order \in Orders /\ order' \in Orders
      /\ q.pc # "idle" => NameRule(q, order)
  BY DEF TypeOK, RequestStates, NameInv
<1>2. CASE Claim(r)
  <2> DEFINE c == [order EXCEPT !.refund = "PROCESSING"]
             t == RefundTaken(c, "REFUNDED")
  <2>1. CASE Claimable(order)
    <3>1. /\ c.v = order.v /\ c.gwOrder = order.gwOrder /\ c.gwPayment = order.gwPayment
          /\ t.gwPayment = order.gwPayment /\ c.v \in Nat
      BY <1>1 DEF Orders, RefundTaken
    <3>2. PICK n : /\ req' = [req EXCEPT ![r] = n] /\ n.read = c
                   /\ \/ n.pc = "gateway" /\ n.doc = c
                      \/ n.pc = "save" /\ n.doc = t
      <4>1. CASE OnlinePaid(c)
        <5> DEFINE n == At("gateway", "refunded", c, c)
        <5>1. req' = [req EXCEPT ![r] = n]
          BY <1>2, <2>1, <4>1 DEF Claim
        <5>2. n.pc = "gateway" /\ n.read = c /\ n.doc = c
          BY DEF At
        <5> HIDE DEF n, c
        <5> QED BY <5>1, <5>2
      <4>2. CASE ~OnlinePaid(c)
        <5> DEFINE n == At("save", "refunded", c, t)
        <5>1. req' = [req EXCEPT ![r] = n]
          BY <1>2, <2>1, <4>2 DEF Claim
        <5>2. n.pc = "save" /\ n.read = c /\ n.doc = t
          BY DEF At
        <5> HIDE DEF n, c, t
        <5> QED BY <5>1, <5>2
      <4> QED BY <4>1, <4>2
    <3>3. order' = c
      BY <1>2, <2>1 DEF Claim
    <3> HIDE DEF c, t
    <3>4. NameRule(n, order')
      BY <3>1, <3>2, <3>3 DEF NameRule, Names
    <3> QED BY <1>1, <3>1, <3>2, <3>3, <3>4, NameFrame
  <2>2. CASE ~Claimable(order)
    <3>1. req' = [req EXCEPT ![r] = Idle] /\ order' = order /\ Idle.pc = "idle"
      BY <1>2, <2>2 DEF Claim, Idle
    <3> QED BY <1>1, <3>1, NameFrame
  <2> QED BY <2>1, <2>2
<1>3. CASE ~Claim(r)
  <2> DEFINE f == [q.doc EXCEPT !.refund = "FAILED"]
             d(result) == [RefundTaken(q.doc, result) EXCEPT !.refundId = Len(refunds) + 1]
  <2>1. q.pc = "gateway" /\ order' = order
    BY <1>3 DEF GatewayAccepts, GatewayRefuses, GatewayAnswerLost
  <2>2. f.gwPayment = q.doc.gwPayment /\ \A result : d(result).gwPayment = q.doc.gwPayment
    BY <1>1 DEF RefundTaken, Orders
  <2>3. PICK n : /\ req' = [req EXCEPT ![r] = n] /\ n.pc = "save" /\ n.read = q.read
                 /\ n.doc = f \/ \E result : n.doc = d(result)
    <3>1. CASE GatewayAccepts(r)
      <4>1. PICK result : req' = [req EXCEPT ![r] = At("save", "refunded", q.read, d(result))]
        BY <3>1 DEF GatewayAccepts
      <4> DEFINE n == At("save", "refunded", q.read, d(result))
      <4>2. n.pc = "save" /\ n.read = q.read /\ n.doc = d(result)
        BY DEF At
      <4> HIDE DEF n, d, q
      <4> QED BY <4>1, <4>2 DEF n
    <3>2. CASE GatewayRefuses(r) \/ GatewayAnswerLost(r)
      <4>1. req' = [req EXCEPT ![r] = At("save", "failed", q.read, f)]
        BY <3>2 DEF GatewayRefuses, GatewayAnswerLost, TypeOK
      <4> DEFINE n == At("save", "failed", q.read, f)
      <4>2. n.pc = "save" /\ n.read = q.read /\ n.doc = f
        BY DEF At
      <4> HIDE DEF n, f, q
      <4> QED BY <4>1, <4>2 DEF n
    <3> QED BY <1>3, <3>1, <3>2
  <2> HIDE DEF f, d
  <2>4. NameRule(n, order')
    BY <1>1, <2>1, <2>2, <2>3 DEF NameRule, Names
  <2> QED BY <1>1, <2>1, <2>3, <2>4, NameFrame
<1> QED BY <1>2, <1>3

\* Every step keeps the invariant.
LEMMA NameStep == TypeOK /\ SnapshotInv /\ NameInv /\ [Next]_vars => NameInv'
<1> SUFFICES ASSUME TypeOK, SnapshotInv, NameInv, [Next]_vars PROVE NameInv'
  OBVIOUS
<1>1. TypeOK'
  BY TypeStep
<1>2. ASSUME NEW r \in Requests, Load(r) \/ Proceed(r) \/ Fault(r)
      PROVE  NameInv'
  BY <1>1, <1>2, LoadNames, SaveNames, RefundNames DEF Proceed, Fault
<1>3. CASE UNCHANGED vars \/ CustomerPays \/ GatewayProcesses \/ WebhookRefundUnknown
           \/ SetServiceCharge
  <2>1. order' = order /\ req' = req
    BY <1>3 DEF CustomerPays, GatewayProcesses, WebhookRefundUnknown, SetServiceCharge, vars
  <2> QED BY <2>1 DEF NameInv
<1> QED BY <1>2, <1>3 DEF Next

\* Only a save records a payment, and it records what its copy names.
LEMMA RecordedAsNamed ==
    ASSUME TypeOK, SnapshotInv, NameInv, [Next]_vars
    PROVE  Names(order, order')
<1>1. order \in Orders
  BY DEF TypeOK
<1>2. ASSUME NEW r \in Requests, Save(r)
      PROVE  Names(order, order')
  <2> DEFINE q == req[r]
  <2>1. /\ q.read \in Orders /\ q.doc \in Orders /\ NameRule(q, order)
        /\ q.pc = "save" /\ q.read.v = order.v /\ order' = Saved(q.read, q.doc, order)
    BY <1>2 DEF TypeOK, RequestStates, NameInv, Save
  <2>2. /\ q.read.gwOrder = order.gwOrder /\ q.read.gwPayment = order.gwPayment
        /\ Names(q.read, q.doc)
    BY <2>1 DEF NameRule
  <2>3. order'.gwOrder = q.doc.gwOrder /\ order'.gwPayment = q.doc.gwPayment
    BY <1>1, <2>1, <2>2 DEF Saved, Orders
  <2> QED BY <2>2, <2>3 DEF Names
<1>3. ASSUME NEW r \in Requests, Claim(r)
      PROVE  order'.gwPayment = order.gwPayment
  BY <1>1, <1>3 DEF Claim, Orders
<1>4. ASSUME NEW r \in Requests, Load(r)
      PROVE  order' = order
  BY <1>4 DEF Load, Begin, UpdateStatus, ForceStatus, CancelOrder, CancelItems,
       AddInternalNote, RequestRefund, ApproveRefund, RejectRefund,
       CreateRazorpayOrder, VerifyAndSettle, MarkFailed, WebhookCaptured,
       WebhookFailed, WebhookRefund, ProcessRefund
<1>5. ASSUME NEW r \in Requests,
             SaveConflict(r) \/ Notify(r) \/ GatewayAccepts(r) \/ GatewayRefuses(r) \/ Fault(r)
      PROVE  order' = order
  BY <1>5 DEF SaveConflict, Notify, GatewayAccepts, GatewayRefuses, Fault,
       SaveFault, Crash, GatewayAnswerLost
<1>6. ASSUME \/ UNCHANGED vars \/ CustomerPays \/ GatewayProcesses
             \/ WebhookRefundUnknown \/ SetServiceCharge
      PROVE  order' = order
  BY <1>6 DEF CustomerPays, GatewayProcesses, WebhookRefundUnknown, SetServiceCharge, vars
<1>7. Names(order, order') \/ order'.gwPayment = order.gwPayment
  BY <1>2, <1>3, <1>4, <1>5, <1>6 DEF Next, Proceed
<1> QED BY <1>7 DEF Names

(* A settlement records the payment of the gateway order the document names *)
(* at that moment, and the payment of another order only while it names     *)
(* none: between a handler's check and its save no replaced attempt and no  *)
(* newly named gateway order slips in, for any number of stale copies.      *)
THEOREM PaymentsAreNamed == Spec => SettledByNamedOrder
<1>1. Init => NameInv
  BY DEF Init, NameInv, Idle
<1>2. TypeOK /\ SnapshotInv /\ NameInv /\ [Next]_vars =>
         [order'.gwPayment # order.gwPayment =>
             /\ order'.gwOrder = order.gwOrder
             /\ order.gwOrder = (IF order'.gwPayment = Other THEN 0
                                 ELSE order'.gwPayment)]_vars
  BY RecordedAsNamed DEF Names
<1> QED BY <1>1, <1>2, NameStep, TypeCorrect, Snapshots, PTL
        DEF Spec, SettledByNamedOrder

-----------------------------------------------------------------------------
(* What is staged stays within the charge, as long as neither requestRefund *)
(* (which stages the price of units that are still to be delivered) nor the *)
(* force-status override (which revives a cancelled order) is used.         *)

Alive(o) == o.status \notin {"CANCELLED", "REJECTED"}

DocRule(o, limit) == /\ o.amount <= limit
                     /\ o.total <= limit
                     /\ Alive(o) => o.amount + o.total <= limit

\* By how much d has a higher total than o.
Growth(o, d) == IF d.total > o.total THEN d.total - o.total ELSE 0

\* d is an edit of o that stays within the limit, its own growth aside, and
\* that in calm times, when no service charge was raised, does not grow.
EditRule(o, d, limit, s, calm) ==
    /\ d.charged = o.charged
    /\ DocRule(d, limit + Growth(o, d))
    /\ calm => d.total <= o.total /\ Total(d.units, s) <= d.total

\* Two documents with the same stake: what the rules read.
SameStake(o, d) == /\ d.amount = o.amount /\ d.status = o.status
                   /\ d.units = o.units /\ d.total = o.total /\ d.charged = o.charged

Limit == order.charged + grown

ChargeInv ==
    /\ DocRule(order, Limit)
    /\ ~raised => grown = 0 /\ Total(order.units, surcharge) <= order.total
    /\ \A r \in Requests : req[r].pc # "idle" =>
         /\ req[r].read.v = order.v =>
              /\ SameStake(req[r].read, order)
              /\ EditRule(order, req[r].doc, Limit, surcharge, ~raised)
         /\ req[r].pc = "gateway" => SameStake(req[r].read, req[r].doc)

\* The amounts of a document are natural numbers.
LEMMA StakeType ==
    ASSUME NEW o \in Orders
    PROVE  /\ o.units \in Nat /\ o.amount \in Nat /\ o.total \in Nat
           /\ o.charged \in Nat /\ o.v \in Nat /\ o.status \in Statuses
  BY DEF Orders

\* The edits that stage nothing leave the stake alone.
LEMMA StakeKept ==
    ASSUME NEW o \in Orders
    PROVE  /\ \A g \in Nat : SameStake(o, Attempted(o, g))
           /\ \A g \in Nat \cup {Other} : SameStake(o, Paid(o, g))
           /\ SameStake(o, [o EXCEPT !.pay = "FAILED"])
           /\ \A s \in RefundStatuses :
                SameStake(o, [o EXCEPT !.refund = s]) /\ SameStake(o, RefundTaken(o, s))
           /\ \A s \in RefundStatuses, i \in Nat :
                SameStake(o, [RefundTaken(o, s) EXCEPT !.refundId = i])
           /\ SameStake(o, o)
  BY DEF SameStake, Attempted, Paid, RefundTaken, Orders

\* A document with the same stake is an edit within the charge.
LEMMA SameStakeRule ==
    ASSUME NEW o \in Orders, NEW d, NEW limit \in Nat, NEW s, NEW calm,
           SameStake(o, d), DocRule(o, limit), calm => Total(o.units, s) <= o.total
    PROVE  EditRule(o, d, limit, s, calm) /\ DocRule(d, limit)
<1>1. o.total \in Nat /\ d.total = o.total /\ d.units = o.units
  BY StakeType DEF SameStake
<1>2. Growth(o, d) = 0 /\ limit + 0 = limit /\ d.total <= o.total
  BY <1>1 DEF Growth
<1>3. DocRule(d, limit)
  BY DEF DocRule, SameStake, Alive
<1>4. d.charged = o.charged
  BY DEF SameStake
<1> QED BY <1>1, <1>2, <1>3, <1>4 DEF EditRule

\* A copy with the stake of an edit is within the charge as the edit is.
LEMMA StakeWithinCharge ==
    ASSUME NEW o, NEW d, NEW e, NEW limit, NEW s, NEW calm,
           SameStake(d, e), EditRule(o, d, limit, s, calm)
    PROVE  EditRule(o, e, limit, s, calm)
<1>1. Growth(o, e) = Growth(o, d) /\ e.charged = d.charged /\ e.units = d.units
      /\ e.total = d.total
  BY DEF Growth, SameStake
<1>2. DocRule(e, limit + Growth(o, d))
  BY DEF DocRule, EditRule, SameStake, Alive
<1> QED BY <1>1, <1>2 DEF EditRule

\* Staging the whole total of an order that ends leaves it within the charge.
LEMMA StageWithinCharge ==
    ASSUME NEW o \in Orders, NEW e \in Orders, NEW limit \in Nat, NEW s, NEW calm,
           DocRule(o, limit), calm => Total(o.units, s) <= o.total,
           e.amount = o.amount, e.units = o.units, e.total = o.total,
           e.charged = o.charged, ~Alive(e)
    PROVE  EditRule(o, StageFull(e), limit, s, calm)
<1> DEFINE d == StageFull(e)
<1>1. /\ d.amount \in {o.amount, o.total} /\ d.status = e.status
      /\ d.units = o.units /\ d.total = o.total /\ d.charged = o.charged
  BY DEF StageFull, Orders
<1>2. o.total \in Nat /\ o.amount \in Nat
  BY StakeType
<1> HIDE DEF d
<1>3. Growth(o, d) = 0 /\ limit + 0 = limit /\ d.total <= o.total
  BY <1>1, <1>2 DEF Growth
<1>4. DocRule(d, limit)
  BY <1>1 DEF DocRule, Alive
<1> QED BY <1>1, <1>3, <1>4 DEF EditRule, d

(* cancelItems moves what the total drops by to the refund; what it rises   *)
(* by, when the service charge was raised, is its growth.                   *)
LEMMA CancelledWithinCharge ==
    ASSUME NEW o \in Orders, NEW limit \in Nat, NEW s \in Nat, NEW calm,
           DocRule(o, limit), calm => Total(o.units, s) <= o.total,
           o.status \in Cancellable, NEW k \in 1 .. o.units
    PROVE  EditRule(o, CancelledItems(o, k, s), limit, s, calm)
<1> DEFINE left == o.units - k
           total == Total(left, s)
           delta == IF o.total > total THEN o.total - total ELSE 0
           d == CancelledItems(o, k, s)
<1>1. o.units \in Nat /\ o.amount \in Nat /\ o.total \in Nat
  BY StakeType
<1>2. left \in Nat /\ left <= o.units
  BY <1>1
<1>3. total \in Nat /\ total <= Total(o.units, s) /\ Total(o.units, s) \in Nat
  <2>1. total \in Nat /\ Total(o.units, s) \in Nat
    BY <1>1, <1>2, TotalType
  <2> HIDE DEF left
  <2>2. s <= s
    OBVIOUS
  <2> QED BY <1>1, <1>2, <2>1, <2>2, TotalMonotone
<1>4. /\ d.units = left /\ d.total = total /\ d.charged = o.charged
      /\ d.amount \in {o.amount, o.amount + delta}
  BY DEF CancelledItems, Orders
<1>5. o.amount + o.total <= limit /\ o.total <= limit
  BY DEF Cancellable, Alive, DocRule
<1>6. Total(d.units, s) = total
  BY <1>4
<1> HIDE DEF left, total, d
<1>7. Growth(o, d) = IF total > o.total THEN total - o.total ELSE 0
  BY <1>4 DEF Growth
<1>8. DocRule(d, limit + Growth(o, d))
  <2>1. d.amount + d.total <= limit + Growth(o, d) /\ d.total <= limit + Growth(o, d)
    BY <1>1, <1>3, <1>4, <1>5, <1>7
  <2>2. d.amount <= limit + Growth(o, d)
    BY <1>1, <1>3, <1>4, <1>5, <1>7
  <2> QED BY <2>1, <2>2 DEF DocRule
<1>9. ASSUME calm PROVE d.total <= o.total /\ Total(d.units, s) <= d.total
  BY <1>1, <1>3, <1>4, <1>6, <1>9
<1> QED BY <1>4, <1>8, <1>9 DEF EditRule, d

(* The edits of updateStatus and cancelOrder.                               *)
LEMMA EditsWithinCharge ==
    ASSUME NEW o \in Orders, NEW limit \in Nat, NEW s \in Nat, NEW calm,
           DocRule(o, limit), calm => Total(o.units, s) <= o.total
    PROVE  /\ \A next \in Transitions[o.status] :
                EditRule(o, Advanced(o, next), limit, s, calm)
           /\ EditRule(o, CancelledOrder(o), limit, s, calm)
<1>1. ASSUME NEW next \in Transitions[o.status]
      PROVE  EditRule(o, Advanced(o, next), limit, s, calm)
  <2> DEFINE e == MovedTo(o, next)
  <2>1. next \in Statuses /\ Alive(o)
    BY StakeType, <1>1, TransitionsType DEF Transitions, Alive
  <2>2. /\ e \in Orders /\ e.amount = o.amount /\ e.units = o.units /\ e.status = next
        /\ e.total = o.total /\ e.charged = o.charged
    BY <2>1, MovedType DEF MovedTo, Orders
  <2> HIDE DEF e
  <2>3. CASE next = "REJECTED"
    <3>1. EditRule(o, StageFull(e), limit, s, calm)
      BY <2>2, <2>3, StageWithinCharge DEF Alive
    <3> QED BY <2>3, <3>1 DEF Advanced, e
  <2>4. CASE next # "REJECTED"
    <3>1. DocRule(e, limit)
      BY <2>1, <2>2 DEF DocRule
    <3>2. Growth(o, e) = 0 /\ limit + 0 = limit /\ e.total <= o.total
      BY <2>2, StakeType DEF Growth
    <3>3. EditRule(o, e, limit, s, calm)
      BY <2>2, <3>1, <3>2 DEF EditRule
    <3> QED BY <2>4, <3>3 DEF Advanced, e
  <2> QED BY <2>3, <2>4
<1>2. EditRule(o, CancelledOrder(o), limit, s, calm)
  <2> DEFINE e == [o EXCEPT !.status = "CANCELLED"]
  <2>1. /\ e \in Orders /\ e.amount = o.amount /\ e.units = o.units
        /\ e.total = o.total /\ e.charged = o.charged /\ ~Alive(e)
    BY DEF Orders, Statuses, Alive
  <2> HIDE DEF e
  <2>2. EditRule(o, StageFull(e), limit, s, calm)
    BY <2>1, StageWithinCharge
  <2> QED BY <2>2 DEF CancelledOrder, e
<1> QED BY <1>1, <1>2

\* A step of one request keeps the invariant.
LEMMA ChargeFrame ==
    ASSUME TypeOK, SnapshotInv, ChargeInv, TypeOK', NEW r \in Requests,
           NEW q, req' = [req EXCEPT ![r] = q],
           \/ /\ order'.v = order.v /\ SameStake(order, order') /\ grown' = grown
           \/ order'.v > order.v,
           surcharge' = surcharge, raised' = raised,
           DocRule(order', Limit'),
           ~raised => grown' = 0 /\ Total(order'.units, surcharge) <= order'.total,
           q.pc # "idle" =>
             /\ q.read.v = order'.v =>
                  /\ SameStake(q.read, order')
                  /\ EditRule(order', q.doc, Limit', surcharge, ~raised)
             /\ q.pc = "gateway" => SameStake(q.read, q.doc)
    PROVE  ChargeInv'
<1>1. ASSUME NEW s \in Requests, s # r, req'[s].pc # "idle"
      PROVE  /\ req'[s].read.v = order'.v =>
                  /\ SameStake(req'[s].read, order')
                  /\ EditRule(order', req'[s].doc, Limit', surcharge', ~raised')
             /\ req'[s].pc = "gateway" => SameStake(req'[s].read, req'[s].doc)
  <2>1. req'[s] = req[s]
    BY <1>1, OneRequest
  <2>2. req[s].read.v <= order.v
    BY <1>1, <2>1 DEF SnapshotInv, RequestInv
  <2>3. req[s].read.v \in Nat /\ order.v \in Nat /\ order'.v \in Nat
    BY VersionTypes DEF TypeOK, Orders
  <2>4. /\ req[s].read.v = order.v =>
             /\ SameStake(req[s].read, order)
             /\ EditRule(order, req[s].doc, Limit, surcharge, ~raised)
        /\ req[s].pc = "gateway" => SameStake(req[s].read, req[s].doc)
    BY <1>1, <2>1 DEF ChargeInv
  <2>5. ASSUME req[s].read.v = order'.v
        PROVE  /\ SameStake(req[s].read, order')
               /\ EditRule(order', req[s].doc, Limit', surcharge', ~raised')
    <3>1. /\ order'.v = order.v /\ SameStake(order, order') /\ grown' = grown
      BY <2>2, <2>3, <2>5
    <3>2. SameStake(req[s].read, order)
          /\ EditRule(order, req[s].doc, Limit, surcharge, ~raised)
      BY <2>4, <2>5, <3>1
    <3>3. Limit' = Limit
      BY <3>1 DEF Limit, SameStake
    <3>4. SameStake(req[s].read, order')
      BY <3>1, <3>2 DEF SameStake
    <3>5. /\ Growth(order', req[s].doc) = Growth(order, req[s].doc)
          /\ order'.charged = order.charged /\ order'.total = order.total
      BY <3>1 DEF Growth, SameStake
    <3>6. EditRule(order', req[s].doc, Limit, surcharge, ~raised)
      BY <3>2, <3>5 DEF EditRule
    <3> QED BY <3>3, <3>4, <3>6
  <2> QED BY <2>1, <2>4, <2>5
<1>2. req'[r] = q
  BY OneRequest
<1> QED BY <1>1, <1>2 DEF ChargeInv

\* A handler that neither requests a refund nor forces a status edits the
\* copy it loads within the charge.
LEMMA LoadCharge ==
    ASSUME TypeOK, SnapshotInv, ChargeInv, TypeOK', NEW r \in Requests, Load(r),
           {"forceStatus", "requestRefund"} \cap Ops = {}
    PROVE  ChargeInv'
<1>1. /\ order \in Orders /\ DocRule(order, Limit) /\ order' = order
      /\ order.gwOrder \in Nat /\ attempts + 1 \in Nat /\ payments \subseteq Nat
      /\ Limit \in Nat /\ surcharge \in Nat /\ Limit' = Limit
      /\ surcharge' = surcharge /\ raised' = raised /\ grown' = grown
      /\ ~raised => grown = 0 /\ Total(order.units, surcharge) <= order.total
  <2>1. /\ order' = order /\ surcharge' = surcharge /\ raised' = raised /\ grown' = grown
    BY DEF Load, settingVars, historyVars, Begin, UpdateStatus, ForceStatus, CancelOrder, CancelItems,
       AddInternalNote, RequestRefund, ApproveRefund, RejectRefund,
       CreateRazorpayOrder, VerifyAndSettle, MarkFailed, WebhookCaptured,
       WebhookFailed, WebhookRefund, ProcessRefund
  <2>2. Limit' = Limit
    BY <2>1 DEF Limit
  <2>3. Limit \in Nat
    BY StakeType DEF Limit, TypeOK
  <2> QED BY <2>1, <2>2, <2>3 DEF TypeOK, ChargeInv, Orders
<1> DEFINE G(pc, after, doc) ==
             /\ req' = [req EXCEPT ![r] = At(pc, after, order, doc)]
             /\ EditRule(order, doc, Limit, surcharge, ~raised)
             /\ pc \in {"save", "claim"}
<1>2. ASSUME NEW pc, NEW after, NEW doc, G(pc, after, doc) PROVE ChargeInv'
  <2> DEFINE q == At(pc, after, order, doc)
  <2>1. q.pc = pc /\ q.read = order /\ q.doc = doc
    BY DEF At
  <2>2. req' = [req EXCEPT ![r] = q]
    BY <1>2
  <2> HIDE DEF q
  <2>3. /\ SameStake(order, order) /\ pc # "gateway"
        /\ EditRule(order, doc, Limit, surcharge, ~raised)
    BY <1>2 DEF SameStake
  <2>4. \/ order'.v = order.v /\ SameStake(order, order') /\ grown' = grown
        \/ order'.v > order.v
    BY <1>1, <2>3
  <2>5. q.pc # "idle" =>
          /\ q.read.v = order'.v =>
               /\ SameStake(q.read, order')
               /\ EditRule(order', q.doc, Limit', surcharge, ~raised)
          /\ q.pc = "gateway" => SameStake(q.read, q.doc)
    BY <1>1, <2>1, <2>3
  <2> QED BY <1>1, <2>2, <2>4, <2>5, ChargeFrame
<1> DEFINE Fits(doc) == EditRule(order, doc, Limit, surcharge, ~raised)
<1>3. /\ \A g \in Nat : Fits(Attempted(order, g))
      /\ \A g \in Nat \cup {Other} : Fits(Paid(order, g))
      /\ Fits([order EXCEPT !.pay = "FAILED"])
      /\ \A s \in RefundStatuses : Fits([order EXCEPT !.refund = s])
      /\ Fits(order)
  <2>1. ASSUME NEW d, SameStake(order, d) PROVE Fits(d)
    BY <1>1, <2>1, SameStakeRule
  <2> QED BY <1>1, <2>1, StakeKept
<1>4. CASE UpdateStatus(r)
  <2> PICK next \in Transitions[order.status] :
             Begin(r, "updateStatus", "done", Advanced(order, next))
    BY <1>4 DEF UpdateStatus
  <2>1. G("save", "done", Advanced(order, next))
    BY <1>1, EditsWithinCharge DEF Begin
  <2> QED BY <2>1, <1>2
<1>5. CASE ForceStatus(r) \/ RequestRefund(r)
  BY <1>5 DEF ForceStatus, RequestRefund, Begin
<1>6. CASE CancelOrder(r)
  <2>1. G("save", "done", CancelledOrder(order))
    BY <1>1, <1>6, EditsWithinCharge DEF Begin, CancelOrder
  <2> QED BY <2>1, <1>2
<1>7. CASE CancelItems(r)
  <2> PICK k \in 1 .. order.units :
             Begin(r, "cancelItems", "done", CancelledItems(order, k, surcharge))
    BY <1>7 DEF CancelItems
  <2>1. G("save", "done", CancelledItems(order, k, surcharge))
    BY <1>1, <1>7, CancelledWithinCharge DEF Begin, CancelItems
  <2> QED BY <2>1, <1>2
<1>8. CASE AddInternalNote(r)
  <2>1. G("save", "done", order)
    BY <1>3, <1>8 DEF AddInternalNote, Begin
  <2> QED BY <2>1, <1>2
<1>9. CASE ApproveRefund(r) \/ RejectRefund(r) \/ WebhookRefund(r)
  <2>1. /\ Fits([order EXCEPT !.refund = "INITIATED"])
        /\ Fits([order EXCEPT !.refund = "NOT_REQUIRED"])
        /\ Fits([order EXCEPT !.refund = "REFUNDED"])
    BY <1>3 DEF RefundStatuses
  <2>2. \/ G("save", "claim", [order EXCEPT !.refund = "INITIATED"])
        \/ G("save", "done", [order EXCEPT !.refund = "NOT_REQUIRED"])
        \/ G("save", "heard", [order EXCEPT !.refund = "REFUNDED"])
    BY <1>9, <2>1 DEF ApproveRefund, RejectRefund, WebhookRefund, Begin
  <2> QED BY <2>2, <1>2
<1>10. CASE CreateRazorpayOrder(r)
  <2>1. G("save", "offer", Attempted(order, attempts + 1))
    BY <1>1, <1>3, <1>10 DEF CreateRazorpayOrder
  <2> QED BY <2>1, <1>2
<1>11. CASE VerifyAndSettle(r)
  <2>1. PICK g \in Nat \cup {Other} : \/ Begin(r, "verify", "notify", Paid(order, g))
                                    \/ Begin(r, "verify", "done", order)
    BY <1>1, <1>11 DEF VerifyAndSettle
  <2>2. G("save", "notify", Paid(order, g)) \/ G("save", "done", order)
    BY <1>3, <2>1 DEF Begin
  <2> QED BY <2>2, <1>2
<1>12. CASE MarkFailed(r) \/ WebhookFailed(r)
  <2>1. G("save", "done", [order EXCEPT !.pay = "FAILED"])
    BY <1>3, <1>12 DEF MarkFailed, WebhookFailed, Begin
  <2> QED BY <2>1, <1>2
<1>13. CASE WebhookCaptured(r)
  <2>1. G("save", "notify", Paid(order, order.gwOrder))
    BY <1>1, <1>3, <1>13 DEF WebhookCaptured, Begin
  <2> QED BY <2>1, <1>2
<1>14. CASE ProcessRefund(r)
  <2>1. G("claim", "refunded", order)
    BY <1>3, <1>14 DEF ProcessRefund
  <2> QED BY <2>1, <1>2
<1> QED BY <1>4, <1>5, <1>6, <1>7, <1>8, <1>9, <1>10, <1>11, <1>12, <1>13, <1>14
        DEF Load

\* The other steps of a request carry what was staged along unchanged.
LEMMA ProceedCharge ==
    ASSUME TypeOK, SnapshotInv, ChargeInv, TypeOK', NEW r \in Requests,
           Proceed(r) \/ Fault(r)
    PROVE  ChargeInv'
<1> DEFINE q == req[r]
           f == [q.doc EXCEPT !.refund = "FAILED"]
<1>1. /\ q \in RequestStates /\ q.read \in Orders /\ q.doc \in Orders /\ order \in Orders
      /\ SameStake(order, order) /\ Idle.pc = "idle"
      /\ q.pc # "idle" =>
           /\ RequestInv(q, order)
           /\ q.read.v = order.v =>
                /\ SameStake(q.read, order)
                /\ EditRule(order, q.doc, Limit, surcharge, ~raised)
           /\ q.pc = "gateway" => SameStake(q.read, q.doc)
  BY DEF TypeOK, RequestStates, ChargeInv, SnapshotInv, SameStake, Idle
<1>2. /\ DocRule(order, Limit) /\ Limit \in Nat
      /\ ~raised => grown = 0 /\ Total(order.units, surcharge) <= order.total
      /\ surcharge' = surcharge /\ raised' = raised
  <2>1. Limit \in Nat
    BY <1>1, StakeType DEF Limit, TypeOK
  <2>2. surcharge' = surcharge /\ raised' = raised
    BY DEF Proceed, Fault, Save, SaveConflict, Notify, Claim, GatewayAccepts,
       GatewayRefuses, SaveFault, Crash, GatewayAnswerLost, settingVars
  <2> QED BY <2>1, <2>2 DEF ChargeInv
<1>3. SameStake(q.doc, f)
  BY <1>1, StakeKept DEF RefundStatuses
<1>4. CASE Save(r)
  <2> DEFINE n == AfterSave(q)
  <2>1. /\ q.pc = "save" /\ order' = Saved(q.read, q.doc, order)
        /\ q.read.v = order.v /\ req' = [req EXCEPT ![r] = n]
    BY <1>4 DEF Save
  <2>2. /\ SameStake(q.read, order)
        /\ EditRule(order, q.doc, Limit, surcharge, ~raised)
    BY <1>1, <2>1
  <2>3. SameStake(q.doc, order')
    BY <1>1, <2>1, <2>2 DEF Saved, SameStake, Orders
  <2>4. /\ EditRule(order, order', Limit, surcharge, ~raised)
        /\ order'.total \in Nat /\ order.total \in Nat
    BY <1>1, <2>2, <2>3, StakeWithinCharge, StakeType DEF TypeOK
  <2>5. order'.v > order.v /\ q.read.v # order'.v
    BY <1>1, <1>4, <2>1, SaveFacts DEF Orders
  <2>6. n.pc # "idle" => n.read = q.read /\ n.doc = q.doc /\ n.pc # "gateway"
    BY <1>1 DEF AfterSave, RequestStates, Idle
  <2> HIDE DEF n
  <2>7. n.pc # "idle" =>
          /\ n.read.v = order'.v =>
               /\ SameStake(n.read, order')
               /\ EditRule(order', n.doc, Limit', surcharge, ~raised)
          /\ n.pc = "gateway" => SameStake(n.read, n.doc)
    BY <2>5, <2>6
  <2>8. grown' = grown + Growth(order, order') /\ grown \in Nat
    BY <1>4, <2>4 DEF Save, Growth, TypeOK
  <2>9. /\ order'.charged = order.charged
        /\ DocRule(order', Limit + Growth(order, order'))
        /\ ~raised => /\ order'.total <= order.total
                      /\ Total(order'.units, surcharge) <= order'.total
    BY <2>4 DEF EditRule
  <2>10. Growth(order, order') \in Nat
    BY <2>4 DEF Growth
  <2>11. Limit' = Limit + Growth(order, order')
    BY <1>1, <2>8, <2>9, <2>10, StakeType DEF Limit
  <2>12. ~raised => grown' = 0
    BY <1>2, <2>4, <2>8, <2>9 DEF Growth
  <2> QED BY <1>2, <2>1, <2>5, <2>7, <2>9, <2>11, <2>12, ChargeFrame
<1>5. ASSUME order' = order, grown' = grown,
             NEW n, req' = [req EXCEPT ![r] = n],
             n.pc # "idle" => /\ q.pc # "idle" /\ n.pc # "gateway"
                              /\ n.read = q.read /\ SameStake(q.doc, n.doc)
      PROVE  ChargeInv'
  <2>1. Limit' = Limit
    BY <1>5 DEF Limit
  <2>2. n.pc # "idle" =>
          /\ n.read.v = order'.v =>
               /\ SameStake(n.read, order')
               /\ EditRule(order', n.doc, Limit', surcharge, ~raised)
          /\ n.pc = "gateway" => SameStake(n.read, n.doc)
    BY <1>1, <1>5, <2>1, StakeWithinCharge
  <2>3. \/ order'.v = order.v /\ SameStake(order, order') /\ grown' = grown
        \/ order'.v > order.v
    BY <1>1, <1>5
  <2> QED BY <1>2, <1>5, <2>1, <2>2, <2>3, ChargeFrame
<1>6. CASE SaveConflict(r) \/ SaveFault(r)
  <2> DEFINE n == AfterFailedSave(q)
  <2>1. /\ order' = order /\ req' = [req EXCEPT ![r] = n] /\ q.pc = "save"
    BY <1>6 DEF SaveConflict, SaveFault
  <2>2. grown' = grown
    BY <1>6 DEF SaveConflict, SaveFault, historyVars
  <2>3. n.pc # "idle" => n.pc = "save" /\ n.read = q.read /\ n.doc = f
    BY DEF AfterFailedSave, At, Idle
  <2> HIDE DEF n, f
  <2> QED BY <1>5, <1>3, <2>1, <2>3, <2>2
<1>7. CASE Crash(r) \/ Notify(r)
  <2>1. order' = order /\ req' = [req EXCEPT ![r] = Idle] /\ grown' = grown
    BY <1>7 DEF Crash, Notify, historyVars
  <2> QED BY <1>1, <1>5, <2>1
<1>8. CASE GatewayRefuses(r) \/ GatewayAnswerLost(r)
  <2> DEFINE n == At("save", "failed", q.read, f)
  <2>1. /\ order' = order /\ req' = [req EXCEPT ![r] = n] /\ q.pc = "gateway"
        /\ grown' = grown
    BY <1>8 DEF GatewayRefuses, GatewayAnswerLost, TypeOK, historyVars
  <2>2. n.pc = "save" /\ n.read = q.read /\ n.doc = f
    BY DEF At
  <2> HIDE DEF n, f
  <2> QED BY <1>5, <1>3, <2>1, <2>2
<1>9. CASE GatewayAccepts(r)
  <2> DEFINE d(s) == [RefundTaken(q.doc, s) EXCEPT !.refundId = Len(refunds) + 1]
             n(s) == At("save", "refunded", q.read, d(s))
  <2>1. PICK s \in RefundStatuses : req' = [req EXCEPT ![r] = n(s)]
    BY <1>9 DEF GatewayAccepts, RefundStatuses
  <2>2. /\ order' = order /\ q.pc = "gateway" /\ Len(refunds) + 1 \in Nat
        /\ grown' = grown
    BY <1>9 DEF GatewayAccepts, TypeOK, historyVars
  <2>3. SameStake(q.doc, d(s))
    BY <1>1, <2>2, StakeKept
  <2>4. n(s).pc = "save" /\ n(s).read = q.read /\ n(s).doc = d(s)
    BY DEF At
  <2> HIDE DEF n, d
  <2> QED BY <1>5, <2>1, <2>2, <2>3, <2>4
<1>10. CASE Claim(r)
  <2>1. CASE ~Claimable(order)
    <3>1. order' = order /\ req' = [req EXCEPT ![r] = Idle] /\ grown' = grown
      BY <1>10, <2>1 DEF Claim, historyVars
    <3> QED BY <1>1, <1>5, <3>1
  <2>2. CASE Claimable(order)
    <3> DEFINE c == [order EXCEPT !.refund = "PROCESSING"]
               t == RefundTaken(c, "REFUNDED")
    <3>1. order' = c /\ grown' = grown
      BY <2>2, <1>10 DEF Claim, historyVars
    <3>2. c \in Orders /\ SameStake(order, c) /\ c.v = order.v
      <4>1. "PROCESSING" \in RefundStatuses
        BY DEF RefundStatuses
      <4>2. c \in Orders
        BY <1>1, <4>1, RefundEditsType
      <4>3. SameStake(order, c)
        BY <1>1, <4>1, StakeKept
      <4>4. c.v = order.v
        BY <1>1 DEF Orders
      <4> QED BY <4>2, <4>3, <4>4
    <3>3. SameStake(c, t)
      <4> HIDE DEF c
      <4> QED BY <3>2, StakeKept DEF RefundStatuses
    <3>4. PICK n : /\ req' = [req EXCEPT ![r] = n] /\ n.read = c
                   /\ n.pc \in {"gateway", "save"}
                   /\ n.doc = IF n.pc = "gateway" THEN c ELSE t
      <4>1. PICK n \in {At("gateway", "refunded", c, c), At("save", "refunded", c, t)} :
               req' = [req EXCEPT ![r] = n]
        BY <2>2, <1>10 DEF Claim
      <4> HIDE DEF c, t
      <4>2. /\ n.read = c /\ n.pc \in {"gateway", "save"}
            /\ n.doc = IF n.pc = "gateway" THEN c ELSE t
        BY <4>1 DEF At
      <4> QED BY <4>1, <4>2
    <3> HIDE DEF c, t
    <3>5. /\ DocRule(c, Limit) /\ SameStake(c, c) /\ SameStake(c, t)
          /\ ~raised => Total(c.units, surcharge) <= c.total
          /\ c.charged = order.charged
      <4>1. DocRule(c, Limit)
        BY <1>1, <1>2, <3>2, SameStakeRule
      <4>2. ~raised => Total(c.units, surcharge) <= c.total
        BY <1>2, <3>2 DEF SameStake
      <4> QED BY <3>2, <3>3, <4>1, <4>2 DEF SameStake
    <3>6. EditRule(c, c, Limit, surcharge, ~raised) /\ EditRule(c, t, Limit, surcharge, ~raised)
      BY <1>2, <3>2, <3>5, SameStakeRule
    <3>7. Limit' = Limit
      BY <3>1, <3>5 DEF Limit
    <3>8. n.pc # "idle" =>
            /\ n.read.v = order'.v =>
                 /\ SameStake(n.read, order')
                 /\ EditRule(order', n.doc, Limit', surcharge, ~raised)
            /\ n.pc = "gateway" => SameStake(n.read, n.doc)
      BY <3>1, <3>4, <3>5, <3>6, <3>7
    <3>9. DocRule(order', Limit')
      BY <3>1, <3>5, <3>7
    <3>10. ~raised => grown' = 0 /\ Total(order'.units, surcharge) <= order'.total
      BY <1>2, <3>1, <3>5
    <3> QED BY <1>2, <3>1, <3>2, <3>4, <3>8, <3>9, <3>10, ChargeFrame
  <2> QED BY <2>1, <2>2
<1> QED BY <1>4, <1>6, <1>7, <1>8, <1>9, <1>10 DEF Proceed, Fault

\* The kitchen's owner changes the service charge: what is priced already
\* stays, and while it was only lowered every price is at least today's.
LEMMA SettingCharge ==
    ASSUME TypeOK, ChargeInv, TypeOK', SetServiceCharge
    PROVE  ChargeInv'
<1>1. /\ order' = order /\ req' = req /\ grown' = grown /\ Limit' = Limit
      /\ surcharge \in Nat /\ surcharge' \in Nat
      /\ ~raised' => ~raised /\ surcharge' <= surcharge
  <2>1. PICK s \in Surcharges : surcharge' = s /\ raised' = (raised \/ s > surcharge)
    BY DEF SetServiceCharge
  <2>2. surcharge \in Nat /\ s \in Nat
    BY DEF TypeOK
  <2>3. ~raised' => ~raised /\ ~(s > surcharge)
    BY <2>1
  <2>4. ~(s > surcharge) => s <= surcharge
    BY <2>2
  <2>5. order' = order /\ req' = req /\ grown' = grown /\ Limit' = Limit
    BY DEF SetServiceCharge, historyVars, Limit
  <2> QED BY <2>1, <2>2, <2>3, <2>4, <2>5
<1>2. ASSUME NEW d \in Orders, ~raised', Total(d.units, surcharge) <= d.total
      PROVE  Total(d.units, surcharge') <= d.total
  <2>1. d.units \in Nat /\ d.total \in Nat
    BY StakeType
  <2>2. /\ Total(d.units, surcharge') <= Total(d.units, surcharge)
        /\ Total(d.units, surcharge') \in Nat /\ Total(d.units, surcharge) \in Nat
    <3>1. ~raised' => surcharge' <= surcharge
      BY <1>1
    <3>2. d.units <= d.units
      BY <2>1
    <3> QED BY <1>1, <1>2, <2>1, <3>1, <3>2, TotalMonotone, TotalType
  <2> QED BY <1>2, <2>1, <2>2
<1>3. ~raised' => grown' = 0 /\ Total(order'.units, surcharge') <= order'.total
  BY <1>1, <1>2 DEF ChargeInv, TypeOK
<1>4. ASSUME NEW r \in Requests, req[r].pc # "idle", req[r].read.v = order.v
      PROVE  EditRule(order, req[r].doc, Limit, surcharge', ~raised')
  <2>1. EditRule(order, req[r].doc, Limit, surcharge, ~raised) /\ req[r].doc \in Orders
    BY <1>4 DEF ChargeInv, TypeOK, RequestStates
  <2> QED BY <1>1, <1>2, <2>1 DEF EditRule
<1> QED BY <1>1, <1>3, <1>4 DEF ChargeInv

(* What cancellations and refusals stage never exceeds what the customer    *)
(* was charged and leaves the price of the units still to be delivered, but *)
(* for what cancellations priced with a raised service charge added, and    *)
(* the kitchen is told once: for every mix of handlers without the override *)
(* and the refund request, which break the sum, and every course of the     *)
(* service charge.                                                          *)
THEOREM RefundsStayWithinCharge ==
    ASSUME {"forceStatus", "requestRefund"} \cap Ops = {}
    PROVE  Spec => []MoneyInv
<1>1. Init => ChargeInv
  <2> SUFFICES ASSUME Init PROVE ChargeInv
    OBVIOUS
  <2>1. PICK m \in Methods : order = NewOrder(m, surcharge)
    BY DEF Init
  <2>2. /\ order.amount = 0 /\ order.units = OrderedUnits /\ grown = 0
        /\ order.total = Total(OrderedUnits, surcharge)
        /\ order.charged = Total(OrderedUnits, surcharge)
    BY <2>1 DEF NewOrder, Init
  <2>3. Total(OrderedUnits, surcharge) \in Nat
    BY TotalType DEF Init
  <2>4. DocRule(order, Limit) /\ Total(order.units, surcharge) <= order.total
    BY <2>2, <2>3 DEF DocRule, Limit
  <2>5. \A r \in Requests : req[r].pc = "idle"
    BY DEF Init, Idle
  <2> QED BY <2>2, <2>4, <2>5 DEF ChargeInv
<1>2. TypeOK /\ TypeOK' /\ SnapshotInv /\ ChargeInv /\ [Next]_vars => ChargeInv'
  <2> SUFFICES ASSUME TypeOK, TypeOK', SnapshotInv, ChargeInv, [Next]_vars
               PROVE  ChargeInv'
    OBVIOUS
  <2>1. ASSUME order' = order, req' = req, grown' = grown, surcharge' = surcharge,
               raised' = raised
        PROVE ChargeInv'
    <3>1. Limit' = Limit
      BY <2>1 DEF Limit
    <3> QED BY <2>1, <3>1 DEF ChargeInv
  <2>2. CASE CustomerPays \/ GatewayProcesses \/ WebhookRefundUnknown \/ UNCHANGED vars
    BY <2>1, <2>2 DEF CustomerPays, GatewayProcesses, WebhookRefundUnknown, vars,
                      settingVars, historyVars
  <2> QED BY <2>2, LoadCharge, ProceedCharge, SettingCharge DEF Next
<1>3. ChargeInv => RefundWithinCharge
  BY DEF ChargeInv, DocRule, Alive, Limit, RefundWithinCharge
<1> QED BY <1>1, <1>2, <1>3, TypeCorrect, Snapshots, KitchenHearsOnce, PTL
        DEF Spec, MoneyInv
=============================================================================
