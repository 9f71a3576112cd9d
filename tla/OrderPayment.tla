---------------------------- MODULE OrderPayment ----------------------------
(***************************************************************************)
(* One order document and the requests that work on it: the staff handlers *)
(* of modules/order/order.service.ts, the payment handlers and the webhook *)
(* of services/payment.service.ts, the payment gateway and the customer.   *)
(*                                                                         *)
(* A handler loads the document, decides and edits on the copy it loaded   *)
(* (one step), and saves the copy later (another step).  models/Order.ts   *)
(* sets optimisticConcurrency, so a save writes the fields the copy        *)
(* changed, demands the version it read and increments it.  The claim of a *)
(* refund is the exception: a findOneAndUpdate, atomic, which neither      *)
(* demands nor increments the version.                                     *)
(*                                                                         *)
(* The service charge is a setting of the kitchen that its owner changes:  *)
(* the order keeps the total it was given, and cancelItems prices what is  *)
(* left with the setting of that moment.                                   *)
(***************************************************************************)
EXTENDS OrderRules, Sequences

CONSTANTS Requests,      \* requests in flight at the same time
          Ops,           \* the handlers the clients of an instance call
          Other,         \* a payment the customer made for another order
          MaxVersion,    \* bound: no client request starts at this version
          MaxAttempts,   \* bound: gateway orders created for the order
          MaxFaults      \* bound: requests lost to a crash, saves lost to the database

AllOps == {"updateStatus", "forceStatus", "cancelOrder", "cancelItems",
           "addInternalNote", "requestRefund", "approveRefund", "rejectRefund",
           "processRefund", "createRazorpayOrder", "verify", "failed", "webhook"}

ASSUME OrderPaymentAssumption ==
    /\ Ops \subseteq AllOps
    /\ Other \notin Nat
    /\ Surcharges # {}
    /\ MaxVersion \in Nat
    /\ MaxAttempts \in Nat
    /\ MaxFaults \in Nat

VARIABLES
    order,       \* the document in the orders collection
    req,         \* req[r]: where request r is, what it read, its edited copy
    attempts,    \* gateway orders created so far, numbered 1 .. attempts
    offered,     \* those whose id reached the customer's checkout window
    payments,    \* those the customer paid
    refunds,     \* refunds the gateway accepted: document version and amount
    processed,   \* those of them the gateway has carried out
    heard,       \* those whose refund.processed event was answered with 200
    surcharge,   \* what the kitchen's settings add to a unit now
    raised,      \* history: it was raised since the order was placed
    grown,       \* history: by how much cancellations raised the order's total
    overtaken,   \* history: a request that had claimed the refund could save
                 \* neither what came of it nor that it failed
    kitchenNew,  \* ORDER_NEW events emitted by a settlement
    faults       \* faults that happened so far
gatewayVars == <<attempts, offered, payments, refunds, processed, heard>>
settingVars == <<surcharge, raised>>
historyVars == <<grown, overtaken>>
vars == <<order, req, gatewayVars, settingVars, historyVars, kitchenNew, faults>>

-----------------------------------------------------------------------------
(* The document.  gwOrder, gwPayment and refundId are 0 while unset; a      *)
(* payment has the number of the gateway order it paid.  charged is         *)
(* payment.amount, total is pricing.total.                                  *)
NewOrder(m, s) ==
    [method |-> m, status |-> "NEW_ORDER", units |-> OrderedUnits,
     charged |-> Total(OrderedUnits, s), total |-> Total(OrderedUnits, s),
     pay |-> "PENDING", paidAt |-> FALSE, gwOrder |-> 0, gwPayment |-> 0,
     refund |-> "NOT_REQUIRED", amount |-> 0, refundId |-> 0, v |-> 0]

\* What save() leaves in the database when the document there is cur: the
\* fields edited between read and doc, and the next version.
Saved(read, doc, cur) ==
    [[f \in DOMAIN cur |-> IF doc[f] # read[f] THEN doc[f] ELSE cur[f]]
        EXCEPT !.v = cur.v + 1]

\* A finished request, and a request at pc that will do "after" once saved.
Idle == [pc |-> "idle", after |-> "done",
         read |-> NewOrder("COD", 0), doc |-> NewOrder("COD", 0)]
At(pc, after, read, doc) ==
    [pc |-> pc, after |-> after, read |-> read, doc |-> doc]

Init == /\ surcharge \in Surcharges
        /\ \E m \in Methods : order = NewOrder(m, surcharge)
        /\ req = [r \in Requests |-> Idle]
        /\ attempts = 0
        /\ offered = {}
        /\ payments = {}
        /\ refunds = << >>
        /\ processed = {}
        /\ heard = {}
        /\ raised = FALSE
        /\ grown = 0
        /\ overtaken = FALSE
        /\ kitchenNew = 0
        /\ faults = 0

-----------------------------------------------------------------------------
(* The edits: what each handler makes of the copy o it loaded.              *)

\* Mutant: stages a refund without looking at the payment.
StageUnpaid(o) == [o EXCEPT !.refund = "INITIATED", !.amount = o.total]

\* Rejecting or cancelling stages the whole total if the order is paid.
StageFull(o) ==
    [o EXCEPT !.refund = IF o.pay = "PAID" THEN "INITIATED" ELSE "NOT_REQUIRED",
              !.amount = IF o.pay = "PAID" THEN o.total ELSE o.amount]

MovedTo(o, next) ==
    IF SettlesOnDelivery(next, o.method, o.pay)
    THEN [o EXCEPT !.status = next, !.pay = "PAID", !.paidAt = TRUE]
    ELSE [o EXCEPT !.status = next]

Advanced(o, next) ==
    IF next = "REJECTED" THEN StageFull(MovedTo(o, next)) ELSE MovedTo(o, next)

Forced(o, next) ==
    IF next \in {"REJECTED", "CANCELLED"} THEN StageFull(MovedTo(o, next))
                                          ELSE MovedTo(o, next)

CancelledOrder(o) == StageFull([o EXCEPT !.status = "CANCELLED"])

\* Mutant: refunds the list price of the units, not the drop of the total.
CancelledAtListPrice(o, k, s) ==
    [o EXCEPT !.units = @ - k,
              !.total = Total(o.units - k, s),
              !.status = IF k = o.units THEN "CANCELLED" ELSE @,
              !.refund = IF o.pay = "PAID" THEN "INITIATED" ELSE @,
              !.amount = IF o.pay = "PAID" THEN @ + k ELSE @]

\* Mutant: subtracts the totals the wrong way round.
CancelledBackwards(o, k, s) ==
    [o EXCEPT !.units = @ - k,
              !.total = Total(o.units - k, s),
              !.status = IF k = o.units THEN "CANCELLED" ELSE @,
              !.amount = IF o.pay = "PAID"
                         THEN @ + (Total(o.units - k, s) - o.total) ELSE @]

\* The units left are priced with the surcharge s in force now; a paid order
\* gets back what its total drops by, and nothing when it does not drop.
CancelledItems(o, k, s) ==
    LET left  == o.units - k
        total == Total(left, s)
        delta == IF o.total > total THEN o.total - total ELSE 0
    IN  [o EXCEPT !.units = left,
                  !.total = total,
                  !.status = IF left = 0 THEN "CANCELLED" ELSE @,
                  !.refund = IF o.pay = "PAID" /\ delta > 0 THEN "INITIATED" ELSE @,
                  !.amount = IF o.pay = "PAID" THEN @ + delta ELSE @]

RequestedRefund(o) == [o EXCEPT !.refund = "REQUESTED", !.amount = o.total]

Attempted(o, g) == [o EXCEPT !.gwOrder = g,
                             !.pay = IF @ = "FAILED" THEN "PENDING" ELSE @]

Paid(o, g) == [o EXCEPT !.pay = "PAID", !.gwPayment = g, !.paidAt = TRUE]

OnlinePaid(o) == o.method = "RAZORPAY" /\ o.pay # "PENDING" /\ o.gwPayment # 0

\* The result of a refund the gateway or the cash desk took on.
RefundTaken(o, result) ==
    [o EXCEPT !.refund = result,
              !.pay = IF o.amount >= o.total THEN "REFUNDED"
                                             ELSE "PARTIALLY_REFUNDED"]

-----------------------------------------------------------------------------
(* Loading.  The guard is evaluated on the document as it is loaded; the    *)
(* save follows in a step of its own, so anything may happen in between.    *)

Begin(r, op, after, doc) ==
    /\ req[r].pc = "idle"
    /\ op \in Ops
    /\ req' = [req EXCEPT ![r] = At("save", after, order, doc)]
    /\ UNCHANGED <<order, gatewayVars, settingVars, historyVars, kitchenNew, faults>>

InBounds == order.v < MaxVersion

UpdateStatus(r) ==
    /\ InBounds
    /\ \E next \in Transitions[order.status] :
         Begin(r, "updateStatus", "done", Advanced(order, next))

ForceStatus(r) ==
    /\ InBounds
    /\ \E next \in Statuses : Begin(r, "forceStatus", "done", Forced(order, next))

CancelOrder(r) ==
    /\ InBounds
    /\ order.status \in Cancellable
    /\ Begin(r, "cancelOrder", "done", CancelledOrder(order))

CancelItems(r) ==
    /\ InBounds
    /\ order.status \in Cancellable
    /\ \E k \in 1 .. order.units :
         Begin(r, "cancelItems", "done", CancelledItems(order, k, surcharge))

\* Touches only fields outside the model, but still moves the version.
AddInternalNote(r) ==
    InBounds /\ Begin(r, "addInternalNote", "done", order)

RequestRefund(r) ==
    /\ InBounds
    /\ order.pay = "PAID"
    /\ order.refund \notin {"REFUNDED", "PROCESSING", "INITIATED"}
    /\ Begin(r, "requestRefund", "done", RequestedRefund(order))

ApproveRefund(r) ==
    /\ InBounds
    /\ order.refund = "REQUESTED"
    /\ Begin(r, "approveRefund", "claim", [order EXCEPT !.refund = "INITIATED"])

RejectRefund(r) ==
    /\ InBounds
    /\ order.refund = "REQUESTED"
    /\ Begin(r, "rejectRefund", "done", [order EXCEPT !.refund = "NOT_REQUIRED"])

\* The gateway creates its order between the load and the save; the counter
\* is all that step touches, so it is taken together with the load.
CreateRazorpayOrder(r) ==
    /\ InBounds
    /\ req[r].pc = "idle"
    /\ "createRazorpayOrder" \in Ops
    /\ order.method = "RAZORPAY"
    /\ order.pay # "PAID"
    /\ attempts < MaxAttempts
    /\ attempts' = attempts + 1
    /\ req' = [req EXCEPT ![r] =
                  At("save", "offer", order, Attempted(order, attempts + 1))]
    /\ UNCHANGED <<order, offered, payments, refunds, processed, heard,
                   settingVars, historyVars, kitchenNew, faults>>

\* Mutant: believes the browser without checking the signature.
VerifyUnsigned(r) ==
    \E g \in offered : /\ order.gwOrder \in {0, g}
                       /\ order.pay # "PAID"
                       /\ Begin(r, "verify", "notify", Paid(order, g))

\* Mutant: does not compare the reported gateway order with the stored one.
VerifyAnyOrder(r) ==
    /\ order.pay # "PAID"
    /\ \E g \in payments \cup {Other} : Begin(r, "verify", "notify", Paid(order, g))

\* The browser reports a payment.  A gateway order the document names has to
\* be the one that was paid; while it names none, the genuine payment of any
\* other order passes.  A bad signature records a reason and nothing else,
\* on an order that is paid already as well.
VerifyAndSettle(r) ==
    \/ /\ order.pay # "PAID"
       /\ \E g \in payments \cup {Other} :
             /\ order.gwOrder = (IF g = Other THEN 0 ELSE g)
             /\ Begin(r, "verify", "notify", Paid(order, g))
    \/ /\ InBounds
       /\ Begin(r, "verify", "done", order)

MarkFailed(r) ==
    /\ InBounds
    /\ order.pay # "PAID"
    /\ Begin(r, "failed", "done", [order EXCEPT !.pay = "FAILED"])

\* Mutant: a capture that comes after a reported failure is ignored.
CaptureOfPendingOnly(r) ==
    /\ order.gwOrder \in payments
    /\ order.pay = "PENDING"
    /\ Begin(r, "webhook", "notify", Paid(order, order.gwOrder))

\* Webhook deliveries may come late, in any order, and again and again: they
\* are enabled by what the gateway once did, not consumed.
WebhookCaptured(r) ==
    /\ order.gwOrder \in payments
    /\ order.pay # "PAID"
    /\ Begin(r, "webhook", "notify", Paid(order, order.gwOrder))

WebhookFailed(r) ==
    /\ InBounds
    /\ order.gwOrder \in offered
    /\ order.pay # "PAID"
    /\ Begin(r, "webhook", "done", [order EXCEPT !.pay = "FAILED"])

\* The id of the refund finds the order.
WebhookRefund(r) ==
    /\ order.refund = "REFUNDED" => InBounds
    /\ order.refundId \in processed
    /\ Begin(r, "webhook", "heard", [order EXCEPT !.refund = "REFUNDED"])

\* No order carries the id, not yet or not any more: the delivery is answered
\* all the same, and the gateway does not repeat it.
WebhookRefundUnknown ==
    /\ "webhook" \in Ops
    /\ \E i \in processed \ heard : /\ i # order.refundId
                                   /\ heard' = heard \cup {i}
    /\ UNCHANGED <<order, req, attempts, offered, payments, refunds, processed,
                   settingVars, historyVars, kitchenNew, faults>>

\* processRefund's pre-checks read the loaded copy; the claim decides.
ProcessRefund(r) ==
    /\ InBounds
    /\ req[r].pc = "idle"
    /\ "processRefund" \in Ops
    /\ order.refund \notin {"REFUNDED", "NOT_REQUIRED"}
    /\ order.amount > 0
    /\ req' = [req EXCEPT ![r] = At("claim", "refunded", order, order)]
    /\ UNCHANGED <<order, gatewayVars, settingVars, historyVars, kitchenNew, faults>>

-----------------------------------------------------------------------------
(* Saving.                                                                  *)

\* What a request does once its save went through.
AfterSave(q) ==
    IF q.after = "notify" THEN [q EXCEPT !.pc = "notify"]
    ELSE IF q.after = "claim" /\ q.doc.amount > 0 THEN [q EXCEPT !.pc = "claim"]
    ELSE Idle

\* processRefund catches a failed save, marks its copy FAILED and saves that.
AfterFailedSave(q) ==
    IF q.after = "refunded"
    THEN At("save", "failed", q.read, [q.doc EXCEPT !.refund = "FAILED"])
    ELSE Idle

\* Mutant: saves whatever version the document has by now.
SaveAnyVersion(r) ==
    /\ req[r].pc = "save"
    /\ order' = Saved(req[r].read, req[r].doc, order)
    /\ offered' = IF req[r].after = "offer"
                  THEN offered \cup {req[r].doc.gwOrder} ELSE offered
    /\ heard' = IF req[r].after = "heard"
                THEN heard \cup {req[r].doc.refundId} ELSE heard
    /\ grown' = IF order'.total > order.total
                THEN grown + (order'.total - order.total) ELSE grown
    /\ req' = [req EXCEPT ![r] = AfterSave(req[r])]
    /\ UNCHANGED <<attempts, payments, refunds, processed, settingVars, overtaken,
                   kitchenNew, faults>>

Save(r) ==
    /\ req[r].pc = "save"
    /\ req[r].read.v = order.v
    /\ order' = Saved(req[r].read, req[r].doc, order)
    /\ offered' = IF req[r].after = "offer"
                  THEN offered \cup {req[r].doc.gwOrder} ELSE offered
    /\ heard' = IF req[r].after = "heard"
                THEN heard \cup {req[r].doc.refundId} ELSE heard
    /\ grown' = IF order'.total > order.total
                THEN grown + (order'.total - order.total) ELSE grown
    /\ req' = [req EXCEPT ![r] = AfterSave(req[r])]
    /\ UNCHANGED <<attempts, payments, refunds, processed, settingVars, overtaken,
                   kitchenNew, faults>>

\* VersionError: the document moved on since it was loaded.
SaveConflict(r) ==
    /\ req[r].pc = "save"
    /\ req[r].read.v # order.v
    /\ req' = [req EXCEPT ![r] = AfterFailedSave(req[r])]
    /\ overtaken' = (overtaken \/ req[r].after = "failed")
    /\ UNCHANGED <<order, gatewayVars, settingVars, grown, kitchenNew, faults>>

\* The database rejects a save for a reason of its own.
SaveFault(r) ==
    /\ faults < MaxFaults
    /\ req[r].pc = "save"
    /\ req' = [req EXCEPT ![r] = AfterFailedSave(req[r])]
    /\ faults' = faults + 1
    /\ UNCHANGED <<order, gatewayVars, settingVars, historyVars, kitchenNew>>

\* The process running the request stops.
Crash(r) ==
    /\ faults < MaxFaults
    /\ req[r].pc # "idle"
    /\ req' = [req EXCEPT ![r] = Idle]
    /\ faults' = faults + 1
    /\ UNCHANGED <<order, gatewayVars, settingVars, historyVars, kitchenNew>>

Notify(r) ==
    /\ req[r].pc = "notify"
    /\ kitchenNew' = kitchenNew + 1
    /\ req' = [req EXCEPT ![r] = Idle]
    /\ UNCHANGED <<order, gatewayVars, settingVars, historyVars, faults>>

-----------------------------------------------------------------------------
(* Refunding.                                                               *)

\* Mutant: claims a refund another request is already processing.
ClaimableTwice(o) ==
    o.refund \in {"INITIATED", "PROCESSING", "FAILED"} /\ o.amount > 0

Claimable(o) == o.refund \in {"INITIATED", "FAILED"} /\ o.amount > 0

\* The atomic claim.  It works on the document it claimed from then on; an
\* offline refund needs no gateway and is settled at once on that copy.
Claim(r) ==
    /\ req[r].pc = "claim"
    /\ IF Claimable(order)
       THEN LET claimed == [order EXCEPT !.refund = "PROCESSING"]
            IN  /\ order' = claimed
                /\ req' = [req EXCEPT ![r] =
                       IF OnlinePaid(claimed)
                       THEN At("gateway", "refunded", claimed, claimed)
                       ELSE At("save", "refunded", claimed,
                               RefundTaken(claimed, "REFUNDED"))]
       ELSE req' = [req EXCEPT ![r] = Idle] /\ order' = order
    /\ UNCHANGED <<gatewayVars, settingVars, historyVars, kitchenNew, faults>>

\* The gateway takes the refund on, and carries it out now or later.
GatewayAccepts(r) ==
    LET q  == req[r]
        id == Len(refunds) + 1
    IN  /\ q.pc = "gateway"
        /\ refunds' = Append(refunds, [v |-> q.read.v, amount |-> q.read.amount])
        /\ \/ /\ processed' = processed \cup {id}
              /\ req' = [req EXCEPT ![r] = At("save", "refunded", q.read,
                       [RefundTaken(q.doc, "REFUNDED") EXCEPT !.refundId = id])]
           \/ /\ processed' = processed
              /\ req' = [req EXCEPT ![r] = At("save", "refunded", q.read,
                       [RefundTaken(q.doc, "PROCESSING") EXCEPT !.refundId = id])]
        /\ UNCHANGED <<order, attempts, offered, payments, heard, settingVars,
                       historyVars, kitchenNew, faults>>

\* Mutant: a refusal ends the request without marking the refund FAILED.
GatewayRefusalIgnored(r) ==
    /\ req[r].pc = "gateway"
    /\ req' = [req EXCEPT ![r] = Idle]
    /\ UNCHANGED <<order, gatewayVars, settingVars, historyVars, kitchenNew, faults>>

GatewayRefuses(r) ==
    /\ req[r].pc = "gateway"
    /\ req' = [req EXCEPT ![r] = At("save", "failed", @.read,
                                    [@.doc EXCEPT !.refund = "FAILED"])]
    /\ UNCHANGED <<order, gatewayVars, settingVars, historyVars, kitchenNew, faults>>

\* The gateway takes the refund on but its answer is lost.
GatewayAnswerLost(r) ==
    /\ faults < MaxFaults
    /\ req[r].pc = "gateway"
    /\ refunds' = Append(refunds, [v |-> req[r].read.v, amount |-> req[r].read.amount])
    /\ req' = [req EXCEPT ![r] = At("save", "failed", @.read,
                                    [@.doc EXCEPT !.refund = "FAILED"])]
    /\ faults' = faults + 1
    /\ UNCHANGED <<order, attempts, offered, payments, processed, heard,
                   settingVars, historyVars, kitchenNew>>

CustomerPays ==
    /\ \E g \in offered \ payments : payments' = payments \cup {g}
    /\ UNCHANGED <<order, req, attempts, offered, refunds, processed, heard,
                   settingVars, historyVars, kitchenNew, faults>>

GatewayProcesses ==
    /\ \E i \in DOMAIN refunds \ processed : processed' = processed \cup {i}
    /\ UNCHANGED <<order, req, attempts, offered, payments, refunds, heard,
                   settingVars, historyVars, kitchenNew, faults>>

-----------------------------------------------------------------------------
\* The kitchen's owner changes the service charge.
SetServiceCharge ==
    /\ \E s \in Surcharges \ {surcharge} :
          /\ surcharge' = s
          /\ raised' = (raised \/ s > surcharge)
    /\ UNCHANGED <<order, req, gatewayVars, historyVars, kitchenNew, faults>>

-----------------------------------------------------------------------------
Load(r) ==
    \/ UpdateStatus(r) \/ ForceStatus(r) \/ CancelOrder(r) \/ CancelItems(r)
    \/ AddInternalNote(r) \/ RequestRefund(r) \/ ApproveRefund(r)
    \/ RejectRefund(r) \/ CreateRazorpayOrder(r) \/ VerifyAndSettle(r)
    \/ MarkFailed(r) \/ WebhookCaptured(r) \/ WebhookFailed(r)
    \/ WebhookRefund(r) \/ ProcessRefund(r)

\* Steps the event loop takes by itself once a request is under way.
Proceed(r) ==
    \/ Save(r) \/ SaveConflict(r) \/ Notify(r)
    \/ Claim(r) \/ GatewayAccepts(r) \/ GatewayRefuses(r)

Fault(r) == SaveFault(r) \/ Crash(r) \/ GatewayAnswerLost(r)

Next == \/ \E r \in Requests : Load(r) \/ Proceed(r) \/ Fault(r)
        \/ WebhookRefundUnknown
        \/ CustomerPays
        \/ GatewayProcesses
        \/ SetServiceCharge

Spec == Init /\ [][Next]_vars

(* A started handler runs to its end, the gateway carries out what it took  *)
(* on, and it repeats a webhook until one delivery is answered with 200 and *)
(* no longer: the server may be busy with other requests, but not each time *)
(* one is delivered.  A capture that settles is answered, so none is owed   *)
(* once the order was paid.                                                 *)
Fairness ==
    /\ \A r \in Requests : WF_vars(Proceed(r))
    /\ WF_vars(GatewayProcesses)
    /\ SF_vars(\E r \in Requests : ~order.paidAt /\ WebhookCaptured(r))
    /\ SF_vars(\E r \in Requests : order.refundId \notin heard /\ WebhookRefund(r))

FairSpec == Spec /\ Fairness

-----------------------------------------------------------------------------
(* Properties.                                                              *)

Orders == [method : CheckoutMethods, status : Statuses, units : 0 .. OrderedUnits,
           charged : Nat, total : Nat, pay : PayStatuses, paidAt : BOOLEAN,
           gwOrder : Nat, gwPayment : Nat \cup {Other},
           refund : RefundStatuses, amount : Nat, refundId : Nat, v : Nat]

RequestStates == [pc : {"idle", "save", "claim", "gateway", "notify"},
                  after : {"done", "notify", "claim", "offer", "refunded",
                           "failed", "heard"},
                  read : Orders, doc : Orders]

(* The document, the copies in flight and the gateway's records keep their  *)
(* shape through every handler of order.service.ts and payment.service.ts.  *)
TypeOK ==
    /\ order \in Orders
    /\ req \in [Requests -> RequestStates]
    /\ attempts \in Nat
    /\ offered \subseteq Nat
    /\ payments \subseteq offered
    /\ refunds \in Seq([v : Nat, amount : Nat])
    /\ processed \subseteq 1 .. Len(refunds)
    /\ heard \subseteq Nat
    /\ surcharge \in Surcharges
    /\ raised \in BOOLEAN
    /\ grown \in Nat
    /\ overtaken \in BOOLEAN
    /\ kitchenNew \in Nat
    /\ faults \in Nat

Ledger == INSTANCE OrderLedger
            WITH method <- order.method, status <- order.status,
                 units <- order.units, pay <- order.pay, paid <- order.paidAt,
                 ForceAllowed <- "forceStatus" \in Ops

(* However requests interleave between their load and their save, the order *)
(* goes through the steps of handlers that ran one at a time: the status    *)
(* never leaves the transition map, units never come back, a payment is     *)
(* recorded by a settlement or by the delivery of an offline order, and     *)
(* only a paid order is refunded.                                           *)
ImplementsLedger == Ledger!Spec

(* A refund is requested, staged, claimed or done only for an order that    *)
(* was paid, whatever stale copy the handler that staged it worked on.      *)
RefundNeedsPayment == order.refund # "NOT_REQUIRED" => order.paidAt

(* An online order counts as paid, and the kitchen hears of it, only after  *)
(* a genuine payment: the customer's payment of a gateway order made for    *)
(* this order, or the one of another order, which verifyAndSettle takes     *)
(* for an order that never had a gateway order.                             *)
KitchenWaitsForMoney ==
    /\ kitchenNew > 0 => order.paidAt
    /\ order.method = "RAZORPAY" /\ order.paidAt =>
         order.gwPayment \in payments \cup {Other}

(* Whatever copy a settlement worked on, the payment it records is the one  *)
(* of the gateway order the document names when the save takes effect: a    *)
(* payment of another order is never recorded on a document that names one, *)
(* and a payment of a replaced attempt is not recorded either.              *)
SettledByNamedOrder ==
    [][order'.gwPayment # order.gwPayment =>
         /\ order'.gwOrder = order.gwOrder
         /\ order.gwOrder = (IF order'.gwPayment = Other THEN 0
                             ELSE order'.gwPayment)]_vars

(* The browser callback and the repeated webhook settle a payment between   *)
(* them once: until the gateway has refunded an online order, ORDER_NEW     *)
(* goes out at most once for it.                                            *)
KitchenToldOnce ==
    order.method = "RAZORPAY" /\ Len(refunds) = 0 => kitchenNew <= 1

(* The claim in processRefund: requests that race for the same staged       *)
(* refund cannot both reach the gateway.  A second refund of the order      *)
(* takes a save in between, so it is made on a later document version.      *)
OneRefundPerVersion ==
    \A i, j \in DOMAIN refunds : i # j => refunds[i].v # refunds[j].v

(* What cancelItems and cancelOrder stage never exceeds what the customer   *)
(* was charged, and while the order is alive it leaves the price of the     *)
(* units still to be delivered, but for what cancellations priced with a    *)
(* higher service charge added to the total.  Until the kitchen raises its  *)
(* service charge they add nothing.                                         *)
RefundWithinCharge ==
    /\ order.amount <= order.charged + grown
    /\ order.status \notin {"CANCELLED", "REJECTED"} =>
         order.amount + order.total <= order.charged + grown
    /\ ~raised => grown = 0

(* What the order owes back and what the kitchen was told stay right.       *)
MoneyInv == RefundWithinCharge /\ KitchenToldOnce

(* A claimed refund leaves PROCESSING again, unless another save of the     *)
(* order came between the claim and both saves of the claimer, or the       *)
(* gateway's event was answered before the refund's id was on the order.    *)
ClaimResolves ==
    order.refund = "PROCESSING" ~>
        \/ order.refund # "PROCESSING"
        \/ overtaken
        \/ order.refundId \in heard

(* Money the customer paid is seen by the kitchen: the webhook, repeated,   *)
(* settles the order even if the browser never reports back.                *)
PaymentReachesKitchen == payments # {} ~> kitchenNew > 0
=============================================================================
