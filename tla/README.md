# Verification of the hotel management system

TLA+ models of the server in `src/backend` (Express, Mongoose, MongoDB,
Razorpay, Socket.IO) and of the web application in `src/frontend` (Next.js,
react-query), the TLC runs that check them and the theorems TLAPS proves of
them. The lines every definition models are in `PROJECT.json` under `map`.

## 1. The system

One Node process (or several: `Procfile` and `render.yaml` scale it out) serves
a REST API over MongoDB. Nearly every handler has the same shape: *load a
document, decide on the copy, edit the copy, write*, often to several
collections one after the other. Each of these steps is an `await`, so requests
interleave between them, and several processes may run the same handler. There
are no background jobs: what expires (a hold, a lock, a link) is noticed by the
next request that looks.

What the storage layer guarantees differs from component to component, and this
is where the hard behaviour comes from:

* `models/Order.ts` sets `optimisticConcurrency`: a save writes the fields that
  differ from its copy, demands the version it read and increments it. No other
  model does: there the last save of a field wins. (Mongoose by itself demands
  the version only where a line of an array is changed in place, as in a cart.)
* Two guards are single atomic updates: the refund claim and the coupon counters.
  The others are a read, a decision and a write: the rotation of a refresh token
  finds the row, creates its successor and then revokes it, the waitlist reads a
  table as free and saves it later.
* Database transactions are used for kitchens, categories, staff, QR
  reassignment and valet check-in and status changes. The driver repeats a
  transaction after a transient error, with the documents the first attempt had
  already changed in memory.

### Inventory

| Component | State | Operations | What is hard | What makes it correct |
|---|---|---|---|---|
| Order and payment (`order.service.ts`, `payment.service.ts`, `payment.controller.ts`) | the order: status, items, payment, refund, version | status changes, override, full and partial cancellation, notes, refund request/approve/reject/process, gateway order, callback, failure report, webhooks | two handlers on one document, repeated and late webhooks, gateway answers lost between two writes | status follows the transition map; money is recorded once; refunds only of what was paid, once, within the charge; a paid order reaches the kitchen |
| Pricing (`pricing.service.ts`) | none (pure) | totals at checkout and after a cancellation | floors and caps | totals are non-negative and shrink with the items |
| Coupons (`coupon.service.ts`) | usage counter, per-user counters, redemptions | validate, reserve, release, record; admin edits | concurrent last use, failure after reserving, limits edited under way | uses stay within the limits; a failed checkout gives its use back |
| Checkout, cart, stock (`order.service.ts`, `cart.service.ts`, `menuItem.service.ts`, `useCheckout.ts`) | cart, menu items, orders | synchronise the basket, checkout, guest checkout, cart edits, stock edits, deletion | stock written from a stale read; the cart is cleared by requests that may be lost | what is left is what was stocked less what was sold; an order is what its guest wished for |
| Room bookings and transfers (`roomBooking.service.ts`, `room.service.ts`) | bookings, room status, invoices | create with a 15-minute hold, pay, verify, status edits, check in/out, cancel, up- and downgrade, settle | check-then-create, expired hold paid late, a room status shared by bookings, a held room given away | one live booking per room and night; the bill follows the room; a guest's room is occupied |
| Tables and reservations (`restaurant.service.ts`, `order.service.ts`) | table status and session, reservations with a 10-minute lock, orders at tables | seat, bill, close, order; reserve, pay, verify, webhook, edit | checkout seats tables too; close races orders; lock expiry races payment | one session at a time; no open order in a closed session; one reservation per table and hour |
| Waitlist (`waitlist.service.ts`) | entries with positions, tables | join, list, seat, cancel, assign automatically | positions renumbered one save at a time, tables read once | positions follow arrival; a table seats one party; nobody is passed over |
| Sessions (`token.service.ts`, `auth.service.ts`, `api.ts`, `useAuth.ts`) | the account, refresh token rows in families, e-mailed links, cookies | register, three logins, refresh, logout, verify, forgot, reset | rotation is claim, create, answer; lost answers; tabs that share a cookie | one live token per family; what a reuse or a reset ended stays ended; no false alarm |
| Order linking (`orderLinking.service.ts`) | orders placed without an account | link at login and verification | a login that stops half-way | orders follow the account |
| Valet (`valet.service.ts`) | vehicles, parking slots | check in, status changes, deliver, request, slots | reads before the transaction, repeated transactions, late saves | a marked slot has its one car; a car has one open file; statuses go forward |
| Interface (`routes`, `middleware`, controllers, `realtime`) | none of its own | routes by role, handlers, announcements to sockets | the names of calls, roles, rooms and events are strings in two programs | every call is served to whoever may make it; what is announced is heard |
| Web application (`src/frontend`) | the query cache, screens, the socket | ask, poll, press, renew, hear | a fetch that is overtaken, an event that is lost, a key that is mistyped | what was saved is shown, what is offered is accepted, the display never goes back |
| Banquets, complaints, feedback, contact, gallery, banners | single records | create, list, edit | overlapping hall bookings are checked, then created | their screens show what they saved |
| Kitchens, menu, staff, guests | master data | CRUD, cascades in transactions | little | references stay valid |
| Notifications, audit, analytics, exports, invoices, QR codes, uploads, e-mail | output | send, log, report | none | they reach the right sockets |

Components meet in the database: checkout creates the order the payment handlers
settle, reserves coupons, seats tables and lowers the stock; the webhook settles
orders and table reservations; closing a table reads its orders; the waitlist
and the floor seat at the same tables; a room's status is written by bookings,
transfers and the housekeeping override; login attaches the orders of a guest.
They meet again on the screens, which show collections that several of them
write.

## 2. Modules

| Module | Models | Uses |
|---|---|---|
| `OrderRules` | constants of the order domain and its total | |
| `OrderLedger` | abstract: one order whose handlers run one at a time | `OrderRules` |
| `OrderPayment` | the order document, requests between load and save, the gateway, the customer | `OrderRules`; `OrderLedger` by refinement |
| `CouponUse` | one coupon, its counters, the checkouts that use it, the administrator | |
| `Checkout` | menu, cart, orders; the tabs that order and the staff that stock | |
| `RoomBooking` | bookings, rooms, invoices; guests, desks, the gateway | |
| `Dining` | tables, sessions, reservations with locks, orders at tables | |
| `Waitlist` | the queue, composed with the tables of `Dining` | `Dining` |
| `Sessions` | one account, its token families, links, browsers and guest orders | |
| `Valet` | cars, slots, and the requests about them | |
| `Api`, `ApiStay`, `ApiFood`, `ApiHouse` | routes, controllers, and what each operation reads, writes and announces | |
| `Screen`, `ScreensStay`, `ScreensFood`, `ScreensHouse` | every page: who may open it, its queries, buttons, renewals and listeners | |
| `ConsoleTables` | the join of both tables by call | `Api…`, `Screens…` |
| `Console` | a user before any screen, the query cache, the socket, the other users | `ConsoleTables` |
| `OrderPaymentProofs`, `CouponUseProofs`, `CheckoutProofs`, `RoomBookingProofs`, `DiningProofs`, `SessionsProofs`, `ValetProofs`, `ConsoleProofs` | the theorems | their component; `DiningProofs` also `Waitlist` |
| `MC…` | the instances for TLC | |

The modules of the components share a form. A request is a record in `req`
(`job` in `Valet`, `pc` in `CouponUse`): a first action loads what the handler
decides on, checks its conditions and notes the writes that follow; then one
action per `await` performs them. A conflict, a refused write or a stop of the
process (`Dies`) drops what is left. Where a model has no version check, a
write carries only the fields that differ from the copy.

Where the code promises something only to requests that do not overlap, a
*history* variable records the exception at the step that earns it, and the
invariant says that nothing else breaks the promise. `raced` documents, for
instance, were saved by a request that overlapped a rival, and `disturbed` slots
were freed or marked by an overtaken copy. Histories are never read by an action
of the code.

### OrderPayment and OrderLedger

`order` is the document, `req[r]` a request: where it is (`pc`), what it does
once saved (`after`), the copy it read and the copy it edited. Each handler of
`order.service.ts` and `payment.service.ts` is one action that loads the
document, evaluates the guards and puts the edited copy into `req[r]`; `Save`,
`SaveConflict` (Mongoose's `VersionError`) and `SaveFault` finish it. `Claim` is
the atomic `findOneAndUpdate` of `processRefund`, which neither demands nor moves
the version; `GatewayAccepts`, `GatewayRefuses` and `GatewayAnswerLost` are the
call that follows. `CustomerPays` and `GatewayProcesses` are the world outside.
Webhooks are not consumed: they are enabled by what the gateway once did, so they
may come late, in any order and repeatedly. The exception is a `refund.processed`
whose id no order carries: it is answered with 200 all the same
(`WebhookRefundUnknown`), and what was answered (`heard`) is not owed again.

`verifyAndSettle` compares the reported gateway order with the stored one only when
one is stored, so `VerifyAndSettle` takes the payment of another order (`Other`) for an
order that names none; a wrong signature is recorded also on an order that is paid
already, and moves the version. Items are a number of units of one unit of money
each, less the coupon's discount, floored at zero, plus the `surcharge` of the
kitchen's settings for each unit. Its owner changes it (`SetServiceCharge`), and
`CancelledItems` prices what is left with the one in force, as the code does: the
document keeps what it was charged and its present total. `grown` adds up by how much
cancellations raised that total.

`OrderLedger` is the promise: the same order as if every request ran alone.
`ImplementsLedger` says that `OrderPayment` implements it.

### CouponUse

`coupon` is the document, `rows` and `count` the `CouponUserCounter` collection,
`redeemed` the `CouponRedemption` records. `pc[c]` walks a checkout through
`validateCoupon` (two reads), `reserveCoupon`, `reserveUserLimit` (match, insert,
or `overLimit` when the unique index refuses), the creation of the order, the
releases after a failure and the record of the redemption. Guests skip the steps
of a customer; room bookings pass no customer, ignore a refused reservation and
release nothing. `peak` records the largest limits the coupon ever had, because
lowering a limit does not take discounts back.

### Checkout

A tab synchronises its basket as `useCheckout.ts` does (clear the cart, add each
line, check out), a guest checks out in one call, staff edit stock and delete
items. `StockAccounted` compares the quantity with `hist.shelf`: what the staff
last put there less what was ordered since. A cart that holds an item on two
lines passes the per-line stock check of `checkout` with more than there is
(`Doubled`), which the history records.

### RoomBooking

`createRoomBooking`, the payment handlers, the desk's edits, arrival and
departure, cancellation, `transferRoom` with its pending upgrade and
`confirmTransferPayment`, the administrator's room status and the price of a
category. `fresh` holds the bookings within their fifteen minutes. `rates` are the
prices of the categories now; a booking is billed at the price its room had when the
request read it, with its extra charges and its coupon (`terms`), every move charges
or refunds the difference of the prices of its own moment, tax and service charge are
rounded separately each time, and a refund is cut off at the total. `FairPrice` is
what the stay would cost in a room at a rate; `BilledForRoom` compares the total with
it. `OffersAreAccepted` compares the two places that state which rooms are free (the
search, the desk's transfer options) with the handlers that decide.

`verifyBookingPayment` checks a signature over the ids of the request and compares
them with nothing, so a booking may be marked paid by the payment of something else;
the history `borrowed` records it.

### Dining and Waitlist

Both the floor and checkout seat tables; `sessions` counts session ids, which the
code draws at random. Orders at a reserved table, or at a table seated from the
waitlist, carry no session (0), as in the code. The kitchen finishes orders and the
override reopens them (`ForceStatus`), without a look at the table. A payment of
anything verifies a reservation, as for rooms. No schema of checkout accepts the
payment method that `closeTable` settles, so that update of orders changes
nothing and is left out. `Waitlist` adds the queue and its requests to the
requests of `Dining`, on the same tables; `sitting` is who really sits there. A
list a request has read is a function from its groups to their entries *as
read*: who comes first is decided on the copies (`ByArrival`, `ByPosition`), and a
save writes only the fields that differ from them. The loops that renumber the
queue and that seat its groups go one entry per step (`DoNumber`, `DoAssign`), so
other requests come between any two of their saves.

### Sessions

An account, its refresh token rows (`why` says how a row ended), its links, the
cookie jar of a browser whose tabs take turns through one promise
(`refreshSession` in `api.ts`), and guest orders. A request's answer is an action
of its own and may be lost. `hist` counts failed logins, uses of links, and what
reuse and reset ended.

### Valet

`cars` is the Vehicle collection in order of creation, `slots` maps a number to
its document, `job` the requests. Check-in reads the plate and the slot, uploads
photographs, then commits; delivery reads the slot inside the transaction but
outside its session; `CheckInRepeated` and `StatusRepeated` are the driver's
second attempt, in which a document that was saved before does not differ from
its copy and is not written again. Plates are stored as typed and the queries
strip blanks only from what they are given, so a plate typed with blanks
(`form` "spaced") is never found: the car is checked in again, one check-in after the
other. `CarInv` names that exception. `Offered` is the button an old screen may show.

### The console

`Api…` are tables: `Routes` (call, roles, handler), `Controllers` (the operations
of a handler, whether an error is answered), `Operations` (collections read and
written, events and their rooms) and `Lives` (the statuses an operation accepts
and sets). `Screens…` list each page's parts in the order of its code. `Console`
fixes one screen, one role that may open it and one of its queries per
behaviour, so that TLC's initial states range over all of them. The displayed
record has versions (`past`); a fetch is sent, read by the server and replied to;
a press is sent, refused or applied, and its `onSuccess` renews keys or copies
the answer into the cache, with the semantics of react-query that
`components/providers.tsx` configures. Others change what the query reads,
announcements travel on `wire`, the connection drops and returns with or without
a token, the user leaves and returns.

`Forgotten`, `DeadEnds`, `Unheard` and `EditSession` list what the code fails to do:
pairs of a query and a press that shows on the query's screen but does not renew it
(the number of a room in the list of bookings, the name of a hall in its enquiries,
the floor plan under its mistyped key), calls without a route, events nobody sends to
that user. `Untouched` lists pairs of a query and a press that writes a collection the
query reads but nothing its screen shows of it. Both lists name single presses, and
`Owes` is every other pair: everything that is not listed is checked.

## 3. Runs

| Run | Instance | Shows |
|---|---|---|
| `order_safety` | 2 requests, all handlers, Razorpay and cash, 2 units, versions below 5, 1 gateway order, the payment of another order, 1 fault | `TypeOK`, `RefundNeedsPayment`, `KitchenWaitsForMoney`, `OneRefundPerVersion`, `ImplementsLedger`, `SettledByNamedOrder` |
| `order_money` | payment, cancellations and refunds, 2 units and a discount of 1, a service charge that is 0 or 2 a unit, versions below 6 | `MoneyInv` (what is refunded is within the charge and what raised service charges added to it, the kitchen is told once) |
| `order_live` | moves, cancellation of the order, payment, refund, 2 units, 1 gateway order, no fault | `ClaimResolves`, `PaymentReachesKitchen` under `FairSpec` |
| `coupon` | 3 checkouts by 2 customers, guests and room bookings; limits none, 1, 2; per-user limits 1, 2; all edits; 1 crash | `CouponBooks` (types; refused and failed checkouts burn no use), `DiscountsWithinLimit`, `UserDiscountsWithinLimit` |
| `checkout` | 2 tabs, a guest and a member of staff, of whom three make a request; 2 items, one of them counted; 1 fault | `CartInv` (one line per item), `StockAccounted`, `OrderAsWished` |
| `rooms_book` | 2 guests, 1 desk, 1 room, 2 overlapping stays, 4 requests, 1 fault | `BookingInv` (a change of status pays nothing), `NoDoubleBooking` |
| `rooms_stay` | 1 guest, 2 desks, 2 rooms of categories at 105 and 213, another price of 150, stays with and without extra charges and discount; a booking that is reserved, arrived, on a coupon or waiting for an upgrade; 3 requests, 1 fault | `BilledForRoom`, `InvoicedAsBilled`, `HouseInv` (the guest's room is occupied, offers are accepted) |
| `dining` | 2 clients, 2 tables, 2 reservations over 2 overlapping slots, 2 orders, 4 requests, 1 fault | `FloorInv` (no table reserved for nobody), `NoDoubleReservation`, `OrdersInTheirSession`, `SeatedGuestsHaveTable` |
| `waitlist` | 3 groups of 2 sizes, 2 tables, 2 clients, 5 requests, 1 fault | `QueueInv` (positions follow arrival), `OnePartyPerTable`, `NobodyWaitsInVain`, `NoQueueJumping` |
| `sessions` | 2 tabs of a browser, 2 requests at a time, 3 in all, 1 mishap, 2 passwords, 2 attempts | `AccountInv` (failures, links and orders are accounted for), `OneLiveToken`, `EndedStaysEnded`, `NoFalseAlarm` |
| `valet` | 2 requests at a time, 2 check-ins of one car with a plate with or without blanks, 1 slot with 2 documents, 1 repeated transaction | `CarInv` (one open file per car that is found), `SlotsAccounted`, `ForwardUnlessOvertaken` |
| `console` | every screen, role and query, `MaxTrouble` 4 | `ScreenInv` (no dead ends), `SavedIsShown`, `RefusedOnlyWhenOvertaken`, `NeverBackwards`, `EventuallyShown` |

Every property has a mutant in `PROJECT.json`: a plausible slip in a definition
of the model under which TLC finds the property violated in the same run.

### Where the code departs from its own words

While the models were written, a few promises of comments and documents turned
out to be stronger than the code. The models follow the code, and the properties name
the exception:

* *Orders.* A capture that is delivered again after a refund sets the payment
  back to PAID (`payment.service.ts` calls re-delivery safe). A cancellation that
  read the order before another request claimed and finished a refund puts
  INITIATED back, since the claim does not move the version. A note saved while
  a refund is PROCESSING makes its final save fail. A rejected refund request
  leaves its amount to the next one. Money captured after a cancellation is not
  staged for refund. A retry overwrites the gateway order, so a payment of the
  first is not found. `order_money` and `order_live` therefore leave out notes,
  refund requests and second gateway orders (`Ops`, `MaxAttempts`), and
  `order_safety`, which has all handlers, claims only what still holds. A
  cancellation of units after the service charge was raised may leave the order with
  a higher total than before (`grown`). An order without a gateway order of its own
  takes the payment of another (`SettledByNamedOrder` says that this is the only case).
  A refund event that comes before the refund's id is saved finds no order, is answered
  with 200 and never repeated: the refund that `payment.service.ts:276` leaves to the
  webhook stays PROCESSING (`heard` in `ClaimResolves`).
* *Coupons.* `createRoomBooking` ignores a refused reservation, so
  `DiscountsWithinLimit` speaks of checkouts. Of two first uses, the one that loses
  the insert is refused although the customer is below the cap.
* *Rooms.* A payment, an arrival or an edit may revive a booking whose hold is
  over without looking for conflicts (`unchecked`). A booking set to CHECKED_OUT
  by hand has no invoice (`edited`). An upgrade confirmed after the check-out raises
  the total over the invoice (`late`). After a change of prices a move charges the
  difference of the new ones (`repriced`). A cancellation frees a room in which another
  guest may live (`rooms[r].by`).
* *Tables.* The override reopens an order whose table was closed, or is being closed
  (`strayed`).
* *Sessions.* A link asked for while the password is being reset deletes the used
  one; the reset then fails after the password changed and before the sessions are
  revoked.
* *Valet.* A car that is in the house is checked in again if its plate was first typed
  with blanks, which the query of `valet.service.ts:56` never finds (`form` in `CarInv`). A
  guest's request saves REQUESTED over whatever staff did meanwhile,
  even over a delivery; a second delivery from an old screen frees the slot under
  another car.
* *Screens.* The lists of `Console`, such as Edit Session, which the server always
  refuses. A press on the waitlist that gives out a table renews the mistyped key
  `admin-tables` in place of the floor plan (`useWaitlist.ts:55`), which learns of the table
  only from the event `table:status`, if the connection is up.

### Bounds

Orders: `MaxVersion` caps the versions at which a *client* request may start;
webhook deliveries that settle something are not capped, so the bound never
disables one that matters to a liveness property. Six versions are the gateway order,
a payment, a partial cancellation, a refund with a failed attempt and another
handler's save in between; five are a chain of four saves before the racing pair. A
service charge of 0 or 2 a unit is raised and lowered, by more than the discount. Two requests
suffice for every race on one document, because a save tests one version.
`MaxAttempts` counts gateway orders, `MaxFaults` crashes, database faults and
lost answers together.

Coupons: three checkouts are one more than the smallest limit needs to be overrun
by a race. Checkouts are interchangeable and so are customers.

The other components: two requests at a time are what a check-then-write race
needs, `MaxRequests` leaves room for what has to happen before it (a booking, its
payment and an edit; a seating, an order and a closing) and one fault for a
handler that stops half-way. Two rooms, tables or items are one to be taken and
one to be free, of different price, capacity or kind of stock. Stays and slots
overlap in part. Identifiers that the code draws at random are counted.

Console: `MaxTrouble` is the sum a behaviour may spend; a change of the record
costs 2, a failed fetch, a lost connection or leaving the screen costs 1. Four
allow two changes, or a change between two mishaps, which is what an overtaken
fetch, a lost event and a stale return need. `Representatives` keeps one role of
those that find, may and hear the same on a screen.

Deadlock checking is off: when the bounds are exhausted, or a user stops, an
instance stops.

### Fairness

`FairSpec` of `OrderPayment` assumes weak fairness of each request's own steps
(the event loop runs what is ready), of the gateway carrying out what it
accepted, and strong fairness of webhook deliveries (Razorpay repeats a webhook
that was not answered; a delivery is disabled only while every request slot is
busy). It is no stronger than that: a capture is owed until the order was paid once,
and the event of a refund until one delivery of it was answered, also by a handler
that found no order for it. `Console` assumes that the server reads and answers, that `refetchInterval`
runs while the screen is open, and that a connection that is up delivers. No
fairness is assumed of customers, of staff, of reconnection or of faults, and
`order_live` has no faults, because a crash between the save and the event really
loses the event.

## 4. Proofs

`OrderPaymentProofs` proves, for every set of requests, every mix of handlers
and payment methods and every value of the bounds, from the two named
assumptions about the constants:

* `TypeCorrect`: `Spec => []TypeOK`.
* `Snapshots`: the inductive invariant `SnapshotInv`. `TypeOK` says nothing of
  what a copy in flight has to do with the document; the strengthening says that
  a copy whose version is the document's version *agrees* with it on the fields
  of the ledger (every accepted save moves the version, and the claim, which does
  not, touches none of them), that every pending edit is a ledger step from the
  copy it was made on, and that no copy holds a refund of an unpaid order.
* `OnlyPaidIsRefunded` and `HandlersImplementLedger` follow from it: an accepted
  save is a ledger step from the copy, hence from the document.
* `ClaimsAreExclusive`: no two refunds the gateway accepts carry the same
  version. The invariant `ClaimInv` says that claims on their way to the gateway
  and refunds already accepted have pairwise different versions, and that the
  newest can equal the document's version only while the refund is PROCESSING,
  which is exactly when it cannot be claimed.

* `KitchenFollowsMoney`: the inductive invariant `KitchenInv`, from which
  `KitchenNeverCooksUnpaid` and `KitchenHearsOnce` follow. A request that is about
  to save a payment carries a genuine one, of this order or of another; until a refund, a copy
  that was read as paid is also saved as paid, so of two requests that both settle
  the order one read it paid already (and tells nobody) or is refused by its
  version. `OnceInv` counts the event sent and the one about to be sent.
* `PaymentsAreNamed`: `SettledByNamedOrder`, which says which payment it is. `NameInv`
  carries the comparison of `verifyAndSettle` from the copy to the save: a copy about
  to settle names the gateway order that was paid, or none if the payment is another
  order's, and `Snapshots` makes that the name on the document.
* `RefundsStayWithinCharge`: `MoneyInv` for every mix of handlers without
  `forceStatus` and `requestRefund`. The hypothesis is necessary: the override
  revives a cancelled order whose whole price is staged, and the customer's own
  request stages the price of units that are still to be delivered. `ChargeInv`
  says that the amount staged and the order's total fit in the charge and what
  cancellations added to it (`grown`), in the document and in every pending copy, that
  a copy with the document's version has the document's amount, status and total, and
  that until the charge is raised no pending cancellation raises the total
  (`TotalMonotone`).

`CheckoutProofs` proves, for any items, tabs, guests, staff, baskets, stock and
bounds, from `CheckoutAssumption` (the kinds of actors are disjoint, baskets are lists
of lines, stock is a number or not counted):

* `CheckoutInvariant`: the inductive invariant `IInv`. `RequestsInv` says which steps
  a request has left and in which order (fill the cart, place the order, sell).
  `StockInv` is the argument of the account: the order enters the books (`shelf`)
  when it is created and the menu only when its line is saved, so an item agrees
  with its account, *or* one sale nobody crossed is about to save exactly the
  difference (`Leaves`), *or* a crossed sale is about to put the item on record.
  `BuyClaim` carries the sum decided by `checkout` to the moment the order is
  created. `CartClaim` says that a line about to be pushed is about an item the cart
  does not have yet.
* `CartsInOrder` and `StockIsAccounted` follow: two of the properties of the run
  `checkout`.
* `WishesAreOrdered` adds `WishInv`: the cart of a tab that is alone with it holds
  exactly the first lines of its basket, and what is left of the request are the
  others in order. Its hypothesis `BasketsMerged`, one line per item of a basket, is
  what `add` of `frontend/src/stores/cart.ts:66-91` keeps; without it the limit of 99 per
  line would cut what two lines ask for together.
* Portions are counted as the pairs of a line and a number up to its quantity
  (`Portions`), so that sums are sizes of sets and need no recursion.

`CouponUseProofs` proves, for any finite set of checkouts, any callers, limits,
edits and number of crashes, from `CouponUseAssumption`:

* `CountersCoverUses`: the inductive invariant `CouponInv`. The properties speak
  of sets of checkouts and the code only of counters, so neither is inductive
  alone. The invariant says that the checkouts that hold or have used a use are
  no more than `usedCount`, that `usedCount` is within the largest limit, the
  same per customer, and that an order exists only at the end of its checkout
  (so that a release never returns the use of an order). One step moves one
  checkout, which is all `OneMoves` needs to relate the sizes.
* `CouponNotOverSold` and `CustomerNotOverServed` follow.
* `FailedCheckoutsBurnNothing`: without room bookings the counters are also no
  larger than the uses held or lost to a crash.

`RoomBookingProofs` proves, for any rooms, bookings, guests, desks, stays and
bounds, from `RoomBookingAssumption` (finitely many bookings, rates that are numbers,
stays that are finite and not empty) and `ExistingAssumption` (what is booked at the start is
a booking the code could have made, and no two of them share a room and a night):

* `BookingsInvariant`: the inductive invariant `IInv`. `DataInv` says what every
  write that is *still to be done* may do, because a handler plans its writes at
  its first step and performs them one by one. `SeatInv` is the argument of a
  check-then-write: `HoldInv`, every live booking in the way of a create that
  nobody overtook is one it will delete before it inserts; `TransferInv`, the room
  an undisturbed transfer will move to is free; and `Rivalry`, two requests that
  seat someone at the same time are both on record as contended, so a step of one
  never has to keep what the other knows.
* `PaidMeansCollected`, `RoomsAreNotDoubleBooked` and `OffersHold` (the rooms a
  search and a transfer offer are the ones the handlers accept) follow.

Its second part goes on with what becomes of a stay, from these assumptions and
`StaysAssumption` (the stays that earlier requests left have not ended, because no
invoice is there at the start, are billed for their room, and their moves lead out
of it):

* `StaysInvariant`: the inductive invariant `IInv /\ ClaimsInv`. A request decides
  on the copy it has loaded and then writes a booking, an invoice and up to two
  rooms one by one, so the three properties are about what several writes leave
  *together*. `Shape` fixes the order of the writes of a list: one save, the
  invoice before it, rooms given up after it. `PlanInv` says what the save will
  leave if nobody disturbs it: a bill that fits the room, a guest in the house
  whose room the rest of the list marks occupied (`WillBeOccupied`), an ended
  stay whose invoice is written or comes first. `RestInv` says what remains once
  it has saved, and `BilledInv` and `OccupiedInv` what others may rely on.
  `ClaimRivalry` is the record of two requests about one booking: a request that
  is not on record is alone, and one that is leaves the booking `raced`.
* `RoomsAreBilled`, `StaysAreInvoiced` and `HouseIsAsSeen`: the three properties of
  the run `rooms_stay`, for any number of rooms, nights, moves and requests.
* `RoomsAreBilled` holds at any prices, extra charges and discounts, within 2 rupees
  for each move: the price of a stay and the differential of a move round GST and
  service charge each on its own, and each of the two roundings of a move may miss by
  1. The invariant `Priced` says that the total and the differential of a move under way
  add up to the price of the room within that error (`Billed`). A refund that takes all of the
  total is cut off at 0 (`clamped`), after which the total may be higher than the
  price and never lower.

`DiningProofs` proves, for any tables, reservations, orders, slots, requests and
bounds, from `DiningAssumption` (the identifiers of nothing are not identifiers, the
statuses staff may choose are statuses):

* `FloorInvariant`: the inductive invariant `IInv`. `RequestsInv` says of every
  request which writes it has left; `Claims` say what it found that must still be
  true when it writes: the session it will show on a table (`TableClaim`), the lock
  or payment of a reservation it will save (`BookClaim`), that nobody else holds the
  slot it will hold (`HoldClaim`), the session an order will carry (`OrderClaim`),
  and what a request that has only looked may still decide (`ReadClaim`). They hold
  of requests nobody crossed, and `Rivalry` puts two requests about one table or
  reservation on record.
* An order that was reopened by hand has a claim too: a table that is being closed
  sees it (`FreesTable` is the request that has looked and not yet freed the table), so
  only an order reopened behind that look, or after its session, strays.
* `FloorHolds` (no table stays reserved for nobody), `TablesNotDoubleReserved`,
  `OrdersStayInSession` and `SeatedHaveTable`: the four properties of the run
  `dining`. The first is not about a single step: a table stays RESERVED
  between the end of its last reservation and the request that frees it, so
  `ReservedInv` names the request that is about to look.
* The argument changed the model. Seven steps beyond the bounds of the run, a
  crossed save lets an old order outlive its session although the table was taken
  anew since, because a later seating had wiped the record of the crossing. Only a
  request nobody crossed wipes it now (`DoTable`, `disturbed`, `strayed`).

Its second part is about `Waitlist`, for any groups of any sizes beside the above, from
`WaitlistAssumption` (a group has at least one member):

* `QueueInvariant`: the inductive invariant `QIInv`. `QueueRequestsInv` says what a request
  of the queue has left, while the requests of the floor keep any plan they like.
  `PlacesInv` says that every position is right, or the queue is `tangled`, or
  a request that will renumber it has begun to save. What makes it inductive is what
  requests nobody crossed know (`QueueClaims`): half-way through a renumbering the
  groups done come before those left and are numbered right (`NumberClaim`); a join
  still has the right count (`JoinClaim`); half-way through the assignment its pool
  is the set of free tables, and every waiting group it has gone past has outgrown
  all of them (`AutoClaim`).
* `QueueHolds`, `NoFreeTableForAnyone` and `NobodyJumpsTheQueue` follow: `QueueInv`,
  `NobodyWaitsInVain` and the action property `NoQueueJumping`.
* `OnePartyAtATable`: `OnePartyPerTable`, by the invariant `PartyInv` on top of
  `QIInv`. Two subsystems that know nothing of each other seat at the same tables:
  the floor opens a session, the waitlist does not. `KnowsTables` says what each
  request nobody crossed still knows of the table it will save, whichever of the eight
  handlers it belongs to; `TakenInv` that a table taken for a group is in use, has
  neither a session nor anybody at it, and is taken by one request; `SessionsInUse`
  that a session is shown only at a table in use.

`SessionsProofs` proves, for any tabs, browsers, passwords and orders and any
bounds, from `SessionAssumption` and `NobodyAssumption` (no account is not an account):

* `SessionsInvariant`: the inductive invariant `IInv`. `RequestInv` says for every
  request which steps it has left, by the step that comes next. The *claims* say
  what it found that must still be true when it writes: the count of failures it
  will save (`CountClaim`), that the link it will use was not used and the one it
  will create is the only one of its type (`LinkClaim`), that the address it found
  unverified still is (`OrderClaim`), that the row it will replace is the only live
  one of its family (`OpenClaim`), that the successor it created is known to nobody
  else (`NewRowClaim`), that a row it takes for reused was shared (`AlarmClaim`), and
  that a password reset is about every session older than itself (`ResetClaim`).
  Most hold of requests nobody crossed, and `Rivalry` puts two requests about the
  same thing on record. `Holds` and `HomeInv` say that a family is known to one
  browser, in its jar or in an answer on its way.
* `AccountBooks`, `RotationNeverForks`, `SessionsStayEnded` and
  `HonestBrowsersRaiseNoAlarm` follow: the four properties of the run `sessions`.

`ValetProofs` proves, for any sets of requests, plates and slots and any bounds,
from `ValetAssumption`:

* `CarsFiledOnce`, `SlotsHold` and `StatusesForward`: the three properties of the
  run `valet`. None is inductive, because each depends on what requests have read.
  The invariant `IInv` says of every waiting request that its reading is still
  true or that the exception is on record: a check-in has seen every file that
  was open, and typed without
  blanks, when it looked (`CheckInJob`), a status change works on a car that it
  may move (`StatusJob`), and a request that has read DELIVERED works on a car that
  claims no slot whose mark is relied on (`Settled`). `FileInv` and `SlotInv`
  strengthen the properties, the latter by naming the one car of a marked slot.
* What makes it inductive is `CarsGrow`: cars are only appended, keep their plate
  and slot, and leave DELIVERED only on record. Under it every request that does
  not move keeps what it knows (`JobKept`) and files stay apart (`FilesKept`), so
  each action needs to be examined only for its own request and its own slot.

`ConsoleProofs` proves, for any number of changes and mishaps:

* `ScreenHolds`: the inductive invariant `IInv`: one fetch at a time, which unless
  it was overtaken has read nothing older than what is shown (`FetchInv`); a press
  was offered in the status on display (`PressInv`); a change the server confirmed
  is on display, or the query is marked, or the display is known to come from an
  overtaken fetch (`SavedInv`).
* `SavedAppears`, `OffersAreCurrent` and `DisplayMovesForward`: the properties
  `SavedIsShown`, `RefusedOnlyWhenOvertaken` and `NeverBackwards` of the run
  `console`.
* `ScreensLeadSomewhere`: `ScreenInv`. The cache stays well formed by `IInv`; that only
  presses of the screen's own buttons are ever turned away is the invariant
  `TurnedAway`. Its hypothesis `ScreensAreServed` says of every place what `ScreenInv`
  says of the behaviour's own (`Served`), so the run checks it in its initial states.
* The tables enter through named assumptions at the end of `Console`, which have no
  parameter: TLC evaluates them over every screen, role, query and button on every
  run (`ButtonsAssumption`: a button renews the query its call outdates;
  `OffersAssumption`: the server accepts a call in the statuses its button is for;
  `LoadsAssumption`: what a component loads by itself is loaded once). The proofs
  are about what the tables cannot say: the order of answers and renewals.

### Only model-checked

* *Liveness* (`ClaimResolves`, `PaymentReachesKitchen`, `EventuallyShown`): out of
  the prover's reach, and with it everything that needs ENABLED.
* That the tables serve every place (`Served`), which TLC evaluates place by place as a
  part of `ScreenInv`; the assumptions about the tables at the end of `Console`.

## 5. Not modelled

* Figures, papers and texts: analytics, exports, invoice and QR layout, e-mail
  texts, uploads. They are functions of the data; the console knows which
  collections they read.
* The rules of master data (slugs, cascades inside one transaction, the creation
  of tables and managers): one request, one transaction. The console knows what
  they write and announce. The calendar of a banquet hall, which is checked and
  then booked like a room but without holds or payment, is left at its interface.
* Form fields, filters, layout, the landing page, the QR scanner and the cart
  sheet: they hold no data of the server. The checks of form fields are the
  press that is refused.
* In the components: the note of a cart line (`setNote`) and the views of cart
  and menu; bulk stock edits of several items at once (one edit each); the
  deactivation of an account and its roles; the settlement of orders by
  `closeTable`, which no order can meet; rounding and tax rates of food; a room that
  is given another category (`updateRoom`). Amounts of stays are whole rupees, and the
  two prices a move compares are read in one step.
* In the console: `socket.off` without a handler, which silences the listeners of
  other components of the page, and the query cache that survives a logout and is
  shown to the next user of the tab. Rate limits and an access token that expires
  between two calls are the press that is refused. `GET /test-notify`, which sends
  invented news to everybody, is left out.
* Authentication is taken as the guard of a route; tokens, signatures and
  passwords are taken to be unforgeable.
