------------------------------- MODULE Dining -------------------------------
(***************************************************************************)
(* The restaurant floor: tables, the dining sessions at them, table        *)
(* reservations and their payment, and the orders guests place at a table. *)
(* modules/restaurant/restaurant.service.ts, the table part of checkout    *)
(* and guestCheckout in modules/order/order.service.ts, and the            *)
(* reservation part of the webhook in services/payment.service.ts.         *)
(*                                                                         *)
(* A handler decides on the copy it loads and then performs its writes one *)
(* by one (`todo'), each an await of its own.  RestaurantTable and         *)
(* TableReservation have no optimistic concurrency: a save writes the      *)
(* fields that differ from the copy, and the last save wins.               *)
(***************************************************************************)
EXTENDS Integers, Sequences, FiniteSets

CONSTANTS Table, Reservation, Order, Actor,
          Capacity,     \* Capacity[t], distinct: the order of best fit
          Parties,      \* sizes of the parties that ask for a table
          Slots,        \* sets of hours a reservation may ask for
          HandStatuses, \* reservation statuses the staff set by hand
          Ops,          \* the handlers the clients of an instance call
          Free,         \* a reservation or an order not created yet
          NoReservation,
          MaxSessions,  \* bound: dining sessions opened
          MaxRequests,  \* bound: requests that reach the server
          MaxFaults     \* bound: requests that die between two writes

TableStatus == {"AVAILABLE", "RESERVED", "OCCUPIED", "BILLING", "INACTIVE"}
ReservationStatus == {"PENDING_PAYMENT", "PENDING", "CONFIRMED", "SEATED",
                      "CHECKED_IN", "COMPLETED", "NO_SHOW", "CANCELLED", "EXPIRED"}
Terminal == {"CANCELLED", "NO_SHOW", "EXPIRED"}

\* The documents: the schemas of RestaurantTable and TableReservation, and what
\* an order keeps of its table.
Sittings == [id : 0..MaxSessions, book : Reservation \cup {NoReservation}]
TableDocs == [status : TableStatus, active : BOOLEAN, session : Sittings]
BookDocs == [table : Table, slot : Slots, status : ReservationStatus,
             pay : {"PENDING", "PAID", "FAILED"}, payment : {"none", "order", "payment"}]
OrderDocs == [table : Table, session : 0..MaxSessions, open : BOOLEAN]

ASSUME DiningAssumption ==
    /\ NoReservation \notin Reservation \cup Table
    /\ Free \notin BookDocs \cup OrderDocs
    /\ HandStatuses \subseteq ReservationStatus
    /\ \A t \in Table : Capacity[t] \in Nat
    /\ \A s, t \in Table : Capacity[s] = Capacity[t] => s = t
    /\ \A s \in Slots : IsFiniteSet(s) /\ s # {}
    /\ MaxSessions \in Nat /\ MaxRequests \in Nat /\ MaxFaults \in Nat

VARIABLES
    tables,   \* each table: status, active, and the session at it
    books,    \* the reservations: Free or a document
    locked,   \* reservations whose ten-minute lock has not expired
    rzp,      \* the gateway's order for a reservation: "none", "open" or "paid"
    orders,   \* the orders placed at tables: Free, or table, session and open
    sessions, \* session ids handed out
    req,      \* req[a]: the request actor a has in flight
    started, faults,
    hist      \* history: see NoHistory
vars == <<tables, books, locked, rzp, orders, sessions, req, started, faults, hist>>
floorVars == <<tables, books, locked, rzp, orders, sessions>>

NoSession == [id |-> 0, book |-> NoReservation]

TABLE_TRANSITIONS ==
    [AVAILABLE |-> {"OCCUPIED", "RESERVED"}, RESERVED |-> {"OCCUPIED", "AVAILABLE"},
     OCCUPIED |-> {"BILLING", "AVAILABLE"}, BILLING |-> {"AVAILABLE"}, INACTIVE |-> {}]

CanMove(t, next) == next \in TABLE_TRANSITIONS[tables[t].status]

Exists(r) == books[r] # Free
Books == {r \in Reservation : Exists(r)}
Orders == {o \in Order : orders[o] # Free}

-----------------------------------------------------------------------------
(* Availability.                                                            *)

\* Reservations that hold their table in their slot.
Holds(r) == \/ books[r].status \in {"CONFIRMED", "SEATED", "CHECKED_IN"}
            \/ books[r].status = "PENDING_PAYMENT" /\ r \in locked

\* Mutant: a reservation whose payment is under way holds nothing.
AvailableTablesPaid(slot, party) ==
    {t \in Table : /\ tables[t].active /\ tables[t].status = "AVAILABLE"
                   /\ Capacity[t] >= party
                   /\ ~\E r \in Books : /\ books[r].table = t
                                        /\ books[r].slot \cap slot # {}
                                        /\ books[r].status # "PENDING_PAYMENT"
                                        /\ Holds(r)}

\* getAvailableTables.
AvailableTables(slot, party) ==
    {t \in Table : /\ tables[t].active /\ tables[t].status = "AVAILABLE"
                   /\ Capacity[t] >= party
                   /\ ~\E r \in Books : /\ books[r].table = t
                                        /\ books[r].slot \cap slot # {}
                                        /\ Holds(r)}

Smallest(set) == CHOOSE t \in set : \A s \in set : Capacity[t] <= Capacity[s]

\* Orders closeTable still waits for.
OpenOrders(id) == {o \in Orders : orders[o].session = id /\ orders[o].open}

-----------------------------------------------------------------------------
(* Requests and their writes.                                               *)

Idle == [op |-> "idle", on |-> {}, todo |-> <<>>]

Changes(from, to) == [f \in {g \in DOMAIN from : from[g] # to[g]} |-> to[f]]
Patched(doc, set) == [f \in DOMAIN doc |-> IF f \in DOMAIN set THEN set[f] ELSE doc[f]]

\* A save of a table or a reservation, a findByIdAndUpdate of its status.
SaveTable(t, to) == [w |-> "table", t |-> t, set |-> Changes(tables[t], to)]
SaveBook(r, to) == [w |-> "book", r |-> r, set |-> Changes(books[r], to)]
SetBook(r, s) == [w |-> "book", r |-> r, set |-> [status |-> s]]
SetTable(t, s) == [w |-> "table", t |-> t, set |-> [status |-> s]]

Insert(t, slot) == [w |-> "insert", t |-> t, slot |-> slot]
PlaceAt(t, id) == [w |-> "order", t |-> t, session |-> id]
CloseIfDone(t) == [w |-> "close", t |-> t, copy |-> tables[t]]
ReserveIfFree(t) == [w |-> "reserve", t |-> t]
ReleaseIfLast(t, r) == [w |-> "release", t |-> t, r |-> r]

\* Requests in flight that work on the same table or reservation.
Rivals(a, on) == {o \in Actor \ {a} : req[o].on \cap on # {}}

\* Mark a together with its rivals; a new request without any starts clean.
Joined(set, a, others) == IF others = {} THEN set \ {a} ELSE set \cup {a} \cup others

(* Histories, for the properties.  `crossed' requests overlapped one about  *)
(* the same table or reservation.  Reservations: `raced' were saved by a    *)
(* crossed request or lost their table to one, `unchecked' came to hold a   *)
(* table without a look that nobody disturbed, `edited' were set by hand.   *)
(* `disturbed' tables were saved by a crossed request and not opened or      *)
(* closed since; `strayed' orders were placed by one or at a disturbed      *)
(* table, lie at a table when it is disturbed, or were reopened by hand     *)
(* when their table was closed or being closed.                             *)
NoHistory == [crossed |-> {}, raced |-> {}, unchecked |-> {}, edited |-> {},
              disturbed |-> {}, strayed |-> {}]

\* Actor a begins op on some tables and reservations.
Begin(a, op, on, todo) ==
    /\ op \in Ops
    /\ req[a] = Idle
    /\ started < MaxRequests
    /\ started' = started + 1
    /\ req' = [req EXCEPT ![a] = IF todo = <<>> THEN Idle
                                 ELSE [op |-> op, on |-> on, todo |-> todo]]
    /\ hist' = [hist EXCEPT
                  !.crossed = Joined(@, a, Rivals(a, on)),
                  !.edited = IF op = "update" THEN @ \cup (on \cap Reservation) ELSE @]
    /\ UNCHANGED faults

-----------------------------------------------------------------------------
(* Tables.                                                                  *)

SetActive(a, t) ==
    /\ Begin(a, "edit", {t},
             <<SaveTable(t, [tables[t] EXCEPT !.active = ~@])>>)
    /\ UNCHANGED floorVars

DeactivateTable(a, t) ==
    /\ tables[t].status \notin {"OCCUPIED", "BILLING"}
    /\ Begin(a, "edit", {t},
             <<SaveTable(t, [tables[t] EXCEPT !.active = FALSE, !.status = "INACTIVE"])>>)
    /\ UNCHANGED floorVars

\* The table with a new session, and that session's id.
Opened(t, r) == [tables[t] EXCEPT !.status = "OCCUPIED",
                                  !.session = [id |-> sessions + 1, book |-> r]]
NewSession == /\ sessions < MaxSessions
              /\ sessions' = sessions + 1
              /\ UNCHANGED <<tables, books, locked, rzp, orders>>

\* seatTable, perhaps for a reservation; whose, and for which table, is not
\* looked at.
SeatTable(a, t, r) ==
    /\ CanMove(t, "OCCUPIED")
    /\ NewSession
    /\ Begin(a, "seat", {t, r} \ {NoReservation},
             <<SaveTable(t, Opened(t, r))>>
             \o IF r = NoReservation THEN <<>> ELSE <<SetBook(r, "SEATED")>>)

\* requestBill by the staff and customerRequestBill at the table: the guest's
\* request for a bill that was asked for already writes nothing.
RequestBill(a, t) ==
    /\ CanMove(t, "BILLING")
    /\ Begin(a, "bill", {t},
             <<SaveTable(t, [tables[t] EXCEPT !.status = "BILLING"])>>)
    /\ UNCHANGED floorVars

\* closeTable: without a session there are no orders to look for.
CloseTable(a, t) ==
    /\ CanMove(t, "AVAILABLE")
    /\ Begin(a, "close", {t, tables[t].session.book} \ {NoReservation}, <<CloseIfDone(t)>>)
    /\ UNCHANGED floorVars

\* checkout and guestCheckout at a table.
PlaceOrder(a, t) ==
    /\ tables[t].active
    /\ tables[t].status # "BILLING"
    /\ IF tables[t].status = "AVAILABLE"
       THEN /\ NewSession
            /\ Begin(a, "order", {t},
                     <<SaveTable(t, Opened(t, NoReservation)), PlaceAt(t, sessions + 1)>>)
       ELSE /\ Begin(a, "order", {t}, <<PlaceAt(t, tables[t].session.id)>>)
            /\ UNCHANGED floorVars

-----------------------------------------------------------------------------
(* Reservations.                                                            *)

\* createReservation: the best fit of the tables found free.
CreateReservation(a, slot, party) ==
    LET found == AvailableTables(slot, party)
    IN  /\ found # {}
        /\ Begin(a, "reserve", {Smallest(found)},
                 <<Insert(Smallest(found), slot)>>)
        /\ UNCHANGED floorVars

\* createTableRazorpayOrder.
CreateTableRazorpayOrder(a, r) ==
    /\ Exists(r)
    /\ books[r].pay # "PAID"
    /\ rzp' = [rzp EXCEPT ![r] = IF @ = "none" THEN "open" ELSE @]
    /\ Begin(a, "pay", {r}, <<SaveBook(r, [books[r] EXCEPT !.payment = "order"])>>)
    /\ UNCHANGED <<tables, books, locked, orders, sessions>>

\* The guest pays at the gateway.
GuestPays(r) ==
    /\ rzp[r] = "open"
    /\ rzp' = [rzp EXCEPT ![r] = "paid"]
    /\ UNCHANGED <<tables, books, locked, orders, sessions, req, started, faults, hist>>

\* verifyTablePayment: whatever became of the reservation, it is confirmed.  The
\* signature is checked over the ids that come with it and these are compared
\* with nothing: a payment of anything, also outside this module, will do.
VerifyTablePayment(a, r) ==
    /\ Exists(r)
    /\ Begin(a, "pay", {r, books[r].table},
             <<SaveBook(r, [books[r] EXCEPT !.pay = "PAID", !.status = "CONFIRMED",
                                            !.payment = "payment"]),
               ReserveIfFree(books[r].table)>>)
    /\ UNCHANGED floorVars

VerifyWrongSignature(a, r) ==
    /\ Exists(r)
    /\ Begin(a, "pay", {r}, <<SaveBook(r, [books[r] EXCEPT !.pay = "FAILED"])>>)
    /\ UNCHANGED floorVars

\* handleWebhookEvent finds the reservation by the gateway order's id.
WebhookCaptured(a, r) ==
    /\ Exists(r)
    /\ rzp[r] = "paid"
    /\ books[r].payment = "order"
    /\ books[r].pay # "PAID"
    /\ Begin(a, "pay", {r},
             <<SaveBook(r, [books[r] EXCEPT !.pay = "PAID", !.status = "CONFIRMED"])>>)
    /\ UNCHANGED floorVars

WebhookFailed(a, r) ==
    /\ Exists(r)
    /\ rzp[r] = "open"
    /\ books[r].payment = "order"
    /\ books[r].pay # "PAID"
    /\ Begin(a, "pay", {r}, <<SaveBook(r, [books[r] EXCEPT !.pay = "FAILED"])>>)
    /\ UNCHANGED floorVars

\* Mutant: a guest who did not come keeps the table.
UpdateReservationNoShow(a, r, s) ==
    /\ Exists(r)
    /\ Begin(a, "update", {r, books[r].table},
             <<SaveBook(r, [books[r] EXCEPT !.status = s,
                                            !.pay = IF s = "CONFIRMED" THEN "PAID" ELSE @])>>
             \o IF s \in Terminal \ {"NO_SHOW"} /\ books[r].status # s
                THEN <<ReleaseIfLast(books[r].table, r)>> ELSE <<>>)
    /\ UNCHANGED floorVars

\* updateReservation: any status to any other; one that ends frees the table.
UpdateReservation(a, r, s) ==
    /\ Exists(r)
    /\ Begin(a, "update", {r, books[r].table},
             <<SaveBook(r, [books[r] EXCEPT !.status = s,
                                            !.pay = IF s = "CONFIRMED" THEN "PAID" ELSE @])>>
             \o IF s \in Terminal /\ books[r].status # s
                THEN <<ReleaseIfLast(books[r].table, r)>> ELSE <<>>)
    /\ UNCHANGED floorVars

-----------------------------------------------------------------------------
(* The writes.                                                              *)

Next1(a, kind) == req[a] # Idle /\ Head(req[a].todo).w = kind
Write(a) == Head(req[a].todo)

\* Actor a goes on with `more' after the write at the head of its list.
Continue(a, more) ==
    /\ req' = [req EXCEPT ![a] = IF more = <<>> THEN Idle ELSE [@ EXCEPT !.todo = more]]
    /\ UNCHANGED <<sessions, rzp, started, faults>>
Done(a) == Continue(a, Tail(req[a].todo))

DoInsert(a) ==
    /\ Next1(a, "insert")
    /\ \E r \in Reservation :
         /\ books[r] = Free
         /\ books' = [books EXCEPT ![r] =
              [table |-> Write(a).t, slot |-> Write(a).slot,
               status |-> "PENDING_PAYMENT", pay |-> "PENDING", payment |-> "none"]]
         /\ locked' = locked \cup {r}
         /\ hist' = [hist EXCEPT !.unchecked =
                                   IF a \in hist.crossed THEN @ \cup {r} ELSE @]
    /\ Done(a)
    /\ UNCHANGED <<tables, orders>>

\* The session a table loses, and the one it gets, were raced if a was crossed.
DoTable(a) ==
    /\ Next1(a, "table")
    /\ LET t == Write(a).t
           new == Patched(tables[t], Write(a).set)
       IN  /\ tables' = [tables EXCEPT ![t] = new]
           /\ hist' =
                IF a \in hist.crossed
                THEN [hist EXCEPT
                        !.disturbed = @ \cup {t},
                        !.strayed = @ \cup {o \in Orders : orders[o].table = t},
                        !.raced = @ \cup ({new.session.book, tables[t].session.book}
                                            \ {NoReservation})]
                ELSE [hist EXCEPT !.disturbed =
                        IF req[a].op \in {"seat", "order", "close"} THEN @ \ {t} ELSE @]
    /\ Done(a)
    /\ UNCHANGED <<books, locked, orders>>

DoBook(a) ==
    /\ Next1(a, "book")
    /\ LET r == Write(a).r
           new == Patched(books[r], Write(a).set)
           revived == /\ ~Holds(r)
                      /\ \/ new.status \in {"CONFIRMED", "SEATED", "CHECKED_IN"}
                         \/ new.status = "PENDING_PAYMENT" /\ r \in locked
       IN  /\ books' = [books EXCEPT ![r] = new]
           /\ hist' = [hist EXCEPT
                !.raced = IF a \in hist.crossed THEN @ \cup {r} ELSE @,
                !.unchecked = IF revived THEN @ \cup {r} ELSE @]
    /\ Done(a)
    /\ UNCHANGED <<tables, locked, orders>>

DoOrder(a) ==
    /\ Next1(a, "order")
    /\ \E o \in Order :
         /\ orders[o] = Free
         /\ orders' = [orders EXCEPT ![o] =
              [table |-> Write(a).t, session |-> Write(a).session, open |-> TRUE]]
         /\ hist' = [hist EXCEPT !.strayed =
              IF a \in hist.crossed \/ Write(a).t \in hist.disturbed THEN @ \cup {o} ELSE @]
    /\ Done(a)
    /\ UNCHANGED <<tables, books, locked>>

\* An item of the cart is sold out, or the coupon is refused: the table that
\* was taken for the order stays taken.
OrderRefused(a) ==
    /\ Next1(a, "order")
    /\ Continue(a, <<>>)
    /\ UNCHANGED <<tables, books, locked, orders, hist>>

\* Mutant: the reservation of the guests who leave is forgotten.
ClosingForgets(t, copy) ==
    <<[w |-> "table", t |-> t,
       set |-> Changes(copy, [copy EXCEPT !.status = "AVAILABLE", !.session = NoSession])]>>

\* What closeTable writes once no order of the session is open.
Closing(t, copy) ==
    (IF copy.session.book = NoReservation THEN <<>>
     ELSE <<SetBook(copy.session.book, "COMPLETED")>>)
    \o <<[w |-> "table", t |-> t,
          set |-> Changes(copy, [copy EXCEPT !.status = "AVAILABLE",
                                             !.session = NoSession])]>>

\* Mutant: the orders are looked for once the table is free.
DoCloseUnasked(a) ==
    /\ Next1(a, "close")
    /\ Continue(a, Closing(Write(a).t, Write(a).copy))
    /\ UNCHANGED <<tables, books, locked, orders, hist>>

DoClose(a) ==
    /\ Next1(a, "close")
    /\ LET copy == Write(a).copy
       IN  Continue(a, IF copy.session.id # 0 /\ OpenOrders(copy.session.id) # {} THEN <<>>
                       ELSE Closing(Write(a).t, copy))
    /\ UNCHANGED <<tables, books, locked, orders, hist>>

\* The end of verifyTablePayment: the table is read, then updated.
DoReserve(a) ==
    /\ Next1(a, "reserve")
    /\ Continue(a, IF tables[Write(a).t].status = "AVAILABLE"
                   THEN <<SetTable(Write(a).t, "RESERVED")>> ELSE <<>>)
    /\ UNCHANGED <<tables, books, locked, orders, hist>>

\* The end of updateReservation: other reservations of the table are looked
\* for, then the table is freed if it is still reserved.
DoRelease(a) ==
    /\ Next1(a, "release")
    /\ LET t == Write(a).t
           others == {r \in Books \ {Write(a).r} : /\ books[r].table = t
                        /\ books[r].status \in {"PENDING_PAYMENT", "CONFIRMED"}}
       IN  Continue(a, IF others = {} THEN <<[w |-> "free", t |-> t]>> ELSE <<>>)
    /\ UNCHANGED <<tables, books, locked, orders, hist>>

DoFree(a) ==
    /\ Next1(a, "free")
    /\ LET t == Write(a).t
       IN  tables' = [tables EXCEPT ![t].status =
                        IF @ = "RESERVED" THEN "AVAILABLE" ELSE @]
    /\ Done(a)
    /\ UNCHANGED <<books, locked, orders, hist>>

\* MongoDB refuses a write or the process stops: the rest is never done.
Dies(a) ==
    /\ req[a] # Idle
    /\ faults < MaxFaults
    /\ faults' = faults + 1
    /\ req' = [req EXCEPT ![a] = Idle]
    /\ UNCHANGED <<floorVars, started, hist>>

\* Ten minutes pass.
LockEnds(r) ==
    /\ r \in locked
    /\ locked' = locked \ {r}
    /\ UNCHANGED <<tables, books, rzp, orders, sessions, req, started, faults, hist>>

\* Request a has found no open order and is about to free the table.
FreesTable(a, t) == req[a].op = "close" /\ t \in req[a].on /\ Head(req[a].todo).w # "close"

\* The staff's override of an order's status, here back to one the kitchen works
\* in.  What became of the order's table is not looked at.
ForceStatus(o) ==
    /\ o \in Orders
    /\ ~orders[o].open
    /\ orders' = [orders EXCEPT ![o].open = TRUE]
    /\ LET t == orders[o].table
           left == \/ tables[t].session.id # orders[o].session \/ t \in hist.disturbed
                   \/ \E a \in Actor : FreesTable(a, t)
       IN  hist' = [hist EXCEPT !.strayed = IF left THEN @ \cup {o} ELSE @]
    /\ UNCHANGED <<tables, books, locked, rzp, sessions, req, started, faults>>

\* The kitchen has prepared an order, or it was cancelled or rejected.
KitchenFinishes(o) ==
    /\ o \in Orders
    /\ orders[o].open
    /\ orders' = [orders EXCEPT ![o].open = FALSE]
    /\ UNCHANGED <<tables, books, locked, rzp, sessions, req, started, faults, hist>>

-----------------------------------------------------------------------------
Init == /\ tables = [t \in Table |-> [status |-> "AVAILABLE", active |-> TRUE,
                                      session |-> NoSession]]
        /\ books = [r \in Reservation |-> Free]
        /\ locked = {}
        /\ rzp = [r \in Reservation |-> "none"]
        /\ orders = [o \in Order |-> Free]
        /\ sessions = 0
        /\ req = [a \in Actor |-> Idle]
        /\ started = 0
        /\ faults = 0
        /\ hist = NoHistory

TableRequests(a, t) ==
    \/ SetActive(a, t) \/ DeactivateTable(a, t) \/ RequestBill(a, t)
    \/ CloseTable(a, t) \/ PlaceOrder(a, t)
    \/ \E r \in {NoReservation} \cup Books : SeatTable(a, t, r)

BookRequests(a, r) ==
    \/ CreateTableRazorpayOrder(a, r) \/ VerifyTablePayment(a, r)
    \/ VerifyWrongSignature(a, r) \/ WebhookCaptured(a, r) \/ WebhookFailed(a, r)
    \/ \E s \in HandStatuses : UpdateReservation(a, r, s)

Writes(a) == \/ DoInsert(a) \/ DoTable(a) \/ DoBook(a) \/ DoOrder(a)
             \/ OrderRefused(a) \/ DoClose(a) \/ DoReserve(a) \/ DoRelease(a)
             \/ DoFree(a)

Next == \/ \E a \in Actor : \/ \E t \in Table : TableRequests(a, t)
                            \/ \E r \in Reservation : BookRequests(a, r)
                            \/ \E s \in Slots, n \in Parties : CreateReservation(a, s, n)
                            \/ Writes(a)
                            \/ Dies(a)
        \/ \E r \in Reservation : GuestPays(r) \/ LockEnds(r)
        \/ \E o \in Order : KitchenFinishes(o) \/ ForceStatus(o)

Spec == Init /\ [][Next]_vars

-----------------------------------------------------------------------------
(* Properties.                                                              *)

\* Every table, reservation and order has the shape its schema gives it.
TypeOK ==
    /\ tables \in [Table -> TableDocs]
    /\ \A r \in Books : books[r] \in BookDocs
    /\ locked \subseteq Books
    /\ \A o \in Orders : orders[o] \in OrderDocs

\* Two reservations never hold one table in the same hour, unless one of them
\* was created while the table was in other hands, was confirmed or revived
\* after it had stopped holding, or was saved by overlapping requests.
NoDoubleReservation ==
    \A r, s \in Books :
        /\ r # s /\ Holds(r) /\ Holds(s)
        /\ books[r].table = books[s].table
        /\ books[r].slot \cap books[s].slot # {}
        => {r, s} \cap (hist.raced \cup hist.unchecked) # {}

\* An order the kitchen is working on belongs to the session its table shows,
\* so that the bill and the closing of the table see it; a table is not closed
\* over an order that was reopened by hand either.  Not so if overlapping
\* requests placed the order or saved the table before or while it was open, if
\* it was placed without a session, or if the override reopened it after its
\* session had ended or while the table was being closed: forceStatus does not
\* look at the table.
OrdersInTheirSession ==
    \A o \in Orders \ hist.strayed :
        orders[o].open /\ orders[o].session # 0 =>
            /\ tables[orders[o].table].session.id = orders[o].session
            /\ tables[orders[o].table].status \in {"OCCUPIED", "BILLING"}

\* A reservation marked as seated by seatTable has a table in use under its
\* name; it is completed before its guests' table is given away.
SeatedGuestsHaveTable ==
    \A r \in Books \ (hist.raced \cup hist.edited) :
        books[r].status = "SEATED" =>
            \E t \in Table : /\ tables[t].session.book = r
                             /\ tables[t].status \in {"OCCUPIED", "BILLING"}

\* Once all reservations of a table have ended (cancelled, expired, no show) it
\* is not left reserved, even if they ended at the same time.
ReleasedWithLastReservation ==
    \A t \in Table \ hist.disturbed :
        /\ \A a \in Actor : req[a] = Idle
        /\ faults = 0
        /\ \A r \in Books : books[r].table = t => books[r].status \in Terminal
        => tables[t].status # "RESERVED"

\* The floor has the shape of its schemas and no table is reserved for nobody.
FloorInv == TypeOK /\ ReleasedWithLastReservation
=============================================================================
