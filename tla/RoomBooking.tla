---------------------------- MODULE RoomBooking ----------------------------
(***************************************************************************)
(* Room bookings, transfers and the status of the rooms:                   *)
(* modules/room/roomBooking.service.ts over the RoomBooking, Room and      *)
(* BookingInvoice collections.                                             *)
(*                                                                         *)
(* A request loads what it decides on in one step and then performs its    *)
(* writes one by one, each an await of its own: `todo' is what is left of  *)
(* them.  RoomBooking has no optimistic concurrency: a save writes the     *)
(* fields that differ from the copy it loaded, and the last save wins.     *)
(* Every guest and every member of the staff runs one request at a time.   *)
(***************************************************************************)
EXTENDS Integers, Sequences, FiniteSets

CONSTANTS Room, Booking, Guest, Desk,
          Class,        \* Class[r]: the category of room r
          Rate,         \* Rate[c]: its price per night when the server starts
          Prices,       \* prices per night the staff may give a category later
          Terms,        \* what a guest asks for besides: extra charges, a discount
          Stays,        \* sets of nights a guest may ask for
          Existing,     \* what earlier requests left in the RoomBooking collection
          HandStatuses, \* booking statuses the staff set by hand
          RoomStatuses, \* room statuses the staff set by hand
          Extras,       \* what other services charged during a stay: due, paid
          Free, Gone,   \* a booking not created yet, and one deleted
          NoBooking, NoMove, NoInvoice, \* nothing
          MaxRequests,  \* bound: requests that reach the server
          MaxFaults     \* bound: requests that die between two writes

Actor == Guest \cup Desk

Statuses == {"PENDING", "CONFIRMED", "CHECKED_IN", "CHECKED_OUT", "CANCELLED"}
Closed == {"CHECKED_OUT", "CANCELLED"}

ASSUME RoomBookingAssumption ==
    /\ Guest \cap Desk = {}
    /\ IsFiniteSet(Booking) /\ NoBooking \notin Booking
    /\ \A r \in Room : Rate[Class[r]] \in Nat
    /\ Prices \subseteq Nat
    /\ Terms \subseteq [extra : Nat, off : Nat]
    /\ \A n \in Stays : IsFiniteSet(n) /\ n # {}
    /\ HandStatuses \subseteq Statuses
    /\ Extras \subseteq [due : Nat, paid : Nat]
    /\ MaxRequests \in Nat /\ MaxFaults \in Nat

\* The documents of the collection: the schema of RoomBooking.
Moves == [from : Room, to : Room, due : Nat]
Docs == [room : Room, guest : Guest, nights : Stays, status : Statuses,
         paid : {"PENDING", "PAID"}, pay : {"PENDING", "PAID", "FAILED"},
         terms : [extra : Nat, off : Nat], total : Nat,
         pending : {NoMove} \cup Moves,
         transfers : Seq({"NONE", "PENDING", "PROCESSED"})] \* their refund status

\* A database earlier requests left in order: documents of the schema, no two
\* of them settled for the same room and night.
ASSUME ExistingAssumption ==
    /\ {Free, Gone} \cap Docs = {} /\ Free # Gone
    /\ NoMove \notin Moves
    /\ NoInvoice \notin [stay : Nat, grand : Nat, paid : Nat, due : Nat]
    /\ \A d \in Existing :
         /\ d \in [Booking -> Docs \cup {Free, Gone}]
         /\ \A b, c \in Booking :
              b # c /\ d[b] \in Docs /\ d[c] \in Docs =>
                \/ {d[b].status, d[c].status} \cap (Closed \cup {"PENDING"}) # {}
                \/ d[b].room # d[c].room
                \/ d[b].nights \cap d[c].nights = {}

VARIABLES
    docs,     \* the bookings: Free, Gone or a document
    fresh,    \* bookings created within the last 15 minutes
    rooms,    \* each room: status, active, and the booking that set the status
    rates,    \* the price per night of each category
    invoices, \* the invoice of a booking, if it has one
    rzp,      \* the gateway's order for a booking: "none", "open" or "paid"
    req,      \* req[a]: the request actor a has in flight
    started,  \* requests begun
    faults,   \* requests that died
    hist      \* history: see Histories
vars == <<docs, fresh, rooms, rates, invoices, rzp, req, started, faults, hist>>

Exists(b) == docs[b] \notin {Free, Gone}
Bookings == {b \in Booking : Exists(b)}

-----------------------------------------------------------------------------
(* Prices.                                                                  *)

\* Math.round of a percentage of an amount.
Percent(p, amount) == (2 * p * amount + 100) \div 200

\* An amount with 18% GST and 5% service charge, each rounded on its own.
WithTaxes(base) == base + Percent(18, base) + Percent(5, base)

\* The price of a room is that of its category: an update of the category sets
\* that of its rooms in the same transaction.
Categories == {Class[r] : r \in Room}
NightlyRate(r) == rates[Class[r]]

\* The nights and the extra bed or pickup: what taxes and coupons are reckoned on.
Base(rate, nights, extra) == rate * Cardinality(nights) + extra

\* computeDiscount: a coupon takes no more than there is.
Discount(off, base) == IF off < base THEN off ELSE base

\* What a booking with this document costs in a room at this rate.
FairPrice(d, rate) ==
    WithTaxes(Base(rate, d.nights, d.terms.extra)) - d.terms.off

\* The total is that price, but for 1 of each of the two taxes a transfer rounds;
\* `low': it may be more.
Billed(total, fair, transfers, low) ==
    /\ fair - 2 * transfers <= total
    /\ low \/ total <= fair + 2 * transfers

\* The stays earlier requests left have not ended (no invoice is there yet), are
\* billed for their room, and their moves lead out of it.
ASSUME StaysAssumption ==
    \A d \in Existing : \A b \in Booking :
      d[b] \in Docs =>
        /\ d[b].status # "CHECKED_OUT"
        /\ Billed(d[b].total, FairPrice(d[b], Rate[Class[d[b].room]]),
                  Len(d[b].transfers), FALSE)
        /\ d[b].pending # NoMove =>
             /\ d[b].pending.from = d[b].room /\ d[b].pending.to # d[b].room
             /\ Billed(d[b].total + d[b].pending.due,
                       FairPrice(d[b], Rate[Class[d[b].pending.to]]),
                       Len(d[b].transfers) + 1, FALSE)

\* What a move between two rooms means for the bill.
MoveKind(from, to) ==
    IF Class[from] = Class[to] \/ NightlyRate(from) = NightlyRate(to) THEN "NORMAL"
    ELSE IF NightlyRate(to) > NightlyRate(from) THEN "UPGRADE" ELSE "DOWNGRADE"

\* Mutant: the differential of one night only.
DifferentialOfANight(from, to, nights) ==
    LET delta == NightlyRate(to) - NightlyRate(from)
    IN  WithTaxes(IF delta < 0 THEN -delta ELSE delta)

\* The differential over the stay, owed by the guest or to the guest.
Differential(from, to, nights) ==
    LET delta == NightlyRate(to) - NightlyRate(from)
    IN  WithTaxes((IF delta < 0 THEN -delta ELSE delta) * Cardinality(nights))

-----------------------------------------------------------------------------
(* Conflicts.                                                               *)

Overlaps(b, r, nights) == docs[b].room = r /\ docs[b].nights \cap nights # {}

\* Bookings that hold their room: settled ones, and pending ones that are young.
Live(b) == \/ docs[b].status \in {"CONFIRMED", "CHECKED_IN"}
           \/ docs[b].status = "PENDING" /\ b \in fresh

\* Mutant: a guest who is in the house already is no conflict.
ConflictsBeforeArrival(r, nights) ==
    {b \in Bookings : Overlaps(b, r, nights) /\ Live(b)
                      /\ docs[b].status # "CHECKED_IN"}

\* What createRoomBooking finds in its way.
Conflicts(r, nights) == {b \in Bookings : Overlaps(b, r, nights) /\ Live(b)}

\* What a transfer finds in its way: pending bookings of any age count.
Clashes(b, copy, r) == {c \in Bookings \ {b} : Overlaps(c, r, copy.nights)
                                               /\ docs[c].status \notin Closed}

\* Rooms the search page offers.
SearchAvailable(nights) ==
    {r \in Room : /\ rooms[r].active /\ rooms[r].status = "AVAILABLE"
                  /\ ~\E b \in Bookings : Overlaps(b, r, nights)
                                          /\ docs[b].status # "CANCELLED"}

\* What transferRoom demands of the room the booking moves to.
Movable(b, copy, to) ==
    /\ copy.room # to
    /\ rooms[to].active
    /\ rooms[to].status \in {"AVAILABLE", "CLEANING"}
    /\ Clashes(b, copy, to) = {}

\* getTransferOptions: the rooms the desk is offered.
TransferOptions(b) ==
    LET blocked == {docs[c].room : c \in {c \in Bookings \ {b} :
                       /\ docs[c].status \in {"PENDING", "CONFIRMED", "CHECKED_IN"}
                       /\ docs[c].nights \cap docs[b].nights # {}}}
    IN  {r \in Room \ blocked : /\ r # docs[b].room /\ rooms[r].active
                                /\ rooms[r].status \in {"AVAILABLE", "CLEANING"}}

-----------------------------------------------------------------------------
(* Requests.                                                                *)

Idle == [op |-> "idle", b |-> NoBooking, todo |-> <<>>]

\* The writes a handler may have left to do.
Insert(r, n, s, t) == [w |-> "insert", room |-> r, nights |-> n, status |-> s,
                       terms |-> t, rate |-> NightlyRate(r)]
Drop(b) == [w |-> "drop", b |-> b]
SetRoom(r, s) == [w |-> "room", room |-> r, status |-> s]
SetActive(r, flag) == [w |-> "active", room |-> r, flag |-> flag]
Invoice(bill) == [w |-> "invoice", bill |-> bill]
CloseStay == [w |-> "close"]
CheckTarget(copy, to) == [w |-> "target", copy |-> copy, to |-> to]

\* A save of the fields that differ; `transfers' is an array: pushed to, or the
\* refund of one of its elements settled.
Save(from, to) ==
    [w |-> "save",
     set |-> [f \in {g \in DOMAIN from \ {"transfers"} : from[g] # to[g]} |-> to[f]],
     push |-> SubSeq(to.transfers, Len(from.transfers) + 1, Len(to.transfers)),
     settle |-> 0]
Saved(doc, write) ==
    [f \in DOMAIN doc |->
        IF f \in DOMAIN write.set THEN write.set[f]
        ELSE IF f = "transfers"
             THEN [i \in 1..Len(doc.transfers) |->
                     IF i = write.settle THEN "PROCESSED" ELSE doc.transfers[i]]
                  \o write.push
             ELSE doc[f]]

\* Operations that change a booking's room, status or bill, and those that may
\* put a booking into a room or back to life.
Claiming == {"transfer", "confirm", "dropMove", "verify", "status", "checkIn",
             "checkOut", "cancel"}
Seating == {"create", "transfer", "confirm", "verify", "status", "checkIn"}

\* Requests in flight about the same booking, and about the same kind of seat.
Rivals(a, op, b) == {o \in Actor \ {a} : op \in Claiming /\ req[o].op \in Claiming
                                        /\ req[o].b = b}
Contenders(a, op) == {o \in Actor \ {a} : op \in Seating /\ req[o].op \in Seating}

\* a with those in `others', if there are any; a new request starts clean.
Joined(set, a, others) == IF others = {} THEN set \ {a} ELSE set \cup {a} \cup others

(* Histories, for the properties.  Requests: `crossed' by one about the     *)
(* same booking, `contended' by another that seats.  Bookings: `raced' were *)
(* saved by a crossed request; `unchecked' came into a room, or back to     *)
(* life, without a look at the room's bookings that nobody disturbed;       *)
(* `edited' had CHECKED_OUT set by hand; `late' were upgraded after their   *)
(* check-out; `collected' were paid at the gateway or at the desk, and      *)
(* `borrowed' verified with a payment that is not theirs; `repriced' were   *)
(* there, or on their way, when a category got another price; `clamped' had *)
(* a refund that took all of their total.                                   *)
NoHistory == [crossed |-> {}, contended |-> {}, raced |-> {}, unchecked |-> {},
              edited |-> {}, late |-> {}, collected |-> {}, borrowed |-> {},
              repriced |-> {}, clamped |-> {}]

\* Actor a begins operation op on booking b, with the writes in `todo' to do.
Begin(a, op, b, todo) ==
    /\ req[a] = Idle
    /\ started < MaxRequests
    /\ started' = started + 1
    /\ req' = [req EXCEPT ![a] = IF todo = <<>> THEN Idle
                                 ELSE [op |-> op, b |-> b, todo |-> todo]]
    /\ hist' = [hist EXCEPT
                 !.crossed = Joined(@, a, Rivals(a, op, b)),
                 !.contended = Joined(@, a, Contenders(a, op)),
                 !.collected = IF op = "collect" THEN @ \cup {b} ELSE @,
                 !.borrowed = IF op = "verify" /\ rzp[b] # "paid"
                              THEN @ \cup {b} ELSE @]
    /\ UNCHANGED <<docs, fresh, rooms, rates, invoices, faults>>

Alone(a, op, b, todo) == Begin(a, op, b, todo) /\ UNCHANGED rzp

Mine(a, b) == Exists(b) /\ (a \in Guest => docs[b].guest = a)

-----------------------------------------------------------------------------
(* createRoomBooking.                                                       *)

\* The guest's own pending bookings are deleted one by one; a booking of
\* somebody else ends the request, perhaps after some were deleted.
CreateRoomBooking(a, r, nights, status, terms) ==
    LET found == Conflicts(r, nights)
        own == {b \in found : docs[b].status = "PENDING" /\ docs[b].guest = a}
    IN  /\ rooms[r].active
        /\ \E drops \in [1..Cardinality(own) -> own] :
             /\ \A i, j \in DOMAIN drops : drops[i] = drops[j] => i = j
             /\ LET deletes == [i \in DOMAIN drops |-> Drop(drops[i])]
                IN  IF own = found
                    THEN Alone(a, "create", NoBooking,
                               deletes \o <<Insert(r, nights, status, terms)>>)
                    ELSE \E n \in 0..Len(deletes) :
                           Alone(a, "refused", NoBooking,
                                 SubSeq(deletes, 1, n))

-----------------------------------------------------------------------------
(* Payment.                                                                 *)

\* createBookingRazorpayOrder: the payment sub-document is replaced.
CreateBookingRazorpayOrder(a, b) ==
    /\ Mine(a, b)
    /\ docs[b].pay # "PAID"
    /\ rzp' = [rzp EXCEPT ![b] = IF @ = "none" THEN "open" ELSE @]
    /\ Begin(a, "order", b, <<Save(docs[b], [docs[b] EXCEPT !.pay = "PENDING"])>>)

\* The guest pays at the gateway.
GuestPays(b) ==
    /\ rzp[b] = "open"
    /\ rzp' = [rzp EXCEPT ![b] = "paid"]
    /\ hist' = [hist EXCEPT !.collected = @ \cup {b}]
    /\ UNCHANGED <<docs, fresh, rooms, rates, invoices, req, started, faults>>

\* verifyBookingPayment: whatever the booking has become, it is confirmed.  The
\* signature is checked over the ids of the request, and those are compared with
\* nothing: the payment of another booking, or of an order, will do.
VerifyBookingPayment(a, b) ==
    /\ Mine(a, b)
    /\ Alone(a, "verify", b,
             <<Save(docs[b], [docs[b] EXCEPT !.pay = "PAID", !.paid = "PAID",
                                             !.status = "CONFIRMED"])>>)

VerifyWrongSignature(a, b) ==
    /\ Mine(a, b)
    /\ Alone(a, "unverified", b, <<Save(docs[b], [docs[b] EXCEPT !.pay = "FAILED"])>>)

\* recordBookingPayment.
RecordBookingPayment(a, b, s) ==
    /\ Exists(b)
    /\ docs[b].status # "CANCELLED"
    /\ Alone(a, IF s = "PAID" THEN "collect" ELSE "uncollect", b,
             <<Save(docs[b], [docs[b] EXCEPT !.paid = s, !.pay = s])>>)

-----------------------------------------------------------------------------
(* The front desk.                                                          *)

\* Mutant: an arrival counts as a settlement.
UpdateBookingStatusPaying(a, b, s) ==
    /\ Exists(b)
    /\ LET save == Save(docs[b], [docs[b] EXCEPT !.status = s,
                          !.paid = IF s = "CHECKED_IN" THEN "PAID" ELSE @])
       IN  Alone(a, "status", b,
                 CASE s = "CHECKED_IN"  -> <<SetRoom(docs[b].room, "OCCUPIED"), save>>
                   [] s = "CHECKED_OUT" -> <<save, CloseStay>>
                   [] OTHER             -> <<save>>)

\* updateBookingStatus: any status to any other.
UpdateBookingStatus(a, b, s) ==
    /\ Exists(b)
    /\ LET save == Save(docs[b], [docs[b] EXCEPT !.status = s])
       IN  Alone(a, "status", b,
                 CASE s = "CHECKED_IN"  -> <<SetRoom(docs[b].room, "OCCUPIED"), save>>
                   [] s = "CHECKED_OUT" -> <<save, CloseStay>>
                   [] OTHER             -> <<save>>)

\* setRoomStatus: a room that has the status already is not written.
SetRoomStatus(a, r, s) ==
    Alone(a, "room", NoBooking,
          IF rooms[r].status = s THEN <<>> ELSE <<SetRoom(r, s)>>)

SetRoomActive(a, r) ==
    Alone(a, "room", NoBooking, <<SetActive(r, ~rooms[r].active)>>)

CheckInGuest(a, b) ==
    /\ Exists(b)
    /\ docs[b].status \notin {"CANCELLED", "CHECKED_IN"}
    /\ Alone(a, "checkIn", b,
             <<SetRoom(docs[b].room, "OCCUPIED"),
               Save(docs[b], [docs[b] EXCEPT !.status = "CHECKED_IN"])>>)

\* getBookingInvoiceData: the stay, what other services charged to the room,
\* and what of it was collected.
Bill(doc, extra) ==
    LET settled == IF doc.paid = "PAID" THEN doc.total ELSE 0
    IN  [stay |-> doc.total, grand |-> doc.total + extra.due + extra.paid,
         paid |-> settled + extra.paid, due |-> doc.total - settled + extra.due]

\* The writes of checkOutGuest once it has read the booking; mutant: the
\* invoice comes last.
InvoiceLast(doc, extra) ==
    IF doc.status = "CHECKED_OUT" THEN <<>>
    ELSE <<Save(doc, [doc EXCEPT !.status = "CHECKED_OUT"]),
           SetRoom(doc.room, "CLEANING"), Invoice(Bill(doc, extra))>>

CheckOutWrites(doc, extra) ==
    IF doc.status = "CHECKED_OUT" THEN <<>>
    ELSE <<Invoice(Bill(doc, extra)), Save(doc, [doc EXCEPT !.status = "CHECKED_OUT"]),
           SetRoom(doc.room, "CLEANING")>>

CheckOutGuest(a, b) ==
    /\ Exists(b)
    /\ docs[b].status # "CHECKED_OUT"
    /\ \E extra \in Extras : Alone(a, "checkOut", b, CheckOutWrites(docs[b], extra))

CancelGuestBooking(a, b) ==
    /\ Mine(a, b)
    /\ docs[b].status \notin {"CHECKED_IN"} \cup Closed
    /\ Alone(a, "cancel", b,
             <<Save(docs[b], [docs[b] EXCEPT !.status = "CANCELLED", !.pending = NoMove]),
               SetRoom(docs[b].room, "AVAILABLE")>>)

CancelPendingBooking(a, b) ==
    /\ Mine(a, b)
    /\ docs[b].status = "PENDING"
    /\ Alone(a, "drop", b, <<Drop(b)>>)

-----------------------------------------------------------------------------
(* Transfers.                                                               *)

\* Mutant: the two rooms are mixed up.
OccupancySwapped(copy, from, to) ==
    IF copy.status = "CHECKED_IN"
    THEN <<SetRoom(to, "CLEANING"), SetRoom(from, "OCCUPIED")>>
    ELSE <<SetRoom(to, "AVAILABLE"), SetRoom(from, "RESERVED")>>

\* The rooms change their status when a move takes effect.
ApplyRoomOccupancy(copy, from, to) ==
    IF copy.status = "CHECKED_IN"
    THEN <<SetRoom(from, "CLEANING"), SetRoom(to, "OCCUPIED")>>
    ELSE <<SetRoom(from, "AVAILABLE"), SetRoom(to, "RESERVED")>>

\* transferRoom: the booking is read, then the room it should move to.
TransferRoom(a, b, to) ==
    /\ Exists(b)
    /\ docs[b].status \notin Closed
    /\ docs[b].pending = NoMove
    /\ Alone(a, "transfer", b, <<CheckTarget(docs[b], to)>>)

MoveWrites(copy, to) ==
    LET from == copy.room
        amount == Differential(from, to, copy.nights)
        Moved(refund) == [copy EXCEPT !.room = to, !.transfers = Append(@, refund)]
        lower == IF copy.total > amount THEN copy.total - amount ELSE 0
    IN  CASE MoveKind(from, to) = "UPGRADE" ->
               <<Save(copy, [copy EXCEPT !.pending =
                               [from |-> from, to |-> to, due |-> amount]]),
                 SetRoom(to, "RESERVED")>>
          [] MoveKind(from, to) = "DOWNGRADE" ->
               <<Save(copy, [Moved("PENDING") EXCEPT !.total = lower])>>
               \o ApplyRoomOccupancy(copy, from, to)
          [] OTHER -> <<Save(copy, Moved("NONE"))>> \o ApplyRoomOccupancy(copy, from, to)

\* confirmTransferPayment: the room that was held is not looked at again.
ConfirmTransferPayment(a, b) ==
    /\ Exists(b)
    /\ docs[b].pending # NoMove
    /\ LET move == docs[b].pending
       IN  Alone(a, "confirm", b,
                 <<Save(docs[b], [docs[b] EXCEPT !.room = move.to, !.pending = NoMove,
                                                 !.total = @ + move.due,
                                                 !.transfers = Append(@, "NONE")])>>
                 \o ApplyRoomOccupancy(docs[b], move.from, move.to))

CancelPendingTransfer(a, b) ==
    /\ Exists(b)
    /\ docs[b].pending # NoMove
    /\ Alone(a, "dropMove", b,
             <<Save(docs[b], [docs[b] EXCEPT !.pending = NoMove,
                                             !.transfers = Append(@, "NONE")]),
               SetRoom(docs[b].pending.to, "AVAILABLE")>>)

\* markTransferRefundProcessed: the latest pending refund.
MarkTransferRefundProcessed(a, b) ==
    /\ Exists(b)
    /\ \E i \in 1..Len(docs[b].transfers) :
         /\ docs[b].transfers[i] = "PENDING"
         /\ \A j \in i + 1..Len(docs[b].transfers) : docs[b].transfers[j] # "PENDING"
         /\ Alone(a, "refund", b, <<[Save(docs[b], docs[b]) EXCEPT !.settle = i]>>)

-----------------------------------------------------------------------------
(* The categories.                                                          *)

\* updateCategory: the price of a category and of its rooms, in a transaction.
UpdateCategory(a, c, price) ==
    /\ req[a] = Idle
    /\ started < MaxRequests
    /\ started' = started + 1
    /\ rates' = [rates EXCEPT ![c] = price]
    /\ hist' = [hist EXCEPT !.repriced = @ \cup Bookings]
    /\ UNCHANGED <<docs, fresh, rooms, invoices, rzp, req, faults>>

-----------------------------------------------------------------------------
(* The writes.                                                              *)

Next1(a, kind) == req[a] # Idle /\ Head(req[a].todo).w = kind

\* Actor a goes on with `more' after the write at the head of its list.
Continue(a, more) ==
    req' = [req EXCEPT ![a] = IF more = <<>> THEN Idle ELSE [@ EXCEPT !.todo = more]]
Done(a) == Continue(a, Tail(req[a].todo))

DoInsert(a) ==
    /\ Next1(a, "insert")
    /\ \E b \in Booking :
         /\ docs[b] = Free
         /\ LET w == Head(req[a].todo)
                base == Base(w.rate, w.nights, w.terms.extra)
                off == Discount(w.terms.off, base)
            IN  /\ docs' = [docs EXCEPT ![b] =
                     [room |-> w.room, guest |-> a, nights |-> w.nights,
                      status |-> w.status, paid |-> "PENDING", pay |-> "PENDING",
                      terms |-> [extra |-> w.terms.extra, off |-> off],
                      total |-> WithTaxes(base) - off, pending |-> NoMove,
                      transfers |-> <<>>]]
                /\ hist' = [hist EXCEPT
                     !.unchecked = IF a \in hist.contended THEN @ \cup {b} ELSE @,
                     !.repriced = IF w.rate # NightlyRate(w.room) THEN @ \cup {b} ELSE @]
         /\ fresh' = fresh \cup {b}
    /\ Done(a)
    /\ UNCHANGED <<rooms, rates, invoices, rzp, started, faults>>

\* The coupon of the request is refused once its old bookings are deleted.
CouponInvalid(a) ==
    /\ Next1(a, "insert")
    /\ Continue(a, <<>>)
    /\ UNCHANGED <<docs, fresh, rooms, rates, invoices, rzp, started, faults, hist>>

DoDrop(a) ==
    /\ Next1(a, "drop")
    /\ LET b == Head(req[a].todo).b
       IN  docs' = [docs EXCEPT ![b] = Gone] /\ fresh' = fresh \ {b}
    /\ Done(a)
    /\ UNCHANGED <<rooms, rates, invoices, rzp, started, faults, hist>>

DoSave(a) ==
    LET b == req[a].b
        new == Saved(docs[b], Head(req[a].todo))
        claims == \/ req[a].op = "confirm"
                  \/ req[a].op = "transfer" /\ a \in hist.contended
                  \/ /\ ~Live(b)
                     /\ \/ new.status \in {"CONFIRMED", "CHECKED_IN"}
                        \/ new.status = "PENDING" /\ b \in fresh
    IN  /\ Next1(a, "save")
        /\ Exists(b)
        /\ docs' = [docs EXCEPT ![b] = new]
        /\ hist' = [hist EXCEPT
                     !.raced = IF a \in hist.crossed THEN @ \cup {b} ELSE @,
                     !.unchecked = IF claims THEN @ \cup {b} ELSE @,
                     !.edited = IF req[a].op = "status" /\ new.status = "CHECKED_OUT"
                                THEN @ \cup {b} ELSE @,
                     !.late = IF req[a].op = "confirm" /\ docs[b].status = "CHECKED_OUT"
                              THEN @ \cup {b} ELSE @,
                     !.clamped = IF req[a].op = "transfer" /\ new.total = 0
                                 THEN @ \cup {b} ELSE @]
        /\ Done(a)
        /\ UNCHANGED <<fresh, rooms, rates, invoices, rzp, started, faults>>

\* The booking was deleted since it was read: Mongoose's DocumentNotFoundError.
SaveNothing(a) ==
    /\ Next1(a, "save")
    /\ ~Exists(req[a].b)
    /\ Continue(a, <<>>)
    /\ UNCHANGED <<docs, fresh, rooms, rates, invoices, rzp, started, faults, hist>>

DoSetRoom(a) ==
    /\ Next1(a, "room")
    /\ LET w == Head(req[a].todo)
       IN  rooms' = [rooms EXCEPT ![w.room].status = w.status,
                                  ![w.room].by = req[a].b]
    /\ Done(a)
    /\ UNCHANGED <<docs, fresh, rates, invoices, rzp, started, faults, hist>>

DoSetActive(a) ==
    /\ Next1(a, "active")
    /\ LET w == Head(req[a].todo)
       IN  rooms' = [rooms EXCEPT ![w.room].active = w.flag]
    /\ Done(a)
    /\ UNCHANGED <<docs, fresh, rates, invoices, rzp, started, faults, hist>>

\* The invoice's number is made of the booking's id and unique: a second one
\* is refused and the check-out ends.
DoInvoice(a) ==
    /\ Next1(a, "invoice")
    /\ IF invoices[req[a].b] = NoInvoice
       THEN /\ invoices' = [invoices EXCEPT ![req[a].b] = Head(req[a].todo).bill]
            /\ Done(a)
       ELSE Continue(a, <<>>) /\ UNCHANGED invoices
    /\ UNCHANGED <<docs, fresh, rooms, rates, rzp, started, faults, hist>>

\* updateBookingStatus(CHECKED_OUT) calls checkOutGuest, which reads again.
DoClose(a) ==
    /\ Next1(a, "close")
    /\ \E extra \in Extras :
         Continue(a, IF Exists(req[a].b) THEN CheckOutWrites(docs[req[a].b], extra)
                     ELSE <<>>)
    /\ UNCHANGED <<docs, fresh, rooms, rates, invoices, rzp, started, faults, hist>>

DoCheckTarget(a) ==
    /\ Next1(a, "target")
    /\ LET w == Head(req[a].todo)
       IN  Continue(a, IF Movable(req[a].b, w.copy, w.to) THEN MoveWrites(w.copy, w.to)
                       ELSE <<>>)
    /\ UNCHANGED <<docs, fresh, rooms, rates, invoices, rzp, started, faults, hist>>

\* MongoDB refuses a write or the process stops: the rest is never done.
Dies(a) ==
    /\ req[a] # Idle
    /\ faults < MaxFaults
    /\ faults' = faults + 1
    /\ Continue(a, <<>>)
    /\ UNCHANGED <<docs, fresh, rooms, rates, invoices, rzp, started, hist>>

\* Fifteen minutes pass.
HoldEnds(b) ==
    /\ b \in fresh
    /\ fresh' = fresh \ {b}
    /\ UNCHANGED <<docs, rooms, rates, invoices, rzp, req, started, faults, hist>>

-----------------------------------------------------------------------------
\* The server starts on a database that earlier requests left in order.
Init == /\ docs \in Existing
        /\ fresh = {}
        /\ rooms = [r \in Room |->
             [status |-> CASE \E b \in Bookings : docs[b].room = r
                                /\ docs[b].status = "CHECKED_IN" -> "OCCUPIED"
                           [] \E b \in Bookings : docs[b].pending # NoMove
                                /\ docs[b].pending.to = r -> "RESERVED"
                           [] OTHER -> "AVAILABLE",
              active |-> TRUE, by |-> NoBooking]]
        /\ rates = [c \in Categories |-> Rate[c]]
        /\ invoices = [b \in Booking |-> NoInvoice]
        /\ rzp = [b \in Booking |-> "none"]
        /\ req = [a \in Actor |-> Idle]
        /\ started = 0
        /\ faults = 0
        /\ hist = [NoHistory EXCEPT
                    !.collected = {b \in Bookings : docs[b].paid = "PAID"}]

GuestRequests(a) ==
    \/ \E r \in Room, n \in Stays, s \in {"PENDING", "CONFIRMED"}, t \in Terms :
         CreateRoomBooking(a, r, n, s, t)
    \/ \E b \in Booking : \/ CreateBookingRazorpayOrder(a, b)
                          \/ VerifyBookingPayment(a, b)
                          \/ VerifyWrongSignature(a, b)
                          \/ CancelGuestBooking(a, b)
                          \/ CancelPendingBooking(a, b)

DeskRequests(a) ==
    \/ \E b \in Booking :
         \/ \E s \in {"PAID", "PENDING"} : RecordBookingPayment(a, b, s)
         \/ \E s \in HandStatuses : UpdateBookingStatus(a, b, s)
         \/ CheckInGuest(a, b)
         \/ CheckOutGuest(a, b)
         \/ CancelGuestBooking(a, b)
         \/ \E to \in Room : TransferRoom(a, b, to)
         \/ ConfirmTransferPayment(a, b)
         \/ CancelPendingTransfer(a, b)
         \/ MarkTransferRefundProcessed(a, b)
    \/ \E r \in Room : \/ SetRoomActive(a, r)
                      \/ \E s \in RoomStatuses : SetRoomStatus(a, r, s)
    \/ \E c \in Categories, p \in Prices : UpdateCategory(a, c, p)

Writes(a) == \/ DoInsert(a) \/ CouponInvalid(a) \/ DoDrop(a)
             \/ DoSave(a) \/ SaveNothing(a) \/ DoSetRoom(a) \/ DoSetActive(a)
             \/ DoInvoice(a) \/ DoClose(a) \/ DoCheckTarget(a)

Next == \/ \E a \in Guest : GuestRequests(a)
        \/ \E a \in Desk : DeskRequests(a)
        \/ \E a \in Actor : Writes(a) \/ Dies(a)
        \/ \E b \in Booking : GuestPays(b) \/ HoldEnds(b)

Spec == Init /\ [][Next]_vars

-----------------------------------------------------------------------------
(* Properties.                                                              *)

\* Every document, room and invoice has the shape its schema gives it.
TypeOK ==
    /\ \A b \in Booking : Exists(b) => docs[b] \in Docs
    /\ fresh \subseteq Bookings
    /\ \A r \in Room : /\ rooms[r].active \in BOOLEAN
                       /\ rooms[r].status \in {"AVAILABLE", "RESERVED", "OCCUPIED",
                                               "CLEANING"} \cup RoomStatuses
    /\ invoices \in [Booking -> {NoInvoice} \cup
                       [stay : Nat, grand : Nat, paid : Nat, due : Nat]]
    /\ rates \in [Categories -> Nat]
    /\ rzp \in [Booking -> {"none", "open", "paid"}]
    /\ started \in 0..MaxRequests /\ faults \in 0..MaxFaults

\* Two live bookings never share a room and a night, unless one was saved by a
\* request that overlapped a rival (createRoomBooking and transferRoom check,
\* then write), or took the room without a check: a payment, a check-in or an
\* edit that revives a booking, or an upgrade whose held room was given away.
NoDoubleBooking ==
    \A b, c \in Bookings :
        b # c /\ Live(b) /\ Live(c) /\ Overlaps(b, docs[c].room, docs[c].nights)
        => {b, c} \cap (hist.raced \cup hist.unchecked) # {}

\* Whatever moves a booking made (upgrades confirmed later, downgrades, moves
\* within a category), with its extra charges and its discount, its total is what
\* it would cost in the room it is in: the charges and refunds of its transfers
\* add up, but for what their taxes round.  It may be more once a refund took all of
\* the total, which is cut off at 0.  Left out are bookings saved by
\* overlapping requests, and those of guests in the house or on their way when a
\* price changed: their moves charge the difference of the new prices.
BilledForRoom ==
    \A b \in Bookings \ (hist.raced \cup hist.repriced) :
        Billed(docs[b].total, FairPrice(docs[b], NightlyRate(docs[b].room)),
               Len(docs[b].transfers), b \in hist.clamped)

\* A booking that is checked out has its invoice, balanced and over the booking's
\* total, unless an upgrade was confirmed after the check-out: it raises the total
\* of a stay that is invoiced.  Left out are bookings saved by overlapping
\* requests and those CHECKED_OUT by hand, which the check-out then passes over.
InvoicedAsBilled ==
    \A b \in Bookings \ (hist.raced \cup hist.edited) :
        docs[b].status = "CHECKED_OUT" =>
            /\ invoices[b] # NoInvoice
            /\ b \notin hist.late => invoices[b].stay = docs[b].total
            /\ invoices[b].paid + invoices[b].due = invoices[b].grand

\* A booking counts as paid only if somebody paid for it (the comment in
\* updateBookingStatus, "never inferred from booking status"), or if the payment
\* of something else was taken for it: see VerifyBookingPayment.
PaidOnlyWhenCollected ==
    \A b \in Bookings :
        docs[b].paid = "PAID" => b \in hist.collected \cup hist.borrowed

\* The room of a guest who is checked in is marked occupied if it was this
\* booking that marked the room last, once its requests are finished.
GuestRoomOccupied ==
    \A b \in Bookings \ hist.raced :
        /\ docs[b].status = "CHECKED_IN"
        /\ \A a \in Actor : req[a] = Idle
        /\ faults = 0
        /\ rooms[docs[b].room].by = b
        => rooms[docs[b].room].status = "OCCUPIED"

\* Offers are accepted: a room the search page shows has no conflict for
\* createRoomBooking, and the desk is offered exactly the rooms transferRoom
\* would take.  Each pair of functions states its rule twice.
OffersAreAccepted ==
    /\ \A n \in Stays : \A r \in SearchAvailable(n) : Conflicts(r, n) = {}
    /\ \A b \in Bookings :
         TransferOptions(b) = {to \in Room : Movable(b, docs[b], to)}

\* Bookings have the shape of their schema and are not paid by a change of status.
BookingInv == TypeOK /\ PaidOnlyWhenCollected

\* The house is as the desk sees it: occupied rooms, and rooms to move to.
HouseInv == GuestRoomOccupied /\ OffersAreAccepted
=============================================================================
