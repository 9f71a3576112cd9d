------------------------- MODULE RoomBookingProofs -------------------------
(***************************************************************************)
(* Theorems about RoomBooking, for any rooms, bookings, guests and desks   *)
(* and any number of requests.                                             *)
(*                                                                         *)
(* The shape of the collections (DataInv) rests on what every write that   *)
(* is still to be done may do (RequestsInv).  No double booking rests on   *)
(* what a request that nobody disturbed still knows when it writes: every  *)
(* conflict a create has seen is among the bookings it will delete first   *)
(* (HoldInv), and the room a transfer will move to is free (TransferInv).  *)
(* Requests that seat someone at the same time are on record as contended  *)
(* (Rivalry), so a step of one of them disturbs nobody else's knowledge.   *)
(***************************************************************************)
EXTENDS RoomBooking, SequenceTheorems, FiniteSetTheorems, TLAPS

\* A sequence, whatever its elements are.
IsSequence(s) == \E S : s \in Seq(S)

RoomStates == {"AVAILABLE", "RESERVED", "OCCUPIED", "CLEANING"} \cup RoomStatuses
Bills == [stay : Nat, grand : Nat, paid : Nat, due : Nat]
Refunds == {"NONE", "PENDING", "PROCESSED"}

\* The bookings somebody paid for, with a payment of theirs or of something else.
Settled == hist.collected \cup hist.borrowed

\* The record of the histories.
IsHistory(h) ==
    h = [crossed |-> h.crossed, contended |-> h.contended, raced |-> h.raced,
         unchecked |-> h.unchecked, edited |-> h.edited, late |-> h.late,
         collected |-> h.collected, borrowed |-> h.borrowed,
         repriced |-> h.repriced, clamped |-> h.clamped]

\* What a save of operation op on booking b may change.
PatchInv(op, b, set, settled) ==
    /\ DOMAIN set \subseteq {"room", "status", "paid", "pay", "total", "pending"}
    /\ "room" \in DOMAIN set => op \in {"transfer", "confirm"} /\ set.room \in Room
    /\ "status" \in DOMAIN set => set.status \in Statuses
    /\ "status" \in DOMAIN set /\ op \notin Seating => set.status \in Closed
    /\ "paid" \in DOMAIN set => set.paid \in {"PENDING", "PAID"}
    /\ "paid" \in DOMAIN set /\ set.paid = "PAID" => b \in settled
    /\ "pay" \in DOMAIN set => set.pay \in {"PENDING", "PAID", "FAILED"}
    /\ "total" \in DOMAIN set => set.total \in Nat
    /\ "pending" \in DOMAIN set => set.pending \in {NoMove} \cup Moves

\* A write a request of operation op on booking b may have left to do.
WriteInv(op, b, w, settled) ==
    \/ /\ w.w = "insert" /\ op = "create"
       /\ w.room \in Room /\ w.nights \in Stays /\ w.status \in {"PENDING", "CONFIRMED"}
       /\ w.rate \in Nat /\ w.terms \in [extra : Nat, off : Nat]
    \/ w.w = "drop" /\ w.b \in Booking
    \/ w.w = "room" /\ w.room \in Room /\ w.status \in RoomStates
    \/ w.w = "active" /\ w.room \in Room /\ w.flag \in BOOLEAN
    \/ w.w = "invoice" /\ w.bill \in Bills /\ b \in Booking
    \/ w.w = "close" /\ op = "status" /\ b \in Booking
    \/ /\ w.w = "target" /\ op = "transfer" /\ b \in Booking
       /\ w.to \in Room /\ w.copy \in Docs
    \/ /\ w.w = "save" /\ b \in Booking /\ PatchInv(op, b, w.set, settled)
       /\ w.push \in Seq(Refunds)

\* The writes a request may have left: a create deletes, then inserts, and a
\* transfer marks rooms once it has looked or saved.
TodoInv(op, b, todo, settled) ==
    /\ IsSequence(todo)
    /\ \A i \in 1..Len(todo) : WriteInv(op, b, todo[i], settled)
    /\ op = "create" =>
         \A i \in 1..Len(todo) : todo[i].w = IF i = Len(todo) THEN "insert" ELSE "drop"
    /\ op = "transfer" => \A i \in 2..Len(todo) : todo[i].w = "room"

RequestInv(q, settled) ==
    /\ q = [op |-> q.op, b |-> q.b, todo |-> q.todo]
    /\ q = Idle \/ q.todo # <<>>
    /\ TodoInv(q.op, q.b, q.todo, settled)

\* The collections have the shapes of their schemas.
DocsInv ==
    /\ docs = [b \in Booking |-> docs[b]]
    /\ \A b \in Booking : docs[b] \in Docs \cup {Free, Gone}
    /\ fresh \subseteq Bookings
RoomsInv ==
    /\ rooms = [r \in Room |-> rooms[r]]
    /\ \A r \in Room :
         /\ rooms[r] = [status |-> rooms[r].status, active |-> rooms[r].active,
                        by |-> rooms[r].by]
         /\ rooms[r].status \in RoomStates
         /\ rooms[r].active \in BOOLEAN
CountersInv ==
    /\ rates \in [Categories -> Nat]
    /\ invoices \in [Booking -> {NoInvoice} \cup Bills]
    /\ rzp \in [Booking -> {"none", "open", "paid"}]
    /\ started \in 0..MaxRequests /\ faults \in 0..MaxFaults
    /\ IsHistory(hist)

\* Whoever counts as paid has paid.
PaidInv ==
    /\ \A b \in Booking : rzp[b] = "paid" => b \in Settled
    /\ PaidOnlyWhenCollected

RequestsInv ==
    /\ req = [a \in Actor |-> req[a]]
    /\ \A a \in Actor : RequestInv(req[a], Settled)
    /\ \A a \in Actor : req[a].op = "create" => a \in Guest

DataInv == DocsInv /\ RoomsInv /\ CountersInv /\ PaidInv /\ RequestsInv

----------------------------------------------------------------------------
\* Of two requests that seat someone at the same time, both are contended.
Rivalry ==
    \A a, o \in Actor :
        a # o /\ req[a].op \in Seating /\ req[o].op \in Seating
        => a \in hist.contended

\* The live bookings in the way of a create are those it still has to delete.
HoldInv(a) ==
    req[a].op = "create" /\ a \notin hist.contended =>
      \A c \in Bookings :
        LET n == Len(req[a].todo)
            w == req[a].todo[n]
        IN  Overlaps(c, w.room, w.nights) /\ Live(c) =>
              \E i \in 1..n : req[a].todo[i].w = "drop" /\ req[a].todo[i].b = c

\* The room a transfer is about to move its booking to is free for its nights.
TransferInv(a) ==
    req[a].op = "transfer" /\ a \notin hist.contended /\ req[a].b \in Bookings =>
      LET b == req[a].b
          w == req[a].todo[1]
      IN  /\ w.w = "target" => w.copy.nights = docs[b].nights
          /\ w.w = "save" /\ "room" \in DOMAIN w.set =>
               \A c \in Bookings \ {b} :
                 Overlaps(c, w.set.room, docs[b].nights) => docs[c].status \in Closed

SeatInv ==
    /\ Rivalry
    /\ \A a \in Actor : HoldInv(a) /\ TransferInv(a)
    /\ NoDoubleBooking

\* The inductive invariant.
IInv == DataInv /\ SeatInv

----------------------------------------------------------------------------
(* Sequences. *)

\* The head and the tail of a sequence.
LEMMA HeadAndTail ==
  ASSUME NEW s, IsSequence(s)
  PROVE  /\ Len(s) \in Nat
         /\ s # <<>> => /\ Len(s) \in Nat \ {0}
                        /\ Head(s) = s[1]
                        /\ IsSequence(Tail(s))
                        /\ Len(Tail(s)) = Len(s) - 1
                        /\ \A i \in 1..Len(Tail(s)) : Tail(s)[i] = s[i + 1]
<1>1. PICK S : s \in Seq(S)
  BY DEF IsSequence
<1>2. Len(s) \in Nat
  BY <1>1, LenProperties
<1>3. ASSUME s # <<>>
      PROVE  /\ Len(s) \in Nat \ {0}
             /\ IsSequence(Tail(s))
             /\ Len(Tail(s)) = Len(s) - 1
             /\ \A i \in 1..Len(Tail(s)) : Tail(s)[i] = s[i + 1]
  BY <1>1, <1>3, EmptySeq, HeadTailProperties DEF IsSequence
<1>4. s # <<>> => Head(s) = s[1]
  BY <1>1
<1>5. QED
  BY <1>2, <1>3, <1>4

\* Short tuples are sequences.
LEMMA Tuples ==
  ASSUME NEW x, NEW y, NEW z
  PROVE  /\ IsSequence(<<>>) /\ Len(<<>>) = 0
         /\ IsSequence(<<x>>) /\ Len(<<x>>) = 1 /\ <<x>>[1] = x
         /\ IsSequence(<<x, y>>) /\ Len(<<x, y>>) = 2
         /\ <<x, y>>[1] = x /\ <<x, y>>[2] = y
         /\ IsSequence(<<x, y, z>>) /\ Len(<<x, y, z>>) = 3
         /\ <<x, y, z>>[1] = x /\ <<x, y, z>>[2] = y /\ <<x, y, z>>[3] = z
<1> DEFINE S == {x, y, z}
<1>1. /\ <<>> \in Seq(S) /\ <<x>> \in Seq(S)
      /\ <<x, y>> \in Seq(S) /\ <<x, y, z>> \in Seq(S)
  OBVIOUS
<1>2. /\ IsSequence(<<>>) /\ IsSequence(<<x>>)
      /\ IsSequence(<<x, y>>) /\ IsSequence(<<x, y, z>>)
  BY <1>1 DEF IsSequence
<1>3. QED
  BY <1>2

\* A tuple and a pair after it.
LEMMA OneAndTwo ==
  ASSUME NEW x, NEW y, NEW z
  PROVE  <<x>> \o <<y, z>> = <<x, y, z>>
<1> DEFINE S == {x, y, z}
<1>1. <<x>> \in Seq(S) /\ <<y, z>> \in Seq(S) /\ <<x, y, z>> \in Seq(S)
  OBVIOUS
<1>2. /\ <<x>> \o <<y, z>> \in Seq(S)
      /\ Len(<<x>> \o <<y, z>>) = 3
      /\ \A i \in 1..3 : (<<x>> \o <<y, z>>)[i] = IF i <= 1 THEN <<x>>[i] ELSE <<y, z>>[i - 1]
  BY <1>1, ConcatProperties
<1>3. \A i \in 1..3 : (<<x>> \o <<y, z>>)[i] = <<x, y, z>>[i]
  BY <1>2
<1>4. QED
  BY <1>1, <1>2, <1>3, SeqEqual

----------------------------------------------------------------------------
(* Prices. *)

\* A percentage of a sum of money is a sum of money.
LEMMA PercentsAreNat ==
  ASSUME NEW n \in Nat, NEW p \in Nat
  PROVE  Percent(p, n) \in Nat
<1>1. 2 * p * n \in Nat
  OBVIOUS
<1>2. 2 * p * n + 100 \in Nat
  BY <1>1
<1>3. QED
  BY <1>2 DEF Percent

\* So is a sum of money with its taxes.
LEMMA TaxesAreNat ==
  ASSUME NEW n \in Nat
  PROVE  WithTaxes(n) \in Nat
<1>1. Percent(18, n) \in Nat /\ Percent(5, n) \in Nat
  BY PercentsAreNat
<1>2. QED
  BY <1>1 DEF WithTaxes

\* A stay has a number of nights.
LEMMA NightsAreNat ==
  ASSUME NEW n \in Stays
  PROVE  Cardinality(n) \in Nat
BY RoomBookingAssumption, FS_CardinalityType

\* Rates and differentials are sums of money.
LEMMA PricesAreNat ==
  ASSUME CountersInv, NEW r \in Room, NEW t \in Room, NEW n \in Stays
  PROVE  NightlyRate(r) \in Nat /\ Differential(r, t, n) \in Nat
<1>1. NightlyRate(r) \in Nat /\ NightlyRate(t) \in Nat
  BY DEF NightlyRate, CountersInv, Categories, Settled, IsHistory
<1>2. Cardinality(n) \in Nat
  BY NightsAreNat
<1> DEFINE d == NightlyRate(t) - NightlyRate(r)
           e == IF d < 0 THEN -d ELSE d
<1>3. e \in Nat
  BY <1>1
<1>4. e * Cardinality(n) \in Nat
  <2> HIDE DEF e
  <2> QED
    BY <1>2, <1>3
<1>5. Differential(r, t, n) = WithTaxes(e * Cardinality(n))
  BY DEF Differential
<1>6. QED
  BY <1>1, <1>4, <1>5, TaxesAreNat

\* What a booking costs when it is made: the discount is at most the base.
LEMMA BookedPrice ==
  ASSUME NEW rate \in Nat, NEW n \in Stays, NEW t \in [extra : Nat, off : Nat]
  PROVE  LET base == Base(rate, n, t.extra)
             off == Discount(t.off, base)
         IN  /\ base \in Nat /\ t.extra \in Nat
             /\ off \in Nat
             /\ WithTaxes(base) - off \in Nat
<1>1. Cardinality(n) \in Nat
  BY NightsAreNat
<1>2. rate * Cardinality(n) \in Nat
  BY <1>1
<1>3. t.extra \in Nat /\ t.off \in Nat
  OBVIOUS
<1> DEFINE base == Base(rate, n, t.extra)
<1>4. base \in Nat
  BY <1>2, <1>3 DEF Base
<1> HIDE DEF base
<1>5. /\ Percent(18, base) \in Nat /\ Percent(5, base) \in Nat
  BY <1>4, PercentsAreNat
<1>6. Discount(t.off, base) \in Nat /\ Discount(t.off, base) <= base
  BY <1>3, <1>4 DEF Discount
<1>7. WithTaxes(base) - Discount(t.off, base) \in Nat
  BY <1>4, <1>5, <1>6 DEF WithTaxes
<1>8. QED
  BY <1>3, <1>4, <1>6, <1>7 DEF base

\* A bill is a bill of money.
LEMMA BillShape ==
  ASSUME NEW d \in Docs, NEW extra \in Extras
  PROVE  Bill(d, extra) \in Bills
<1>1. extra \in [due : Nat, paid : Nat]
  BY RoomBookingAssumption
<1>2. d.total \in Nat
  BY DEF Docs
<1> DEFINE settled == IF d.paid = "PAID" THEN d.total ELSE 0
<1>3. settled \in Nat /\ d.total - settled \in Nat
  BY <1>2
<1>4. Bill(d, extra) = [stay |-> d.total, grand |-> d.total + extra.due + extra.paid,
                        paid |-> settled + extra.paid,
                        due |-> d.total - settled + extra.due]
  BY DEF Bill
<1> HIDE DEF settled
<1>5. QED
  BY <1>1, <1>2, <1>3, <1>4 DEF Bills

----------------------------------------------------------------------------
(* Saves. *)

\* A list of transfers that is left alone, or pushed to.
Grows(from, to) ==
    \/ to.transfers = from.transfers
    \/ \E r \in Refunds : to.transfers = Append(from.transfers, r)

\* A save writes exactly the fields that differ from the copy,
LEMMA SaveShape ==
  ASSUME NEW from \in Docs, NEW to \in Docs
  PROVE  /\ \A g : g \in DOMAIN Save(from, to).set <=>
                     /\ g \in {"room", "guest", "nights", "status", "paid", "pay",
                               "terms", "total", "pending"}
                     /\ from[g] # to[g]
         /\ \A g \in DOMAIN Save(from, to).set : Save(from, to).set[g] = to[g]
         /\ Save(from, to).w = "save"
<1>1. DOMAIN from = {"room", "guest", "nights", "status", "paid", "pay",
                     "terms", "total", "pending", "transfers"}
  BY DEF Docs
<1>2. QED
  BY <1>1 DEF Save

\* and pushes what the copy's transfers do not have.
LEMMA SavePush ==
  ASSUME NEW from \in Docs, NEW to \in Docs
  PROVE  /\ Save(from, to) = [w |-> "save", set |-> Save(from, to).set,
                              push |-> Save(from, to).push, settle |-> 0]
         /\ Grows(from, to) =>
              /\ Save(from, to).push \in Seq(Refunds)
              /\ Len(from.transfers) + Len(Save(from, to).push) = Len(to.transfers)
<1>1. from.transfers \in Seq(Refunds) /\ to.transfers \in Seq(Refunds)
  BY DEF Docs, Refunds
<1>2. Save(from, to).push = SubSeq(to.transfers, Len(from.transfers) + 1, Len(to.transfers))
  BY DEF Save
<1>3. PICK s : s = from.transfers
  OBVIOUS
<1>4. PICK t : t = to.transfers
  OBVIOUS
<1>5. ASSUME NEW n \in Nat, n <= Len(t)
      PROVE  /\ SubSeq(t, n + 1, Len(t)) \in Seq(Refunds)
             /\ Len(SubSeq(t, n + 1, Len(t))) = Len(t) - n
  <2>1. t \in Seq(Refunds) /\ Len(t) \in Nat
    BY <1>1, <1>4, LenProperties
  <2>2. /\ SubSeq(t, n + 1, Len(t)) \in Seq(Refunds)
        /\ Len(SubSeq(t, n + 1, Len(t))) =
             IF n + 1 <= Len(t) THEN Len(t) - (n + 1) + 1 ELSE 0
    BY <1>5, <2>1, SubSeqProperties
  <2>3. QED
    BY <1>5, <2>1, <2>2
<1>6. Len(s) \in Nat /\ Len(t) \in Nat
  BY <1>1, <1>3, <1>4, LenProperties
<1>7. Grows(from, to) => Len(s) <= Len(t)
  <2>1. ASSUME NEW r \in Refunds
        PROVE  Len(Append(s, r)) = Len(s) + 1
    BY <1>1, <1>3, AppendProperties
  <2>2. QED
    BY <1>3, <1>4, <1>6, <2>1 DEF Grows
<1>8. Grows(from, to) =>
        /\ Save(from, to).push \in Seq(Refunds)
        /\ Len(from.transfers) + Len(Save(from, to).push) = Len(to.transfers)
  <2>1. ASSUME Grows(from, to)
        PROVE  /\ SubSeq(t, Len(s) + 1, Len(t)) \in Seq(Refunds)
               /\ Len(SubSeq(t, Len(s) + 1, Len(t))) = Len(t) - Len(s)
    BY <1>5, <1>6, <1>7, <2>1
  <2>2. Save(from, to).push = SubSeq(t, Len(s) + 1, Len(t))
    BY <1>2, <1>3, <1>4
  <2>3. PICK p : p = SubSeq(t, Len(s) + 1, Len(t))
    OBVIOUS
  <2>4. Grows(from, to) => p \in Seq(Refunds) /\ Len(s) + Len(p) = Len(t)
    BY <1>6, <2>1, <2>3
  <2>5. QED
    BY <1>3, <1>4, <2>2, <2>3, <2>4
<1>9. QED
  BY <1>8 DEF Save

\* What an edit of a document may change, a save of it may write.
LEMMA PatchOfEdit ==
  ASSUME NEW from \in Docs, NEW to \in Docs, NEW op, NEW b, NEW settled,
         to.guest = from.guest, to.nights = from.nights, to.terms = from.terms,
         to.room # from.room => op \in {"transfer", "confirm"},
         to.status # from.status /\ op \notin Seating => to.status \in Closed,
         to.paid # from.paid /\ to.paid = "PAID" => b \in settled
  PROVE  /\ PatchInv(op, b, Save(from, to).set, settled)
         /\ "room" \in DOMAIN Save(from, to).set =>
              to.room # from.room /\ Save(from, to).set.room = to.room
<1> DEFINE set == Save(from, to).set
<1>1. /\ \A g : g \in DOMAIN set <=>
                  /\ g \in {"room", "guest", "nights", "status", "paid", "pay",
                            "terms", "total", "pending"}
                  /\ from[g] # to[g]
      /\ \A g \in DOMAIN set : set[g] = to[g]
  BY SaveShape
<1> HIDE DEF set
<1>2. /\ to.room \in Room /\ to.status \in Statuses
      /\ to.paid \in {"PENDING", "PAID"} /\ to.pay \in {"PENDING", "PAID", "FAILED"}
      /\ to.total \in Nat /\ to.pending \in {NoMove} \cup Moves
  BY DEF Docs
<1>3. DOMAIN set \subseteq {"room", "status", "paid", "pay", "total", "pending"}
  BY <1>1
<1>4. "room" \in DOMAIN set =>
        /\ op \in {"transfer", "confirm"} /\ set.room \in Room
        /\ to.room # from.room /\ set.room = to.room
  BY <1>1, <1>2
<1>5. /\ "status" \in DOMAIN set => set.status \in Statuses
      /\ "status" \in DOMAIN set /\ op \notin Seating => set.status \in Closed
  BY <1>1, <1>2
<1>6. /\ "paid" \in DOMAIN set => set.paid \in {"PENDING", "PAID"}
      /\ "paid" \in DOMAIN set /\ set.paid = "PAID" => b \in settled
  BY <1>1, <1>2
<1>7. /\ "pay" \in DOMAIN set => set.pay \in {"PENDING", "PAID", "FAILED"}
      /\ "total" \in DOMAIN set => set.total \in Nat
      /\ "pending" \in DOMAIN set => set.pending \in {NoMove} \cup Moves
  BY <1>1, <1>2
<1>8. PatchInv(op, b, set, settled)
  BY <1>3, <1>4, <1>5, <1>6, <1>7 DEF PatchInv
<1>9. QED
  BY <1>4, <1>8 DEF set

\* A save leaves a document, of the same guest and nights.
LEMMA SavedIsADoc ==
  ASSUME NEW d \in Docs, NEW w, NEW op, NEW b, NEW settled,
         PatchInv(op, b, w.set, settled), w.push \in Seq(Refunds)
  PROVE  /\ Saved(d, w) \in Docs
         /\ Saved(d, w).guest = d.guest /\ Saved(d, w).nights = d.nights
         /\ Saved(d, w).terms = d.terms
         /\ Len(Saved(d, w).transfers) = Len(d.transfers) + Len(w.push)
         /\ Saved(d, w).room = IF "room" \in DOMAIN w.set THEN w.set.room ELSE d.room
         /\ Saved(d, w).status = IF "status" \in DOMAIN w.set THEN w.set.status
                                 ELSE d.status
         /\ Saved(d, w).paid = IF "paid" \in DOMAIN w.set THEN w.set.paid ELSE d.paid
         /\ Saved(d, w).total = IF "total" \in DOMAIN w.set THEN w.set.total ELSE d.total
         /\ Saved(d, w).pending = IF "pending" \in DOMAIN w.set THEN w.set.pending
                                  ELSE d.pending
<1> DEFINE marked == [i \in 1..Len(d.transfers) |->
                        IF i = w.settle THEN "PROCESSED" ELSE d.transfers[i]]
           transfers == marked \o w.push
           new(f, old) == IF f \in DOMAIN w.set THEN w.set[f] ELSE old
<1>1. d = [room |-> d.room, guest |-> d.guest, nights |-> d.nights,
           status |-> d.status, paid |-> d.paid, pay |-> d.pay,
           terms |-> d.terms, total |-> d.total, pending |-> d.pending,
           transfers |-> d.transfers]
  BY DEF Docs
<1>2. /\ d.transfers \in Seq(Refunds)
      /\ d.room \in Room /\ d.guest \in Guest /\ d.nights \in Stays
      /\ d.status \in Statuses /\ d.paid \in {"PENDING", "PAID"}
      /\ d.pay \in {"PENDING", "PAID", "FAILED"} /\ d.total \in Nat
      /\ d.terms \in [extra : Nat, off : Nat] /\ d.pending \in {NoMove} \cup Moves
  BY DEF Docs, Refunds
<1>3. transfers \in Seq(Refunds) /\ Len(transfers) = Len(d.transfers) + Len(w.push)
  <2>1. marked \in Seq(Refunds) /\ Len(marked) = Len(d.transfers)
    BY <1>2 DEF Refunds
  <2> HIDE DEF marked
  <2>2. PICK p \in Seq(Refunds) : p = w.push
    OBVIOUS
  <2>3. marked \o p \in Seq(Refunds) /\ Len(marked \o p) = Len(marked) + Len(p)
    BY <2>1, ConcatProperties
  <2>4. QED
    BY <2>1, <2>2, <2>3
<1> HIDE DEF transfers
<1>4. /\ DOMAIN w.set \subseteq {"room", "status", "paid", "pay", "total", "pending"}
      /\ new("room", d.room) \in Room
      /\ new("status", d.status) \in Statuses
      /\ new("paid", d.paid) \in {"PENDING", "PAID"}
      /\ new("pay", d.pay) \in {"PENDING", "PAID", "FAILED"}
      /\ new("total", d.total) \in Nat
      /\ new("pending", d.pending) \in {NoMove} \cup Moves
  BY <1>2 DEF PatchInv
<1>5. Saved(d, w) = [room |-> new("room", d.room), guest |-> d.guest, nights |-> d.nights,
                     status |-> new("status", d.status), paid |-> new("paid", d.paid),
                     pay |-> new("pay", d.pay), terms |-> d.terms,
                     total |-> new("total", d.total),
                     pending |-> new("pending", d.pending), transfers |-> transfers]
  <2> DEFINE F == {"room", "guest", "nights", "status", "paid", "pay", "terms",
                   "total", "pending", "transfers"}
             old == [f \in F |-> IF f = "transfers" THEN transfers ELSE d[f]]
  <2>1. DOMAIN d = F
    BY <1>1
  <2>2. DOMAIN w.set \subseteq F \ {"guest", "nights", "terms", "transfers"}
    BY <1>4
  <2>3. Saved(d, w) = [f \in F |-> new(f, old[f])]
    BY <2>1, <2>2 DEF Saved, transfers
  <2>4. /\ new("guest", old["guest"]) = d.guest
        /\ new("nights", old["nights"]) = d.nights
        /\ new("terms", old["terms"]) = d.terms
        /\ new("transfers", old["transfers"]) = transfers
    BY <2>2
  <2>5. /\ old["room"] = d.room /\ old["status"] = d.status /\ old["paid"] = d.paid
        /\ old["pay"] = d.pay /\ old["total"] = d.total /\ old["pending"] = d.pending
    OBVIOUS
  <2> HIDE DEF new, old
  <2>6. QED
    BY <2>3, <2>4, <2>5
<1> HIDE DEF new
<1>6. Saved(d, w) \in Docs
  BY <1>2, <1>3, <1>4, <1>5 DEF Docs, Refunds
<1>7. Len(Saved(d, w).transfers) = Len(d.transfers) + Len(w.push)
  <2>1. Saved(d, w).transfers = transfers
    BY <1>5
  <2>2. QED
    BY <1>3, <2>1
<1>8. /\ Saved(d, w) \in Docs
      /\ Saved(d, w).guest = d.guest /\ Saved(d, w).nights = d.nights
      /\ Saved(d, w).terms = d.terms
      /\ Saved(d, w).room = new("room", d.room)
      /\ Saved(d, w).status = new("status", d.status)
      /\ Saved(d, w).paid = new("paid", d.paid)
      /\ Saved(d, w).total = new("total", d.total)
      /\ Saved(d, w).pending = new("pending", d.pending)
  BY <1>5, <1>6
<1>9. QED
  BY <1>7, <1>8 DEF new

----------------------------------------------------------------------------
(* Requests. *)

\* What may be saved once somebody paid may be saved when more people did.
LEMMA WritesStayAllowed ==
  ASSUME NEW op, NEW b, NEW todo, NEW c, NEW d, c \subseteq d, TodoInv(op, b, todo, c)
  PROVE  TodoInv(op, b, todo, d)
<1>1. ASSUME NEW w, WriteInv(op, b, w, c)
      PROVE  WriteInv(op, b, w, d)
  <2>1. PatchInv(op, b, w.set, c) => PatchInv(op, b, w.set, d)
    BY DEF PatchInv
  <2>2. QED
    BY <1>1, <2>1 DEF WriteInv
<1>2. QED
  BY <1>1 DEF TodoInv

\* A request keeps its invariant when more people have paid.
LEMMA RequestStays ==
  ASSUME NEW q, NEW c, NEW d, c \subseteq d, RequestInv(q, c)
  PROVE  RequestInv(q, d)
BY WritesStayAllowed DEF RequestInv

\* Nothing is left to do.
LEMMA NothingToDo ==
  ASSUME NEW op, NEW b, NEW c
  PROVE  TodoInv(op, b, <<>>, c) /\ RequestInv(Idle, c)
<1>1. IsSequence(<<>>) /\ Len(<<>>) = 0
  BY Tuples
<1>2. \A o, d : TodoInv(o, d, <<>>, c)
  BY <1>1 DEF TodoInv
<1>3. QED
  BY <1>2 DEF RequestInv, Idle

\* A request that begins, or that ends because there is nothing to write.
LEMMA NewRequest ==
  ASSUME NEW op, NEW b, NEW todo, NEW c, NEW q, TodoInv(op, b, todo, c),
         q = IF todo = <<>> THEN Idle ELSE [op |-> op, b |-> b, todo |-> todo]
  PROVE  RequestInv(q, c)
<1>1. CASE todo = <<>>
  BY <1>1, NothingToDo
<1>2. CASE todo # <<>>
  <2>1. q = [op |-> op, b |-> b, todo |-> todo]
    BY <1>2
  <2>2. q.op = op /\ q.b = b /\ q.todo = todo
    BY <2>1
  <2>3. QED
    BY <1>2, <2>1, <2>2 DEF RequestInv
<1>3. QED
  BY <1>1, <1>2

\* A request that goes on with other writes.
LEMMA RequestGoesOn ==
  ASSUME NEW r, NEW more, NEW c, NEW q, RequestInv(r, c), TodoInv(r.op, r.b, more, c),
         q = IF more = <<>> THEN Idle ELSE [r EXCEPT !.todo = more]
  PROVE  /\ RequestInv(q, c)
         /\ q # Idle => q.op = r.op /\ q.b = r.b /\ q.todo = more
<1>1. r = [op |-> r.op, b |-> r.b, todo |-> r.todo]
  BY DEF RequestInv
<1>2. q = IF more = <<>> THEN Idle ELSE [op |-> r.op, b |-> r.b, todo |-> more]
  BY <1>1
<1>3. RequestInv(q, c)
  BY <1>2, NewRequest
<1>4. QED
  BY <1>2, <1>3

\* A request that has written the head of its list.
LEMMA TailIsAllowed ==
  ASSUME NEW r, NEW c, RequestInv(r, c), r # Idle
  PROVE  /\ TodoInv(r.op, r.b, Tail(r.todo), c)
         /\ WriteInv(r.op, r.b, Head(r.todo), c)
         /\ Len(r.todo) \in Nat \ {0}
         /\ Head(r.todo) = r.todo[1]
         /\ Len(Tail(r.todo)) = Len(r.todo) - 1
         /\ \A i \in 1..Len(Tail(r.todo)) : Tail(r.todo)[i] = r.todo[i + 1]
<1>1. r.todo # <<>> /\ TodoInv(r.op, r.b, r.todo, c)
  BY DEF RequestInv
<1> DEFINE s == r.todo
           t == Tail(r.todo)
<1>2. /\ Len(s) \in Nat \ {0} /\ Head(s) = s[1] /\ IsSequence(t) /\ Len(t) = Len(s) - 1
      /\ \A i \in 1..Len(t) : t[i] = s[i + 1]
  BY <1>1, HeadAndTail DEF TodoInv
<1>3. /\ \A i \in 1..Len(s) : WriteInv(r.op, r.b, s[i], c)
      /\ r.op = "create" =>
           \A i \in 1..Len(s) : s[i].w = IF i = Len(s) THEN "insert" ELSE "drop"
      /\ r.op = "transfer" => \A i \in 2..Len(s) : s[i].w = "room"
  BY <1>1 DEF TodoInv
<1> HIDE DEF s, t
<1>4. \A i \in 1..Len(t) : i + 1 \in 2..Len(s) /\ i + 1 \in 1..Len(s)
  BY <1>2
<1>5. /\ \A i \in 1..Len(t) : WriteInv(r.op, r.b, t[i], c)
      /\ r.op = "transfer" => \A i \in 2..Len(t) : t[i].w = "room"
  BY <1>2, <1>3, <1>4
<1>6. r.op = "create" =>
        \A i \in 1..Len(t) : t[i].w = IF i = Len(t) THEN "insert" ELSE "drop"
  BY <1>2, <1>3, <1>4
<1>7. TodoInv(r.op, r.b, t, c)
  BY <1>2, <1>5, <1>6 DEF TodoInv
<1>8. 1 \in 1..Len(s)
  BY <1>2
<1>9. WriteInv(r.op, r.b, Head(s), c)
  BY <1>2, <1>3, <1>8
<1>10. QED
  BY <1>2, <1>7, <1>9 DEF s, t

----------------------------------------------------------------------------
(* Steps and the shapes. *)

\* One request changes, the others stay, and nobody's payment is forgotten.
LEMMA OneRequestChanges ==
  ASSUME RequestsInv, NEW a \in Actor, NEW q, req' = [req EXCEPT ![a] = q],
         RequestInv(q, Settled'), q.op = "create" => a \in Guest,
         Settled \subseteq Settled'
  PROVE  /\ RequestsInv'
         /\ req'[a] = q
         /\ \A o \in Actor : o # a => req'[o] = req[o]
<1>1. /\ req' = [o \in Actor |-> req'[o]]
      /\ req'[a] = q
      /\ \A o \in Actor : o # a => req'[o] = req[o]
  BY DEF RequestsInv
<1>2. \A o \in Actor : RequestInv(req'[o], Settled')
  BY <1>1, RequestStays DEF RequestsInv
<1>3. \A o \in Actor : req'[o].op = "create" => o \in Guest
  BY <1>1 DEF RequestsInv
<1>4. QED
  BY <1>1, <1>2, <1>3 DEF RequestsInv

\* A request that begins keeps who is settled; a verification settles its booking.
LEMMA BeginSettles ==
  ASSUME CountersInv, NEW a, NEW op, NEW b, NEW todo, Begin(a, op, b, todo)
  PROVE  /\ IsHistory(hist')
         /\ Settled \subseteq Settled'
         /\ op = "verify" /\ rzp[b] # "paid" => b \in Settled'
         /\ op = "collect" => b \in Settled'
<1> DEFINE H(c, d, e, f) ==
             [hist EXCEPT !.crossed = c, !.contended = d, !.collected = e, !.borrowed = f]
<1>1. PICK c, d, e, f :
        /\ hist' = H(c, d, e, f)
        /\ e = IF op = "collect" THEN hist.collected \cup {b} ELSE hist.collected
        /\ f = IF op = "verify" /\ rzp[b] # "paid" THEN hist.borrowed \cup {b}
               ELSE hist.borrowed
  BY DEF Begin
<1>2. IsHistory(hist') /\ hist'.collected = e /\ hist'.borrowed = f
  BY <1>1 DEF CountersInv, IsHistory
<1>3. QED
  BY <1>1, <1>2 DEF Settled

\* What a request does to the other collections when it begins: nothing.
LEMMA BeginStep ==
  ASSUME DataInv, NEW a \in Actor, NEW op, NEW b, NEW todo, Begin(a, op, b, todo),
         TodoInv(op, b, todo, Settled'), op = "create" => a \in Guest,
         rzp' \in [Booking -> {"none", "open", "paid"}],
         \A c \in Booking : rzp'[c] = "paid" => rzp[c] = "paid"
  PROVE  /\ DataInv'
         /\ req[a] = Idle
         /\ req'[a] = IF todo = <<>> THEN Idle ELSE [op |-> op, b |-> b, todo |-> todo]
         /\ \A o \in Actor : o # a => req'[o] = req[o]
<1> DEFINE q == IF todo = <<>> THEN Idle ELSE [op |-> op, b |-> b, todo |-> todo]
<1>1. RequestInv(q, Settled')
  <2> HIDE DEF q
  <2> QED
    BY NewRequest DEF q
<1>2. q.op = "create" => a \in Guest
  BY DEF Idle
<1>3. req[a] = Idle /\ req' = [req EXCEPT ![a] = q]
  BY DEF Begin
<1> HIDE DEF q
<1>4. /\ IsHistory(hist')
      /\ Settled \subseteq Settled'
  BY DEF Begin, DataInv, CountersInv, Settled, IsHistory
<1>5. started' \in 0..MaxRequests
  BY RoomBookingAssumption DEF Begin, DataInv, CountersInv, Settled, IsHistory
<1>6. UNCHANGED <<docs, fresh, rooms, rates, invoices, faults>>
  BY DEF Begin
<1>7. /\ RequestsInv'
      /\ req'[a] = q
      /\ \A o \in Actor : o # a => req'[o] = req[o]
  BY <1>1, <1>2, <1>3, <1>4, OneRequestChanges DEF DataInv
<1>8. DocsInv' /\ RoomsInv'
  BY <1>6 DEF DataInv, DocsInv, RoomsInv, Bookings, Exists
<1>9. CountersInv'
  BY <1>4, <1>5, <1>6 DEF DataInv, CountersInv, Settled, IsHistory
<1>10. PaidInv'
  BY <1>4, <1>6 DEF DataInv, PaidInv, PaidOnlyWhenCollected, Bookings, Exists,
                    Settled, IsHistory
<1>11. QED
  BY <1>3, <1>7, <1>8, <1>9, <1>10 DEF DataInv, q

----------------------------------------------------------------------------
(* Requests that begin. *)

\* What a request that begins has to know: HoldInv and TransferInv, of writes
\* it has not put on its list yet.
Holds(todo) ==
    \A c \in Bookings :
      LET n == Len(todo)
      IN  Overlaps(c, todo[n].room, todo[n].nights) /\ Live(c) =>
            \E i \in 1..n : todo[i].w = "drop" /\ todo[i].b = c
Looks(b, todo) == todo[1].w = "target" /\ todo[1].copy.nights = docs[b].nights

\* The bookings, the hold on them and the marks on them are all NoDoubleBooking
\* is about.
LEMMA NothingSeated ==
  ASSUME NoDoubleBooking, docs' = docs, fresh' = fresh,
         hist'.raced = hist.raced, hist'.unchecked = hist.unchecked
  PROVE  NoDoubleBooking'
BY DEF NoDoubleBooking, Bookings, Exists, Live, Overlaps

\* The knowledge of a request that does nothing, while no booking changes.
LEMMA KnowledgeStays ==
  ASSUME NEW o, req'[o] = req[o], docs' = docs, fresh' = fresh,
         o \in hist.contended => o \in hist'.contended,
         HoldInv(o), TransferInv(o)
  PROVE  HoldInv(o)' /\ TransferInv(o)'
<1>1. HoldInv(o)'
  BY DEF HoldInv, Bookings, Exists, Live, Overlaps
<1>2. TransferInv(o)'
  BY DEF TransferInv, Bookings, Exists, Overlaps
<1>3. QED
  BY <1>1, <1>2

\* A request that begins makes itself and those it meets contended.
LEMMA BeginSeats ==
  ASSUME IInv, NEW a \in Actor, NEW op, NEW b, NEW todo, Begin(a, op, b, todo),
         req'[a] = IF todo = <<>> THEN Idle ELSE [op |-> op, b |-> b, todo |-> todo],
         \A o \in Actor : o # a => req'[o] = req[o],
         op = "create" => Holds(todo),
         op = "transfer" => Looks(b, todo)
  PROVE  SeatInv'
<1>1. /\ docs' = docs /\ fresh' = fresh
      /\ hist'.raced = hist.raced /\ hist'.unchecked = hist.unchecked
      /\ hist'.contended = Joined(hist.contended, a, Contenders(a, op))
  BY DEF Begin, IInv, DataInv, CountersInv, Settled, IsHistory
<1>2. \A o \in Actor \ {a} : o \in hist.contended => o \in hist'.contended
  BY <1>1 DEF Joined
<1>3. \/ req'[a] = Idle
      \/ req'[a].op = op /\ req'[a].b = b /\ req'[a].todo = todo
  OBVIOUS
<1>4. Idle.op = "idle"
  BY DEF Idle
<1>5. \A o \in Actor : Rivalry /\ HoldInv(o) /\ TransferInv(o) /\ NoDoubleBooking
  BY DEF IInv, SeatInv
<1>6. Rivalry'
  <2> SUFFICES ASSUME NEW x \in Actor, NEW y \in Actor, x # y,
                      req'[x].op \in Seating, req'[y].op \in Seating
               PROVE  x \in hist'.contended
    BY DEF Rivalry, Seating
  <2>1. CASE x = a
    <3>1. y \in Contenders(a, op)
      BY <1>3, <1>4, <2>1 DEF Contenders, Seating
    <3>2. QED
      BY <1>1, <2>1, <3>1 DEF Joined
  <2>2. CASE y = a
    <3>1. x \in Contenders(a, op)
      BY <1>3, <1>4, <2>2 DEF Contenders, Seating
    <3>2. QED
      BY <1>1, <2>2, <3>1 DEF Joined
  <2>3. CASE x # a /\ y # a
    BY <1>2, <1>5, <2>3 DEF Rivalry
  <2>4. QED
    BY <2>1, <2>2, <2>3
<1>7. \A o \in Actor \ {a} : HoldInv(o)' /\ TransferInv(o)'
  BY <1>1, <1>2, <1>5, KnowledgeStays
<1>8. HoldInv(a)'
  BY <1>1, <1>3, <1>4 DEF HoldInv, Holds, Bookings, Exists, Live, Overlaps
<1>9. TransferInv(a)'
  BY <1>1, <1>3, <1>4 DEF TransferInv, Looks
<1>10. NoDoubleBooking'
  BY <1>1, <1>5, NothingSeated
<1>11. QED
  BY <1>6, <1>7, <1>8, <1>9, <1>10 DEF SeatInv

\* A request that begins keeps the invariant.
LEMMA BeginKeeps ==
  ASSUME IInv, NEW a \in Actor, NEW op, NEW b, NEW todo, Begin(a, op, b, todo),
         TodoInv(op, b, todo, Settled'),
         op = "create" => a \in Guest /\ Holds(todo),
         op = "transfer" => Looks(b, todo),
         rzp' \in [Booking -> {"none", "open", "paid"}],
         \A c \in Booking : rzp'[c] = "paid" => rzp[c] = "paid"
  PROVE  IInv'
<1>1. DataInv
  BY DEF IInv
<1>2. /\ DataInv'
      /\ req'[a] = IF todo = <<>> THEN Idle ELSE [op |-> op, b |-> b, todo |-> todo]
      /\ \A o \in Actor : o # a => req'[o] = req[o]
  BY <1>1, BeginStep
<1>3. SeatInv'
  BY <1>2, BeginSeats
<1>4. QED
  BY <1>2, <1>3 DEF IInv

\* The same, when the gateway is not asked.
LEMMA AloneKeeps ==
  ASSUME IInv, NEW a \in Actor, NEW op, NEW b, NEW todo, Alone(a, op, b, todo),
         TodoInv(op, b, todo, Settled'),
         op = "create" => a \in Guest /\ Holds(todo),
         op = "transfer" => Looks(b, todo)
  PROVE  IInv'
<1>1. Begin(a, op, b, todo) /\ rzp' = rzp
  BY DEF Alone
<1>2. rzp \in [Booking -> {"none", "open", "paid"}]
  BY DEF IInv, DataInv, CountersInv, Settled, IsHistory
<1>3. QED
  BY <1>1, <1>2, BeginKeeps

----------------------------------------------------------------------------
(* Each request. *)

\* Writes on rooms are always allowed.
LEMMA RoomWrite ==
  ASSUME NEW r \in Room, NEW s \in RoomStates, NEW op, NEW b, NEW c
  PROVE  WriteInv(op, b, SetRoom(r, s), c) /\ SetRoom(r, s).w = "room"
BY DEF WriteInv, SetRoom

\* The save of an edit, with or without a refund settled.
LEMMA SaveWrite ==
  ASSUME NEW from \in Docs, NEW to \in Docs, NEW op, NEW b \in Booking, NEW c,
         to.guest = from.guest, to.nights = from.nights, to.terms = from.terms,
         Grows(from, to),
         to.room # from.room => op \in {"transfer", "confirm"},
         to.status # from.status /\ op \notin Seating => to.status \in Closed,
         to.paid # from.paid /\ to.paid = "PAID" => b \in c
  PROVE  /\ WriteInv(op, b, Save(from, to), c)
         /\ \A i \in Nat : WriteInv(op, b, [Save(from, to) EXCEPT !.settle = i], c)
<1> DEFINE set == Save(from, to).set
           push == Save(from, to).push
<1>1. PatchInv(op, b, set, c)
  BY PatchOfEdit
<1>2. /\ Save(from, to) = [w |-> "save", set |-> set, push |-> push, settle |-> 0]
      /\ push \in Seq(Refunds)
  BY SavePush
<1> HIDE DEF set, push
<1>3. ASSUME NEW i
      PROVE  WriteInv(op, b, [w |-> "save", set |-> set, push |-> push, settle |-> i], c)
  BY <1>1, <1>2 DEF WriteInv
<1>4. \A i : [Save(from, to) EXCEPT !.settle = i] =
              [w |-> "save", set |-> set, push |-> push, settle |-> i]
  BY <1>2
<1>5. QED
  BY <1>2, <1>3, <1>4

\* A list of one, two or three writes is allowed if they are.
LEMMA ListsOfWrites ==
  ASSUME NEW op, NEW b, NEW c, NEW x, NEW y, NEW z, op # "create"
  PROVE  /\ WriteInv(op, b, x, c) => TodoInv(op, b, <<x>>, c)
         /\ /\ WriteInv(op, b, x, c) /\ WriteInv(op, b, y, c)
            /\ op = "transfer" => y.w = "room"
            => TodoInv(op, b, <<x, y>>, c)
         /\ /\ WriteInv(op, b, x, c) /\ WriteInv(op, b, y, c) /\ WriteInv(op, b, z, c)
            /\ op = "transfer" => y.w = "room" /\ z.w = "room"
            => TodoInv(op, b, <<x, y, z>>, c)
<1>1. /\ 1..1 = {1} /\ 1..2 = {1, 2} /\ 1..3 = {1, 2, 3}
      /\ 2..1 = {} /\ 2..2 = {2} /\ 2..3 = {2, 3}
  OBVIOUS
<1> DEFINE r == <<x>>
           s == <<x, y>>
           t == <<x, y, z>>
<1>2. /\ IsSequence(r) /\ Len(r) = 1 /\ r[1] = x
      /\ IsSequence(s) /\ Len(s) = 2 /\ s[1] = x /\ s[2] = y
      /\ IsSequence(t) /\ Len(t) = 3 /\ t[1] = x /\ t[2] = y /\ t[3] = z
  BY Tuples
<1> HIDE DEF r, s, t
<1>3. WriteInv(op, b, x, c) => TodoInv(op, b, r, c)
  BY <1>1, <1>2 DEF TodoInv
<1>4. /\ WriteInv(op, b, x, c) /\ WriteInv(op, b, y, c)
      /\ op = "transfer" => y.w = "room"
      => TodoInv(op, b, s, c)
  BY <1>1, <1>2 DEF TodoInv
<1>5. /\ WriteInv(op, b, x, c) /\ WriteInv(op, b, y, c) /\ WriteInv(op, b, z, c)
      /\ op = "transfer" => y.w = "room" /\ z.w = "room"
      => TodoInv(op, b, t, c)
  BY <1>1, <1>2 DEF TodoInv
<1>6. QED
  BY <1>3, <1>4, <1>5 DEF r, s, t

\* A booking that exists is a document.
LEMMA ExistingIsADoc ==
  ASSUME IInv, NEW b \in Booking, Exists(b)
  PROVE  docs[b] \in Docs /\ b \in Bookings
BY DEF IInv, DataInv, DocsInv, Exists, Bookings

\* A list of as many different members of a finite set as it has lists them all.
LEMMA ListsThemAll ==
  ASSUME NEW S, IsFiniteSet(S), NEW f \in [1..Cardinality(S) -> S],
         \A i, j \in DOMAIN f : f[i] = f[j] => i = j
  PROVE  /\ Cardinality(S) \in Nat
         /\ \A x \in S : \E i \in 1..Cardinality(S) : f[i] = x
<1> DEFINE n == Cardinality(S)
<1>1. n \in Nat
  BY FS_CardinalityType
<1>2. IsFiniteSet(1..n) /\ Cardinality(1..n) = n
  BY <1>1, FS_Interval
<1>3. f \in Injection(1..n, S)
  BY DEF Injection, IsInjective
<1>4. f \in Surjection(1..n, S)
  BY <1>2, <1>3, FS_Injection
<1>5. QED
  BY <1>1, <1>4 DEF Surjection

\* createRoomBooking: what it found in its way is what it deletes first.
LEMMA CreateKeeps ==
  ASSUME IInv, NEW a \in Guest, NEW r \in Room, NEW nights \in Stays,
         NEW status \in {"PENDING", "CONFIRMED"},
         NEW terms \in Terms, CreateRoomBooking(a, r, nights, status, terms)
  PROVE  IInv'
<1> DEFINE found == Conflicts(r, nights)
           own == {b \in found : docs[b].status = "PENDING" /\ docs[b].guest = a}
           k == Cardinality(own)
<1>1. PICK drops \in [1..k -> own] :
        /\ \A i, j \in DOMAIN drops : drops[i] = drops[j] => i = j
        /\ LET deletes == [i \in DOMAIN drops |-> Drop(drops[i])]
           IN  IF own = found
               THEN Alone(a, "create", NoBooking,
                          deletes \o <<Insert(r, nights, status, terms)>>)
               ELSE \E n \in 0..Len(deletes) :
                      Alone(a, "refused", NoBooking, SubSeq(deletes, 1, n))
  BY DEF CreateRoomBooking
<1> DEFINE deletes == [i \in 1..k |-> Drop(drops[i])]
           insert == Insert(r, nights, status, terms)
           D == {Drop(b) : b \in Booking}
<1>2. a \in Actor
  BY DEF Actor
<1>3. own \subseteq Booking /\ IsFiniteSet(own)
  <2>1. own \in SUBSET Booking
    BY DEF Conflicts, Bookings
  <2>2. QED
    BY <2>1, RoomBookingAssumption, FS_Subset
<1> HIDE DEF own
<1>4. k \in Nat /\ \A c \in own : \E i \in 1..k : drops[i] = c
  BY <1>1, <1>3, ListsThemAll
<1>5. deletes = [i \in DOMAIN drops |-> Drop(drops[i])]
  OBVIOUS
<1> HIDE DEF k
<1>6. /\ deletes \in Seq(D) /\ Len(deletes) = k
      /\ \A i \in 1..k : deletes[i].w = "drop" /\ deletes[i].b = drops[i]
      /\ \A i \in 1..k : deletes[i].b \in Booking
  BY <1>3, <1>4 DEF Drop
<1> HIDE DEF deletes
<1>7. ASSUME own = found, Alone(a, "create", NoBooking, deletes \o <<insert>>)
      PROVE  IInv'
  <2> DEFINE todo == deletes \o <<insert>>
             T == D \cup {insert}
  <2>1. deletes \in Seq(T) /\ <<insert>> \in Seq(T) /\ Len(<<insert>>) = 1
    <3>1. D \subseteq T
      OBVIOUS
    <3> HIDE DEF D, insert
    <3>2. QED
      BY <1>6, <3>1, SeqMonotonic
  <2> HIDE DEF T
  <2>2. /\ todo \in Seq(T) /\ Len(todo) = k + 1
        /\ \A i \in 1..k + 1 : todo[i] = IF i <= k THEN deletes[i] ELSE <<insert>>[i - k]
    BY <1>6, <2>1, ConcatProperties
  <2>3. /\ \A i \in 1..k : todo[i] = deletes[i]
        /\ todo[k + 1] = insert
    BY <1>4, <2>2
  <2> HIDE DEF todo
  <2>4. /\ insert.w = "insert" /\ insert.room = r /\ insert.nights = nights
        /\ insert.status = status
        /\ insert.rate \in Nat /\ insert.terms \in [extra : Nat, off : Nat]
    BY PricesAreNat, RoomBookingAssumption DEF Insert, IInv, DataInv
  <2> HIDE DEF insert
  <2>5. \A c : TodoInv("create", NoBooking, todo, c)
    <3>1. \A i \in 1..k + 1 : i \in 1..k \/ i = k + 1
      BY <1>4
    <3>2. \A c : \A i \in 1..k + 1 : WriteInv("create", NoBooking, todo[i], c)
      BY <1>6, <2>3, <2>4, <3>1 DEF WriteInv
    <3>3. \A i \in 1..k + 1 : todo[i].w = IF i = k + 1 THEN "insert" ELSE "drop"
      BY <1>4, <1>6, <2>3, <2>4, <3>1
    <3>4. QED
      BY <2>2, <3>2, <3>3 DEF TodoInv, IsSequence
  <2>6. Holds(todo)
    <3> SUFFICES ASSUME NEW c \in Bookings, Overlaps(c, r, nights), Live(c)
                 PROVE  \E i \in 1..k + 1 : todo[i].w = "drop" /\ todo[i].b = c
      BY <2>2, <2>3, <2>4 DEF Holds
    <3>1. c \in own
      BY <1>7 DEF Conflicts
    <3>2. PICK i \in 1..k : drops[i] = c
      BY <1>4, <3>1
    <3>3. i \in 1..k + 1 /\ todo[i].w = "drop" /\ todo[i].b = c
      BY <1>4, <1>6, <2>3, <3>2
    <3>4. QED
      BY <3>3
  <2>7. QED
    BY <1>2, <1>7, <2>5, <2>6, AloneKeeps DEF todo
<1>8. ASSUME NEW n \in 0..Len(deletes),
             Alone(a, "refused", NoBooking, SubSeq(deletes, 1, n))
      PROVE  IInv'
  <2> DEFINE todo == SubSeq(deletes, 1, n)
  <2>1. /\ todo \in Seq(D) /\ Len(todo) = n
        /\ \A i \in 1..n : todo[i] = deletes[i]
    <3>1. \A i \in 1..n : deletes[i] \in D
      BY <1>4, <1>6, <1>8, ElementOfSeq
    <3>2. /\ SubSeq(deletes, 1, n) \in Seq(D)
          /\ Len(SubSeq(deletes, 1, n)) = IF 1 <= n THEN n - 1 + 1 ELSE 0
          /\ \A i \in 1..n - 1 + 1 : SubSeq(deletes, 1, n)[i] = deletes[1 + i - 1]
      BY <3>1, SubSeqProperties
    <3>3. n \in Nat
      BY <1>4, <1>6, <1>8
    <3>4. QED
      BY <3>2, <3>3
  <2> HIDE DEF todo
  <2>2. \A i \in 1..n : todo[i].w = "drop" /\ todo[i].b \in Booking
    <3>1. \A i \in 1..n : i \in 1..k
      BY <1>4, <1>6, <1>8
    <3>2. QED
      BY <1>6, <2>1, <3>1
  <2>3. \A c : TodoInv("refused", NoBooking, todo, c)
    BY <2>1, <2>2 DEF TodoInv, IsSequence, WriteInv
  <2>4. QED
    BY <1>2, <1>8, <2>3, AloneKeeps DEF todo
<1>9. QED
  BY <1>1, <1>5, <1>7, <1>8

\* createBookingRazorpayOrder, verifyBookingPayment and a wrong signature.
LEMMA PaymentKeeps ==
  ASSUME IInv, NEW a \in Actor, NEW b \in Booking,
         \/ CreateBookingRazorpayOrder(a, b)
         \/ VerifyBookingPayment(a, b)
         \/ VerifyWrongSignature(a, b)
  PROVE  IInv'
<1> DEFINE d == docs[b]
<1>1. d \in Docs
  BY ExistingIsADoc DEF CreateBookingRazorpayOrder, VerifyBookingPayment,
                        VerifyWrongSignature, Mine
<1>2. \E op, todo : Begin(a, op, b, todo)
  BY DEF CreateBookingRazorpayOrder, VerifyBookingPayment, VerifyWrongSignature, Alone
<1>3. CASE CreateBookingRazorpayOrder(a, b)
  <2> DEFINE e == [d EXCEPT !.pay = "PENDING"]
             todo == <<Save(d, e)>>
  <2>1. Begin(a, "order", b, todo)
    BY <1>3 DEF CreateBookingRazorpayOrder
  <2>2. /\ rzp' \in [Booking -> {"none", "open", "paid"}]
        /\ \A c \in Booking : rzp'[c] = "paid" => rzp[c] = "paid"
    BY <1>3 DEF CreateBookingRazorpayOrder, IInv, DataInv, CountersInv,
                Settled, IsHistory
  <2>3. /\ e \in Docs /\ e.guest = d.guest /\ e.nights = d.nights
        /\ e.terms = d.terms /\ Grows(d, e)
        /\ e.room = d.room /\ e.status = d.status /\ e.paid = d.paid
    BY <1>1 DEF Docs, Grows
  <2> HIDE DEF d, e
  <2>4. TodoInv("order", b, todo, Settled')
    BY <1>1, <2>3, SaveWrite, ListsOfWrites
  <2> HIDE DEF todo
  <2>5. QED
    BY <2>1, <2>2, <2>4, BeginKeeps
<1>4. CASE VerifyBookingPayment(a, b)
  <2> DEFINE e == [d EXCEPT !.pay = "PAID", !.paid = "PAID", !.status = "CONFIRMED"]
             todo == <<Save(d, e)>>
  <2>1. Alone(a, "verify", b, todo)
    BY <1>4 DEF VerifyBookingPayment
  <2>2. /\ e \in Docs /\ e.guest = d.guest /\ e.nights = d.nights
        /\ e.terms = d.terms /\ Grows(d, e) /\ e.room = d.room
    BY <1>1 DEF Docs, Statuses, Grows
  <2>3. b \in Settled'
    <3>1. Begin(a, "verify", b, todo)
      BY <2>1 DEF Alone
    <3>2. CountersInv /\ (rzp[b] = "paid" => b \in Settled)
      BY DEF IInv, DataInv, PaidInv
    <3> HIDE DEF todo
    <3>3. QED
      BY <3>1, <3>2, BeginSettles
  <2>4. "verify" \in Seating
    BY DEF Seating
  <2> HIDE DEF d, e
  <2>5. TodoInv("verify", b, todo, Settled')
    BY <1>1, <2>2, <2>3, <2>4, SaveWrite, ListsOfWrites
  <2> HIDE DEF todo
  <2>6. QED
    BY <2>1, <2>5, AloneKeeps
<1>5. CASE VerifyWrongSignature(a, b)
  <2> DEFINE e == [d EXCEPT !.pay = "FAILED"]
             todo == <<Save(d, e)>>
  <2>1. Alone(a, "unverified", b, todo)
    BY <1>5 DEF VerifyWrongSignature
  <2>2. /\ e \in Docs /\ e.guest = d.guest /\ e.nights = d.nights
        /\ e.terms = d.terms /\ Grows(d, e)
        /\ e.room = d.room /\ e.status = d.status /\ e.paid = d.paid
    BY <1>1 DEF Docs, Grows
  <2> HIDE DEF d, e
  <2>3. TodoInv("unverified", b, todo, Settled')
    BY <1>1, <2>2, SaveWrite, ListsOfWrites
  <2> HIDE DEF todo
  <2>4. QED
    BY <2>1, <2>3, AloneKeeps
<1>6. QED
  BY <1>3, <1>4, <1>5

\* recordBookingPayment: what the desk collects is on record before it is saved.
LEMMA RecordKeeps ==
  ASSUME IInv, NEW a \in Actor, NEW b \in Booking, NEW s \in {"PAID", "PENDING"},
         RecordBookingPayment(a, b, s)
  PROVE  IInv'
<1> DEFINE d == docs[b]
           e == [d EXCEPT !.paid = s, !.pay = s]
           op == IF s = "PAID" THEN "collect" ELSE "uncollect"
           todo == <<Save(d, e)>>
<1>1. d \in Docs
  BY ExistingIsADoc DEF RecordBookingPayment
<1>2. Alone(a, op, b, todo)
  BY DEF RecordBookingPayment
<1>3. e.paid = "PAID" => b \in Settled'
  BY <1>1, <1>2 DEF Alone, Begin, IInv, DataInv, CountersInv, Docs, Settled, IsHistory
<1>4. /\ e \in Docs /\ e.guest = d.guest /\ e.nights = d.nights
      /\ e.terms = d.terms /\ Grows(d, e) /\ e.room = d.room /\ e.status = d.status
  BY <1>1 DEF Docs, Grows
<1>5. op \notin {"create", "transfer"}
  OBVIOUS
<1> HIDE DEF d, e, op
<1>6. TodoInv(op, b, todo, Settled')
  BY <1>1, <1>3, <1>4, <1>5, SaveWrite, ListsOfWrites
<1> HIDE DEF todo
<1>7. QED
  BY <1>2, <1>5, <1>6, AloneKeeps

\* updateBookingStatus: any status, with the room before it or the check-out after.
LEMMA StatusKeeps ==
  ASSUME IInv, NEW a \in Actor, NEW b \in Booking, NEW s \in HandStatuses,
         UpdateBookingStatus(a, b, s)
  PROVE  IInv'
<1> DEFINE d == docs[b]
           e == [d EXCEPT !.status = s]
           save == Save(d, e)
           mark == SetRoom(d.room, "OCCUPIED")
           todo == CASE s = "CHECKED_IN"  -> <<mark, save>>
                     [] s = "CHECKED_OUT" -> <<save, CloseStay>>
                     [] OTHER             -> <<save>>
<1>1. d \in Docs
  BY ExistingIsADoc DEF UpdateBookingStatus
<1>2. Alone(a, "status", b, todo)
  BY DEF UpdateBookingStatus
<1>3. /\ e \in Docs /\ e.guest = d.guest /\ e.nights = d.nights
      /\ e.terms = d.terms /\ Grows(d, e) /\ e.room = d.room /\ e.paid = d.paid
  BY <1>1, RoomBookingAssumption DEF Docs, Grows
<1>4. d.room \in Room /\ "OCCUPIED" \in RoomStates /\ "status" \in Seating
  BY <1>1 DEF Docs, RoomStates, Seating
<1>5. CloseStay.w = "close"
  BY DEF CloseStay
<1> HIDE DEF d, e
<1>6. \A c : WriteInv("status", b, save, c) /\ WriteInv("status", b, CloseStay, c)
             /\ WriteInv("status", b, mark, c)
  <2>1. \A c : WriteInv("status", b, save, c)
    BY <1>1, <1>3, <1>4, SaveWrite
  <2>2. \A c : WriteInv("status", b, CloseStay, c)
    BY <1>5 DEF WriteInv
  <2>3. \A c : WriteInv("status", b, mark, c)
    BY <1>4, RoomWrite
  <2>4. QED
    BY <2>1, <2>2, <2>3
<1> HIDE DEF save, mark
<1>7. \A c : /\ TodoInv("status", b, <<mark, save>>, c)
             /\ TodoInv("status", b, <<save, CloseStay>>, c)
             /\ TodoInv("status", b, <<save>>, c)
  BY <1>6, ListsOfWrites
<1>8. TodoInv("status", b, todo, Settled')
  BY <1>7
<1> HIDE DEF todo
<1>9. QED
  BY <1>2, <1>8, AloneKeeps

\* setRoomStatus and the switch that takes a room out of service.
LEMMA RoomKeeps ==
  ASSUME IInv, NEW a \in Actor, NEW r \in Room,
         SetRoomActive(a, r) \/ \E s \in RoomStatuses : SetRoomStatus(a, r, s)
  PROVE  IInv'
<1>1. CASE SetRoomActive(a, r)
  <2> DEFINE w == SetActive(r, ~rooms[r].active)
  <2>1. Alone(a, "room", NoBooking, <<w>>)
    BY <1>1 DEF SetRoomActive
  <2>2. w.w = "active" /\ w.room = r /\ w.flag \in BOOLEAN
    BY DEF SetActive
  <2> HIDE DEF w
  <2>3. \A c : WriteInv("room", NoBooking, w, c)
    BY <2>2 DEF WriteInv
  <2>4. TodoInv("room", NoBooking, <<w>>, Settled')
    BY <2>3, ListsOfWrites
  <2>5. QED
    BY <2>1, <2>4, AloneKeeps
<1>2. ASSUME NEW s \in RoomStatuses, SetRoomStatus(a, r, s)
      PROVE  IInv'
  <2> DEFINE w == SetRoom(r, s)
             todo == IF rooms[r].status = s THEN <<>> ELSE <<w>>
  <2>1. Alone(a, "room", NoBooking, todo)
    BY <1>2 DEF SetRoomStatus
  <2>2. \A c : WriteInv("room", NoBooking, w, c)
    BY <1>2, RoomWrite DEF RoomStates
  <2> HIDE DEF w
  <2>3. TodoInv("room", NoBooking, <<w>>, Settled')
    BY <2>2, ListsOfWrites
  <2>4. TodoInv("room", NoBooking, todo, Settled')
    BY <2>3, NothingToDo
  <2> HIDE DEF todo
  <2>5. QED
    BY <2>1, <2>4, AloneKeeps
<1>3. QED
  BY <1>1, <1>2

\* checkInGuest: the room, then the booking.
LEMMA CheckInKeeps ==
  ASSUME IInv, NEW a \in Actor, NEW b \in Booking, CheckInGuest(a, b)
  PROVE  IInv'
<1> DEFINE d == docs[b]
           e == [d EXCEPT !.status = "CHECKED_IN"]
           save == Save(d, e)
           mark == SetRoom(d.room, "OCCUPIED")
<1>1. d \in Docs
  BY ExistingIsADoc DEF CheckInGuest
<1>2. Alone(a, "checkIn", b, <<mark, save>>)
  BY DEF CheckInGuest
<1>3. /\ e \in Docs /\ e.guest = d.guest /\ e.nights = d.nights
      /\ e.terms = d.terms /\ Grows(d, e) /\ e.room = d.room /\ e.paid = d.paid
  BY <1>1 DEF Docs, Statuses, Grows
<1>4. d.room \in Room /\ "OCCUPIED" \in RoomStates /\ "checkIn" \in Seating
  BY <1>1 DEF Docs, RoomStates, Seating
<1> HIDE DEF d, e
<1>5. \A c : WriteInv("checkIn", b, save, c) /\ WriteInv("checkIn", b, mark, c)
  <2>1. \A c : WriteInv("checkIn", b, save, c)
    BY <1>1, <1>3, <1>4, SaveWrite
  <2>2. \A c : WriteInv("checkIn", b, mark, c)
    BY <1>4, RoomWrite
  <2>3. QED
    BY <2>1, <2>2
<1> HIDE DEF save, mark
<1>6. TodoInv("checkIn", b, <<mark, save>>, Settled')
  BY <1>5, ListsOfWrites
<1>7. QED
  BY <1>2, <1>6, AloneKeeps

\* The writes of a check-out, whatever copy of the booking they are made from.
LEMMA CheckOutTodo ==
  ASSUME NEW d \in Docs, NEW extra \in Extras, NEW b \in Booking, NEW op, NEW c,
         op \notin {"create", "transfer"}
  PROVE  TodoInv(op, b, CheckOutWrites(d, extra), c)
<1> DEFINE e == [d EXCEPT !.status = "CHECKED_OUT"]
           invoice == Invoice(Bill(d, extra))
           save == Save(d, e)
           mark == SetRoom(d.room, "CLEANING")
<1>1. /\ e \in Docs /\ e.guest = d.guest /\ e.nights = d.nights
      /\ e.terms = d.terms /\ Grows(d, e) /\ e.room = d.room /\ e.paid = d.paid
      /\ e.status = "CHECKED_OUT" /\ "CHECKED_OUT" \in Closed
  BY DEF Docs, Statuses, Closed, Grows
<1>2. d.room \in Room /\ "CLEANING" \in RoomStates
  BY DEF Docs, RoomStates
<1>3. invoice.w = "invoice" /\ invoice.bill \in Bills
  BY BillShape DEF Invoice
<1>4. CheckOutWrites(d, extra) = IF d.status = "CHECKED_OUT" THEN <<>>
                                 ELSE <<invoice, save, mark>>
  BY DEF CheckOutWrites
<1> HIDE DEF e, invoice
<1>5. WriteInv(op, b, invoice, c)
  BY <1>3 DEF WriteInv
<1>6. WriteInv(op, b, save, c)
  BY <1>1, SaveWrite
<1>7. WriteInv(op, b, mark, c)
  BY <1>2, RoomWrite
<1> HIDE DEF save, mark
<1>8. TodoInv(op, b, <<invoice, save, mark>>, c)
  BY <1>5, <1>6, <1>7, ListsOfWrites
<1>9. QED
  BY <1>4, <1>8, NothingToDo

\* checkOutGuest.
LEMMA CheckOutKeeps ==
  ASSUME IInv, NEW a \in Actor, NEW b \in Booking, CheckOutGuest(a, b)
  PROVE  IInv'
<1>1. docs[b] \in Docs
  BY ExistingIsADoc DEF CheckOutGuest
<1>2. PICK extra \in Extras : Alone(a, "checkOut", b, CheckOutWrites(docs[b], extra))
  BY DEF CheckOutGuest
<1>3. TodoInv("checkOut", b, CheckOutWrites(docs[b], extra), Settled')
  BY <1>1, CheckOutTodo
<1>4. QED
  BY <1>2, <1>3, AloneKeeps

\* cancelGuestBooking, and a guest who drops a pending booking.
LEMMA CancelKeeps ==
  ASSUME IInv, NEW a \in Actor, NEW b \in Booking,
         CancelGuestBooking(a, b) \/ CancelPendingBooking(a, b)
  PROVE  IInv'
<1> DEFINE d == docs[b]
<1>1. d \in Docs
  BY ExistingIsADoc DEF CancelGuestBooking, CancelPendingBooking, Mine
<1>2. CASE CancelGuestBooking(a, b)
  <2> DEFINE e == [d EXCEPT !.status = "CANCELLED", !.pending = NoMove]
             save == Save(d, e)
             mark == SetRoom(d.room, "AVAILABLE")
  <2>1. Alone(a, "cancel", b, <<save, mark>>)
    BY <1>2 DEF CancelGuestBooking
  <2>2. /\ e \in Docs /\ e.guest = d.guest /\ e.nights = d.nights
        /\ e.terms = d.terms /\ Grows(d, e) /\ e.room = d.room /\ e.paid = d.paid
        /\ e.status \in Closed
    BY <1>1 DEF Docs, Statuses, Closed, Grows
  <2>3. d.room \in Room /\ "AVAILABLE" \in RoomStates
    BY <1>1 DEF Docs, RoomStates
  <2> HIDE DEF d, e
  <2>4. \A c : WriteInv("cancel", b, save, c)
    BY <1>1, <2>2, SaveWrite
  <2>5. \A c : WriteInv("cancel", b, mark, c)
    BY <2>3, RoomWrite
  <2> HIDE DEF save, mark
  <2>6. TodoInv("cancel", b, <<save, mark>>, Settled')
    BY <2>4, <2>5, ListsOfWrites
  <2>7. QED
    BY <2>1, <2>6, AloneKeeps
<1>3. CASE CancelPendingBooking(a, b)
  <2>1. Alone(a, "drop", b, <<Drop(b)>>)
    BY <1>3 DEF CancelPendingBooking
  <2>2. \A c : WriteInv("drop", b, Drop(b), c)
    BY DEF WriteInv, Drop
  <2>3. TodoInv("drop", b, <<Drop(b)>>, Settled')
    BY <2>2, ListsOfWrites
  <2>4. QED
    BY <2>1, <2>3, AloneKeeps
<1>4. QED
  BY <1>2, <1>3

\* Two rooms are marked when a move takes effect.
LEMMA OccupancyWrites ==
  ASSUME NEW d, NEW from \in Room, NEW to \in Room
  PROVE  \E x, y : /\ ApplyRoomOccupancy(d, from, to) = <<x, y>>
                   /\ x.w = "room" /\ y.w = "room"
                   /\ \A op, b, c : WriteInv(op, b, x, c) /\ WriteInv(op, b, y, c)
<1>1. {"AVAILABLE", "RESERVED", "OCCUPIED", "CLEANING"} \subseteq RoomStates
  BY DEF RoomStates
<1> DEFINE s == IF d.status = "CHECKED_IN" THEN "CLEANING" ELSE "AVAILABLE"
           t == IF d.status = "CHECKED_IN" THEN "OCCUPIED" ELSE "RESERVED"
           x == SetRoom(from, s)
           y == SetRoom(to, t)
<1>2. ApplyRoomOccupancy(d, from, to) = <<x, y>>
  BY DEF ApplyRoomOccupancy
<1>3. s \in RoomStates /\ t \in RoomStates
  BY <1>1
<1> HIDE DEF s, t
<1>4. /\ x.w = "room" /\ y.w = "room"
      /\ \A op, b, c : WriteInv(op, b, x, c) /\ WriteInv(op, b, y, c)
  BY <1>3, RoomWrite
<1> HIDE DEF x, y
<1>5. QED
  BY <1>2, <1>4

\* The writes of a transfer: one save, which moves to `to' if it moves at all.
LEMMA MoveTodo ==
  ASSUME CountersInv, NEW d \in Docs, NEW to \in Room, NEW b \in Booking, NEW c
  PROVE  /\ TodoInv("transfer", b, MoveWrites(d, to), c)
         /\ MoveWrites(d, to)[1].w = "save"
         /\ "room" \in DOMAIN MoveWrites(d, to)[1].set =>
              MoveWrites(d, to)[1].set.room = to
<1> DEFINE from == d.room
           amount == Differential(from, to, d.nights)
           lower == IF d.total > amount THEN d.total - amount ELSE 0
           offer == [from |-> from, to |-> to, due |-> amount]
           held == [d EXCEPT !.pending = offer]
           moved == [d EXCEPT !.room = to, !.transfers = Append(@, "NONE")]
           cheaper == [[d EXCEPT !.room = to, !.transfers = Append(@, "PENDING")]
                         EXCEPT !.total = lower]
           w1 == Save(d, held)
           w2 == Save(d, cheaper)
           w3 == Save(d, moved)
           mark == SetRoom(to, "RESERVED")
<1>1. d.room \in Room /\ d.nights \in Stays /\ d.total \in Nat
  BY DEF Docs
<1>2. amount \in Nat
  BY <1>1, PricesAreNat
<1>3. lower \in Nat /\ offer \in Moves
  <2> HIDE DEF amount
  <2> QED
    BY <1>1, <1>2 DEF Moves
<1> HIDE DEF lower, offer
<1>4. PICK x, y : /\ ApplyRoomOccupancy(d, from, to) = <<x, y>>
                  /\ x.w = "room" /\ y.w = "room"
                  /\ \A op, o, k : WriteInv(op, o, x, k) /\ WriteInv(op, o, y, k)
  BY <1>1, OccupancyWrites
<1>5. MoveWrites(d, to) \in {<<w1, mark>>, <<w2>> \o <<x, y>>, <<w3>> \o <<x, y>>}
  BY <1>4 DEF MoveWrites, lower, offer
<1>6. MoveWrites(d, to) \in {<<w1, mark>>, <<w2, x, y>>, <<w3, x, y>>}
  <2> HIDE DEF w1, w2, w3, mark
  <2> QED
    BY <1>5, OneAndTwo
<1>7. \A r \in Refunds : r \in {"NONE", "PENDING", "PROCESSED"} /\
         Append(d.transfers, r) \in Seq({"NONE", "PENDING", "PROCESSED"})
  BY AppendProperties DEF Docs, Refunds
<1>8. "NONE" \in Refunds /\ "PENDING" \in Refunds
  BY DEF Refunds
<1>9. /\ held \in Docs /\ held.guest = d.guest /\ held.nights = d.nights
      /\ held.terms = d.terms /\ Grows(d, held) /\ held.room = d.room /\ held.paid = d.paid
      /\ held.status = d.status
  BY <1>3 DEF Docs, Grows
<1>10. /\ moved \in Docs /\ moved.guest = d.guest /\ moved.nights = d.nights
      /\ moved.terms = d.terms /\ Grows(d, moved) /\ moved.room = to /\ moved.paid = d.paid
      /\ moved.status = d.status
  BY <1>7, <1>8 DEF Docs, Grows
<1>11. /\ cheaper \in Docs /\ cheaper.guest = d.guest /\ cheaper.nights = d.nights
      /\ cheaper.terms = d.terms /\ Grows(d, cheaper) /\ cheaper.room = to /\ cheaper.paid = d.paid
      /\ cheaper.status = d.status
  BY <1>3, <1>7, <1>8 DEF Docs, Grows
<1> HIDE DEF held, moved, cheaper
<1>12. /\ w1.w = "save" /\ w2.w = "save" /\ w3.w = "save"
       /\ w1.set = Save(d, held).set /\ w2.set = Save(d, cheaper).set
       /\ w3.set = Save(d, moved).set
  BY DEF Save
<1>13. /\ "room" \in DOMAIN w1.set => w1.set.room = to
       /\ "room" \in DOMAIN w2.set => w2.set.room = to
       /\ "room" \in DOMAIN w3.set => w3.set.room = to
  <2>1. "room" \notin DOMAIN w1.set
    BY <1>9, <1>12, SaveShape
  <2>2. "room" \in DOMAIN w2.set => w2.set.room = to
    BY <1>11, <1>12, SaveShape
  <2>3. "room" \in DOMAIN w3.set => w3.set.room = to
    BY <1>10, <1>12, SaveShape
  <2>4. QED
    BY <2>1, <2>2, <2>3
<1>14. /\ WriteInv("transfer", b, w1, c) /\ WriteInv("transfer", b, w2, c)
       /\ WriteInv("transfer", b, w3, c)
  <2>1. "transfer" \in Seating
    BY DEF Seating
  <2>2. WriteInv("transfer", b, w1, c)
    BY <1>9, <2>1, SaveWrite
  <2>3. WriteInv("transfer", b, w2, c)
    BY <1>11, <2>1, SaveWrite
  <2>4. WriteInv("transfer", b, w3, c)
    BY <1>10, <2>1, SaveWrite
  <2>5. QED
    BY <2>2, <2>3, <2>4
<1>15. WriteInv("transfer", b, mark, c) /\ mark.w = "room"
  BY RoomWrite DEF RoomStates
<1> HIDE DEF w1, w2, w3, mark
<1>16. /\ TodoInv("transfer", b, <<w1, mark>>, c)
       /\ TodoInv("transfer", b, <<w2, x, y>>, c)
       /\ TodoInv("transfer", b, <<w3, x, y>>, c)
  BY <1>4, <1>14, <1>15, ListsOfWrites
<1>17. <<w1, mark>>[1] = w1 /\ <<w2, x, y>>[1] = w2 /\ <<w3, x, y>>[1] = w3
  OBVIOUS
<1>18. QED
  BY <1>6, <1>12, <1>13, <1>16, <1>17

\* transferRoom: what it looks at is the booking it has read.
LEMMA TransferKeeps ==
  ASSUME IInv, NEW a \in Actor, NEW b \in Booking, NEW to \in Room,
         TransferRoom(a, b, to)
  PROVE  IInv'
<1> DEFINE w == CheckTarget(docs[b], to)
<1>1. docs[b] \in Docs
  BY ExistingIsADoc DEF TransferRoom
<1>2. Alone(a, "transfer", b, <<w>>)
  BY DEF TransferRoom
<1>3. w.w = "target" /\ w.copy = docs[b] /\ w.to = to
  BY DEF CheckTarget
<1> HIDE DEF w
<1>4. \A c : WriteInv("transfer", b, w, c)
  BY <1>1, <1>3 DEF WriteInv
<1>5. TodoInv("transfer", b, <<w>>, Settled')
  BY <1>4, ListsOfWrites
<1>6. Looks(b, <<w>>)
  BY <1>3 DEF Looks
<1>7. QED
  BY <1>2, <1>5, <1>6, AloneKeeps

\* confirmTransferPayment, cancelPendingTransfer, markTransferRefundProcessed.
LEMMA MoveKeeps ==
  ASSUME IInv, NEW a \in Actor, NEW b \in Booking,
         \/ ConfirmTransferPayment(a, b)
         \/ CancelPendingTransfer(a, b)
         \/ MarkTransferRefundProcessed(a, b)
  PROVE  IInv'
<1> DEFINE d == docs[b]
<1>1. d \in Docs
  BY ExistingIsADoc DEF ConfirmTransferPayment, CancelPendingTransfer,
                        MarkTransferRefundProcessed
<1>2. d.pending # NoMove =>
        /\ d.pending.from \in Room /\ d.pending.to \in Room
        /\ d.total + d.pending.due \in Nat
  BY <1>1 DEF Docs, Moves
<1>3. /\ "NONE" \in Refunds
      /\ Append(d.transfers, "NONE") \in Seq({"NONE", "PENDING", "PROCESSED"})
  BY <1>1, AppendProperties DEF Docs, Refunds
<1>4. CASE ConfirmTransferPayment(a, b)
  <2> DEFINE move == d.pending
             e == [d EXCEPT !.room = move.to, !.pending = NoMove,
                            !.total = @ + move.due, !.transfers = Append(@, "NONE")]
             save == Save(d, e)
  <2>1. /\ d.pending # NoMove
        /\ Alone(a, "confirm", b, <<save>> \o ApplyRoomOccupancy(d, move.from, move.to))
    BY <1>4 DEF ConfirmTransferPayment
  <2>2. /\ e \in Docs /\ e.guest = d.guest /\ e.nights = d.nights
        /\ e.terms = d.terms /\ Grows(d, e) /\ e.paid = d.paid /\ e.status = d.status
    BY <1>1, <1>2, <1>3, <2>1 DEF Docs, Grows
  <2>3. PICK x, y : /\ ApplyRoomOccupancy(d, move.from, move.to) = <<x, y>>
                    /\ \A op, o, k : WriteInv(op, o, x, k) /\ WriteInv(op, o, y, k)
    BY <1>2, <2>1, OccupancyWrites
  <2> HIDE DEF d, e
  <2>4. \A c : WriteInv("confirm", b, save, c)
    BY <1>1, <2>2, SaveWrite
  <2> HIDE DEF save
  <2>5. TodoInv("confirm", b, <<save, x, y>>, Settled')
    BY <2>3, <2>4, ListsOfWrites
  <2>6. Alone(a, "confirm", b, <<save, x, y>>)
    BY <2>1, <2>3, OneAndTwo
  <2>7. QED
    BY <2>5, <2>6, AloneKeeps
<1>5. CASE CancelPendingTransfer(a, b)
  <2> DEFINE e == [d EXCEPT !.pending = NoMove, !.transfers = Append(@, "NONE")]
             save == Save(d, e)
             mark == SetRoom(d.pending.to, "AVAILABLE")
  <2>1. d.pending # NoMove /\ Alone(a, "dropMove", b, <<save, mark>>)
    BY <1>5 DEF CancelPendingTransfer
  <2>2. /\ e \in Docs /\ e.guest = d.guest /\ e.nights = d.nights
        /\ e.terms = d.terms /\ Grows(d, e) /\ e.room = d.room /\ e.paid = d.paid
        /\ e.status = d.status
    BY <1>1, <1>3 DEF Docs, Grows
  <2>3. \A c : WriteInv("dropMove", b, mark, c)
    BY <1>2, <2>1, RoomWrite DEF RoomStates
  <2> HIDE DEF d, e
  <2>4. \A c : WriteInv("dropMove", b, save, c)
    BY <1>1, <2>2, SaveWrite
  <2> HIDE DEF save, mark
  <2>5. TodoInv("dropMove", b, <<save, mark>>, Settled')
    BY <2>3, <2>4, ListsOfWrites
  <2>6. QED
    BY <2>1, <2>5, AloneKeeps
<1>6. CASE MarkTransferRefundProcessed(a, b)
  <2>1. PICK i \in 1..Len(docs[b].transfers) :
          Alone(a, "refund", b, <<[Save(docs[b], docs[b]) EXCEPT !.settle = i]>>)
    BY <1>6 DEF MarkTransferRefundProcessed
  <2>2. d.transfers \in Seq(Refunds) /\ Grows(d, d)
    BY <1>1 DEF Docs, Refunds, Grows
  <2>3. i \in Nat
    BY <2>1, <2>2, LenProperties
  <2> DEFINE w == [Save(d, d) EXCEPT !.settle = i]
  <2>4. Alone(a, "refund", b, <<w>>)
    BY <2>1
  <2> HIDE DEF d
  <2>5. \A c : WriteInv("refund", b, w, c)
    BY <1>1, <2>2, <2>3, SaveWrite
  <2> HIDE DEF w
  <2>6. TodoInv("refund", b, <<w>>, Settled')
    BY <2>5, ListsOfWrites
  <2>7. QED
    BY <2>4, <2>6, AloneKeeps
<1>7. QED
  BY <1>4, <1>5, <1>6

----------------------------------------------------------------------------
(* Writes. *)

\* A step that seats nobody: no booking appears, moves or comes back to life.
Calm ==
    \A c \in Bookings' :
      /\ c \in Bookings
      /\ docs'[c].room = docs[c].room /\ docs'[c].nights = docs[c].nights
      /\ Live(c)' => Live(c)
      /\ docs[c].status \in Closed => docs'[c].status \in Closed

\* A request goes on: the others stay, and it keeps its operation and booking.
LEMMA GoesOn ==
  ASSUME IInv, NEW a \in Actor, NEW more, Continue(a, more),
         TodoInv(req[a].op, req[a].b, more, Settled),
         Settled \subseteq Settled'
  PROVE  /\ RequestsInv'
         /\ req'[a] # Idle => /\ req'[a].op = req[a].op /\ req'[a].b = req[a].b
                              /\ req'[a].todo = more /\ more # <<>>
         /\ \A o \in Actor : o # a => req'[o] = req[o]
<1> DEFINE q == IF more = <<>> THEN Idle ELSE [req[a] EXCEPT !.todo = more]
<1>1. RequestsInv /\ RequestInv(req[a], Settled)
  BY DEF IInv, DataInv, RequestsInv
<1>2. req' = [req EXCEPT ![a] = q]
  BY DEF Continue
<1>3. /\ q = IF more = <<>> THEN Idle ELSE [req[a] EXCEPT !.todo = more]
      /\ q # Idle => more # <<>>
  OBVIOUS
<1> HIDE DEF q
<1>4. /\ RequestInv(q, Settled)
      /\ q # Idle => q.op = req[a].op /\ q.b = req[a].b /\ q.todo = more
  BY <1>1, <1>3, RequestGoesOn
<1>5. RequestInv(q, Settled')
  BY <1>4, RequestStays
<1>6. q.op = "create" => a \in Guest
  BY <1>1, <1>4 DEF RequestsInv, Idle
<1>7. /\ RequestsInv' /\ req'[a] = q
      /\ \A o \in Actor : o # a => req'[o] = req[o]
  BY <1>1, <1>2, <1>5, <1>6, OneRequestChanges
<1>8. QED
  BY <1>3, <1>4, <1>7

\* A request ends early, or goes on with the rest of its list.
LEMMA EndsOrGoesOn ==
  ASSUME IInv, NEW a \in Actor, req[a] # Idle,
         Continue(a, <<>>) \/ Done(a), Settled \subseteq Settled'
  PROVE  /\ RequestsInv'
         /\ req'[a] # Idle => /\ req'[a].op = req[a].op /\ req'[a].b = req[a].b
                              /\ req'[a].todo = Tail(req[a].todo)
                              /\ req'[a].todo # <<>>
         /\ \A o \in Actor : o # a => req'[o] = req[o]
<1>1. TodoInv(req[a].op, req[a].b, Tail(req[a].todo), Settled)
  BY TailIsAllowed DEF IInv, DataInv, RequestsInv
<1>2. TodoInv(req[a].op, req[a].b, <<>>, Settled)
  BY NothingToDo
<1>3. CASE Continue(a, <<>>)
  BY <1>2, <1>3, GoesOn
<1>4. CASE Done(a)
  BY <1>1, <1>4, GoesOn DEF Done
<1>5. QED
  BY <1>3, <1>4

\* Seats stay apart in a calm step.
LEMMA CalmSeats ==
  ASSUME NoDoubleBooking, Calm, hist.raced \subseteq hist'.raced,
         hist.unchecked \subseteq hist'.unchecked
  PROVE  NoDoubleBooking'
<1> SUFFICES ASSUME NEW b \in Bookings', NEW c \in Bookings', b # c,
                    Live(b)', Live(c)', Overlaps(b, docs[c].room, docs[c].nights)'
             PROVE  {b, c} \cap (hist'.raced \cup hist'.unchecked) # {}
  BY DEF NoDoubleBooking
<1>1. /\ b \in Bookings /\ c \in Bookings /\ Live(b) /\ Live(c)
      /\ Overlaps(b, docs[c].room, docs[c].nights)
  BY DEF Calm, Overlaps
<1>2. {b, c} \cap (hist.raced \cup hist.unchecked) # {}
  BY <1>1 DEF NoDoubleBooking
<1>3. QED
  BY <1>2

\* What a request knows stays true in a calm step of another.
LEMMA CalmKnowledge ==
  ASSUME NEW o, Calm, req'[o] = req[o], hist'.contended = hist.contended,
         HoldInv(o), TransferInv(o)
  PROVE  HoldInv(o)' /\ TransferInv(o)'
<1>1. HoldInv(o)'
  <2> DEFINE n == Len(req[o].todo)
             w == req[o].todo[n]
  <2> SUFFICES ASSUME req[o].op = "create", o \notin hist.contended,
                      NEW c \in Bookings', Overlaps(c, w.room, w.nights)', Live(c)'
               PROVE  \E i \in 1..n : req[o].todo[i].w = "drop" /\ req[o].todo[i].b = c
    BY DEF HoldInv
  <2>1. c \in Bookings /\ Live(c) /\ Overlaps(c, w.room, w.nights)
    BY DEF Calm, Overlaps
  <2>2. QED
    BY <2>1 DEF HoldInv
<1>2. TransferInv(o)'
  <2> DEFINE b == req[o].b
             w == req[o].todo[1]
  <2> SUFFICES ASSUME req[o].op = "transfer", o \notin hist.contended, b \in Bookings'
               PROVE  /\ w.w = "target" => w.copy.nights = docs'[b].nights
                      /\ w.w = "save" /\ "room" \in DOMAIN w.set =>
                           \A c \in Bookings' \ {b} :
                             Overlaps(c, w.set.room, docs[b].nights)'
                             => docs'[c].status \in Closed
    BY DEF TransferInv
  <2>1. b \in Bookings /\ docs'[b].nights = docs[b].nights
    BY DEF Calm
  <2>2. w.w = "target" => w.copy.nights = docs'[b].nights
    BY <2>1 DEF TransferInv
  <2>3. ASSUME w.w = "save", "room" \in DOMAIN w.set, NEW c \in Bookings' \ {b},
               Overlaps(c, w.set.room, docs[b].nights)'
        PROVE  docs'[c].status \in Closed
    <3>1. c \in Bookings \ {b} /\ Overlaps(c, w.set.room, docs[b].nights)
      BY <2>1, <2>3 DEF Calm, Overlaps
    <3>2. docs[c].status \in Closed
      BY <2>1, <2>3, <3>1 DEF TransferInv
    <3>3. QED
      BY <2>3, <3>2 DEF Calm
  <2>4. QED
    BY <2>2, <2>3
<1>3. QED
  BY <1>1, <1>2

\* What the request that writes knows of what it has left to write.
LEMMA TailKnowledge ==
  ASSUME IInv, NEW a \in Actor, req[a] # Idle, Calm, hist'.contended = hist.contended,
         req'[a] # Idle => /\ req'[a].op = req[a].op /\ req'[a].b = req[a].b
                           /\ req'[a].todo = Tail(req[a].todo)
                           /\ req'[a].todo # <<>>,
         req[a].op = "create" => req'[a] = Idle \/ Head(req[a].todo).b \notin Bookings'
  PROVE  HoldInv(a)' /\ TransferInv(a)'
<1>1. RequestInv(req[a], Settled) /\ HoldInv(a)
  BY DEF IInv, DataInv, RequestsInv, SeatInv
<1> DEFINE s == req[a].todo
           t == Tail(req[a].todo)
<1>2. /\ TodoInv(req[a].op, req[a].b, t, Settled)
      /\ Len(s) \in Nat \ {0} /\ Head(s) = s[1] /\ Len(t) = Len(s) - 1
      /\ \A i \in 1..Len(t) : t[i] = s[i + 1]
  BY <1>1, TailIsAllowed
<1>3. t # <<>> => Len(t) \in Nat \ {0}
  BY <1>2, HeadAndTail DEF TodoInv
<1>4. req'[a].op \in {"create", "transfer"} => req'[a] # Idle
  BY DEF Idle
<1>5. HoldInv(a)'
  <2> SUFFICES ASSUME req'[a].op = "create", a \notin hist.contended,
                      NEW c \in Bookings',
                      docs'[c].room = t[Len(t)].room,
                      docs'[c].nights \cap t[Len(t)].nights # {}, Live(c)'
               PROVE  \E i \in 1..Len(t) : t[i].w = "drop" /\ t[i].b = c
    <3>1. PICK u : u = t
      OBVIOUS
    <3>2. req'[a].op = "create" => req'[a].todo = u
      BY <1>4, <3>1
    <3> SUFFICES ASSUME req'[a].op = "create", a \notin hist.contended,
                        NEW c \in Bookings',
                        Overlaps(c, u[Len(u)].room, u[Len(u)].nights)', Live(c)'
                 PROVE  \E i \in 1..Len(u) : u[i].w = "drop" /\ u[i].b = c
      <4> HIDE DEF t
      <4> QED
        BY <3>2 DEF HoldInv
    <3>3. /\ docs'[c].room = t[Len(t)].room
          /\ docs'[c].nights \cap t[Len(t)].nights # {}
      BY <3>1 DEF Overlaps
    <3>4. QED
      BY <3>1, <3>3
  <2>1. /\ t # <<>> /\ req[a].op = "create" /\ s[1].b \notin Bookings'
    BY <1>2, <1>4
  <2>2. t[Len(t)] = s[Len(s)]
    BY <1>2, <1>3, <2>1
  <2>3. c \in Bookings /\ Live(c) /\ Overlaps(c, s[Len(s)].room, s[Len(s)].nights)
    BY <2>2 DEF Calm, Overlaps
  <2>4. PICK i \in 1..Len(s) : s[i].w = "drop" /\ s[i].b = c
    BY <1>1, <2>1, <2>3 DEF HoldInv
  <2>5. i # 1
    BY <2>1, <2>4
  <2>6. i - 1 \in 1..Len(t) /\ t[i - 1] = s[i]
    BY <1>2, <2>4, <2>5
  <2>7. QED
    BY <2>4, <2>6
<1>6. TransferInv(a)'
  <2> SUFFICES ASSUME req'[a].op = "transfer"
               PROVE  t[1].w = "room"
    BY <1>4 DEF TransferInv
  <2>1. t # <<>> /\ req[a].op = "transfer"
    BY <1>4
  <2>2. 2 \in 2..Len(s) /\ t[1] = s[2]
    BY <1>2, <1>3, <2>1
  <2>3. QED
    BY <1>1, <2>1, <2>2 DEF RequestInv, TodoInv
<1>7. QED
  BY <1>5, <1>6

\* A write of one request, calm or of an operation that seats: the contended
\* are the same, and the other requests still know what they knew.
LEMMA OthersKnow ==
  ASSUME IInv, NEW a \in Actor, Calm \/ req[a].op \in Seating,
         hist'.contended = hist.contended,
         req'[a] # Idle => req'[a].op = req[a].op,
         \A o \in Actor : o # a => req'[o] = req[o]
  PROVE  /\ Rivalry'
         /\ \A o \in Actor : o # a => HoldInv(o)' /\ TransferInv(o)'
<1>1. \A o \in Actor : req'[o].op \in Seating => req[o].op \in Seating
  BY DEF Seating, Idle
<1>2. Rivalry'
  BY <1>1 DEF IInv, SeatInv, Rivalry
<1>3. ASSUME NEW o \in Actor, o # a
      PROVE  HoldInv(o)' /\ TransferInv(o)'
  <2>1. req'[o] = req[o] /\ HoldInv(o) /\ TransferInv(o)
    BY <1>3 DEF IInv, SeatInv
  <2>2. CASE Calm
    BY <2>1, <2>2, CalmKnowledge
  <2>3. CASE req[a].op \in Seating
    <3>1. req'[o].op \in {"create", "transfer"} => o \in hist'.contended
      BY <1>3, <2>1, <2>3 DEF IInv, SeatInv, Rivalry, Seating
    <3>2. QED
      BY <3>1 DEF HoldInv, TransferInv
  <2>4. QED
    BY <2>2, <2>3
<1>4. QED
  BY <1>2, <1>3

\* A calm write, of a request that goes on with the rest of its list.
LEMMA CalmWrite ==
  ASSUME IInv, NEW a \in Actor, req[a] # Idle, Calm,
         Continue(a, <<>>) \/ Done(a),
         Settled \subseteq Settled', hist'.contended = hist.contended,
         hist.raced \subseteq hist'.raced, hist.unchecked \subseteq hist'.unchecked,
         req[a].op = "create" =>
           Continue(a, <<>>) \/ Head(req[a].todo).b \notin Bookings'
  PROVE  RequestsInv' /\ SeatInv'
<1>1. /\ RequestsInv'
      /\ req'[a] # Idle => /\ req'[a].op = req[a].op /\ req'[a].b = req[a].b
                           /\ req'[a].todo = Tail(req[a].todo)
                           /\ req'[a].todo # <<>>
      /\ \A o \in Actor : o # a => req'[o] = req[o]
  BY EndsOrGoesOn
<1>2. Continue(a, <<>>) => req'[a] = Idle
  BY DEF Continue, IInv, DataInv, RequestsInv
<1>3. HoldInv(a)' /\ TransferInv(a)'
  BY <1>1, <1>2, TailKnowledge
<1>4. /\ Rivalry'
      /\ \A o \in Actor : o # a => HoldInv(o)' /\ TransferInv(o)'
  BY <1>1, OthersKnow
<1>5. NoDoubleBooking'
  BY CalmSeats DEF IInv, SeatInv
<1>6. QED
  BY <1>1, <1>3, <1>4, <1>5 DEF SeatInv

\* A step that writes no booking is calm.
LEMMA NoBookingWritten ==
  ASSUME docs' = docs, fresh' = fresh \/ fresh' \subseteq fresh
  PROVE  Calm
BY DEF Calm, Bookings, Exists, Live

\* What is known of the write at the head of a list.
LEMMA HeadFacts ==
  ASSUME IInv, NEW a \in Actor, req[a] # Idle
  PROVE  /\ WriteInv(req[a].op, req[a].b, Head(req[a].todo), Settled)
         /\ Head(req[a].todo) = req[a].todo[1]
         /\ Len(req[a].todo) \in Nat \ {0}
         /\ req[a].op = "create" =>
              Head(req[a].todo).w = IF Len(req[a].todo) = 1 THEN "insert" ELSE "drop"
<1>1. RequestInv(req[a], Settled)
  BY DEF IInv, DataInv, RequestsInv
<1> DEFINE s == req[a].todo
<1>2. /\ WriteInv(req[a].op, req[a].b, Head(s), Settled)
      /\ Len(s) \in Nat \ {0} /\ Head(s) = s[1]
  BY <1>1, TailIsAllowed
<1>3. req[a].op = "create" =>
        \A i \in 1..Len(s) : s[i].w = IF i = Len(s) THEN "insert" ELSE "drop"
  BY <1>1 DEF RequestInv, TodoInv
<1>4. 1 \in 1..Len(s)
  BY <1>2
<1>5. QED
  BY <1>2, <1>3, <1>4

\* A coupon that is refused and a request that dies write nothing.
LEMMA EndKeeps ==
  ASSUME IInv, NEW a \in Actor, CouponInvalid(a) \/ SaveNothing(a) \/ Dies(a)
  PROVE  IInv'
<1>1. /\ req[a] # Idle /\ Continue(a, <<>>)
      /\ UNCHANGED <<docs, fresh, rooms, rates, invoices, rzp, started, hist>>
  BY DEF CouponInvalid, SaveNothing, Dies, Next1
<1>2. Calm
  BY <1>1, NoBookingWritten
<1>3. RequestsInv' /\ SeatInv'
  <2>1. /\ Settled \subseteq Settled' /\ hist'.contended = hist.contended
        /\ hist.raced \subseteq hist'.raced /\ hist.unchecked \subseteq hist'.unchecked
    BY <1>1 DEF Settled
  <2>2. req[a] # Idle /\ Continue(a, <<>>)
    BY <1>1
  <2>3. QED
    BY <1>2, <2>1, <2>2, CalmWrite, SMTT(20)
<1>4. DocsInv' /\ RoomsInv' /\ PaidInv'
  BY <1>1 DEF IInv, DataInv, DocsInv, RoomsInv, PaidInv, PaidOnlyWhenCollected,
              Bookings, Exists, Settled, IsHistory
<1>5. faults' \in 0..MaxFaults
  BY RoomBookingAssumption DEF CouponInvalid, SaveNothing, Dies, IInv, DataInv,
                               CountersInv, Settled, IsHistory
<1>6. CountersInv'
  BY <1>1, <1>5 DEF IInv, DataInv, CountersInv, Settled, IsHistory
<1>7. QED
  BY <1>3, <1>4, <1>6 DEF IInv, DataInv

\* Rooms and invoices are written.
LEMMA HouseWriteKeeps ==
  ASSUME IInv, NEW a \in Actor, DoSetRoom(a) \/ DoSetActive(a) \/ DoInvoice(a)
  PROVE  IInv'
<1> DEFINE w == Head(req[a].todo)
<1>1. /\ req[a] # Idle
      /\ w.w \in {"room", "active", "invoice"}
      /\ Continue(a, <<>>) \/ Done(a)
      /\ UNCHANGED <<docs, fresh, rates, rzp, started, faults, hist>>
  BY DEF DoSetRoom, DoSetActive, DoInvoice, Next1
<1>2. WriteInv(req[a].op, req[a].b, w, Settled) /\ req[a].op # "create"
  BY <1>1, HeadFacts
<1>3. Calm
  BY <1>1, NoBookingWritten
<1>4. RequestsInv' /\ SeatInv'
  <2>1. Settled' = Settled
    BY <1>1 DEF Settled
  <2>2. QED
    BY <1>1, <1>2, <1>3, <2>1, CalmWrite
<1>5. DocsInv' /\ PaidInv'
  BY <1>1 DEF IInv, DataInv, DocsInv, PaidInv, PaidOnlyWhenCollected, Bookings, Exists,
              Settled, IsHistory
<1> HIDE DEF w
<1>6. RoomsInv'
  <2>1. CASE DoSetRoom(a)
    <3>1. rooms' = [rooms EXCEPT ![w.room].status = w.status, ![w.room].by = req[a].b]
      BY <2>1, Zenon DEF DoSetRoom, w
    <3>2. w.room \in Room /\ w.status \in RoomStates
      BY <1>2, <2>1 DEF WriteInv, DoSetRoom, Next1, w
    <3>3. \A r \in Room : rooms'[r] = IF r = w.room
                            THEN [rooms[r] EXCEPT !.status = w.status, !.by = req[a].b]
                            ELSE rooms[r]
      BY <3>1, <3>2 DEF IInv, DataInv, RoomsInv
    <3>4. rooms' = [r \in Room |-> rooms'[r]]
      BY <3>1 DEF IInv, DataInv, RoomsInv
    <3>5. QED
      BY <3>2, <3>3, <3>4 DEF IInv, DataInv, RoomsInv
  <2>2. CASE DoSetActive(a)
    <3>1. rooms' = [rooms EXCEPT ![w.room].active = w.flag]
      BY <2>2 DEF DoSetActive, w
    <3>2. w.room \in Room /\ w.flag \in BOOLEAN
      BY <1>2, <2>2 DEF WriteInv, DoSetActive, Next1, w
    <3>3. \A r \in Room : rooms'[r] = IF r = w.room
                            THEN [rooms[r] EXCEPT !.active = w.flag] ELSE rooms[r]
      BY <3>1, <3>2 DEF IInv, DataInv, RoomsInv
    <3>4. rooms' = [r \in Room |-> rooms'[r]]
      BY <3>1 DEF IInv, DataInv, RoomsInv
    <3>5. QED
      BY <3>2, <3>3, <3>4 DEF IInv, DataInv, RoomsInv
  <2>3. CASE DoInvoice(a)
    BY <2>3 DEF DoInvoice, IInv, DataInv, RoomsInv
  <2>4. QED
    BY <2>1, <2>2, <2>3
<1>7. CountersInv'
  <2>1. invoices' \in [Booking -> {NoInvoice} \cup Bills]
    <3>1. invoices \in [Booking -> {NoInvoice} \cup Bills]
      BY DEF IInv, DataInv, CountersInv, Settled, IsHistory
    <3>2. CASE DoInvoice(a)
      <4>1. \/ invoices' = invoices
            \/ invoices' = [invoices EXCEPT ![req[a].b] = w.bill]
        BY <3>2 DEF DoInvoice, w
      <4>2. w.bill \in Bills
        BY <1>2, <3>2 DEF WriteInv, DoInvoice, Next1, w
      <4>3. QED
        BY <3>1, <4>1, <4>2
    <3>3. CASE ~DoInvoice(a)
      BY <3>1, <3>3 DEF DoSetRoom, DoSetActive
    <3>4. QED
      BY <3>2, <3>3
  <2>2. QED
    BY <1>1, <2>1 DEF IInv, DataInv, CountersInv, Settled, IsHistory
<1>8. QED
  BY <1>4, <1>5, <1>6, <1>7 DEF IInv, DataInv

\* A booking is deleted.
LEMMA DropKeeps ==
  ASSUME IInv, NEW a \in Actor, DoDrop(a)
  PROVE  IInv'
<1> DEFINE w == Head(req[a].todo)
<1>1. /\ req[a] # Idle /\ w.w = "drop" /\ Done(a)
      /\ docs' = [docs EXCEPT ![w.b] = Gone] /\ fresh' = fresh \ {w.b}
      /\ UNCHANGED <<rooms, rates, invoices, rzp, started, faults, hist>>
  BY DEF DoDrop, Next1
<1>2. w.b \in Booking
  BY <1>1, HeadFacts DEF WriteInv
<1> HIDE DEF w
<1>3. /\ DocsInv
      /\ \A b \in Booking : docs'[b] = IF b = w.b THEN Gone ELSE docs[b]
      /\ docs' = [b \in Booking |-> docs'[b]]
  BY <1>1, <1>2 DEF IInv, DataInv, DocsInv
<1>4. Bookings' = Bookings \ {w.b}
  BY <1>3 DEF Bookings, Exists
<1>5. Calm
  BY <1>1, <1>3, <1>4 DEF Calm, Bookings, Live
<1>6. RequestsInv' /\ SeatInv'
  <2>1. Settled' = Settled
    BY <1>1 DEF Settled
  <2>2. QED
    BY <1>1, <1>4, <1>5, <2>1, CalmWrite DEF w
<1>7. DocsInv'
  BY <1>1, <1>3, <1>4 DEF DocsInv
<1>8. RoomsInv' /\ CountersInv'
  BY <1>1 DEF IInv, DataInv, RoomsInv, CountersInv, Settled, IsHistory
<1>9. PaidInv'
  BY <1>1, <1>3, <1>4 DEF IInv, DataInv, PaidInv, PaidOnlyWhenCollected, Bookings,
                          Settled, IsHistory
<1>10. QED
  BY <1>6, <1>7, <1>8, <1>9 DEF IInv, DataInv

\* updateBookingStatus goes on with a check-out, a transfer with its writes.
LEMMA LookKeeps ==
  ASSUME IInv, NEW a \in Actor, DoClose(a) \/ DoCheckTarget(a)
  PROVE  IInv'
<1> DEFINE w == Head(req[a].todo)
           b == req[a].b
<1>1. /\ req[a] # Idle /\ w.w \in {"close", "target"}
      /\ UNCHANGED <<docs, fresh, rooms, rates, invoices, rzp, started, faults>>
      /\ IsHistory(hist') /\ Settled' = Settled
      /\ hist'.contended = hist.contended
      /\ hist'.raced = hist.raced /\ hist'.unchecked = hist.unchecked
  BY DEF DoClose, DoCheckTarget, Next1, IInv, DataInv, CountersInv, Settled, IsHistory
<1>2. WriteInv(req[a].op, b, w, Settled) /\ w = req[a].todo[1]
  BY <1>1, HeadFacts
<1>3. /\ \A c \in Bookings : docs[c] \in Docs
      /\ Bookings \subseteq Booking
  BY DEF IInv, DataInv, DocsInv, Bookings, Exists
<1>4. Calm
  BY <1>1, NoBookingWritten
<1>5. CASE DoClose(a)
  <2>1. req[a].op = "status" /\ b \in Booking
    BY <1>2, <1>5 DEF WriteInv, DoClose, Next1
  <2>2. PICK more : /\ Continue(a, more)
                    /\ TodoInv(req[a].op, b, more, Settled)
    <3>1. PICK extra \in Extras :
            Continue(a, IF Exists(b) THEN CheckOutWrites(docs[b], extra) ELSE <<>>)
      BY <1>5 DEF DoClose
    <3>2. Exists(b) => TodoInv(req[a].op, b, CheckOutWrites(docs[b], extra), Settled)
      BY <1>3, <2>1, CheckOutTodo DEF Bookings
    <3>3. TodoInv(req[a].op, b, <<>>, Settled)
      BY NothingToDo
    <3>4. CASE Exists(b)
      BY <3>1, <3>2, <3>4
    <3>5. CASE ~Exists(b)
      BY <3>1, <3>3, <3>5
    <3>6. QED
      BY <3>4, <3>5
  <2>3. /\ RequestsInv'
        /\ req'[a] # Idle => req'[a].op = req[a].op
        /\ \A o \in Actor : o # a => req'[o] = req[o]
    BY <1>1, <2>2, GoesOn
  <2>4. req'[a].op \notin {"create", "transfer"}
    BY <2>1, <2>3 DEF Idle
  <2>5. HoldInv(a)' /\ TransferInv(a)'
    BY <2>4 DEF HoldInv, TransferInv
  <2>6. QED
    <3>1. /\ Rivalry'
          /\ \A o \in Actor : o # a => HoldInv(o)' /\ TransferInv(o)'
      BY <1>1, <1>4, <2>3, OthersKnow
    <3>2. NoDoubleBooking'
      BY <1>1, <1>4, CalmSeats DEF IInv, SeatInv
    <3>3. DocsInv' /\ RoomsInv' /\ PaidInv' /\ CountersInv'
      BY <1>1 DEF IInv, DataInv, DocsInv, RoomsInv, PaidInv, PaidOnlyWhenCollected,
                  CountersInv, Bookings, Exists, Settled, IsHistory
    <3>4. QED
      BY <2>3, <2>5, <3>1, <3>2, <3>3 DEF IInv, DataInv, SeatInv
<1>6. CASE DoCheckTarget(a)
  <2>1. /\ w.w = "target" /\ req[a].op = "transfer" /\ b \in Booking
        /\ w.to \in Room /\ w.copy \in Docs
    BY <1>2, <1>6 DEF WriteInv, DoCheckTarget, Next1
  <2> DEFINE moves == MoveWrites(w.copy, w.to)
  <2>2. /\ TodoInv("transfer", b, moves, Settled)
        /\ moves[1].w = "save"
        /\ "room" \in DOMAIN moves[1].set => moves[1].set.room = w.to
    BY <2>1, MoveTodo DEF IInv, DataInv
  <2> HIDE DEF moves
  <2>3. TodoInv(req[a].op, b, <<>>, Settled)
    BY NothingToDo
  <2>4. \/ Continue(a, <<>>)
        \/ Movable(b, w.copy, w.to) /\ Continue(a, moves)
    BY <1>6 DEF DoCheckTarget, moves
  <2>5. CASE Continue(a, <<>>)
    <3>1. RequestsInv' /\ SeatInv'
      BY <1>1, <1>4, <2>1, <2>5, CalmWrite
    <3>2. DocsInv' /\ RoomsInv' /\ PaidInv' /\ CountersInv'
      BY <1>1 DEF IInv, DataInv, DocsInv, RoomsInv, PaidInv, PaidOnlyWhenCollected,
                  CountersInv, Bookings, Exists, Settled, IsHistory
    <3>3. QED
      BY <3>1, <3>2 DEF IInv, DataInv
  <2>6. CASE Movable(b, w.copy, w.to) /\ Continue(a, moves)
    <3>1. /\ RequestsInv'
          /\ req'[a] # Idle => /\ req'[a].op = req[a].op /\ req'[a].b = b
                               /\ req'[a].todo = moves
          /\ \A o \in Actor : o # a => req'[o] = req[o]
      BY <1>1, <2>1, <2>2, <2>6, GoesOn
    <3>2. HoldInv(a)'
      BY <2>1, <3>1 DEF HoldInv, Idle
    <3>3. TransferInv(a)'
      <4> SUFFICES ASSUME req'[a].op = "transfer", a \notin hist.contended, b \in Bookings
                   PROVE  "room" \in DOMAIN moves[1].set =>
                            \A c \in Bookings \ {b} :
                              Overlaps(c, moves[1].set.room, docs[b].nights)
                              => docs[c].status \in Closed
        BY <1>1, <2>2, <3>1 DEF TransferInv, Idle, Bookings, Exists, Overlaps
      <4>1. w.copy.nights = docs[b].nights
        BY <1>2, <2>1 DEF IInv, SeatInv, TransferInv
      <4>2. \A c \in Bookings \ {b} :
              Overlaps(c, w.to, w.copy.nights) => docs[c].status \in Closed
        BY <2>6 DEF Movable, Clashes
      <4>3. QED
        BY <2>2, <4>1, <4>2
    <3>4. /\ Rivalry'
          /\ \A o \in Actor : o # a => HoldInv(o)' /\ TransferInv(o)'
      <4>1. hist'.contended = hist.contended
        BY <1>1
      <4>2. /\ req'[a] # Idle => req'[a].op = req[a].op
            /\ \A o \in Actor : o # a => req'[o] = req[o]
        BY <3>1, Zenon
      <4>3. QED
        BY <1>4, <4>1, <4>2, OthersKnow
    <3>5. NoDoubleBooking'
      BY <1>1, <1>4, CalmSeats DEF IInv, SeatInv
    <3>6. DocsInv' /\ RoomsInv' /\ PaidInv' /\ CountersInv'
      BY <1>1 DEF IInv, DataInv, DocsInv, RoomsInv, PaidInv, PaidOnlyWhenCollected,
                  CountersInv, Bookings, Exists, Settled, IsHistory
    <3>7. QED
      BY <3>1, <3>2, <3>3, <3>4, <3>5, <3>6 DEF IInv, DataInv, SeatInv
  <2>7. QED
    BY <2>4, <2>5, <2>6
<1>7. QED
  BY <1>5, <1>6

\* What a save does to the booking: its guest and nights stay, its room changes
\* only by a transfer or its confirmation, and only some operations revive it.
LEMMA SaveFacts ==
  ASSUME IInv, NEW a \in Actor, DoSave(a)
  PROVE  LET b == req[a].b
             w == Head(req[a].todo)
         IN  /\ req[a] # Idle /\ w = req[a].todo[1] /\ w.w = "save"
             /\ b \in Bookings /\ req[a].op # "create"
             /\ PatchInv(req[a].op, b, w.set, Settled)
             /\ docs = [c \in Booking |-> docs[c]]
             /\ docs'[b] \in Docs /\ docs'[b] \notin {Free, Gone}
             /\ docs'[b] = Saved(docs[b], w)
             /\ \A c \in Booking : c # b => docs'[c] = docs[c]
             /\ docs' = [c \in Booking |-> docs'[c]]
             /\ Bookings' = Bookings
             /\ docs'[b].nights = docs[b].nights
             /\ docs'[b].room = IF "room" \in DOMAIN w.set THEN w.set.room
                                ELSE docs[b].room
             /\ docs'[b].status = IF "status" \in DOMAIN w.set THEN w.set.status
                                  ELSE docs[b].status
             /\ docs'[b].paid = IF "paid" \in DOMAIN w.set THEN w.set.paid
                                ELSE docs[b].paid
<1> DEFINE b == req[a].b
           w == Head(req[a].todo)
           new == Saved(docs[b], w)
<1>1. /\ req[a] # Idle /\ w.w = "save" /\ Exists(b) /\ docs' = [docs EXCEPT ![b] = new]
  BY DEF DoSave, Next1
<1>2. /\ b \in Booking /\ PatchInv(req[a].op, b, w.set, Settled)
      /\ w.push \in Seq(Refunds)
      /\ w = req[a].todo[1] /\ req[a].op # "create"
  BY <1>1, HeadFacts DEF WriteInv
<1>3. docs[b] \in Docs /\ b \in Bookings
  BY <1>1, <1>2, ExistingIsADoc
<1> HIDE DEF b, w
<1>4. /\ new \in Docs
      /\ new.nights = docs[b].nights
      /\ new.room = IF "room" \in DOMAIN w.set THEN w.set.room ELSE docs[b].room
      /\ new.status = IF "status" \in DOMAIN w.set THEN w.set.status ELSE docs[b].status
      /\ new.paid = IF "paid" \in DOMAIN w.set THEN w.set.paid ELSE docs[b].paid
  BY <1>2, <1>3, SavedIsADoc
<1>5. new \notin {Free, Gone}
  BY <1>4, ExistingAssumption
<1> HIDE DEF new
<1>6. /\ docs = [c \in Booking |-> docs[c]]
      /\ docs'[b] = new
      /\ \A c \in Booking : c # b => docs'[c] = docs[c]
      /\ docs' = [c \in Booking |-> docs'[c]]
  BY <1>1, <1>2 DEF IInv, DataInv, DocsInv
<1>7. Bookings' = Bookings
  BY <1>3, <1>5, <1>6 DEF Bookings, Exists
<1>8. QED
  BY <1>1, <1>2, <1>3, <1>4, <1>5, <1>6, <1>7 DEF b, w, new

\* Seats stay apart when a booking is saved: one that comes back to life without
\* a look, or moves to a room that was held or contended, is on record, and the
\* room of an undisturbed transfer is free.
LEMMA SaveSeats ==
  ASSUME IInv, NEW a \in Actor, NEW b, b = req[a].b, DoSave(a)
  PROVE  NoDoubleBooking'
<1> DEFINE w == Head(req[a].todo)
           marks == hist.raced \cup hist.unchecked
           after == hist'.raced \cup hist'.unchecked
<1>1. /\ w = req[a].todo[1] /\ w.w = "save"
      /\ b \in Bookings /\ Bookings' = Bookings /\ Bookings \subseteq Booking
      /\ PatchInv(req[a].op, b, w.set, Settled)
      /\ \A c \in Booking : c # b => docs'[c] = docs[c]
      /\ docs'[b] = Saved(docs[b], w)
      /\ docs'[b] \in Docs /\ docs'[b].nights = docs[b].nights
      /\ docs'[b].room = IF "room" \in DOMAIN w.set THEN w.set.room ELSE docs[b].room
  BY SaveFacts DEF Bookings
<1>2. fresh' = fresh /\ marks \subseteq after
  BY DEF DoSave, IInv, DataInv, CountersInv, Settled, IsHistory
<1>3. b \in after \/ /\ req[a].op # "confirm"
                     /\ req[a].op = "transfer" => a \notin hist.contended
                     /\ Live(b)' => Live(b)
  BY <1>1 DEF DoSave, IInv, DataInv, CountersInv, Live, Settled, IsHistory
<1> HIDE DEF w
<1>4. ASSUME b \notin after, NEW c \in Bookings, c # b, Live(b)', Live(c)',
             docs'[c].room = docs'[b].room,
             docs'[b].nights \cap docs'[c].nights # {}
      PROVE  c \in after
  <2>1. Live(b) /\ Live(c) /\ docs'[c] = docs[c]
    BY <1>1, <1>2, <1>3, <1>4 DEF Live
  <2>2. CASE "room" \in DOMAIN w.set
    <3>1. req[a].op = "transfer" /\ a \notin hist.contended
      BY <1>1, <1>3, <1>4, <2>2 DEF PatchInv
    <3>2. \A d \in Bookings \ {b} :
            Overlaps(d, w.set.room, docs[b].nights) => docs[d].status \in Closed
      BY <1>1, <2>2, <3>1 DEF IInv, SeatInv, TransferInv
    <3>3. Overlaps(c, w.set.room, docs[b].nights)
      BY <1>1, <1>4, <2>1, <2>2 DEF Overlaps
    <3>4. QED
      BY <1>4, <2>1, <3>2, <3>3 DEF Live, Closed
  <2>3. CASE "room" \notin DOMAIN w.set
    <3>1. Overlaps(b, docs[c].room, docs[c].nights)
      BY <1>1, <1>4, <2>1, <2>3 DEF Overlaps
    <3>2. {b, c} \cap marks # {}
      BY <1>1, <1>4, <2>1, <3>1 DEF IInv, SeatInv, NoDoubleBooking
    <3>3. QED
      BY <1>2, <1>4, <3>2
  <2>4. QED
    BY <2>2, <2>3
<1>5. ASSUME NEW c \in Bookings, NEW d \in Bookings, c # d, c # b, d # b,
             Live(c)', Live(d)', Overlaps(c, docs[d].room, docs[d].nights)'
      PROVE  {c, d} \cap after # {}
  <2>1. docs'[c] = docs[c] /\ docs'[d] = docs[d]
    BY <1>1, <1>5
  <2>2. Live(c) /\ Live(d) /\ Overlaps(c, docs[d].room, docs[d].nights)
    BY <1>2, <1>5, <2>1 DEF Live, Overlaps
  <2>3. {c, d} \cap marks # {}
    BY <1>5, <2>2 DEF IInv, SeatInv, NoDoubleBooking
  <2>4. QED
    BY <1>2, <2>3
<1>6. SUFFICES ASSUME NEW c \in Bookings, NEW d \in Bookings, c # d, Live(c)', Live(d)',
                      Overlaps(c, docs[d].room, docs[d].nights)'
               PROVE  {c, d} \cap after # {}
  BY <1>1 DEF NoDoubleBooking
<1> HIDE DEF after
<1>7. CASE c = b
  <2>1. docs'[d].room = docs'[b].room /\ docs'[b].nights \cap docs'[d].nights # {}
    BY <1>6, <1>7 DEF Overlaps
  <2>2. QED
    BY <1>4, <1>6, <1>7, <2>1
<1>8. CASE d = b
  <2>1. docs'[c].room = docs'[b].room /\ docs'[b].nights \cap docs'[c].nights # {}
    BY <1>6, <1>8 DEF Overlaps
  <2>2. QED
    BY <1>4, <1>6, <1>8, <2>1
<1>9. QED
  BY <1>5, <1>6, <1>7, <1>8

\* A save of an operation that does not seat is calm.
LEMMA CalmSave ==
  ASSUME IInv, NEW a \in Actor, DoSave(a), req[a].op \notin Seating
  PROVE  Calm
<1> DEFINE b == req[a].b
           w == Head(req[a].todo)
<1>1. /\ b \in Bookings /\ Bookings' = Bookings /\ Bookings \subseteq Booking
      /\ PatchInv(req[a].op, b, w.set, Settled)
      /\ \A c \in Booking : c # b => docs'[c] = docs[c]
      /\ docs'[b].nights = docs[b].nights
      /\ docs'[b].room = IF "room" \in DOMAIN w.set THEN w.set.room ELSE docs[b].room
      /\ docs'[b].status = IF "status" \in DOMAIN w.set THEN w.set.status
                           ELSE docs[b].status
  BY SaveFacts DEF Bookings
<1>2. fresh' = fresh
  BY DEF DoSave
<1>3. "room" \notin DOMAIN w.set
  BY <1>1 DEF PatchInv, Seating
<1>4. docs'[b].status = docs[b].status \/ docs'[b].status \in Closed
  BY <1>1 DEF PatchInv
<1>5. \A s \in Closed : s \notin {"CONFIRMED", "CHECKED_IN", "PENDING"}
  BY DEF Closed
<1> HIDE DEF b
<1>6. ASSUME NEW c \in Bookings
      PROVE  /\ docs'[c].room = docs[c].room /\ docs'[c].nights = docs[c].nights
             /\ docs'[c].status = docs[c].status \/ docs'[c].status \in Closed
  BY <1>1, <1>3, <1>4, <1>6
<1>7. ASSUME NEW c \in Bookings
      PROVE  Live(c)' => Live(c)
  BY <1>2, <1>5, <1>6, <1>7 DEF Live
<1>8. QED
  BY <1>1, <1>6, <1>7 DEF Calm

\* A booking is saved.
LEMMA SaveKeeps ==
  ASSUME IInv, NEW a \in Actor, DoSave(a)
  PROVE  IInv'
<1> DEFINE b == req[a].b
           w == Head(req[a].todo)
<1>1. /\ req[a] # Idle /\ req[a].op # "create"
      /\ b \in Bookings /\ Bookings' = Bookings /\ Bookings \subseteq Booking
      /\ PatchInv(req[a].op, b, w.set, Settled)
      /\ docs'[b] \in Docs
      /\ \A c \in Booking : c # b => docs'[c] = docs[c]
      /\ docs' = [c \in Booking |-> docs'[c]]
      /\ docs'[b].paid = IF "paid" \in DOMAIN w.set THEN w.set.paid ELSE docs[b].paid
  BY SaveFacts DEF Bookings
<1>2. /\ Done(a)
      /\ UNCHANGED <<fresh, rooms, rates, invoices, rzp, started, faults>>
  BY DEF DoSave
<1>3. /\ IsHistory(hist')
      /\ Settled' = Settled /\ hist'.contended = hist.contended
      /\ hist.raced \subseteq hist'.raced /\ hist.unchecked \subseteq hist'.unchecked
  <2>1. IsHistory(hist)
    BY DEF IInv, DataInv, CountersInv
  <2>2. /\ hist' = [hist EXCEPT !.raced = hist'.raced, !.unchecked = hist'.unchecked,
                                !.edited = hist'.edited, !.late = hist'.late,
                                !.clamped = hist'.clamped]
        /\ hist.raced \subseteq hist'.raced /\ hist.unchecked \subseteq hist'.unchecked
    BY <2>1 DEF DoSave, IsHistory
  <2>3. QED
    BY <2>1, <2>2 DEF Settled, IsHistory
<1>4. DocsInv'
  BY <1>1, <1>2 DEF IInv, DataInv, DocsInv
<1>5. RoomsInv'
  BY <1>2 DEF IInv, DataInv, RoomsInv
<1>6. CountersInv'
  BY <1>2, <1>3 DEF IInv, DataInv, CountersInv, Settled, IsHistory
<1>7. PaidInv'
  <2>1. \A c \in Bookings : docs'[c].paid = "PAID" => c \in Settled
    BY <1>1 DEF IInv, DataInv, PaidInv, PaidOnlyWhenCollected, PatchInv,
                Settled, IsHistory
  <2>2. QED
    BY <1>1, <1>2, <1>3, <2>1 DEF IInv, DataInv, PaidInv, PaidOnlyWhenCollected,
                                  Settled, IsHistory
<1>8. /\ RequestsInv'
      /\ req'[a] # Idle => /\ req'[a].op = req[a].op /\ req'[a].b = req[a].b
                           /\ req'[a].todo = Tail(req[a].todo) /\ req'[a].todo # <<>>
      /\ \A o \in Actor : o # a => req'[o] = req[o]
  BY <1>1, <1>2, <1>3, EndsOrGoesOn
<1>9. Calm \/ req[a].op \in Seating
  BY CalmSave
<1>10. /\ Rivalry'
       /\ \A o \in Actor : o # a => HoldInv(o)' /\ TransferInv(o)'
  BY <1>3, <1>8, <1>9, OthersKnow
<1>11. NoDoubleBooking'
  BY SaveSeats
<1>12. HoldInv(a)'
  BY <1>1, <1>8 DEF HoldInv, Idle
<1>13. TransferInv(a)'
  <2>1. req'[a].op = "transfer" => req'[a] # Idle
    BY DEF Idle
  <2> SUFFICES ASSUME req'[a].op = "transfer"
               PROVE  Tail(req[a].todo)[1].w = "room"
    BY <1>8, <2>1 DEF TransferInv
  <2> DEFINE s == req[a].todo
             t == Tail(s)
  <2>2. req[a].op = "transfer" /\ t # <<>>
    BY <1>8, <2>1
  <2>3. RequestInv(req[a], Settled)
    BY DEF IInv, DataInv, RequestsInv
  <2>4. /\ Len(s) \in Nat \ {0} /\ Len(t) = Len(s) - 1
        /\ \A i \in 1..Len(t) : t[i] = s[i + 1]
        /\ IsSequence(t)
        /\ \A i \in 2..Len(s) : s[i].w = "room"
    BY <1>1, <2>2, <2>3, TailIsAllowed DEF RequestInv, TodoInv
  <2> HIDE DEF s, t
  <2>5. Len(t) \in Nat \ {0}
    BY <2>2, <2>4, HeadAndTail
  <2>6. 2 \in 2..Len(s) /\ t[1] = s[2]
    BY <2>4, <2>5
  <2>7. t[1].w = "room"
    BY <2>4, <2>6
  <2>8. QED
    BY <2>7 DEF s, t
<1>14. QED
  BY <1>4, <1>5, <1>6, <1>7, <1>8, <1>10, <1>11, <1>12, <1>13
     DEF IInv, DataInv, SeatInv

\* A booking is created: by a request that was contended, which is on record, or
\* by one that knows of no conflict any more.
LEMMA InsertKeeps ==
  ASSUME IInv, NEW a \in Actor, DoInsert(a)
  PROVE  IInv'
<1> DEFINE w == Head(req[a].todo)
           base == Base(w.rate, w.nights, w.terms.extra)
           off == Discount(w.terms.off, base)
           price == WithTaxes(base) - off
           new == [room |-> w.room, guest |-> a, nights |-> w.nights,
                   status |-> w.status, paid |-> "PENDING", pay |-> "PENDING",
                   terms |-> [extra |-> w.terms.extra, off |-> off],
                   total |-> price, pending |-> NoMove, transfers |-> <<>>]
<1>1. PICK b \in Booking :
        /\ docs[b] = Free /\ docs' = [docs EXCEPT ![b] = new]
        /\ fresh' = fresh \cup {b}
        /\ hist' = [hist EXCEPT
             !.unchecked = IF a \in hist.contended THEN @ \cup {b} ELSE @,
             !.repriced = IF w.rate # NightlyRate(w.room) THEN @ \cup {b} ELSE @]
  BY DEF DoInsert
<1>2. /\ req[a] # Idle /\ w.w = "insert" /\ Done(a)
      /\ UNCHANGED <<rooms, rates, invoices, rzp, started, faults>>
  BY DEF DoInsert, Next1
<1>3. /\ req[a].op = "create" /\ a \in Guest
      /\ w.room \in Room /\ w.nights \in Stays /\ w.status \in {"PENDING", "CONFIRMED"}
      /\ w = req[a].todo[1] /\ Len(req[a].todo) = 1
      /\ w.rate \in Nat /\ w.terms \in [extra : Nat, off : Nat]
  BY <1>2, HeadFacts DEF WriteInv, IInv, DataInv, RequestsInv
<1>4. off \in Nat /\ w.terms.extra \in Nat /\ price \in Nat
  BY <1>3, BookedPrice
<1> HIDE DEF price, off, base, w
<1>5. /\ new \in Docs /\ new.room = w.room /\ new.nights = w.nights
      /\ new.paid = "PENDING"
  <2>1. <<>> \in Seq(Refunds)
    OBVIOUS
  <2>2. QED
    BY <1>3, <1>4, <2>1 DEF Docs, Statuses, Refunds
<1>6. new \notin {Free, Gone}
  BY <1>5, ExistingAssumption
<1> HIDE DEF new
<1>7. /\ DocsInv
      /\ docs'[b] = new
      /\ \A c \in Booking : c # b => docs'[c] = docs[c]
      /\ docs' = [c \in Booking |-> docs'[c]]
  BY <1>1 DEF IInv, DataInv, DocsInv
<1>8. Bookings' = Bookings \cup {b} /\ b \notin Bookings
  BY <1>1, <1>6, <1>7 DEF Bookings, Exists
<1>9. /\ IsHistory(hist')
      /\ Settled' = Settled /\ hist'.contended = hist.contended
      /\ hist'.raced = hist.raced /\ hist.unchecked \subseteq hist'.unchecked
      /\ a \in hist.contended => b \in hist'.unchecked
  BY <1>1 DEF IInv, DataInv, CountersInv, Settled, IsHistory
<1>10. DocsInv'
  BY <1>1, <1>5, <1>7, <1>8 DEF DocsInv
<1>11. RoomsInv' /\ CountersInv'
  BY <1>2, <1>9 DEF IInv, DataInv, RoomsInv, CountersInv, Settled, IsHistory
<1>12. PaidInv'
  BY <1>2, <1>5, <1>7, <1>8, <1>9
     DEF IInv, DataInv, PaidInv, PaidOnlyWhenCollected, Bookings, Settled, IsHistory
<1>13. /\ RequestsInv'
       /\ req'[a] # Idle => req'[a].op = req[a].op
       /\ \A o \in Actor : o # a => req'[o] = req[o]
  BY <1>2, <1>9, EndsOrGoesOn
<1>14. req'[a] = Idle
  <2>1. RequestInv(req[a], Settled)
    BY DEF IInv, DataInv, RequestsInv
  <2>2. Len(Tail(req[a].todo)) = 0 /\ IsSequence(Tail(req[a].todo))
    BY <1>2, <1>3, <2>1, TailIsAllowed DEF TodoInv
  <2>3. Tail(req[a].todo) = <<>>
    BY <2>2, HeadAndTail
  <2>4. QED
    BY <1>2, <2>1, <2>3 DEF Done, Continue, IInv, DataInv, RequestsInv
<1>15. HoldInv(a)' /\ TransferInv(a)'
  BY <1>14 DEF HoldInv, TransferInv, Idle
<1>16. /\ Rivalry'
       /\ \A o \in Actor : o # a => HoldInv(o)' /\ TransferInv(o)'
  BY <1>3, <1>9, <1>13, OthersKnow DEF Seating
<1>17. ASSUME a \notin hist.contended, NEW c \in Bookings
       PROVE  ~(Overlaps(c, w.room, w.nights) /\ Live(c))
  <2> SUFFICES ASSUME Overlaps(c, w.room, w.nights), Live(c)
               PROVE  FALSE
    OBVIOUS
  <2>1. PICK i \in 1..1 : req[a].todo[i].w = "drop"
    BY <1>3, <1>17 DEF IInv, SeatInv, HoldInv
  <2>2. i = 1
    BY <2>1
  <2>3. QED
    BY <1>2, <1>3, <2>1, <2>2 DEF w
<1>18. \A c \in Bookings : /\ docs'[c] = docs[c]
                           /\ Live(c)' => Live(c)
  BY <1>1, <1>7, <1>8 DEF Live, Bookings
<1>19. NoDoubleBooking'
  <2> DEFINE after == hist'.raced \cup hist'.unchecked
  <2>1. ASSUME b \notin after, NEW c \in Bookings, Live(c)',
               docs'[c].room = docs'[b].room, docs'[b].nights \cap docs'[c].nights # {}
        PROVE  FALSE
    <3>1. Overlaps(c, w.room, w.nights) /\ Live(c)
      BY <1>5, <1>7, <1>18, <2>1 DEF Overlaps
    <3>2. QED
      BY <1>9, <1>17, <2>1, <3>1
  <2>2. ASSUME NEW c \in Bookings, NEW d \in Bookings, c # d, Live(c)', Live(d)',
               Overlaps(c, docs[d].room, docs[d].nights)'
        PROVE  {c, d} \cap after # {}
    <3>1. Live(c) /\ Live(d) /\ Overlaps(c, docs[d].room, docs[d].nights)
      BY <1>18, <2>2 DEF Overlaps
    <3>2. {c, d} \cap (hist.raced \cup hist.unchecked) # {}
      BY <2>2, <3>1 DEF IInv, SeatInv, NoDoubleBooking
    <3>3. QED
      BY <1>9, <3>2
  <2>3. SUFFICES ASSUME NEW c \in Bookings', NEW d \in Bookings', c # d,
                        Live(c)', Live(d)', Overlaps(c, docs[d].room, docs[d].nights)'
                 PROVE  {c, d} \cap after # {}
    BY DEF NoDoubleBooking
  <2> HIDE DEF after
  <2>4. docs'[c].room = docs'[d].room /\ docs'[c].nights \cap docs'[d].nights # {}
    BY <2>3 DEF Overlaps
  <2>5. CASE c = b
    BY <1>8, <2>1, <2>3, <2>4, <2>5
  <2>6. CASE d = b
    BY <1>8, <2>1, <2>3, <2>4, <2>6
  <2>7. CASE c # b /\ d # b
    BY <1>8, <2>2, <2>3, <2>7
  <2>8. QED
    BY <2>5, <2>6, <2>7
<1>20. QED
  BY <1>10, <1>11, <1>12, <1>13, <1>15, <1>16, <1>19 DEF IInv, DataInv, SeatInv

----------------------------------------------------------------------------
(* The gateway, the clock and the start. *)

\* A step of nobody's request: what every request knows stays true.
LEMMA NobodysStep ==
  ASSUME IInv, docs' = docs, fresh' \subseteq fresh, req' = req,
         Settled \subseteq Settled', hist'.contended = hist.contended,
         hist'.raced = hist.raced, hist'.unchecked = hist.unchecked
  PROVE  RequestsInv' /\ SeatInv'
<1>1. Calm
  BY NoBookingWritten
<1>2. NoDoubleBooking'
  BY <1>1, CalmSeats DEF IInv, SeatInv
<1>3. \A o \in Actor : HoldInv(o)' /\ TransferInv(o)'
  BY <1>1, CalmKnowledge DEF IInv, SeatInv
<1>4. Rivalry'
  BY DEF IInv, SeatInv, Rivalry
<1>5. RequestsInv'
  BY RequestStays DEF IInv, DataInv, RequestsInv
<1>6. QED
  BY <1>2, <1>3, <1>4, <1>5 DEF SeatInv

\* The guest pays at the gateway.
LEMMA PayKeeps ==
  ASSUME IInv, NEW b \in Booking, GuestPays(b)
  PROVE  IInv'
<1>1. /\ UNCHANGED <<docs, fresh, rooms, rates, invoices, req, started, faults>>
      /\ rzp' = [rzp EXCEPT ![b] = "paid"]
      /\ hist' = [hist EXCEPT !.collected = @ \cup {b}]
  BY DEF GuestPays
<1>2. /\ IsHistory(hist')
      /\ Settled' = Settled \cup {b} /\ hist'.contended = hist.contended
      /\ hist'.raced = hist.raced /\ hist'.unchecked = hist.unchecked
  BY <1>1 DEF IInv, DataInv, CountersInv, Settled, IsHistory
<1>3. RequestsInv' /\ SeatInv'
  BY <1>1, <1>2, NobodysStep
<1>4. DocsInv' /\ RoomsInv'
  BY <1>1 DEF IInv, DataInv, DocsInv, RoomsInv, Bookings, Exists
<1>5. CountersInv'
  BY <1>1, <1>2 DEF IInv, DataInv, CountersInv, Settled, IsHistory
<1>6. PaidInv'
  BY <1>1, <1>2 DEF IInv, DataInv, PaidInv, PaidOnlyWhenCollected, CountersInv,
                    Bookings, Exists, Settled, IsHistory
<1>7. QED
  BY <1>3, <1>4, <1>5, <1>6 DEF IInv, DataInv

\* A category gets another price.
LEMMA CategoryKeeps ==
  ASSUME IInv, NEW a, NEW c \in Categories, NEW p \in Prices, UpdateCategory(a, c, p)
  PROVE  IInv'
<1>1. /\ UNCHANGED <<docs, fresh, rooms, invoices, rzp, req, faults>>
      /\ rates' = [rates EXCEPT ![c] = p]
      /\ hist' = [hist EXCEPT !.repriced = @ \cup Bookings]
  BY DEF UpdateCategory
<1>2. started' \in 0..MaxRequests
  BY RoomBookingAssumption DEF UpdateCategory, IInv, DataInv, CountersInv
<1>3. /\ IsHistory(hist') /\ Settled' = Settled
      /\ hist'.contended = hist.contended
      /\ hist'.raced = hist.raced /\ hist'.unchecked = hist.unchecked
      /\ hist'.collected = hist.collected /\ hist'.borrowed = hist.borrowed
  BY <1>1 DEF IInv, DataInv, CountersInv, Settled, IsHistory
<1>4. RequestsInv' /\ SeatInv'
  BY <1>1, <1>3, NobodysStep
<1>5. DocsInv' /\ RoomsInv'
  BY <1>1 DEF IInv, DataInv, DocsInv, RoomsInv, Bookings, Exists
<1>6. rates' \in [Categories -> Nat]
  BY <1>1, RoomBookingAssumption DEF IInv, DataInv, CountersInv
<1>7. CountersInv'
  BY <1>1, <1>6, <1>2, <1>3 DEF IInv, DataInv, CountersInv
<1>8. PaidInv'
  BY <1>1, <1>3 DEF IInv, DataInv, PaidInv, PaidOnlyWhenCollected, Settled, Bookings, Exists
<1>9. QED
  BY <1>4, <1>5, <1>7, <1>8 DEF IInv, DataInv

\* The hold on a booking ends.
LEMMA HoldEndsKeeps ==
  ASSUME IInv, NEW b \in Booking, HoldEnds(b)
  PROVE  IInv'
<1>1. /\ UNCHANGED <<docs, rooms, rates, invoices, rzp, req, started, faults, hist>>
      /\ fresh' \subseteq fresh
  BY DEF HoldEnds
<1>2. RequestsInv' /\ SeatInv'
  <2>1. Settled' = Settled
    BY <1>1 DEF Settled
  <2>2. QED
    BY <1>1, <2>1, NobodysStep
<1>3. DocsInv' /\ RoomsInv' /\ PaidInv' /\ CountersInv'
  BY <1>1 DEF IInv, DataInv, DocsInv, RoomsInv, PaidInv, PaidOnlyWhenCollected,
              CountersInv, Bookings, Exists, Settled, IsHistory
<1>4. QED
  BY <1>2, <1>3 DEF IInv, DataInv

\* A step that changes nothing.
LEMMA StutterKeeps ==
  ASSUME IInv, UNCHANGED vars
  PROVE  IInv'
<1>1. UNCHANGED <<docs, fresh, rooms, rates, invoices, rzp, req, started, faults, hist>>
  BY DEF vars
<1>2. RequestsInv' /\ SeatInv'
  <2>1. Settled' = Settled
    BY <1>1 DEF Settled
  <2>2. QED
    BY <1>1, <2>1, NobodysStep
<1>3. DocsInv' /\ RoomsInv' /\ PaidInv' /\ CountersInv'
  BY <1>1 DEF IInv, DataInv, DocsInv, RoomsInv, PaidInv, PaidOnlyWhenCollected,
              CountersInv, Bookings, Exists, Settled, IsHistory
<1>4. QED
  BY <1>2, <1>3 DEF IInv, DataInv

\* The server starts on a database in order.
LEMMA InitIInv ==
  ASSUME Init
  PROVE  IInv
<1>1. /\ docs \in [Booking -> Docs \cup {Free, Gone}]
      /\ fresh = {} /\ Settled = {b \in Bookings : docs[b].paid = "PAID"}
      /\ \A b, c \in Booking :
           b # c /\ docs[b] \in Docs /\ docs[c] \in Docs =>
             \/ {docs[b].status, docs[c].status} \cap (Closed \cup {"PENDING"}) # {}
             \/ docs[b].room # docs[c].room
             \/ docs[b].nights \cap docs[c].nights = {}
  BY ExistingAssumption DEF Init, NoHistory, Settled
<1>2. DocsInv
  BY <1>1 DEF DocsInv
<1>3. RoomsInv
  <2> DEFINE s(r) == CASE \E b \in Bookings : docs[b].room = r
                                /\ docs[b].status = "CHECKED_IN" -> "OCCUPIED"
                           [] \E b \in Bookings : docs[b].pending # NoMove
                                /\ docs[b].pending.to = r -> "RESERVED"
                           [] OTHER -> "AVAILABLE"
  <2>1. \A r : s(r) \in RoomStates
    BY DEF RoomStates
  <2>2. rooms = [r \in Room |-> [status |-> s(r), active |-> TRUE, by |-> NoBooking]]
    BY DEF Init
  <2> HIDE DEF s
  <2>3. QED
    BY <2>1, <2>2 DEF RoomsInv
<1>4. CountersInv
  <2>1. /\ invoices \in [Booking -> {NoInvoice} \cup Bills]
        /\ rzp \in [Booking -> {"none", "open", "paid"}]
    BY DEF Init
  <2>2. started \in 0..MaxRequests /\ faults \in 0..MaxFaults
    BY RoomBookingAssumption DEF Init
  <2> DEFINE paid == {b \in Bookings : docs[b].paid = "PAID"}
  <2>3. hist = [NoHistory EXCEPT !.collected = paid]
    BY DEF Init
  <2> HIDE DEF paid
  <2>4. IsHistory(hist)
    BY <2>3 DEF NoHistory, IsHistory
  <2>5. rates \in [Categories -> Nat]
    BY RoomBookingAssumption DEF Init, Categories
  <2>6. QED
    BY <2>1, <2>2, <2>4, <2>5 DEF CountersInv
<1>5. PaidInv
  BY <1>1 DEF PaidInv, PaidOnlyWhenCollected, Init, Settled, IsHistory
<1>6. \A a \in Actor : req[a] = Idle
  BY DEF Init
<1>7. Idle.op = "idle"
  BY DEF Idle
<1>8. RequestsInv
  <2>1. req = [a \in Actor |-> req[a]]
    BY DEF Init
  <2>2. RequestInv(Idle, Settled)
    BY NothingToDo
  <2>3. QED
    BY <1>6, <1>7, <2>1, <2>2 DEF RequestsInv
<1>9. NoDoubleBooking
  <2> SUFFICES ASSUME NEW b \in Bookings, NEW c \in Bookings, b # c, Live(b), Live(c),
                      Overlaps(b, docs[c].room, docs[c].nights)
               PROVE  FALSE
    BY DEF NoDoubleBooking
  <2>1. b \in Booking /\ c \in Booking /\ docs[b] \in Docs /\ docs[c] \in Docs
    BY <1>1 DEF Bookings, Exists
  <2>2. {docs[b].status, docs[c].status} \subseteq {"CONFIRMED", "CHECKED_IN"}
    BY <1>1 DEF Live
  <2>3. QED
    BY <1>1, <2>1, <2>2 DEF Overlaps, Closed
<1>10. SeatInv
  BY <1>6, <1>7, <1>9 DEF SeatInv, Rivalry, HoldInv, TransferInv, Seating
<1>11. QED
  BY <1>2, <1>3, <1>4, <1>5, <1>8, <1>10 DEF IInv, DataInv

\* Every step keeps the invariant.
LEMMA NextIInv ==
  ASSUME IInv, [Next]_vars
  PROVE  IInv'
<1>1. ASSUME NEW a \in Guest, GuestRequests(a)
      PROVE  IInv'
  <2>1. a \in Actor
    BY DEF Actor
  <2>2. ASSUME NEW r \in Room, NEW n \in Stays, NEW s \in {"PENDING", "CONFIRMED"},
               NEW t \in Terms, CreateRoomBooking(a, r, n, s, t)
        PROVE  IInv'
    BY <2>2, CreateKeeps
  <2>3. ASSUME NEW b \in Booking,
               \/ CreateBookingRazorpayOrder(a, b)
               \/ VerifyBookingPayment(a, b)
               \/ VerifyWrongSignature(a, b)
        PROVE  IInv'
    BY <2>1, <2>3, PaymentKeeps
  <2>4. ASSUME NEW b \in Booking, CancelGuestBooking(a, b) \/ CancelPendingBooking(a, b)
        PROVE  IInv'
    BY <2>1, <2>4, CancelKeeps
  <2>5. QED
    BY <1>1, <2>2, <2>3, <2>4 DEF GuestRequests
<1>2. ASSUME NEW a \in Desk, DeskRequests(a)
      PROVE  IInv'
  <2>1. a \in Actor
    BY DEF Actor
  <2>2. ASSUME NEW b \in Booking, NEW s \in {"PAID", "PENDING"},
               RecordBookingPayment(a, b, s)
        PROVE  IInv'
    BY <2>1, <2>2, RecordKeeps
  <2>3. ASSUME NEW b \in Booking, NEW s \in HandStatuses, UpdateBookingStatus(a, b, s)
        PROVE  IInv'
    BY <2>1, <2>3, StatusKeeps
  <2>4. ASSUME NEW b \in Booking,
               \/ CheckInGuest(a, b) \/ CheckOutGuest(a, b) \/ CancelGuestBooking(a, b)
        PROVE  IInv'
    BY <2>1, <2>4, CheckInKeeps, CheckOutKeeps, CancelKeeps
  <2>5. ASSUME NEW b \in Booking, NEW to \in Room, TransferRoom(a, b, to)
        PROVE  IInv'
    BY <2>1, <2>5, TransferKeeps
  <2>6. ASSUME NEW b \in Booking,
               \/ ConfirmTransferPayment(a, b)
               \/ CancelPendingTransfer(a, b)
               \/ MarkTransferRefundProcessed(a, b)
        PROVE  IInv'
    BY <2>1, <2>6, MoveKeeps
  <2>7. ASSUME NEW r \in Room,
               SetRoomActive(a, r) \/ \E s \in RoomStatuses : SetRoomStatus(a, r, s)
        PROVE  IInv'
    BY <2>1, <2>7, RoomKeeps
  <2>8. ASSUME NEW c \in Categories, NEW p \in Prices, UpdateCategory(a, c, p)
        PROVE  IInv'
    BY <2>8, CategoryKeeps
  <2>9. QED
    BY <1>2, <2>2, <2>3, <2>4, <2>5, <2>6, <2>7, <2>8 DEF DeskRequests
<1>3. ASSUME NEW a \in Actor, Writes(a) \/ Dies(a)
      PROVE  IInv'
  BY <1>3, InsertKeeps, EndKeeps, DropKeeps, SaveKeeps, HouseWriteKeeps, LookKeeps
     DEF Writes
<1>4. ASSUME NEW b \in Booking, GuestPays(b) \/ HoldEnds(b)
      PROVE  IInv'
  BY <1>4, PayKeeps, HoldEndsKeeps
<1>5. QED
  BY <1>1, <1>2, <1>3, <1>4, StutterKeeps DEF Next

----------------------------------------------------------------------------
(* The theorems. *)

\* The inductive invariant of the room bookings.
THEOREM BookingsInvariant == Spec => []IInv
<1>1. Init => IInv
  BY InitIInv
<1>2. IInv /\ [Next]_vars => IInv'
  BY NextIInv
<1>3. QED
  BY <1>1, <1>2, PTL DEF Spec

\* Bookings, rooms, invoices and gateway orders keep the shapes of their schemas
\* whatever the requests in flight, and no booking counts as paid unless somebody
\* paid for it, or verified it with the payment of something else: never does
\* updateBookingStatus infer it from a status.
THEOREM PaidMeansCollected == Spec => []BookingInv
<1>1. IInv => BookingInv
  BY DEF IInv, DataInv, DocsInv, RoomsInv, CountersInv, PaidInv, BookingInv, TypeOK,
         Bookings, Exists, RoomStates, Bills, Settled, IsHistory
<1>2. QED
  BY <1>1, BookingsInvariant, PTL

\* Two live bookings share a room and a night only if one was saved by a request
\* that overlapped a rival or took the room without a check: createRoomBooking and
\* transferRoom are right as long as nobody else seats while they run.
THEOREM RoomsAreNotDoubleBooked == Spec => []NoDoubleBooking
<1>1. IInv => NoDoubleBooking
  BY DEF IInv, SeatInv
<1>2. QED
  BY <1>1, BookingsInvariant, PTL

\* What the search page and the desk are offered is what the handlers accept.
THEOREM OffersHold == Spec => []OffersAreAccepted
<1>1. ASSUME IInv
      PROVE  OffersAreAccepted
  <2>1. \A b \in Bookings : docs[b] \in Docs
    BY <1>1, ExistingIsADoc DEF Bookings
  <2>2. \A b \in Bookings : docs[b].status \in Statuses
    BY <2>1 DEF Docs
  <2>3. ASSUME NEW n \in Stays, NEW r \in SearchAvailable(n)
        PROVE  Conflicts(r, n) = {}
    BY <2>3 DEF SearchAvailable, Conflicts, Live
  <2>4. ASSUME NEW b \in Bookings
        PROVE  TransferOptions(b) = {to \in Room : Movable(b, docs[b], to)}
    <3>1. \A c \in Bookings : docs[c].status \notin Closed <=>
            docs[c].status \in {"PENDING", "CONFIRMED", "CHECKED_IN"}
      BY <2>2 DEF Statuses, Closed
    <3>2. ASSUME NEW to \in Room
          PROVE  to \in TransferOptions(b) <=> Movable(b, docs[b], to)
      BY <3>1 DEF TransferOptions, Movable, Clashes, Overlaps
    <3>3. TransferOptions(b) \subseteq Room
      BY DEF TransferOptions
    <3>4. QED
      BY <3>2, <3>3
  <2>5. QED
    BY <2>3, <2>4 DEF OffersAreAccepted
<1>2. IInv => OffersAreAccepted
  BY <1>1
<1>3. QED
  BY <1>2, BookingsInvariant, PTL

-----------------------------------------------------------------------------
(***************************************************************************)
(* What becomes of a stay.  Its bill, its invoice and the room it occupies *)
(* rest on what every request that claims the booking may still do to it   *)
(* (ClaimInv).  Two that claim it at the same time are crossed             *)
(* (ClaimRivalry): the first of them to save leaves the booking raced, and *)
(* the properties speak of the others.                                     *)
(***************************************************************************)

\* A move starts at the room of its booking and leads to another.
MoveInv(d) ==
    /\ d.room \in Room
    /\ d.pending # NoMove => d.pending.from = d.room /\ d.pending.to # d.room

\* The bill is the price of the room, and of the room the booking will move to.
BillInv(d, low) ==
    /\ Billed(d.total, FairPrice(d, NightlyRate(d.room)), Len(d.transfers), low)
    /\ d.pending # NoMove =>
         Billed(d.total + d.pending.due, FairPrice(d, NightlyRate(d.pending.to)),
                Len(d.transfers) + 1, low)

\* So it is unless prices changed under the booking; `cut': a refund may have taken
\* all of it now, as one may have before.
Priced(b, d, cut) == b \notin hist.repriced => BillInv(d, cut \/ b \in hist.clamped)

\* Two copies of a booking that agree on all a stay is about.
SameStay(d, e) ==
    /\ d.room = e.room /\ d.nights = e.nights /\ d.status = e.status
    /\ d.terms = e.terms /\ d.total = e.total /\ d.pending = e.pending
    /\ Len(d.transfers) = Len(e.transfers)

Balanced(bill) == bill.paid + bill.due = bill.grand

\* Booking b is invoiced, over this amount unless an upgrade was, or is about to
\* be, confirmed after its check-out.
Invoiced(b, total, upgrade) ==
    /\ invoices[b] # NoInvoice
    /\ upgrade \/ b \in hist.late \/ invoices[b].stay = total

\* A write that saves the booking, or will be followed by one.
Saves(w) == w.w \in {"save", "target"}
Saving(todo) == \E i \in 1..Len(todo) : Saves(todo[i])
Claims(a, b) == req[a].op \in Claiming /\ req[a].b = b

\* A room is occupied if booking b marked it last, and once the writes in todo
\* are done.
Occupied(b, r) == rooms[r].by = b => rooms[r].status = "OCCUPIED"
Marks(w, r) == w.w = "room" /\ w.room = r
WillBeOccupied(b, todo, r) ==
    /\ \A i \in 1..Len(todo) : Marks(todo[i], r) => todo[i].status = "OCCUPIED"
    /\ (\A i \in 1..Len(todo) : ~Marks(todo[i], r)) => Occupied(b, r)

\* The order of the writes of a request: one save, an invoice before all, rooms
\* given up and stays closed after it.
ShapeOf(op, b, todo) ==
    /\ \A i, j \in 1..Len(todo) :
         Saves(todo[i]) =>
           /\ Saves(todo[j]) => i = j
           /\ todo[j].w = "room" /\ j < i => todo[j].status = "OCCUPIED"
           /\ todo[j].w = "close" => i < j
    /\ \A i \in 1..Len(todo) :
         /\ todo[i].w = "invoice" => i = 1 /\ Saving(todo) /\ Balanced(todo[i].bill)
         /\ todo[i].w = "room" /\ b \in Booking => op \in Claiming
         /\ todo[i].w = "save" /\ op \notin Claiming =>
              DOMAIN todo[i].set \subseteq {"paid", "pay"} /\ Len(todo[i].push) = 0
         /\ todo[i].w = "save" /\ op = "confirm" => "status" \notin DOMAIN todo[i].set

Shape(a) ==
    /\ req[a].op \in Claiming => req[a].b \in Booking /\ docs[req[a].b] # Free
    /\ ShapeOf(req[a].op, req[a].b, req[a].todo)

\* Of two requests about one booking at the same time, both are crossed.
ClaimRivalry ==
    \A a, o \in Actor :
        a # o /\ req[a].op \in Claiming /\ req[o].op \in Claiming /\ req[a].b = req[o].b
        => a \in hist.crossed

\* What the save in todo will leave of booking b, if nobody disturbs it: n.
SaveInv(op, b, todo, n) ==
    /\ MoveInv(n)
    /\ Priced(b, n, op = "transfer" /\ n.total = 0)
    /\ n.status = "CHECKED_IN" /\ faults = 0 => WillBeOccupied(b, todo, n.room)
    /\ IF todo[1].w = "invoice" THEN todo[1].bill.stay = n.total
       ELSE n.status = "CHECKED_OUT" =>
              \/ op = "status" \/ b \in hist.edited
              \/ Invoiced(b, n.total, op = "confirm")
    /\ (\E i \in 1..Len(todo) : todo[i].w = "close") => n.status = "CHECKED_OUT"

\* What a transfer has read and will decide on.
TargetInv(d, copy) ==
    /\ SameStay(d, copy)
    /\ copy.status \notin Closed /\ copy.pending = NoMove

\* What a request that claims booking b may still do to it, d.
PlanInv(op, b, todo, d) ==
    \A i \in 1..Len(todo) :
      /\ todo[i].w = "target" => TargetInv(d, todo[i].copy)
      /\ todo[i].w = "save" => SaveInv(op, b, todo, Saved(d, todo[i]))

\* What is left of it once it has saved.
RestInv(b, todo, d) ==
    /\ d.status = "CHECKED_IN" /\ faults = 0 => WillBeOccupied(b, todo, d.room)
    /\ \A i \in 1..Len(todo) : todo[i].w = "close" => d.status = "CHECKED_OUT"

ClaimInv(a) ==
    LET b == req[a].b
        todo == req[a].todo
    IN  req[a].op \in Claiming /\ b \in Bookings \ hist.raced =>
          /\ a \notin hist.crossed => PlanInv(req[a].op, b, todo, docs[b])
          /\ ~Saving(todo) => RestInv(b, todo, docs[b])

\* A booking is billed for its room, moves out of it, and ended with an invoice.
BilledInv(b) ==
    b \in Bookings \ hist.raced =>
      /\ MoveInv(docs[b])
      /\ Priced(b, docs[b], FALSE)
      /\ docs[b].status = "CHECKED_OUT" /\ b \notin hist.edited
           => Invoiced(b, docs[b].total, FALSE)

\* Its room is occupied when no request that claims it has rooms left to mark,
\* and no two requests have saved it and not finished.
OccupiedInv(b) ==
    b \in Bookings \ hist.raced =>
      /\ /\ docs[b].status = "CHECKED_IN" /\ faults = 0
         /\ \A a \in Actor : Claims(a, b) => Saving(req[a].todo)
         => Occupied(b, docs[b].room)
      /\ \A a, o \in Actor : a # o /\ Claims(a, b) /\ Claims(o, b) =>
           Saving(req[a].todo) \/ Saving(req[o].todo)

InvoicesInv == \A b \in Booking : invoices[b] # NoInvoice => Balanced(invoices[b])

ClaimsInv ==
    /\ ClaimRivalry
    /\ InvoicesInv
    /\ \A a \in Actor : Shape(a) /\ ClaimInv(a)
    /\ \A b \in Booking : BilledInv(b) /\ OccupiedInv(b)

----------------------------------------------------------------------------
(* Steps of one actor, as the others see them. *)

\* Nothing that is on record, or was invoiced, is taken back.
Steady(a) ==
    /\ \A o \in Actor \ {a} : req'[o] = req[o]
    /\ \A o \in Actor \ {a} : o \in hist.crossed => o \in hist'.crossed
    /\ hist.raced \subseteq hist'.raced
    /\ hist.edited \subseteq hist'.edited /\ hist.late \subseteq hist'.late
    /\ rates' = rates
    /\ hist.repriced \subseteq hist'.repriced /\ hist.clamped \subseteq hist'.clamped
    /\ faults' = 0 => faults = 0
    /\ \A b \in Booking : invoices[b] # NoInvoice => invoices'[b] = invoices[b]
    /\ \A b \in Booking : docs[b] # Free => docs'[b] # Free

\* Booking b stays as it is, if it still matters.
SameBooking(b) ==
    b \in Bookings' \ hist'.raced => b \in Bookings /\ SameStay(docs'[b], docs[b])

\* Rooms booking b occupies stay occupied, unless a request that has saved it
\* goes on to give some up.
HouseKept(a, b) ==
    \/ Claims(a, b) /\ ~Saving(req[a].todo)
    \/ \A r \in Room : Occupied(b, r) => Occupied(b, r)'

----------------------------------------------------------------------------
(* Prices. *)

\* Rounded percentages of two amounts and of their sum differ by at most 1,
LEMMA PercentSums ==
  ASSUME NEW x \in Nat, NEW y \in Nat
  PROVE  \A p \in {18, 5} :
           /\ Percent(p, x) + Percent(p, y) <= Percent(p, x + y) + 1
           /\ Percent(p, x + y) <= Percent(p, x) + Percent(p, y) + 1
<1>1. ASSUME NEW u \in Nat, NEW v \in Nat
      PROVE  /\ (u + 100) \div 200 + (v + 100) \div 200 <= (u + v + 100) \div 200 + 1
             /\ (u + v + 100) \div 200 <= (u + 100) \div 200 + (v + 100) \div 200 + 1
  OBVIOUS
<1>2. ASSUME NEW u, NEW v, u = 36 * x, v = 36 * y
      PROVE  /\ u \in Nat /\ v \in Nat
             /\ 2 * 18 * x = u /\ 2 * 18 * y = v /\ 2 * 18 * (x + y) = u + v
  BY <1>2
<1>3. ASSUME NEW u, NEW v, u = 10 * x, v = 10 * y
      PROVE  /\ u \in Nat /\ v \in Nat
             /\ 2 * 5 * x = u /\ 2 * 5 * y = v /\ 2 * 5 * (x + y) = u + v
  BY <1>3
<1>4. /\ Percent(18, x) + Percent(18, y) <= Percent(18, x + y) + 1
      /\ Percent(18, x + y) <= Percent(18, x) + Percent(18, y) + 1
  BY <1>1, <1>2 DEF Percent
<1>5. /\ Percent(5, x) + Percent(5, y) <= Percent(5, x + y) + 1
      /\ Percent(5, x + y) <= Percent(5, x) + Percent(5, y) + 1
  BY <1>1, <1>3 DEF Percent
<1>6. QED
  BY <1>4, <1>5

\* so that the amounts with their two taxes differ by at most 2.
LEMMA TaxedSums ==
  ASSUME NEW x \in Nat, NEW y \in Nat
  PROVE  /\ WithTaxes(x) + WithTaxes(y) <= WithTaxes(x + y) + 2
         /\ WithTaxes(x + y) <= WithTaxes(x) + WithTaxes(y) + 2
<1>1. x + y \in Nat
  OBVIOUS
<1>2. /\ Percent(18, x) \in Nat /\ Percent(18, y) \in Nat /\ Percent(18, x + y) \in Nat
      /\ Percent(5, x) \in Nat /\ Percent(5, y) \in Nat /\ Percent(5, x + y) \in Nat
  BY <1>1, PercentsAreNat
<1>3. /\ Percent(18, x) + Percent(18, y) <= Percent(18, x + y) + 1
      /\ Percent(18, x + y) <= Percent(18, x) + Percent(18, y) + 1
      /\ Percent(5, x) + Percent(5, y) <= Percent(5, x + y) + 1
      /\ Percent(5, x + y) <= Percent(5, x) + Percent(5, y) + 1
  BY PercentSums
<1>4. /\ WithTaxes(x) = x + Percent(18, x) + Percent(5, x)
      /\ WithTaxes(y) = y + Percent(18, y) + Percent(5, y)
      /\ WithTaxes(x + y) = x + y + Percent(18, x + y) + Percent(5, x + y)
  BY DEF WithTaxes
<1>5. QED
  BY <1>2, <1>3, <1>4

\* The price of a stay and the extras in a room, with their taxes.
StayPrice(r, n, extra) == WithTaxes(Base(NightlyRate(r), n, extra))

\* What a booking costs in a room is its price there but for the discount.
LEMMA FairPrices ==
  ASSUME CountersInv, NEW d \in Docs, NEW r \in Room
  PROVE  /\ StayPrice(r, d.nights, d.terms.extra) \in Nat /\ d.terms.off \in Nat
         /\ FairPrice(d, NightlyRate(r)) =
              StayPrice(r, d.nights, d.terms.extra) - d.terms.off
         /\ FairPrice(d, NightlyRate(r)) \in Int
<1>1. NightlyRate(r) \in Nat
  BY PricesAreNat DEF Docs
<1>2. d.nights \in Stays /\ d.terms.extra \in Nat /\ d.terms.off \in Nat
  BY DEF Docs
<1>3. Cardinality(d.nights) \in Nat
  BY <1>2, NightsAreNat
<1>4. NightlyRate(r) * Cardinality(d.nights) \in Nat
  BY <1>1, <1>3
<1>5. Base(NightlyRate(r), d.nights, d.terms.extra) \in Nat
  BY <1>2, <1>4 DEF Base
<1>6. StayPrice(r, d.nights, d.terms.extra) \in Nat
  BY <1>5, TaxesAreNat DEF StayPrice
<1>7. FairPrice(d, NightlyRate(r)) = StayPrice(r, d.nights, d.terms.extra) - d.terms.off
  BY DEF FairPrice, StayPrice
<1>8. QED
  BY <1>2, <1>6, <1>7

\* What a move costs is what the prices of the two rooms differ by, but for what
\* the taxes round.
LEMMA MovePrices ==
  ASSUME CountersInv, NEW r \in Room, NEW t \in Room, NEW n \in Stays, NEW extra \in Nat
  PROVE  LET p == StayPrice(r, n, extra)
             q == StayPrice(t, n, extra)
             amount == Differential(r, t, n)
         IN  /\ MoveKind(r, t) = "UPGRADE" => q <= p + amount + 2 /\ p + amount <= q + 2
             /\ MoveKind(r, t) = "DOWNGRADE" => p <= q + amount + 2 /\ q + amount <= p + 2
             /\ MoveKind(r, t) \notin {"UPGRADE", "DOWNGRADE"} => p = q
<1> DEFINE x == NightlyRate(r)
           y == NightlyRate(t)
           m == Cardinality(n)
           gap == IF y - x < 0 THEN -(y - x) ELSE y - x
<1>1. x \in Nat /\ y \in Nat
  BY PricesAreNat
<1>2. m \in Nat
  BY NightsAreNat
<1>3. /\ MoveKind(r, t) = "UPGRADE" => y > x
      /\ MoveKind(r, t) = "DOWNGRADE" => ~(y > x)
      /\ MoveKind(r, t) \notin {"UPGRADE", "DOWNGRADE"} => x = y
  BY DEF MoveKind, NightlyRate
<1>4. /\ Differential(r, t, n) = WithTaxes(gap * m)
      /\ StayPrice(r, n, extra) = WithTaxes(x * m + extra)
      /\ StayPrice(t, n, extra) = WithTaxes(y * m + extra)
  BY DEF Differential, StayPrice, Base
<1> HIDE DEF x, y, m
<1>5. x * m \in Nat /\ y * m \in Nat
  BY <1>1, <1>2
<1>6. ASSUME y > x
      PROVE  gap * m \in Nat /\ y * m + extra = (x * m + extra) + gap * m
  <2>1. gap = y - x /\ y - x \in Nat
    BY <1>1, <1>6
  <2>2. (y - x) * m \in Nat /\ (y - x) * m = y * m - x * m
    BY <1>1, <1>2, <2>1
  <2>3. QED
    BY <1>5, <2>1, <2>2
<1>7. ASSUME ~(y > x)
      PROVE  gap * m \in Nat /\ x * m + extra = (y * m + extra) + gap * m
  <2>1. gap = x - y /\ x - y \in Nat
    BY <1>1, <1>7
  <2>2. (x - y) * m \in Nat /\ (x - y) * m = x * m - y * m
    BY <1>1, <1>2, <2>1
  <2>3. QED
    BY <1>5, <2>1, <2>2
<1>8. x * m + extra \in Nat /\ y * m + extra \in Nat
  BY <1>5
<1> HIDE DEF gap
<1>9. ASSUME MoveKind(r, t) = "UPGRADE"
      PROVE  /\ StayPrice(t, n, extra) <= StayPrice(r, n, extra) + Differential(r, t, n) + 2
             /\ StayPrice(r, n, extra) + Differential(r, t, n) <= StayPrice(t, n, extra) + 2
  <2>1. gap * m \in Nat /\ y * m + extra = (x * m + extra) + gap * m
    BY <1>3, <1>6, <1>9
  <2>2. /\ WithTaxes(x * m + extra) + WithTaxes(gap * m) <= WithTaxes(y * m + extra) + 2
        /\ WithTaxes(y * m + extra) <= WithTaxes(x * m + extra) + WithTaxes(gap * m) + 2
    BY <1>8, <2>1, TaxedSums
  <2>3. QED
    BY <1>4, <2>2
<1>10. ASSUME MoveKind(r, t) = "DOWNGRADE"
       PROVE  /\ StayPrice(r, n, extra) <= StayPrice(t, n, extra) + Differential(r, t, n) + 2
              /\ StayPrice(t, n, extra) + Differential(r, t, n) <= StayPrice(r, n, extra) + 2
  <2>1. gap * m \in Nat /\ x * m + extra = (y * m + extra) + gap * m
    BY <1>3, <1>7, <1>10
  <2>2. /\ WithTaxes(y * m + extra) + WithTaxes(gap * m) <= WithTaxes(x * m + extra) + 2
        /\ WithTaxes(x * m + extra) <= WithTaxes(y * m + extra) + WithTaxes(gap * m) + 2
    BY <1>8, <2>1, TaxedSums
  <2>3. QED
    BY <1>4, <2>2
<1>11. MoveKind(r, t) \notin {"UPGRADE", "DOWNGRADE"} =>
         StayPrice(r, n, extra) = StayPrice(t, n, extra)
  BY <1>3, <1>4
<1>12. QED
  BY <1>9, <1>10, <1>11

\* Prices that stay, or change on record, keep a bill what it is.
KeepsPrice(b) ==
    \/ b \in hist'.repriced
    \/ /\ rates' = rates
       /\ hist.repriced \subseteq hist'.repriced /\ hist.clamped \subseteq hist'.clamped

LEMMA PricedStays ==
  ASSUME NEW b, NEW d, NEW cut, KeepsPrice(b), Priced(b, d, cut)
  PROVE  Priced(b, d, cut)'
<1>1. SUFFICES ASSUME b \notin hist'.repriced
               PROVE  BillInv(d, cut \/ b \in hist.clamped)'
  BY DEF Priced
<1>2. /\ rates' = rates /\ BillInv(d, cut \/ b \in hist.clamped)
      /\ b \in hist.clamped => b \in hist'.clamped
  BY <1>1 DEF KeepsPrice, Priced
<1>3. QED
  BY <1>2 DEF BillInv, Billed, NightlyRate

\* Copies that agree on the stay are billed alike.
LEMMA PricedSame ==
  ASSUME NEW b, NEW d, NEW e, SameStay(d, e), NEW cut, Priced(b, d, cut)
  PROVE  Priced(b, e, cut)
<1>1. /\ d.room = e.room /\ d.total = e.total /\ d.pending = e.pending
      /\ Len(d.transfers) = Len(e.transfers)
      /\ \A x : FairPrice(d, x) = FairPrice(e, x)
  BY DEF SameStay, FairPrice
<1>2. QED
  BY <1>1 DEF Priced, BillInv

\* An edit of a document: of the same guest, nights and terms, its transfers left
\* alone or pushed to.
EditOf(from, to) ==
    /\ to.guest = from.guest /\ to.nights = from.nights /\ to.terms = from.terms
    /\ Grows(from, to)

\* The list of transfers grows by one at most.
LEMMA TransfersGrow ==
  ASSUME NEW d \in Docs, NEW e \in Docs, Grows(d, e)
  PROVE  /\ Len(d.transfers) \in Nat /\ Len(e.transfers) \in Nat
         /\ Len(d.transfers) <= Len(e.transfers)
         /\ \A r \in Refunds : e.transfers = Append(d.transfers, r) =>
              Len(e.transfers) = Len(d.transfers) + 1
<1>1. PICK s, t : s = d.transfers /\ t = e.transfers
  OBVIOUS
<1>2. s \in Seq(Refunds) /\ t \in Seq(Refunds)
  BY <1>1 DEF Docs, Refunds
<1>3. Len(s) \in Nat /\ Len(t) \in Nat
  BY <1>2, LenProperties
<1>4. \A r \in Refunds : t = Append(s, r) => Len(t) = Len(s) + 1
  BY <1>2, AppendProperties
<1>5. t = s \/ \E r \in Refunds : t = Append(s, r)
  BY <1>1 DEF Grows
<1>6. QED
  BY <1>1, <1>3, <1>4, <1>5

\* An edit that leaves room and total alone, and the move a booking waits for or
\* drops it, leaves a good bill.
LEMMA PricedEdit ==
  ASSUME CountersInv, NEW b, NEW d \in Docs, NEW e \in Docs, EditOf(d, e),
         e.room = d.room, e.total = d.total, e.pending \in {NoMove, d.pending},
         MoveInv(d), Priced(b, d, FALSE), NEW cut
  PROVE  MoveInv(e) /\ Priced(b, e, cut)
<1>1. MoveInv(e)
  BY DEF MoveInv
<1>2. SUFFICES ASSUME b \notin hist.repriced
               PROVE  BillInv(e, cut \/ b \in hist.clamped)
  BY <1>1 DEF Priced
<1>3. \A x : FairPrice(e, x) = FairPrice(d, x)
  BY DEF FairPrice, EditOf
<1>4. PICK k, l : k = Len(d.transfers) /\ l = Len(e.transfers)
  OBVIOUS
<1>5. k \in Nat /\ l \in Nat /\ k <= l
  BY <1>4, TransfersGrow DEF EditOf
<1>6. d.room \in Room /\ d.total \in Nat
  BY DEF Docs
<1>7. PICK fair \in Int : fair = FairPrice(d, NightlyRate(d.room))
  BY <1>6, FairPrices
<1>8. /\ fair - 2 * k <= d.total
      /\ b \in hist.clamped \/ d.total <= fair + 2 * k
  BY <1>2, <1>4, <1>7 DEF Priced, BillInv, Billed
<1>9. Billed(e.total, FairPrice(e, NightlyRate(e.room)), Len(e.transfers),
             cut \/ b \in hist.clamped)
  <2>1. fair - 2 * l <= d.total /\ (b \in hist.clamped \/ d.total <= fair + 2 * l)
    BY <1>5, <1>6, <1>8
  <2>2. QED
    BY <1>3, <1>4, <1>7, <2>1 DEF Billed
<1>10. ASSUME e.pending # NoMove
       PROVE  Billed(e.total + e.pending.due, FairPrice(e, NightlyRate(e.pending.to)),
                     Len(e.transfers) + 1, cut \/ b \in hist.clamped)
  <2>1. e.pending = d.pending /\ d.pending \in Moves
    BY <1>10 DEF Docs
  <2>2. PICK to \in Room, due \in Nat : to = d.pending.to /\ due = d.pending.due
    BY <2>1 DEF Moves
  <2>3. PICK price \in Int : price = FairPrice(d, NightlyRate(to))
    BY FairPrices
  <2>4. /\ price - 2 * (k + 1) <= d.total + due
        /\ b \in hist.clamped \/ d.total + due <= price + 2 * (k + 1)
    BY <1>2, <1>4, <1>10, <2>1, <2>2, <2>3 DEF Priced, BillInv, Billed
  <2>5. /\ price - 2 * (l + 1) <= d.total + due
        /\ b \in hist.clamped \/ d.total + due <= price + 2 * (l + 1)
    BY <1>5, <1>6, <2>4
  <2>6. QED
    BY <1>3, <1>4, <2>1, <2>2, <2>3, <2>5 DEF Billed
<1>11. QED
  BY <1>9, <1>10 DEF BillInv

----------------------------------------------------------------------------
(* Saves. *)

\* A save leaves, of two copies that agree, two that agree.
LEMMA SameSave ==
  ASSUME NEW d \in Docs, NEW e \in Docs, SameStay(d, e), NEW w, NEW op, NEW b, NEW c,
         PatchInv(op, b, w.set, c), w.push \in Seq(Refunds)
  PROVE  SameStay(Saved(d, w), Saved(e, w))
<1> DEFINE m == Saved(d, w)
           n == Saved(e, w)
<1>1. /\ m.nights = d.nights /\ m.terms = d.terms
      /\ Len(m.transfers) = Len(d.transfers) + Len(w.push)
      /\ m.room = IF "room" \in DOMAIN w.set THEN w.set.room ELSE d.room
      /\ m.status = IF "status" \in DOMAIN w.set THEN w.set.status ELSE d.status
      /\ m.total = IF "total" \in DOMAIN w.set THEN w.set.total ELSE d.total
      /\ m.pending = IF "pending" \in DOMAIN w.set THEN w.set.pending ELSE d.pending
  BY SavedIsADoc
<1>2. /\ n.nights = e.nights /\ n.terms = e.terms
      /\ Len(n.transfers) = Len(e.transfers) + Len(w.push)
      /\ n.room = IF "room" \in DOMAIN w.set THEN w.set.room ELSE e.room
      /\ n.status = IF "status" \in DOMAIN w.set THEN w.set.status ELSE e.status
      /\ n.total = IF "total" \in DOMAIN w.set THEN w.set.total ELSE e.total
      /\ n.pending = IF "pending" \in DOMAIN w.set THEN w.set.pending ELSE e.pending
  BY SavedIsADoc
<1> HIDE DEF m, n
<1>3. Len(m.transfers) = Len(n.transfers)
  BY <1>1, <1>2 DEF SameStay
<1>4. SameStay(m, n)
  BY <1>1, <1>2, <1>3 DEF SameStay
<1>5. QED
  BY <1>4 DEF m, n

\* The save of an edit leaves the edited stay, if nobody changed it meanwhile.
LEMMA SavedEdit ==
  ASSUME NEW d \in Docs, NEW from \in Docs, NEW to \in Docs, SameStay(d, from),
         EditOf(from, to),
         NEW w, w.set = Save(from, to).set, w.push = Save(from, to).push
  PROVE  SameStay(Saved(d, w), to)
<1> DEFINE n == Saved(d, w)
<1>1. /\ \A g : g \in DOMAIN w.set <=>
                  /\ g \in {"room", "guest", "nights", "status", "paid", "pay",
                            "terms", "total", "pending"}
                  /\ from[g] # to[g]
      /\ \A g \in DOMAIN w.set : w.set[g] = to[g]
  BY SaveShape
<1>2. w.push \in Seq(Refunds) /\ Len(from.transfers) + Len(w.push) = Len(to.transfers)
  BY SavePush DEF EditOf
<1>3. PatchInv("confirm", NoBooking, w.set, {NoBooking})
  BY PatchOfEdit DEF EditOf, Seating
<1>4. /\ n.nights = d.nights /\ n.terms = d.terms
      /\ Len(n.transfers) = Len(d.transfers) + Len(w.push)
      /\ n.room = IF "room" \in DOMAIN w.set THEN w.set.room ELSE d.room
      /\ n.status = IF "status" \in DOMAIN w.set THEN w.set.status ELSE d.status
      /\ n.total = IF "total" \in DOMAIN w.set THEN w.set.total ELSE d.total
      /\ n.pending = IF "pending" \in DOMAIN w.set THEN w.set.pending ELSE d.pending
  BY <1>2, <1>3, SavedIsADoc
<1> HIDE DEF n
<1>5. /\ n.room = to.room /\ n.status = to.status /\ n.total = to.total
      /\ n.pending = to.pending
  BY <1>1, <1>4 DEF SameStay
<1>6. n.nights = to.nights /\ n.terms = to.terms /\ Len(n.transfers) = Len(to.transfers)
  BY <1>2, <1>4 DEF SameStay, EditOf
<1>7. SameStay(n, to)
  BY <1>5, <1>6 DEF SameStay
<1>8. QED
  BY <1>7 DEF n

\* What is demanded of a saved stay depends on the stay only.
LEMMA SaveOfSame ==
  ASSUME NEW op, NEW b, NEW todo, NEW m, NEW n, SameStay(m, n),
         SaveInv(op, b, todo, m)
  PROVE  SaveInv(op, b, todo, n)
<1>1. /\ m.room = n.room /\ m.nights = n.nights /\ m.status = n.status
      /\ m.total = n.total /\ m.pending = n.pending
  BY DEF SameStay
<1>2. MoveInv(n)
  BY <1>1 DEF SaveInv, MoveInv
<1>3. Priced(b, n, op = "transfer" /\ n.total = 0)
  <2>1. PICK cut : cut = (op = "transfer" /\ m.total = 0)
    OBVIOUS
  <2>2. Priced(b, m, cut)
    BY <2>1 DEF SaveInv
  <2>3. Priced(b, n, cut)
    BY <2>2, PricedSame
  <2>4. QED
    BY <1>1, <2>1, <2>3
<1>4. n.status = "CHECKED_IN" /\ faults = 0 => WillBeOccupied(b, todo, n.room)
  BY <1>1 DEF SaveInv
<1>5. QED
  BY <1>1, <1>2, <1>3, <1>4 DEF SaveInv

\* So a plan for a booking is one for any copy that agrees with it.
LEMMA PlanOfSame ==
  ASSUME NEW op, NEW b, NEW todo, NEW d \in Docs, NEW e \in Docs, SameStay(e, d),
         NEW c, TodoInv(op, b, todo, c), PlanInv(op, b, todo, d)
  PROVE  PlanInv(op, b, todo, e)
<1> SUFFICES ASSUME NEW i \in 1..Len(todo)
             PROVE  /\ todo[i].w = "target" => TargetInv(e, todo[i].copy)
                    /\ todo[i].w = "save" => SaveInv(op, b, todo, Saved(e, todo[i]))
  BY DEF PlanInv
<1>1. todo[i].w = "target" => TargetInv(e, todo[i].copy)
  BY DEF PlanInv, TargetInv, SameStay
<1>2. ASSUME todo[i].w = "save"
      PROVE  SaveInv(op, b, todo, Saved(e, todo[i]))
  <2>1. WriteInv(op, b, todo[i], c)
    BY DEF TodoInv
  <2>2. /\ PatchInv(op, b, todo[i].set, c)
        /\ todo[i].push \in Seq(Refunds)
    BY <1>2, <2>1 DEF WriteInv
  <2>3. SameStay(d, e)
    BY DEF SameStay
  <2>4. SameStay(Saved(d, todo[i]), Saved(e, todo[i]))
    BY <2>2, <2>3, SameSave
  <2>5. SaveInv(op, b, todo, Saved(d, todo[i]))
    BY <1>2 DEF PlanInv
  <2>6. QED
    BY <2>4, <2>5, SaveOfSame
<1>3. QED
  BY <1>1, <1>2

----------------------------------------------------------------------------
(* What others may rely on. *)

\* What the rooms and records keep for booking b.
Keeps(b) ==
    /\ faults' = 0 => faults = 0
    /\ hist.edited \subseteq hist'.edited /\ hist.late \subseteq hist'.late
    /\ KeepsPrice(b)
    /\ invoices[b] # NoInvoice => invoices'[b] = invoices[b]
    /\ \A r \in Room : Occupied(b, r) => Occupied(b, r)'

\* A room that will be occupied still will.
LEMMA MarksStay ==
  ASSUME NEW b, NEW todo, NEW r \in Room, Keeps(b), WillBeOccupied(b, todo, r)
  PROVE  WillBeOccupied(b, todo, r)'
BY DEF Keeps, WillBeOccupied

\* A save that would leave a good stay still does.
LEMMA SaveStays ==
  ASSUME NEW op, NEW b, NEW todo, NEW n, Keeps(b), SaveInv(op, b, todo, n)
  PROVE  SaveInv(op, b, todo, n)'
<1>1. MoveInv(n) /\ n.room \in Room /\ MoveInv(n)'
  BY DEF SaveInv, MoveInv
<1>2. Priced(b, n, op = "transfer" /\ n.total = 0)'
  <2>1. PICK cut : cut = (op = "transfer" /\ n.total = 0)
    OBVIOUS
  <2>2. Priced(b, n, cut)
    BY <2>1 DEF SaveInv
  <2>3. Priced(b, n, cut)'
    BY <2>2, PricedStays DEF Keeps
  <2>4. QED
    BY <2>1, <2>3
<1>3. n.status = "CHECKED_IN" /\ faults' = 0 => WillBeOccupied(b, todo, n.room)'
  BY <1>1, MarksStay DEF SaveInv, Keeps
<1>4. \A u \in BOOLEAN : Invoiced(b, n.total, u) => Invoiced(b, n.total, u)'
  BY DEF Invoiced, Keeps
<1>5. IF todo[1].w = "invoice" THEN todo[1].bill.stay = n.total
      ELSE n.status = "CHECKED_OUT" =>
             \/ op = "status" \/ b \in hist'.edited
             \/ Invoiced(b, n.total, op = "confirm")'
  BY <1>4 DEF SaveInv, Keeps
<1>6. QED
  BY <1>1, <1>2, <1>3, <1>5 DEF SaveInv

\* A plan stays one, and what is left after a save stays harmless.
LEMMA PlanStays ==
  ASSUME NEW op, NEW b, NEW todo, NEW d, Keeps(b)
  PROVE  /\ PlanInv(op, b, todo, d) => PlanInv(op, b, todo, d)'
         /\ RestInv(b, todo, d) /\ d.room \in Room => RestInv(b, todo, d)'
<1>1. ASSUME PlanInv(op, b, todo, d)
      PROVE  PlanInv(op, b, todo, d)'
  <2>1. \A i \in 1..Len(todo) :
          todo[i].w = "save" => SaveInv(op, b, todo, Saved(d, todo[i]))'
    BY <1>1, SaveStays DEF PlanInv
  <2>2. \A i \in 1..Len(todo) :
          todo[i].w = "target" => TargetInv(d, todo[i].copy)'
    BY <1>1 DEF PlanInv, TargetInv
  <2>3. QED
    BY <2>1, <2>2 DEF PlanInv
<1>2. ASSUME RestInv(b, todo, d), d.room \in Room
      PROVE  RestInv(b, todo, d)'
  BY <1>2, MarksStay DEF RestInv, Keeps
<1>3. QED
  BY <1>1, <1>2

\* A booking that matters after a step did so before it.
LEMMA KeptDocs ==
  ASSUME IInv, IInv', NEW a \in Actor, Steady(a), NEW b, SameBooking(b),
         b \in Bookings' \ hist'.raced
  PROVE  /\ b \in Bookings \ hist.raced /\ b \in Booking
         /\ docs[b] \in Docs /\ docs'[b] \in Docs
         /\ SameStay(docs'[b], docs[b]) /\ SameStay(docs[b], docs'[b])
<1>1. b \in Bookings \ hist.raced /\ SameStay(docs'[b], docs[b])
  BY DEF SameBooking, Steady
<1>2. b \in Booking /\ Exists(b) /\ Exists(b)'
  BY <1>1 DEF Bookings
<1>3. docs[b] \in Docs /\ docs'[b] \in Docs
  BY <1>2 DEF IInv, DataInv, DocsInv, Exists
<1>4. QED
  BY <1>1, <1>2, <1>3 DEF SameStay

\* What another actor may still do to its booking, after a step of a.
LEMMA OthersClaim ==
  ASSUME IInv, IInv', ClaimsInv, NEW a \in Actor, Steady(a), NEW o \in Actor, o # a,
         req[o].op \in Claiming => SameBooking(req[o].b) /\ HouseKept(a, req[o].b)
  PROVE  ClaimInv(o)'
<1>1. PICK b, op, todo : b = req[o].b /\ op = req[o].op /\ todo = req[o].todo
  OBVIOUS
<1>2. req'[o].b = b /\ req'[o].op = op /\ req'[o].todo = todo
  BY <1>1 DEF Steady
<1>3. SUFFICES ASSUME op \in Claiming, b \in Bookings' \ hist'.raced
               PROVE  /\ o \notin hist'.crossed => PlanInv(op, b, todo, docs[b])'
                      /\ ~Saving(todo) => RestInv(b, todo, docs[b])'
  BY <1>2 DEF ClaimInv
<1>4. /\ b \in Bookings \ hist.raced /\ b \in Booking
      /\ docs[b] \in Docs /\ docs'[b] \in Docs
      /\ SameStay(docs'[b], docs[b]) /\ SameStay(docs[b], docs'[b])
  BY <1>1, <1>3, KeptDocs
<1>5. PICK d \in Docs, e \in Docs : d = docs[b] /\ e = docs'[b]
  BY <1>4
<1>6. TodoInv(op, b, todo, Settled)
  BY <1>1 DEF IInv, DataInv, RequestsInv, RequestInv
<1>7. PICK c : c = Settled
  OBVIOUS
<1>8. /\ o \notin hist.crossed => PlanInv(op, b, todo, d)
      /\ ~Saving(todo) => RestInv(b, todo, d)
  BY <1>1, <1>3, <1>4, <1>5 DEF ClaimsInv, ClaimInv
<1>9. o \in hist.crossed => o \in hist'.crossed
  BY <1>3 DEF Steady
<1>10. CASE Claims(a, b) /\ ~Saving(req[a].todo)
  <2>1. o \in hist.crossed
    BY <1>1, <1>3, <1>10 DEF ClaimsInv, ClaimRivalry, Claims
  <2>2. Saving(todo)
    BY <1>1, <1>3, <1>4, <1>10 DEF ClaimsInv, OccupiedInv, Claims
  <2>3. QED
    BY <1>9, <2>1, <2>2
<1>11. CASE \A r \in Room : Occupied(b, r) => Occupied(b, r)'
  <2>1. Keeps(b)
    BY <1>4, <1>11 DEF Keeps, KeepsPrice, Steady
  <2>2. PlanInv(op, b, todo, d) => PlanInv(op, b, todo, e)
    BY <1>4, <1>5, <1>6, <1>7, PlanOfSame
  <2>3. RestInv(b, todo, d) => RestInv(b, todo, e) /\ e.room \in Room
    BY <1>4, <1>5 DEF RestInv, SameStay, Docs
  <2>4. /\ PlanInv(op, b, todo, e) => PlanInv(op, b, todo, e)'
        /\ RestInv(b, todo, e) /\ e.room \in Room => RestInv(b, todo, e)'
    BY <2>1, PlanStays
  <2>5. /\ PlanInv(op, b, todo, e)' => PlanInv(op, b, todo, docs[b])'
        /\ RestInv(b, todo, e)' => RestInv(b, todo, docs[b])'
    BY <1>5
  <2>6. QED
    BY <1>8, <1>9, <2>2, <2>3, <2>4, <2>5
<1>12. HouseKept(a, b)
  BY <1>1, <1>3
<1>13. QED
  BY <1>10, <1>11, <1>12 DEF HouseKept

\* The bill and the invoice of a booking, after a step that leaves it alone.
LEMMA BilledStays ==
  ASSUME IInv, IInv', ClaimsInv, NEW a \in Actor, Steady(a), NEW c \in Booking,
         SameBooking(c)
  PROVE  BilledInv(c)'
<1>1. SUFFICES ASSUME c \in Bookings' \ hist'.raced
               PROVE  /\ MoveInv(docs'[c])
                      /\ Priced(c, docs[c], FALSE)'
                      /\ docs'[c].status = "CHECKED_OUT" /\ c \notin hist'.edited
                           => Invoiced(c, docs[c].total, FALSE)'
  BY DEF BilledInv, MoveInv
<1>2. /\ c \in Bookings \ hist.raced /\ SameStay(docs'[c], docs[c])
      /\ SameStay(docs[c], docs'[c]) /\ docs'[c] \in Docs
  BY <1>1, KeptDocs
<1>3. BilledInv(c)
  BY DEF ClaimsInv
<1>4. MoveInv(docs'[c])
  BY <1>2, <1>3 DEF BilledInv, SameStay, MoveInv
<1>5. Priced(c, docs[c], FALSE)'
  <2>1. PICK d, e : d = docs[c] /\ e = docs'[c]
    OBVIOUS
  <2>2. Priced(c, d, FALSE) /\ SameStay(d, e)
    BY <1>2, <1>3, <2>1 DEF BilledInv
  <2>3. Priced(c, e, FALSE)
    BY <2>2, PricedSame
  <2>4. KeepsPrice(c)
    BY DEF KeepsPrice, Steady
  <2>5. Priced(c, e, FALSE)'
    BY <2>3, <2>4, PricedStays
  <2>6. QED
    BY <2>1, <2>5
<1>6. ASSUME docs'[c].status = "CHECKED_OUT", c \notin hist'.edited
      PROVE  Invoiced(c, docs[c].total, FALSE)'
  <2>1. PICK t : t = docs[c].total /\ t = docs'[c].total
    BY <1>2 DEF SameStay
  <2>2. docs[c].status = "CHECKED_OUT" /\ c \notin hist.edited
    BY <1>2, <1>6 DEF SameStay, Steady
  <2>3. Invoiced(c, t, FALSE)
    BY <1>2, <1>3, <2>1, <2>2 DEF BilledInv
  <2>4. Invoiced(c, t, FALSE)'
    BY <2>3 DEF Invoiced, Steady
  <2>5. QED
    BY <2>1, <2>4 DEF Invoiced
<1>7. QED
  BY <1>4, <1>5, <1>6

\* A request begins with a save to come, or goes on, or ends.
Proceeds(a) ==
    \/ req'[a] = Idle
    \/ req[a] = Idle /\ (req'[a].op \in Claiming => Saving(req'[a].todo))
    \/ req'[a].op = req[a].op /\ req'[a].b = req[a].b

\* A request that claims booking c does not save it in this step, and if it
\* ends after it has saved the guest's room is occupied.
FinishesWell(a, c) ==
    c \in Bookings' \ hist'.raced /\ Claims(a, c) =>
      /\ Saving(req[a].todo) => req'[a] = Idle \/ Saving(req'[a].todo)
      /\ ~Saving(req[a].todo) =>
           /\ req'[a] = Idle \/ ~Saving(req'[a].todo)
           /\ req'[a] = Idle /\ faults' = 0 /\ docs[c].status = "CHECKED_IN" =>
                \A r \in Room : r = docs[c].room => Occupied(c, r)'

\* The room of a booking, after a step that leaves the booking alone.
LEMMA OccupiedStays ==
  ASSUME IInv, IInv', ClaimsInv, NEW a \in Actor, Steady(a), NEW c \in Booking,
         SameBooking(c), HouseKept(a, c), Proceeds(a), FinishesWell(a, c)
  PROVE  OccupiedInv(c)'
<1>1. SUFFICES ASSUME c \in Bookings' \ hist'.raced
               PROVE  /\ /\ docs'[c].status = "CHECKED_IN" /\ faults' = 0
                         /\ \A o \in Actor : Claims(o, c)' => Saving(req'[o].todo)
                         => Occupied(c, docs[c].room)'
                      /\ \A x, y \in Actor :
                           x # y /\ Claims(x, c)' /\ Claims(y, c)' =>
                             Saving(req'[x].todo) \/ Saving(req'[y].todo)
  BY DEF OccupiedInv, Saving
<1>2. /\ c \in Bookings \ hist.raced /\ SameStay(docs'[c], docs[c])
      /\ docs[c] \in Docs
  BY <1>1, KeptDocs
<1>3. /\ docs[c].status = "CHECKED_IN" /\ faults = 0
         /\ (\A o \in Actor : Claims(o, c) => Saving(req[o].todo))
         => Occupied(c, docs[c].room)
      /\ \A x, y \in Actor : x # y /\ Claims(x, c) /\ Claims(y, c) =>
           Saving(req[x].todo) \/ Saving(req[y].todo)
  BY <1>2 DEF ClaimsInv, OccupiedInv
<1>4. ASSUME NEW o \in Actor, o # a
      PROVE  (Claims(o, c)' <=> Claims(o, c)) /\ req'[o].todo = req[o].todo
  BY <1>4 DEF Steady, Claims
<1>5. Idle.op = "idle" /\ "idle" \notin Claiming
  BY DEF Idle, Claiming
<1>6. ASSUME NEW y \in Actor, y # a, Claims(a, c)', Claims(y, c)'
      PROVE  Saving(req'[a].todo) \/ Saving(req'[y].todo)
  <2>1. req'[a] # Idle /\ req'[a].op \in Claiming
    BY <1>5, <1>6 DEF Claims
  <2>2. CASE req[a] = Idle /\ (req'[a].op \in Claiming => Saving(req'[a].todo))
    BY <2>1, <2>2
  <2>3. CASE req'[a].op = req[a].op /\ req'[a].b = req[a].b
    <3>1. Claims(a, c)
      BY <1>6, <2>3 DEF Claims
    <3>2. Saving(req[a].todo) \/ Saving(req[y].todo)
      BY <1>3, <1>4, <1>6, <3>1
    <3>3. Saving(req[a].todo) => Saving(req'[a].todo)
      BY <1>1, <2>1, <3>1 DEF FinishesWell
    <3>4. QED
      BY <1>4, <1>6, <3>2, <3>3
  <2>4. QED
    BY <2>1, <2>2, <2>3 DEF Proceeds
<1>7. ASSUME NEW x \in Actor, NEW y \in Actor, x # y, Claims(x, c)', Claims(y, c)'
      PROVE  Saving(req'[x].todo) \/ Saving(req'[y].todo)
  <2>1. CASE x = a
    BY <1>6, <1>7, <2>1
  <2>2. CASE y = a
    BY <1>6, <1>7, <2>2
  <2>3. CASE x # a /\ y # a
    BY <1>3, <1>4, <1>7, <2>3
  <2>4. QED
    BY <2>1, <2>2, <2>3
<1>8. ASSUME docs'[c].status = "CHECKED_IN", faults' = 0,
             \A o \in Actor : Claims(o, c)' => Saving(req'[o].todo)
      PROVE  Occupied(c, docs[c].room)'
  <2>1. PICK r \in Room : r = docs[c].room /\ r = docs'[c].room
    BY <1>2 DEF SameStay, Docs
  <2>2. docs[c].status = "CHECKED_IN" /\ faults = 0
    BY <1>2, <1>8 DEF SameStay, Steady
  <2>3. SUFFICES Occupied(c, r)'
    BY <2>1
  <2>4. CASE Claims(a, c) /\ ~Saving(req[a].todo)
    <3>1. req'[a] = Idle \/ ~Saving(req'[a].todo)
      BY <1>1, <2>4 DEF FinishesWell
    <3>2. req'[a] = Idle
      <4>1. req[a] # Idle
        BY <1>5, <2>4 DEF Claims
      <4>2. req'[a] # Idle => Claims(a, c)'
        BY <2>4, <4>1 DEF Proceeds, Claims
      <4>3. QED
        BY <1>8, <3>1, <4>2
    <3>3. QED
      BY <1>1, <1>8, <2>1, <2>2, <2>4, <3>2 DEF FinishesWell
  <2>5. CASE ~(Claims(a, c) /\ ~Saving(req[a].todo))
    <3>1. \A o \in Actor : Claims(o, c) => Saving(req[o].todo)
      BY <1>4, <1>8, <2>5
    <3>2. Occupied(c, r)
      BY <1>3, <2>1, <2>2, <3>1
    <3>3. QED
      BY <2>5, <3>2 DEF HouseKept
  <2>6. QED
    BY <2>4, <2>5
<1>9. QED
  BY <1>7, <1>8

\* What another actor has left to do keeps its shape.
LEMMA OthersShape ==
  ASSUME NEW a \in Actor, Steady(a), NEW o \in Actor, o # a, Shape(o)
  PROVE  Shape(o)'
<1>1. PICK b, op, todo : b = req[o].b /\ op = req[o].op /\ todo = req[o].todo
  OBVIOUS
<1>2. req'[o].b = b /\ req'[o].op = op /\ req'[o].todo = todo
  BY <1>1 DEF Steady
<1>3. ShapeOf(op, b, todo)
  BY <1>1 DEF Shape
<1>4. op \in Claiming => b \in Booking /\ docs'[b] # Free
  BY <1>1 DEF Shape, Steady
<1>5. QED
  BY <1>2, <1>3, <1>4 DEF Shape

\* A step of actor a keeps the invariant if a keeps its part of it and leaves
\* the bookings that still matter alone.
LEMMA ActorStep ==
  ASSUME IInv, IInv', ClaimsInv, NEW a \in Actor, Steady(a), Proceeds(a),
         \A c \in Booking : SameBooking(c) /\ HouseKept(a, c) /\ FinishesWell(a, c),
         Shape(a)', ClaimInv(a)', InvoicesInv', ClaimRivalry'
  PROVE  ClaimsInv'
<1>1. ASSUME NEW o \in Actor
      PROVE  Shape(o)' /\ ClaimInv(o)'
  <2>1. CASE o = a
    BY <2>1
  <2>2. CASE o # a
    <3>1. Shape(o)
      BY DEF ClaimsInv
    <3>2. Shape(o)'
      BY <2>2, <3>1, OthersShape
    <3>3. req[o].op \in Claiming => req[o].b \in Booking
      BY <3>1 DEF Shape
    <3>4. ClaimInv(o)'
      BY <2>2, <3>3, OthersClaim
    <3>5. QED
      BY <3>2, <3>4
  <2>3. QED
    BY <2>1, <2>2
<1>2. ASSUME NEW c \in Booking
      PROVE  BilledInv(c)' /\ OccupiedInv(c)'
  BY BilledStays, OccupiedStays
<1>3. QED
  BY <1>1, <1>2 DEF ClaimsInv

----------------------------------------------------------------------------
(* The rest of a list. *)

\* The rest of a list that has its shape has it too, and holds the save.
LEMMA TailShape ==
  ASSUME NEW op, NEW b, NEW todo, IsSequence(todo), todo # <<>>, ShapeOf(op, b, todo)
  PROVE  /\ ShapeOf(op, b, Tail(todo))
         /\ \A i \in 1..Len(Tail(todo)) : Tail(todo)[i].w # "invoice"
         /\ Saves(todo[1]) => ~Saving(Tail(todo))
         /\ ~Saves(todo[1]) => (Saving(Tail(todo)) <=> Saving(todo))
<1> DEFINE t == Tail(todo)
<1>1. /\ Len(todo) \in Nat \ {0} /\ Len(t) = Len(todo) - 1
      /\ \A i \in 1..Len(t) : t[i] = todo[i + 1]
  BY HeadAndTail
<1> HIDE DEF t
<1>2. \A i \in 1..Len(t) : i + 1 \in 1..Len(todo) /\ i + 1 # 1 /\ t[i] = todo[i + 1]
  BY <1>1
<1>3. \A i \in 1..Len(t) : t[i].w # "invoice"
  BY <1>2 DEF ShapeOf
<1>4. ASSUME NEW i \in 1..Len(t), NEW j \in 1..Len(t), Saves(t[i])
      PROVE  /\ Saves(t[j]) => i = j
             /\ t[j].w = "room" /\ j < i => t[j].status = "OCCUPIED"
             /\ t[j].w = "close" => i < j
  <2>1. PICK k \in 1..Len(todo), l \in 1..Len(todo) : k = i + 1 /\ l = j + 1
    BY <1>2
  <2>2. /\ Saves(todo[l]) => k = l
        /\ todo[l].w = "room" /\ l < k => todo[l].status = "OCCUPIED"
        /\ todo[l].w = "close" => k < l
    BY <1>2, <1>4, <2>1 DEF ShapeOf
  <2>3. QED
    BY <1>2, <2>1, <2>2
<1>5. ASSUME NEW i \in 1..Len(t)
      PROVE  /\ t[i].w = "room" /\ b \in Booking => op \in Claiming
             /\ t[i].w = "save" /\ op \notin Claiming =>
                  DOMAIN t[i].set \subseteq {"paid", "pay"} /\ Len(t[i].push) = 0
             /\ t[i].w = "save" /\ op = "confirm" => "status" \notin DOMAIN t[i].set
  BY <1>2 DEF ShapeOf
<1>6. ShapeOf(op, b, t)
  BY <1>3, <1>4, <1>5 DEF ShapeOf
<1>7. 1 \in 1..Len(todo)
  BY <1>1
<1>8. Saves(todo[1]) => ~Saving(t)
  BY <1>2, <1>7 DEF ShapeOf, Saving
<1>9. ~Saves(todo[1]) => (Saving(t) <=> Saving(todo))
  <2>1. \A k \in 1..Len(todo) : k = 1 \/ (k - 1 \in 1..Len(t) /\ t[k - 1] = todo[k])
    BY <1>1
  <2>2. QED
    BY <1>2, <2>1 DEF Saving
<1>10. QED
  BY <1>3, <1>6, <1>8, <1>9 DEF t

\* What the write at the head of a list did for booking b.
HeadWritten(b, w) ==
    /\ \A r \in Room :
         /\ Marks(w, r) /\ w.status = "OCCUPIED" => Occupied(b, r)'
         /\ ~Marks(w, r) /\ Occupied(b, r) => Occupied(b, r)'
    /\ w.w = "invoice" => invoices'[b] # NoInvoice /\ invoices'[b].stay = w.bill.stay

\* The room will be occupied after the rest, once the head is written.
LEMMA TailMarks ==
  ASSUME NEW b, NEW todo, IsSequence(todo), todo # <<>>, NEW r \in Room,
         HeadWritten(b, todo[1]), WillBeOccupied(b, todo, r)
  PROVE  WillBeOccupied(b, Tail(todo), r)'
<1>1. PICK t : t = Tail(todo)
  OBVIOUS
<1>2. /\ Len(todo) \in Nat \ {0} /\ Len(t) = Len(todo) - 1
      /\ \A i \in 1..Len(t) : t[i] = todo[i + 1]
  BY <1>1, HeadAndTail
<1>3. /\ \A i \in 1..Len(t) : i + 1 \in 1..Len(todo) /\ t[i] = todo[i + 1]
      /\ \A k \in 1..Len(todo) : k = 1 \/ (k - 1 \in 1..Len(t) /\ t[k - 1] = todo[k])
      /\ 1 \in 1..Len(todo)
  BY <1>2
<1>4. \A i \in 1..Len(t) : Marks(t[i], r) => t[i].status = "OCCUPIED"
  BY <1>3 DEF WillBeOccupied
<1>5. (\A i \in 1..Len(t) : ~Marks(t[i], r)) => Occupied(b, r)'
  <2>1. CASE Marks(todo[1], r)
    BY <1>3, <2>1 DEF WillBeOccupied, HeadWritten
  <2>2. CASE ~Marks(todo[1], r)
    <3>1. (\A i \in 1..Len(t) : ~Marks(t[i], r)) =>
             \A k \in 1..Len(todo) : ~Marks(todo[k], r)
      BY <1>3, <2>2
    <3>2. QED
      BY <2>2, <3>1 DEF WillBeOccupied, HeadWritten
  <2>3. QED
    BY <2>1, <2>2
<1>6. WillBeOccupied(b, t, r)'
  BY <1>4, <1>5 DEF WillBeOccupied
<1>7. QED
  BY <1>1, <1>6

\* Any write but the save brings a good end of a save nearer.
LEMMA TailSave ==
  ASSUME NEW op, NEW b \in Booking, NEW todo, IsSequence(todo), todo # <<>>,
         ShapeOf(op, b, todo), NEW a, Steady(a),
         HeadWritten(b, todo[1]), NEW n, SaveInv(op, b, todo, n)
  PROVE  Tail(todo) # <<>> => SaveInv(op, b, Tail(todo), n)'
<1>1. PICK t : t = Tail(todo)
  OBVIOUS
<1>2. SUFFICES ASSUME t # <<>>
               PROVE  SaveInv(op, b, t, n)'
  BY <1>1
<1>3. /\ Len(todo) \in Nat \ {0} /\ Len(t) = Len(todo) - 1 /\ IsSequence(t)
      /\ \A i \in 1..Len(t) : t[i] = todo[i + 1]
  BY <1>1, HeadAndTail
<1>4. \A i \in 1..Len(t) : i + 1 \in 1..Len(todo) /\ t[i] = todo[i + 1]
  BY <1>3
<1>5. Len(t) \in Nat \ {0}
  BY <1>2, <1>3, HeadAndTail
<1>6. 1 \in 1..Len(t) /\ t[1].w # "invoice"
  <2>1. \A i \in 1..Len(Tail(todo)) : Tail(todo)[i].w # "invoice"
    BY TailShape
  <2>2. \A i \in 1..Len(t) : t[i].w # "invoice"
    BY <1>1, <2>1
  <2>3. QED
    BY <1>5, <2>2
<1>7. /\ MoveInv(n) /\ n.room \in Room /\ MoveInv(n)'
      /\ Priced(b, n, op = "transfer" /\ n.total = 0)'
  <2>1. PICK cut : cut = (op = "transfer" /\ n.total = 0)
    OBVIOUS
  <2>2. Priced(b, n, cut) /\ KeepsPrice(b)
    BY <2>1 DEF SaveInv, KeepsPrice, Steady
  <2>3. Priced(b, n, cut)'
    BY <2>2, PricedStays
  <2>4. QED
    BY <2>1, <2>3 DEF SaveInv, MoveInv
<1>8. n.status = "CHECKED_IN" /\ faults' = 0 => WillBeOccupied(b, t, n.room)'
  <2>1. faults' = 0 => faults = 0
    BY DEF Steady
  <2>2. WillBeOccupied(b, todo, n.room) => WillBeOccupied(b, Tail(todo), n.room)'
    BY <1>7, TailMarks
  <2>3. QED
    BY <1>1, <2>1, <2>2 DEF SaveInv
<1>9. n.status = "CHECKED_OUT" =>
        \/ op = "status" \/ b \in hist'.edited
        \/ Invoiced(b, n.total, op = "confirm")'
  <2>1. CASE todo[1].w = "invoice"
    BY <2>1 DEF SaveInv, HeadWritten, Invoiced
  <2>2. CASE todo[1].w # "invoice"
    <3>1. \A u \in BOOLEAN : Invoiced(b, n.total, u) => Invoiced(b, n.total, u)'
      BY DEF Invoiced, Steady
    <3>2. QED
      BY <2>2, <3>1 DEF SaveInv, Steady
  <2>3. QED
    BY <2>1, <2>2
<1>10. (\E i \in 1..Len(t) : t[i].w = "close") => n.status = "CHECKED_OUT"
  BY <1>4 DEF SaveInv
<1>11. QED
  BY <1>6, <1>7, <1>8, <1>9, <1>10 DEF SaveInv

\* So the rest of a plan is a plan, and the rest of what follows a save harmless.
LEMMA TailPlan ==
  ASSUME NEW op, NEW b \in Booking, NEW todo, IsSequence(todo), todo # <<>>,
         ShapeOf(op, b, todo), NEW a, Steady(a), HeadWritten(b, todo[1]), NEW d
  PROVE  /\ PlanInv(op, b, todo, d) => PlanInv(op, b, Tail(todo), d)'
         /\ RestInv(b, todo, d) /\ d.room \in Room => RestInv(b, Tail(todo), d)'
<1>1. PICK t : t = Tail(todo)
  OBVIOUS
<1>2. /\ Len(todo) \in Nat \ {0} /\ Len(t) = Len(todo) - 1 /\ IsSequence(t)
      /\ \A i \in 1..Len(t) : t[i] = todo[i + 1]
  BY <1>1, HeadAndTail
<1>3. \A i \in 1..Len(t) : i + 1 \in 1..Len(todo) /\ t[i] = todo[i + 1] /\ t # <<>>
  <2>1. t = <<>> => Len(t) = 0
    BY Tuples
  <2>2. QED
    BY <1>2, <2>1
<1>4. ASSUME PlanInv(op, b, todo, d)
      PROVE  PlanInv(op, b, t, d)'
  <2>1. ASSUME NEW i \in 1..Len(t)
        PROVE  /\ t[i].w = "target" => TargetInv(d, t[i].copy)'
               /\ t[i].w = "save" => SaveInv(op, b, t, Saved(d, t[i]))'
    <3>1. /\ t[i].w = "target" => TargetInv(d, t[i].copy)
          /\ t[i].w = "save" => SaveInv(op, b, todo, Saved(d, t[i]))
      BY <1>3, <1>4 DEF PlanInv
    <3>2. TargetInv(d, t[i].copy) => TargetInv(d, t[i].copy)'
      BY DEF TargetInv
    <3>3. PICK n : n = Saved(d, t[i])
      OBVIOUS
    <3>4. SaveInv(op, b, todo, n) => SaveInv(op, b, Tail(todo), n)'
      BY <1>1, <1>3, TailSave
    <3>5. QED
      BY <1>1, <3>1, <3>2, <3>3, <3>4
  <2>2. QED
    BY <2>1 DEF PlanInv
<1>5. ASSUME RestInv(b, todo, d), d.room \in Room
      PROVE  RestInv(b, t, d)'
  <2>1. WillBeOccupied(b, todo, d.room) => WillBeOccupied(b, Tail(todo), d.room)'
    BY <1>5, TailMarks
  <2>2. \A i \in 1..Len(t) : t[i].w = "close" => d.status = "CHECKED_OUT"
    BY <1>3, <1>5 DEF RestInv
  <2>3. QED
    BY <1>1, <1>5, <2>1, <2>2 DEF RestInv, Steady
<1>6. QED
  BY <1>1, <1>4, <1>5

\* A request that claims a booking and writes anything but the save: the room it
\* marks, the invoice, or nothing that matters.
LEMMA TailClaims ==
  ASSUME IInv, IInv', ClaimsInv, NEW a \in Actor, Steady(a), req[a] # Idle,
         ~Saves(Head(req[a].todo)),
         req[a].op \in Claiming /\ req[a].b \in Bookings' => docs'[req[a].b] = docs[req[a].b],
         hist'.crossed = hist.crossed,
         \/ req'[a] = Idle /\ (Tail(req[a].todo) = <<>> \/ Saving(req[a].todo))
         \/ /\ req'[a].op = req[a].op /\ req'[a].b = req[a].b
            /\ req'[a].todo = Tail(req[a].todo) /\ req'[a].todo # <<>>,
         req'[a] # Idle \/ ~Saving(req[a].todo) => HeadWritten(req[a].b, Head(req[a].todo))
  PROVE  /\ Shape(a)' /\ ClaimInv(a)' /\ Proceeds(a)
         /\ \A c \in Booking : FinishesWell(a, c)
<1>1. PICK b, op, todo : b = req[a].b /\ op = req[a].op /\ todo = req[a].todo
  OBVIOUS
<1>2. PICK t : t = Tail(todo)
  OBVIOUS
<1>3. IsSequence(todo) /\ todo # <<>>
  BY <1>1 DEF IInv, DataInv, RequestsInv, RequestInv, TodoInv
<1>4. Head(todo) = todo[1] /\ ~Saves(todo[1])
  BY <1>1, <1>3, HeadAndTail
<1>5. /\ ShapeOf(op, b, todo)
      /\ op \in Claiming => b \in Booking /\ docs[b] # Free
  BY <1>1 DEF ClaimsInv, Shape
<1>6. /\ ShapeOf(op, b, t)
      /\ Saving(t) <=> Saving(todo)
  BY <1>2, <1>3, <1>4, <1>5, TailShape
<1>7. /\ Idle.op = "idle" /\ Idle.todo = <<>> /\ Idle.b = NoBooking
      /\ "idle" \notin Claiming /\ Len(<<>>) = 0
  BY Tuples DEF Idle, Claiming
<1>8. CASE req'[a] = Idle
  <2>1. Proceeds(a) /\ ClaimInv(a)'
    BY <1>7, <1>8 DEF Proceeds, ClaimInv
  <2>2. Shape(a)'
    <3>1. ShapeOf("idle", NoBooking, <<>>)
      BY <1>7 DEF ShapeOf
    <3>2. QED
      BY <1>7, <1>8, <3>1 DEF Shape
  <2>3. ASSUME NEW c \in Booking, c \in Bookings' \ hist'.raced, Claims(a, c),
               ~Saving(todo), faults' = 0, docs[c].status = "CHECKED_IN",
               NEW r \in Room, r = docs[c].room
        PROVE  Occupied(c, r)'
    <3>1. c = b /\ op \in Claiming /\ docs'[b] = docs[b] /\ t = <<>>
      BY <1>1, <1>2, <1>7, <1>8, <2>3 DEF Claims
    <3>2. b \in Bookings \ hist.raced
      BY <2>3, <3>1 DEF Bookings, Exists, Steady
    <3>3. faults = 0 /\ HeadWritten(b, todo[1])
      BY <1>1, <1>4, <1>8, <2>3 DEF Steady
    <3>4. WillBeOccupied(b, todo, r)
      BY <1>1, <2>3, <3>1, <3>2, <3>3 DEF ClaimsInv, ClaimInv, RestInv
    <3>5. WillBeOccupied(b, Tail(todo), r)'
      BY <1>3, <3>3, <3>4, TailMarks
    <3>6. Occupied(b, r)'
      <4>1. t = <<>>
        BY <3>1
      <4>2. Len(Tail(todo)) = 0
        BY <1>2, <1>7, <4>1
      <4>3. QED
        BY <3>5, <4>2 DEF WillBeOccupied
    <3>7. QED
      BY <3>1, <3>6
  <2>4. \A c \in Booking : FinishesWell(a, c)
    BY <1>1, <1>8, <2>3 DEF FinishesWell
  <2>5. QED
    BY <2>1, <2>2, <2>4
<1>9. CASE req'[a] # Idle
  <2>1. req'[a].op = op /\ req'[a].b = b /\ req'[a].todo = t /\ HeadWritten(b, todo[1])
    BY <1>1, <1>2, <1>4, <1>9
  <2>2. Proceeds(a)
    BY <1>1, <2>1 DEF Proceeds
  <2>3. \A c \in Booking : FinishesWell(a, c)
    BY <1>1, <1>6, <1>9, <2>1 DEF FinishesWell
  <2>4. Shape(a)'
    BY <1>5, <1>6, <2>1 DEF Shape, Steady
  <2>5. ClaimInv(a)'
    <3>1. SUFFICES ASSUME op \in Claiming, b \in Bookings' \ hist'.raced
                   PROVE  /\ a \notin hist'.crossed => PlanInv(op, b, t, docs[b])'
                          /\ ~Saving(t) => RestInv(b, t, docs[b])'
      BY <2>1 DEF ClaimInv
    <3>2. b \in Bookings \ hist.raced /\ docs'[b] = docs[b] /\ b \in Booking
      BY <1>1, <1>5, <3>1 DEF Bookings, Exists, Steady
    <3>3. PICK d \in Docs : d = docs[b] /\ d = docs'[b]
      BY <3>2, ExistingIsADoc DEF Bookings
    <3>4. d.room \in Room
      BY DEF Docs
    <3>5. /\ a \notin hist.crossed => PlanInv(op, b, todo, d)
          /\ ~Saving(todo) => RestInv(b, todo, d)
      BY <1>1, <3>1, <3>2, <3>3 DEF ClaimsInv, ClaimInv
    <3>6. /\ PlanInv(op, b, todo, d) => PlanInv(op, b, Tail(todo), d)'
          /\ RestInv(b, todo, d) => RestInv(b, Tail(todo), d)'
      BY <1>3, <1>5, <2>1, <3>1, <3>4, TailPlan
    <3>7. /\ a \notin hist'.crossed => PlanInv(op, b, t, d)'
          /\ ~Saving(t) => RestInv(b, t, d)'
      BY <1>2, <1>6, <3>5, <3>6
    <3>8. QED
      BY <3>3, <3>7
  <2>6. QED
    BY <2>2, <2>3, <2>4, <2>5
<1>10. QED
  BY <1>8, <1>9

----------------------------------------------------------------------------
(* Requests that begin. *)

\* A request that begins and claims a booking has a plan for it, unless a rival
\* is about: then both are crossed.
LEMMA BeginClaims ==
  ASSUME IInv, IInv', ClaimsInv, NEW a \in Actor, NEW op, NEW b, NEW todo,
         Begin(a, op, b, todo), ShapeOf(op, b, todo),
         op \in Claiming => b \in Booking /\ Exists(b) /\ Saving(todo),
         op \in Claiming /\ b \notin hist.raced /\ Rivals(a, op, b) = {} =>
           PlanInv(op, b, todo, docs[b])
  PROVE  ClaimsInv'
<1>1. /\ docs' = docs /\ rooms' = rooms /\ invoices' = invoices /\ faults' = faults
      /\ rates' = rates
      /\ hist'.raced = hist.raced /\ hist'.edited = hist.edited
      /\ hist'.late = hist.late /\ hist'.repriced = hist.repriced
      /\ hist'.clamped = hist.clamped
      /\ hist'.crossed = Joined(hist.crossed, a, Rivals(a, op, b))
  <2>1. /\ docs' = docs /\ rooms' = rooms /\ invoices' = invoices /\ faults' = faults
        /\ rates' = rates
    BY DEF Begin
  <2>2. IsHistory(hist)
    BY DEF IInv, DataInv, CountersInv
  <2>3. PICK c, d, e, f :
          /\ hist' = [hist EXCEPT !.crossed = c, !.contended = d,
                                  !.collected = e, !.borrowed = f]
          /\ c = Joined(hist.crossed, a, Rivals(a, op, b))
    BY DEF Begin
  <2>4. QED
    BY <2>1, <2>2, <2>3 DEF IsHistory
<1>2. /\ req[a] = Idle
      /\ req'[a] = IF todo = <<>> THEN Idle ELSE [op |-> op, b |-> b, todo |-> todo]
      /\ \A o \in Actor : o # a => req'[o] = req[o]
  BY DEF Begin, IInv, DataInv, RequestsInv
<1>3. \/ req'[a] = Idle
      \/ req'[a].op = op /\ req'[a].b = b /\ req'[a].todo = todo
  BY <1>2
<1>4. /\ Idle.op = "idle" /\ Idle.todo = <<>> /\ Idle.b = NoBooking
      /\ "idle" \notin Claiming /\ Len(<<>>) = 0
  BY Tuples DEF Idle, Claiming
<1>5. Steady(a)
  BY <1>1, <1>2 DEF Steady, Joined
<1>6. Proceeds(a)
  BY <1>2, <1>3 DEF Proceeds
<1>7. ASSUME NEW c \in Booking
      PROVE  SameBooking(c) /\ HouseKept(a, c) /\ FinishesWell(a, c)
  <2>1. SameBooking(c)
    BY <1>1 DEF SameBooking, SameStay, Bookings, Exists
  <2>2. HouseKept(a, c)
    BY <1>1 DEF HouseKept, Occupied
  <2>3. FinishesWell(a, c)
    BY <1>2, <1>4 DEF FinishesWell, Claims
  <2>4. QED
    BY <2>1, <2>2, <2>3
<1>8. Shape(a)'
  <2>1. ShapeOf("idle", NoBooking, <<>>)
    BY <1>4 DEF ShapeOf
  <2>2. CASE req'[a] = Idle
    BY <1>4, <2>1, <2>2 DEF Shape
  <2>3. CASE req'[a].op = op /\ req'[a].b = b /\ req'[a].todo = todo
    <3>1. op \in Claiming => b \in Booking /\ docs'[b] # Free
      BY <1>1 DEF Exists
    <3>2. QED
      BY <2>3, <3>1 DEF Shape
  <2>4. QED
    BY <1>3, <2>2, <2>3
<1>9. ClaimInv(a)'
  <2>1. CASE req'[a] = Idle
    BY <1>4, <2>1 DEF ClaimInv
  <2>2. CASE req'[a].op = op /\ req'[a].b = b /\ req'[a].todo = todo
    <3>1. SUFFICES ASSUME op \in Claiming, b \in Bookings' \ hist'.raced, a \notin hist'.crossed
                   PROVE  PlanInv(op, b, todo, docs[b])'
      BY <2>2 DEF ClaimInv, Saving
    <3>2. PICK d : d = docs[b]
      OBVIOUS
    <3>3. PlanInv(op, b, todo, d)
      BY <1>1, <3>1, <3>2 DEF Joined
    <3>4. Keeps(b)
      BY <1>1 DEF Keeps, KeepsPrice, Occupied
    <3>5. PlanInv(op, b, todo, d)'
      BY <3>3, <3>4, PlanStays
    <3>6. QED
      BY <1>1, <3>2, <3>5
  <2>3. QED
    BY <1>3, <2>1, <2>2
<1>10. ClaimRivalry'
  <2> SUFFICES ASSUME NEW x \in Actor, NEW y \in Actor, x # y,
                      req'[x].op \in Claiming, req'[y].op \in Claiming,
                      req'[x].b = req'[y].b
               PROVE  x \in hist'.crossed
    BY DEF ClaimRivalry, Claiming
  <2>1. CASE x = a
    <3>1. y \in Rivals(a, op, b)
      BY <1>2, <1>3, <1>4, <2>1 DEF Rivals
    <3>2. QED
      BY <1>1, <2>1, <3>1 DEF Joined
  <2>2. CASE y = a
    <3>1. x \in Rivals(a, op, b)
      BY <1>2, <1>3, <1>4, <2>2 DEF Rivals
    <3>2. QED
      BY <1>1, <2>2, <3>1 DEF Joined
  <2>3. CASE x # a /\ y # a
    <3>1. x \in hist.crossed
      BY <1>2, <2>3 DEF ClaimsInv, ClaimRivalry
    <3>2. QED
      BY <1>5, <2>3, <3>1 DEF Steady
  <2>4. QED
    BY <2>1, <2>2, <2>3
<1>11. InvoicesInv'
  BY <1>1 DEF ClaimsInv, InvoicesInv
<1>12. QED
  BY <1>5, <1>6, <1>7, <1>8, <1>9, <1>10, <1>11, ActorStep

\* The lists a request that claims a booking begins with: one save, perhaps an
\* invoice or an arrival before it, and rooms or the end of the stay after it.
LEMMA ListsOfOneSave ==
  ASSUME NEW op \in Claiming, NEW b, NEW d, NEW s, s.w = "save", NEW x, NEW y, NEW v,
         x.w \in {"room", "close"}, y.w = "room",
         \/ v.w = "invoice" /\ Balanced(v.bill)
         \/ v.w = "room" /\ v.status = "OCCUPIED",
         op = "confirm" => "status" \notin DOMAIN s.set
  PROVE  \A L \in {<<s>>, <<s, x>>, <<s, x, y>>, <<v, s, x>>} \cup
                   (IF v.w = "room" THEN {<<v, s>>} ELSE {}) :
           /\ ShapeOf(op, b, L) /\ Saving(L)
           /\ SaveInv(op, b, L, Saved(d, s)) => PlanInv(op, b, L, d)
<1>1. 1..1 = {1} /\ 1..2 = {1, 2} /\ 1..3 = {1, 2, 3}
  OBVIOUS
<1>2. Saves(s) /\ ~Saves(x) /\ ~Saves(y) /\ ~Saves(v)
  BY DEF Saves
<1>3. ASSUME NEW L, Len(L) = 1, L[1] = s
      PROVE  /\ ShapeOf(op, b, L) /\ Saving(L)
             /\ SaveInv(op, b, L, Saved(d, s)) => PlanInv(op, b, L, d)
  BY <1>1, <1>2, <1>3 DEF ShapeOf, Saving, PlanInv
<1>4. ASSUME NEW L, Len(L) = 2, L[1] = s, L[2] = x
      PROVE  /\ ShapeOf(op, b, L) /\ Saving(L)
             /\ SaveInv(op, b, L, Saved(d, s)) => PlanInv(op, b, L, d)
  <2>1. 1..Len(L) = {1, 2}
    BY <1>1, <1>4
  <2>2. \A i \in 1..Len(L) : (i = 1 /\ L[i] = s) \/ (i = 2 /\ L[i] = x)
    BY <1>4, <2>1
  <2>3. ShapeOf(op, b, L) /\ Saving(L)
    BY <1>1, <1>2, <1>4, <2>2 DEF ShapeOf, Saving
  <2>4. SaveInv(op, b, L, Saved(d, s)) => PlanInv(op, b, L, d)
    BY <2>2 DEF PlanInv
  <2>5. QED
    BY <2>3, <2>4
<1>5. ASSUME NEW L, Len(L) = 3, L[1] = s, L[2] = x, L[3] = y
      PROVE  /\ ShapeOf(op, b, L) /\ Saving(L)
             /\ SaveInv(op, b, L, Saved(d, s)) => PlanInv(op, b, L, d)
  <2>1. 1..Len(L) = {1, 2, 3}
    BY <1>1, <1>5
  <2>2. \A i \in 1..Len(L) : \/ i = 1 /\ L[i] = s
                             \/ i = 2 /\ L[i] = x
                             \/ i = 3 /\ L[i] = y
    BY <1>5, <2>1
  <2>3. ShapeOf(op, b, L) /\ Saving(L)
    BY <1>1, <1>2, <1>5, <2>2 DEF ShapeOf, Saving
  <2>4. SaveInv(op, b, L, Saved(d, s)) => PlanInv(op, b, L, d)
    BY <2>2 DEF PlanInv
  <2>5. QED
    BY <2>3, <2>4
<1>6. ASSUME NEW L, Len(L) = 3, L[1] = v, L[2] = s, L[3] = x
      PROVE  /\ ShapeOf(op, b, L) /\ Saving(L)
             /\ SaveInv(op, b, L, Saved(d, s)) => PlanInv(op, b, L, d)
  <2>1. 1..Len(L) = {1, 2, 3}
    BY <1>1, <1>6
  <2>2. \A i \in 1..Len(L) : \/ i = 1 /\ L[i] = v
                             \/ i = 2 /\ L[i] = s
                             \/ i = 3 /\ L[i] = x
    BY <1>6, <2>1
  <2>3. Saving(L)
    BY <1>1, <1>2, <1>6 DEF Saving
  <2>4. ShapeOf(op, b, L)
    BY <1>1, <1>2, <1>6, <2>2, <2>3 DEF ShapeOf
  <2>5. SaveInv(op, b, L, Saved(d, s)) => PlanInv(op, b, L, d)
    BY <2>2 DEF PlanInv
  <2>6. QED
    BY <2>3, <2>4, <2>5
<1>7. ASSUME NEW L, Len(L) = 2, L[1] = v, L[2] = s
      PROVE  /\ ShapeOf(op, b, L) /\ Saving(L)
             /\ SaveInv(op, b, L, Saved(d, s)) => PlanInv(op, b, L, d)
  <2>1. 1..Len(L) = {1, 2}
    BY <1>1, <1>7
  <2>2. \A i \in 1..Len(L) : (i = 1 /\ L[i] = v) \/ (i = 2 /\ L[i] = s)
    BY <1>7, <2>1
  <2>3. Saving(L)
    BY <1>1, <1>2, <1>7 DEF Saving
  <2>4. ShapeOf(op, b, L)
    BY <1>1, <1>2, <1>7, <2>2, <2>3 DEF ShapeOf
  <2>5. SaveInv(op, b, L, Saved(d, s)) => PlanInv(op, b, L, d)
    BY <2>2 DEF PlanInv
  <2>6. QED
    BY <2>3, <2>4, <2>5
<1>8. /\ Len(<<s>>) = 1 /\ <<s>>[1] = s
      /\ Len(<<s, x>>) = 2 /\ <<s, x>>[1] = s /\ <<s, x>>[2] = x
      /\ Len(<<v, s>>) = 2 /\ <<v, s>>[1] = v /\ <<v, s>>[2] = s
      /\ Len(<<s, x, y>>) = 3 /\ <<s, x, y>>[1] = s /\ <<s, x, y>>[2] = x
      /\ <<s, x, y>>[3] = y
      /\ Len(<<v, s, x>>) = 3 /\ <<v, s, x>>[1] = v /\ <<v, s, x>>[2] = s
      /\ <<v, s, x>>[3] = x
  BY Tuples
<1>9. QED
  BY <1>3, <1>4, <1>5, <1>6, <1>7, <1>8

\* What is known of a booking nobody else claims, by a request that begins.
LEMMA StayKnown ==
  ASSUME IInv, ClaimsInv, NEW a \in Actor, req[a] = Idle, NEW op \in Claiming,
         NEW b \in Booking, Exists(b), b \notin hist.raced, Rivals(a, op, b) = {}
  PROVE  /\ MoveInv(docs[b]) /\ Priced(b, docs[b], FALSE)
         /\ docs[b].status = "CHECKED_OUT" =>
              b \in hist.edited \/ Invoiced(b, docs[b].total, FALSE)
         /\ docs[b].status = "CHECKED_IN" /\ faults = 0 => Occupied(b, docs[b].room)
<1>1. b \in Bookings \ hist.raced
  BY DEF Bookings
<1>2. BilledInv(b) /\ OccupiedInv(b)
  BY DEF ClaimsInv
<1>3. \A o \in Actor : ~Claims(o, b)
  BY DEF Claims, Rivals, Idle, Claiming
<1>4. QED
  BY <1>1, <1>2, <1>3 DEF BilledInv, OccupiedInv

\* An edit that leaves room and total alone keeps its bill.
LEMMA EditBilled ==
  ASSUME IInv, ClaimsInv, NEW a \in Actor, req[a] = Idle, NEW op \in Claiming,
         NEW b \in Booking, Exists(b), b \notin hist.raced, Rivals(a, op, b) = {},
         NEW e \in Docs, EditOf(docs[b], e), e.room = docs[b].room,
         e.total = docs[b].total, e.pending \in {NoMove, docs[b].pending}
  PROVE  MoveInv(e) /\ Priced(b, e, op = "transfer" /\ e.total = 0)
<1>1. PICK d \in Docs : d = docs[b]
  BY ExistingIsADoc
<1>2. MoveInv(d) /\ Priced(b, d, FALSE)
  BY <1>1, StayKnown
<1>3. PICK cut : cut = (op = "transfer" /\ e.total = 0)
  OBVIOUS
<1>4. CountersInv
  BY DEF IInv, DataInv
<1>5. MoveInv(e) /\ Priced(b, e, cut)
  BY <1>1, <1>2, <1>4, PricedEdit
<1>6. QED
  BY <1>3, <1>5

\* A request that begins with the save of an edit of what it has read.
LEMMA EditBegins ==
  ASSUME IInv, IInv', ClaimsInv, NEW a \in Actor, NEW op \in Claiming,
         NEW b \in Booking, Exists(b), NEW L, Alone(a, op, b, L),
         NEW e \in Docs, EditOf(docs[b], e), NEW s, s = Save(docs[b], e),
         ShapeOf(op, b, L), Saving(L),
         SaveInv(op, b, L, Saved(docs[b], s)) => PlanInv(op, b, L, docs[b]),
         b \notin hist.raced /\ Rivals(a, op, b) = {} => SaveInv(op, b, L, e)
  PROVE  ClaimsInv'
<1>1. docs[b] \in Docs
  BY ExistingIsADoc
<1>2. SameStay(docs[b], docs[b])
  BY DEF SameStay
<1>3. SameStay(Saved(docs[b], s), e)
  BY <1>1, <1>2, SavedEdit
<1>4. SameStay(e, Saved(docs[b], s))
  BY <1>3 DEF SameStay
<1>5. SaveInv(op, b, L, e) => SaveInv(op, b, L, Saved(docs[b], s))
  BY <1>4, SaveOfSame
<1>6. b \notin hist.raced /\ Rivals(a, op, b) = {} => PlanInv(op, b, L, docs[b])
  BY <1>5
<1>7. QED
  BY <1>6, BeginClaims DEF Alone

\* verifyBookingPayment: the booking is confirmed where it is.
LEMMA VerifyClaims ==
  ASSUME IInv, IInv', ClaimsInv, NEW a \in Actor, NEW b \in Booking,
         VerifyBookingPayment(a, b)
  PROVE  ClaimsInv'
<1>1. PICK d : d = docs[b]
  OBVIOUS
<1>2. d \in Docs /\ Exists(b)
  BY <1>1, ExistingIsADoc DEF VerifyBookingPayment, Mine
<1>3. PICK e : e = [d EXCEPT !.pay = "PAID", !.paid = "PAID", !.status = "CONFIRMED"]
  OBVIOUS
<1>4. /\ e \in Docs /\ EditOf(d, e) /\ e.room = d.room
      /\ e.status = "CONFIRMED" /\ e.total = d.total /\ e.pending = d.pending
  BY <1>2, <1>3 DEF Docs, Statuses, EditOf, Grows
<1>5. PICK s : s = Save(d, e)
  OBVIOUS
<1>6. Alone(a, "verify", b, <<s>>)
  BY <1>1, <1>3, <1>5 DEF VerifyBookingPayment
<1>7. s.w = "save" /\ "verify" \in Claiming
  BY <1>5 DEF Save, Claiming
<1>8. PICK x : x = SetRoom(d.room, "OCCUPIED")
  OBVIOUS
<1>9. x.w = "room" /\ x.status = "OCCUPIED"
  BY <1>8 DEF SetRoom
<1>10. /\ ShapeOf("verify", b, <<s>>) /\ Saving(<<s>>)
       /\ SaveInv("verify", b, <<s>>, Saved(d, s)) => PlanInv("verify", b, <<s>>, d)
  BY <1>7, <1>9, ListsOfOneSave
<1>11. Len(<<s>>) = 1 /\ <<s>>[1] = s
  BY Tuples
<1>12. b \notin hist.raced /\ Rivals(a, "verify", b) = {} => SaveInv("verify", b, <<s>>, e)
  <2> SUFFICES ASSUME b \notin hist.raced, Rivals(a, "verify", b) = {}
               PROVE  SaveInv("verify", b, <<s>>, e)
    OBVIOUS
  <2>1. req[a] = Idle
    BY <1>6 DEF Alone, Begin
  <2>2. MoveInv(e) /\ Priced(b, e, "verify" = "transfer" /\ e.total = 0)
    BY <1>1, <1>2, <1>4, <1>7, <2>1, EditBilled
  <2>3. \A i \in 1..Len(<<s>>) : <<s>>[i].w = "save"
    BY <1>7, <1>11
  <2>4. QED
    BY <1>4, <1>7, <1>11, <2>2, <2>3 DEF SaveInv
<1>13. QED
  BY <1>1, <1>2, <1>4, <1>5, <1>6, <1>7, <1>10, <1>12, EditBegins

\* checkInGuest and updateBookingStatus: the room is marked before an arrival is
\* saved, and the desk that ends a stay by hand is on record.
LEMMA StatusClaims ==
  ASSUME IInv, IInv', ClaimsInv, NEW a \in Actor, NEW b \in Booking,
         CheckInGuest(a, b) \/ \E s \in HandStatuses : UpdateBookingStatus(a, b, s)
  PROVE  ClaimsInv'
<1>1. PICK d : d = docs[b]
  OBVIOUS
<1>2. d \in Docs /\ Exists(b)
  BY <1>1, ExistingIsADoc DEF CheckInGuest, UpdateBookingStatus
<1>3. PICK x : x = SetRoom(d.room, "OCCUPIED")
  OBVIOUS
<1>4. x.w = "room" /\ x.room = d.room /\ x.status = "OCCUPIED"
  BY <1>3 DEF SetRoom
<1>5. CloseStay.w = "close"
  BY DEF CloseStay
<1>6. ASSUME NEW h \in Statuses, NEW e, e = [d EXCEPT !.status = h],
             NEW op \in {"checkIn", "status"}, NEW s, s = Save(d, e),
             NEW L, Alone(a, op, b, L),
             \/ h = "CHECKED_IN" /\ L = <<x, s>>
             \/ h = "CHECKED_OUT" /\ L = <<s, CloseStay>> /\ op = "status"
             \/ h \notin {"CHECKED_IN", "CHECKED_OUT"} /\ L = <<s>>
      PROVE  ClaimsInv'
  <2>1. /\ e \in Docs /\ EditOf(d, e) /\ e.room = d.room
        /\ e.status = h /\ e.total = d.total /\ e.pending = d.pending
    BY <1>2, <1>6 DEF Docs, EditOf, Grows
  <2>2. s.w = "save" /\ op \in Claiming
    BY <1>6 DEF Save, Claiming
  <2>3. \A M \in {<<s>>, <<s, CloseStay>>, <<x, s>>} :
          /\ ShapeOf(op, b, M) /\ Saving(M)
          /\ SaveInv(op, b, M, Saved(d, s)) => PlanInv(op, b, M, d)
    BY <1>4, <1>5, <2>2, ListsOfOneSave
  <2>4. /\ ShapeOf(op, b, L) /\ Saving(L)
        /\ SaveInv(op, b, L, Saved(d, s)) => PlanInv(op, b, L, d)
    BY <1>6, <2>3
  <2>5. /\ Len(<<s>>) = 1 /\ <<s>>[1] = s
        /\ Len(<<s, CloseStay>>) = 2 /\ <<s, CloseStay>>[1] = s
        /\ <<s, CloseStay>>[2] = CloseStay
        /\ Len(<<x, s>>) = 2 /\ <<x, s>>[1] = x /\ <<x, s>>[2] = s
        /\ 1..1 = {1} /\ 1..2 = {1, 2}
    BY Tuples
  <2>6. ASSUME b \notin hist.raced, Rivals(a, op, b) = {}
        PROVE  SaveInv(op, b, L, e)
    <3>1. req[a] = Idle
      BY <1>6 DEF Alone, Begin
    <3>2. MoveInv(e) /\ Priced(b, e, op = "transfer" /\ e.total = 0)
      BY <1>1, <1>2, <2>1, <2>2, <2>6, <3>1, EditBilled
    <3>3. L[1].w # "invoice"
      BY <1>4, <1>6, <2>2, <2>5
    <3>4. (\E i \in 1..Len(L) : L[i].w = "close") => h = "CHECKED_OUT"
      BY <1>4, <1>5, <1>6, <2>2, <2>5
    <3>5. h = "CHECKED_IN" => WillBeOccupied(b, L, e.room)
      <4>1. SUFFICES ASSUME h = "CHECKED_IN"
                     PROVE  WillBeOccupied(b, <<x, s>>, e.room)
        BY <1>6
      <4>2. 1 \in 1..Len(<<x, s>>) /\ Marks(<<x, s>>[1], e.room)
        BY <1>4, <2>1, <2>5 DEF Marks
      <4>3. \A i \in 1..Len(<<x, s>>) :
              <<x, s>>[i].w = "room" => <<x, s>>[i].status = "OCCUPIED"
        BY <1>4, <2>2, <2>5
      <4>4. QED
        BY <4>2, <4>3 DEF WillBeOccupied, Marks
    <3>6. h = "CHECKED_OUT" => op = "status"
      BY <1>6
    <3>7. QED
      BY <2>1, <3>2, <3>3, <3>4, <3>5, <3>6 DEF SaveInv
  <2>7. QED
    BY <1>1, <1>2, <1>6, <2>1, <2>2, <2>4, <2>6, EditBegins
<1>7. CASE CheckInGuest(a, b)
  <2>1. PICK e, s : e = [d EXCEPT !.status = "CHECKED_IN"] /\ s = Save(d, e)
    OBVIOUS
  <2>2. Alone(a, "checkIn", b, <<x, s>>)
    BY <1>1, <1>3, <1>7, <2>1 DEF CheckInGuest
  <2>3. QED
    BY <1>6, <2>1, <2>2 DEF Statuses
<1>8. ASSUME NEW h \in HandStatuses, UpdateBookingStatus(a, b, h)
      PROVE  ClaimsInv'
  <2>1. PICK e, s : e = [d EXCEPT !.status = h] /\ s = Save(d, e)
    OBVIOUS
  <2>2. PICK L : L = CASE h = "CHECKED_IN"  -> <<x, s>>
                       [] h = "CHECKED_OUT" -> <<s, CloseStay>>
                       [] OTHER             -> <<s>>
    OBVIOUS
  <2>3. Alone(a, "status", b, L)
    BY <1>1, <1>3, <1>8, <2>1, <2>2 DEF UpdateBookingStatus
  <2>4. \/ h = "CHECKED_IN" /\ L = <<x, s>>
        \/ h = "CHECKED_OUT" /\ L = <<s, CloseStay>>
        \/ h \notin {"CHECKED_IN", "CHECKED_OUT"} /\ L = <<s>>
    BY <2>2
  <2>5. h \in Statuses
    BY RoomBookingAssumption
  <2>6. QED
    BY <1>6, <2>1, <2>3, <2>4, <2>5
<1>9. QED
  BY <1>7, <1>8

\* A bill is balanced: what was paid and what is due is the total.
LEMMA BillsBalance ==
  ASSUME NEW d \in Docs, NEW extra \in Extras
  PROVE  Balanced(Bill(d, extra)) /\ Bill(d, extra).stay = d.total
<1>1. /\ extra.due \in Nat /\ extra.paid \in Nat /\ d.total \in Nat
  BY RoomBookingAssumption DEF Docs
<1> DEFINE settled == IF d.paid = "PAID" THEN d.total ELSE 0
<1>2. settled \in Nat
  BY <1>1
<1>3. Bill(d, extra) = [stay |-> d.total, grand |-> d.total + extra.due + extra.paid,
                        paid |-> settled + extra.paid,
                        due |-> d.total - settled + extra.due]
  BY DEF Bill
<1> HIDE DEF settled
<1>4. QED
  BY <1>1, <1>2, <1>3 DEF Balanced

\* The list of a check-out, made of copy d of the booking.
LEMMA CheckOutList ==
  ASSUME NEW d \in Docs, NEW extra \in Extras, NEW b, NEW op \in Claiming,
         op # "confirm", d.status # "CHECKED_OUT"
  PROVE  \E e, v, s, x :
           LET L == <<v, s, x>>
           IN  /\ CheckOutWrites(d, extra) = L
               /\ e \in Docs /\ EditOf(d, e) /\ e.room = d.room
               /\ e.status = "CHECKED_OUT" /\ e.total = d.total /\ e.pending = d.pending
               /\ v.w = "invoice" /\ v.bill.stay = d.total /\ Balanced(v.bill)
               /\ s = Save(d, e) /\ s.w = "save" /\ x.w = "room"
               /\ ShapeOf(op, b, L) /\ Saving(L)
               /\ SaveInv(op, b, L, Saved(d, s)) => PlanInv(op, b, L, d)
<1>1. PICK e : e = [d EXCEPT !.status = "CHECKED_OUT"]
  OBVIOUS
<1>2. PICK v, s, x : /\ v = Invoice(Bill(d, extra)) /\ s = Save(d, e)
                     /\ x = SetRoom(d.room, "CLEANING")
  OBVIOUS
<1>3. /\ e \in Docs /\ EditOf(d, e) /\ e.room = d.room
      /\ e.status = "CHECKED_OUT" /\ e.total = d.total /\ e.pending = d.pending
  BY <1>1 DEF Docs, Statuses, EditOf, Grows
<1>4. v.w = "invoice" /\ v.bill.stay = d.total /\ Balanced(v.bill)
  BY <1>2, BillsBalance DEF Invoice
<1>5. s.w = "save" /\ x.w = "room"
  BY <1>2 DEF Save, SetRoom
<1>6. CheckOutWrites(d, extra) = <<v, s, x>>
  BY <1>1, <1>2 DEF CheckOutWrites
<1>7. /\ ShapeOf(op, b, <<v, s, x>>) /\ Saving(<<v, s, x>>)
      /\ SaveInv(op, b, <<v, s, x>>, Saved(d, s)) => PlanInv(op, b, <<v, s, x>>, d)
  BY <1>4, <1>5, ListsOfOneSave
<1>8. QED
  BY <1>2, <1>3, <1>4, <1>5, <1>6, <1>7

\* checkOutGuest: the invoice is over what the stay costs, whatever becomes of it.
LEMMA CheckOutClaims ==
  ASSUME IInv, IInv', ClaimsInv, NEW a \in Actor, NEW b \in Booking, CheckOutGuest(a, b)
  PROVE  ClaimsInv'
<1>1. PICK d : d = docs[b]
  OBVIOUS
<1>2. d \in Docs /\ Exists(b) /\ d.status # "CHECKED_OUT" /\ "checkOut" \in Claiming
  BY <1>1, ExistingIsADoc DEF CheckOutGuest, Claiming
<1>3. PICK extra \in Extras : Alone(a, "checkOut", b, CheckOutWrites(d, extra))
  BY <1>1 DEF CheckOutGuest
<1>4. PICK e, v, s, x :
        LET L == <<v, s, x>>
        IN  /\ CheckOutWrites(d, extra) = L
            /\ e \in Docs /\ EditOf(d, e) /\ e.room = d.room
            /\ e.status = "CHECKED_OUT" /\ e.total = d.total /\ e.pending = d.pending
            /\ v.w = "invoice" /\ v.bill.stay = d.total /\ Balanced(v.bill)
            /\ s = Save(d, e) /\ s.w = "save" /\ x.w = "room"
            /\ ShapeOf("checkOut", b, L) /\ Saving(L)
            /\ SaveInv("checkOut", b, L, Saved(d, s)) => PlanInv("checkOut", b, L, d)
  BY <1>2, CheckOutList
<1>5. PICK L : L = <<v, s, x>>
  OBVIOUS
<1>6. L[1] = v /\ (\A i \in 1..Len(L) : L[i].w # "close")
  <2>1. /\ Len(L) = 3 /\ L[1] = v /\ L[2] = s /\ L[3] = x
        /\ 1..3 = {1, 2, 3}
    BY <1>5, Tuples
  <2>2. QED
    BY <1>4, <2>1
<1>7. ASSUME b \notin hist.raced, Rivals(a, "checkOut", b) = {}
      PROVE  SaveInv("checkOut", b, L, e)
  <2>1. req[a] = Idle
    BY <1>3 DEF Alone, Begin
  <2>2. MoveInv(e) /\ Priced(b, e, "checkOut" = "transfer" /\ e.total = 0)
    BY <1>1, <1>2, <1>4, <1>7, <2>1, EditBilled
  <2>3. QED
    BY <1>4, <1>6, <2>2 DEF SaveInv
<1>8. Alone(a, "checkOut", b, L)
  BY <1>3, <1>4, <1>5
<1>9. /\ ShapeOf("checkOut", b, L) /\ Saving(L)
      /\ SaveInv("checkOut", b, L, Saved(d, s)) => PlanInv("checkOut", b, L, d)
  BY <1>4, <1>5
<1>10. QED
  BY <1>1, <1>2, <1>4, <1>7, <1>8, <1>9, EditBegins

\* cancelGuestBooking: the stay ends without a bill; the move it waited for is off.
LEMMA CancelClaims ==
  ASSUME IInv, IInv', ClaimsInv, NEW a \in Actor, NEW b \in Booking,
         CancelGuestBooking(a, b)
  PROVE  ClaimsInv'
<1>1. PICK d : d = docs[b]
  OBVIOUS
<1>2. d \in Docs /\ Exists(b) /\ "cancel" \in Claiming
  BY <1>1, ExistingIsADoc DEF CancelGuestBooking, Mine, Claiming
<1>3. PICK e : e = [d EXCEPT !.status = "CANCELLED", !.pending = NoMove]
  OBVIOUS
<1>4. PICK s, x : s = Save(d, e) /\ x = SetRoom(d.room, "AVAILABLE")
  OBVIOUS
<1>5. /\ e \in Docs /\ EditOf(d, e) /\ e.room = d.room
      /\ e.status = "CANCELLED" /\ e.total = d.total /\ e.pending = NoMove
  BY <1>2, <1>3 DEF Docs, Statuses, EditOf, Grows
<1>6. s.w = "save" /\ x.w = "room"
  BY <1>4 DEF Save, SetRoom
<1>7. PICK L : L = <<s, x>>
  OBVIOUS
<1>8. Alone(a, "cancel", b, L)
  BY <1>1, <1>3, <1>4, <1>7 DEF CancelGuestBooking
<1>9. PICK v : v = SetRoom(d.room, "OCCUPIED")
  OBVIOUS
<1>10. v.w = "room" /\ v.status = "OCCUPIED"
  BY <1>9 DEF SetRoom
<1>11. /\ ShapeOf("cancel", b, L) /\ Saving(L)
       /\ SaveInv("cancel", b, L, Saved(d, s)) => PlanInv("cancel", b, L, d)
  <2>1. \A M \in {<<s, x>>} :
          /\ ShapeOf("cancel", b, M) /\ Saving(M)
          /\ SaveInv("cancel", b, M, Saved(d, s)) => PlanInv("cancel", b, M, d)
    BY <1>2, <1>6, <1>10, ListsOfOneSave
  <2>2. QED
    BY <1>7, <2>1
<1>12. L[1].w = "save" /\ (\A i \in 1..Len(L) : L[i].w # "close")
  <2>1. Len(L) = 2 /\ L[1] = s /\ L[2] = x /\ 1..2 = {1, 2}
    BY <1>7, Tuples
  <2>2. QED
    BY <1>6, <2>1
<1>13. ASSUME b \notin hist.raced, Rivals(a, "cancel", b) = {}
       PROVE  SaveInv("cancel", b, L, e)
  <2>1. req[a] = Idle
    BY <1>8 DEF Alone, Begin
  <2>2. MoveInv(e) /\ Priced(b, e, "cancel" = "transfer" /\ e.total = 0)
    BY <1>1, <1>2, <1>5, <1>13, <2>1, EditBilled
  <2>3. QED
    BY <1>5, <1>12, <2>2 DEF SaveInv
<1>14. QED
  BY <1>1, <1>2, <1>4, <1>5, <1>8, <1>11, <1>13, EditBegins

\* cancelPendingTransfer: the room that was held is not the one the guest is in.
LEMMA DropMoveClaims ==
  ASSUME IInv, IInv', ClaimsInv, NEW a \in Actor, NEW b \in Booking,
         CancelPendingTransfer(a, b)
  PROVE  ClaimsInv'
<1>1. PICK d : d = docs[b]
  OBVIOUS
<1>2. d \in Docs /\ Exists(b) /\ "dropMove" \in Claiming /\ d.pending # NoMove
  BY <1>1, ExistingIsADoc DEF CancelPendingTransfer, Claiming
<1>3. PICK e : e = [d EXCEPT !.pending = NoMove, !.transfers = Append(@, "NONE")]
  OBVIOUS
<1>4. PICK s, x : s = Save(d, e) /\ x = SetRoom(d.pending.to, "AVAILABLE")
  OBVIOUS
<1>5. /\ e \in Docs /\ EditOf(d, e) /\ e.room = d.room
      /\ e.status = d.status /\ e.total = d.total /\ e.pending = NoMove
  <2>1. PICK t : t = Append(d.transfers, "NONE")
    OBVIOUS
  <2>2. t \in Seq(Refunds)
    BY <1>2, <2>1, AppendProperties DEF Docs, Refunds
  <2>3. e = [d EXCEPT !.pending = NoMove, !.transfers = t]
    BY <1>3, <2>1
  <2>4. /\ e \in Docs /\ e.guest = d.guest /\ e.nights = d.nights /\ e.terms = d.terms
        /\ e.room = d.room /\ e.status = d.status /\ e.total = d.total
        /\ e.pending = NoMove /\ e.transfers = t
    BY <1>2, <2>2, <2>3 DEF Docs, Refunds
  <2>5. QED
    BY <2>1, <2>4 DEF EditOf, Grows, Refunds
<1>6. s.w = "save" /\ x.w = "room" /\ x.room = d.pending.to
  BY <1>4 DEF Save, SetRoom
<1>7. PICK L : L = <<s, x>>
  OBVIOUS
<1>8. Alone(a, "dropMove", b, L)
  BY <1>1, <1>3, <1>4, <1>7 DEF CancelPendingTransfer
<1>9. PICK v : v = SetRoom(d.room, "OCCUPIED")
  OBVIOUS
<1>10. v.w = "room" /\ v.status = "OCCUPIED"
  BY <1>9 DEF SetRoom
<1>11. /\ ShapeOf("dropMove", b, L) /\ Saving(L)
       /\ SaveInv("dropMove", b, L, Saved(d, s)) => PlanInv("dropMove", b, L, d)
  <2>1. \A M \in {<<s, x>>} :
          /\ ShapeOf("dropMove", b, M) /\ Saving(M)
          /\ SaveInv("dropMove", b, M, Saved(d, s)) => PlanInv("dropMove", b, M, d)
    BY <1>2, <1>6, <1>10, ListsOfOneSave
  <2>2. QED
    BY <1>7, <2>1
<1>12. \A i \in 1..Len(L) : (i = 1 /\ L[i] = s) \/ (i = 2 /\ L[i] = x)
  <2>1. Len(L) = 2 /\ L[1] = s /\ L[2] = x /\ 1..2 = {1, 2}
    BY <1>7, Tuples
  <2>2. QED
    BY <2>1
<1>13. L[1] = s
  BY <1>7, Tuples
<1>14. ASSUME b \notin hist.raced, Rivals(a, "dropMove", b) = {}
       PROVE  SaveInv("dropMove", b, L, e)
  <2>1. req[a] = Idle
    BY <1>8 DEF Alone, Begin
  <2>2. /\ MoveInv(d)
        /\ d.status = "CHECKED_OUT" => b \in hist.edited \/ Invoiced(b, d.total, FALSE)
        /\ d.status = "CHECKED_IN" /\ faults = 0 => Occupied(b, d.room)
    BY <1>1, <1>2, <1>14, <2>1, StayKnown
  <2>3. MoveInv(e) /\ Priced(b, e, "dropMove" = "transfer" /\ e.total = 0)
    BY <1>1, <1>2, <1>5, <1>14, <2>1, EditBilled
  <2>4. \A i \in 1..Len(L) : ~Marks(L[i], e.room) /\ L[i].w # "close"
    BY <1>2, <1>5, <1>6, <1>12, <2>2 DEF MoveInv, Marks
  <2>5. e.status = "CHECKED_IN" /\ faults = 0 => WillBeOccupied(b, L, e.room)
    BY <1>5, <2>2, <2>4 DEF WillBeOccupied
  <2>6. e.status = "CHECKED_OUT" =>
          b \in hist.edited \/ Invoiced(b, e.total, "dropMove" = "confirm")
    BY <1>5, <2>2 DEF Invoiced
  <2>7. L[1].w # "invoice"
    BY <1>6, <1>13
  <2>8. QED
    BY <2>3, <2>4, <2>5, <2>6, <2>7 DEF SaveInv
<1>15. QED
  BY <1>1, <1>2, <1>4, <1>5, <1>8, <1>11, <1>14, EditBegins

\* Two rooms are marked when a move takes effect: the new one occupied by a guest
\* who is in the house.
LEMMA TwoRooms ==
  ASSUME NEW d, NEW from, NEW to
  PROVE  \E x, y : /\ ApplyRoomOccupancy(d, from, to) = <<x, y>>
                   /\ x.w = "room" /\ y.w = "room" /\ x.room = from /\ y.room = to
                   /\ d.status = "CHECKED_IN" => y.status = "OCCUPIED"
<1>1. CASE d.status = "CHECKED_IN"
  <2>1. PICK x, y : x = SetRoom(from, "CLEANING") /\ y = SetRoom(to, "OCCUPIED")
    OBVIOUS
  <2>2. ApplyRoomOccupancy(d, from, to) = <<x, y>>
    BY <1>1, <2>1 DEF ApplyRoomOccupancy
  <2>3. QED
    BY <2>1, <2>2 DEF SetRoom
<1>2. CASE d.status # "CHECKED_IN"
  <2>1. PICK x, y : x = SetRoom(from, "AVAILABLE") /\ y = SetRoom(to, "RESERVED")
    OBVIOUS
  <2>2. ApplyRoomOccupancy(d, from, to) = <<x, y>>
    BY <1>2, <2>1 DEF ApplyRoomOccupancy
  <2>3. QED
    BY <1>2, <2>1, <2>2 DEF SetRoom
<1>3. QED
  BY <1>1, <1>2

\* List L of a request that saves copy d of booking b, by write s, and perhaps
\* moves it from one room to another.
MoveListOf(op, b, d, from, to, s, L) ==
    /\ L[1] = s /\ L # <<>>
    /\ ShapeOf(op, b, L) /\ Saving(L)
    /\ SaveInv(op, b, L, Saved(d, s)) => PlanInv(op, b, L, d)
    /\ \A i \in 1..Len(L) : L[i].w # "close"
    /\ d.status = "CHECKED_IN" /\ from # to => WillBeOccupied(b, L, to)

\* The list of a move that takes effect: the save, then the room the booking leaves
\* and the room it is in afterwards.
LEMMA MoveList ==
  ASSUME NEW op \in Claiming, NEW b, NEW d, NEW from, NEW to, NEW s, s.w = "save", NEW L,
         L = <<s>> \o ApplyRoomOccupancy(d, from, to),
         op = "confirm" => "status" \notin DOMAIN s.set
  PROVE  MoveListOf(op, b, d, from, to, s, L)
<1>1. PICK x, y : /\ ApplyRoomOccupancy(d, from, to) = <<x, y>>
                  /\ x.w = "room" /\ y.w = "room" /\ x.room = from /\ y.room = to
                  /\ d.status = "CHECKED_IN" => y.status = "OCCUPIED"
  BY TwoRooms
<1>2. PICK v : v = SetRoom(from, "OCCUPIED")
  OBVIOUS
<1>3. v.w = "room" /\ v.status = "OCCUPIED"
  BY <1>2 DEF SetRoom
<1>4. L = <<s, x, y>>
  BY <1>1, OneAndTwo
<1>5. /\ ShapeOf(op, b, L) /\ Saving(L)
      /\ SaveInv(op, b, L, Saved(d, s)) => PlanInv(op, b, L, d)
  <2>1. \A M \in {<<s, x, y>>} :
          /\ ShapeOf(op, b, M) /\ Saving(M)
          /\ SaveInv(op, b, M, Saved(d, s)) => PlanInv(op, b, M, d)
    BY <1>1, <1>3, ListsOfOneSave
  <2>2. QED
    BY <1>4, <2>1
<1>6. Len(L) = 3 /\ Len(<<>>) = 0 /\ L[1] = s /\ L[2] = x /\ L[3] = y
  <2>1. /\ Len(<<s, x, y>>) = 3 /\ <<s, x, y>>[1] = s /\ <<s, x, y>>[2] = x
        /\ <<s, x, y>>[3] = y
    BY Tuples
  <2>2. Len(<<>>) = 0
    BY Tuples
  <2>3. QED
    BY <1>4, <2>1, <2>2
<1>7. L[1] = s /\ L[2] = x /\ L[3] = y /\ Len(L) = 3 /\ L # <<>>
  BY <1>6
<1>8. 1..Len(L) = {1, 2, 3}
  BY <1>7
<1>9. \A i \in 1..Len(L) : \/ i = 1 /\ L[i] = s
                           \/ i = 2 /\ L[i] = x
                           \/ i = 3 /\ L[i] = y
  BY <1>7, <1>8
<1>10. \A i \in 1..Len(L) : L[i].w # "close"
  BY <1>1, <1>9
<1>11. ASSUME d.status = "CHECKED_IN", from # to
       PROVE  WillBeOccupied(b, L, to)
  <2>1. \A i \in 1..Len(L) : Marks(L[i], to) => L[i].status = "OCCUPIED"
    BY <1>1, <1>9, <1>11 DEF Marks
  <2>2. 3 \in 1..Len(L) /\ Marks(L[3], to)
    BY <1>1, <1>7, <1>8 DEF Marks
  <2>3. QED
    BY <2>1, <2>2 DEF WillBeOccupied
<1>12. QED
  BY <1>5, <1>7, <1>10, <1>11 DEF MoveListOf

\* confirmTransferPayment: the bill becomes that of the room the booking moves to.
LEMMA ConfirmClaims ==
  ASSUME IInv, IInv', ClaimsInv, NEW a \in Actor, NEW b \in Booking,
         ConfirmTransferPayment(a, b)
  PROVE  ClaimsInv'
<1>1. PICK d : d = docs[b]
  OBVIOUS
<1>2. d \in Docs /\ Exists(b) /\ "confirm" \in Claiming /\ d.pending # NoMove
  BY <1>1, ExistingIsADoc DEF ConfirmTransferPayment, Claiming
<1>3. PICK move : move = d.pending
  OBVIOUS
<1>4. move \in Moves /\ move.from \in Room /\ move.to \in Room /\ move.due \in Nat
  BY <1>2, <1>3 DEF Docs, Moves
<1>5. PICK e : e = [d EXCEPT !.room = move.to, !.pending = NoMove, !.total = @ + move.due,
                             !.transfers = Append(@, "NONE")]
  OBVIOUS
<1>6. /\ e \in Docs /\ EditOf(d, e) /\ e.room = move.to /\ e.status = d.status
      /\ e.total = d.total + move.due /\ e.pending = NoMove
      /\ Len(e.transfers) = Len(d.transfers) + 1
  <2>1. PICK to \in Room, total \in Nat : to = move.to /\ total = d.total + move.due
    BY <1>2, <1>4 DEF Docs
  <2>2. PICK t : t = Append(d.transfers, "NONE")
    OBVIOUS
  <2>3. t \in Seq(Refunds) /\ Len(t) = Len(d.transfers) + 1
    BY <1>2, <2>2, AppendProperties DEF Docs, Refunds
  <2>4. e = [d EXCEPT !.room = to, !.pending = NoMove, !.total = total, !.transfers = t]
    BY <1>5, <2>1, <2>2
  <2>5. /\ e \in Docs /\ e.guest = d.guest /\ e.nights = d.nights /\ e.terms = d.terms
        /\ e.room = to /\ e.status = d.status /\ e.total = total /\ e.pending = NoMove
        /\ e.transfers = t
    BY <1>2, <2>3, <2>4 DEF Docs, Refunds
  <2>6. EditOf(d, e)
    BY <2>2, <2>5 DEF EditOf, Grows, Refunds
  <2>7. QED
    BY <2>1, <2>3, <2>5, <2>6
<1>7. PICK s : s = Save(d, e)
  OBVIOUS
<1>8. s.w = "save" /\ "status" \notin DOMAIN s.set
  BY <1>2, <1>6, <1>7, SaveShape
<1>9. Alone(a, "confirm", b, <<s>> \o ApplyRoomOccupancy(d, move.from, move.to))
  BY <1>1, <1>3, <1>5, <1>7 DEF ConfirmTransferPayment
<1>10. PICK L : L = <<s>> \o ApplyRoomOccupancy(d, move.from, move.to)
  OBVIOUS
<1>11. /\ L[1] = s
       /\ ShapeOf("confirm", b, L) /\ Saving(L)
       /\ SaveInv("confirm", b, L, Saved(d, s)) => PlanInv("confirm", b, L, d)
       /\ \A i \in 1..Len(L) : L[i].w # "close"
       /\ d.status = "CHECKED_IN" /\ move.from # move.to => WillBeOccupied(b, L, move.to)
  <2>1. PICK from, to : from = move.from /\ to = move.to
    OBVIOUS
  <2>2. PICK op \in Claiming : op = "confirm"
    BY <1>2
  <2>3. MoveListOf(op, b, d, from, to, s, L)
    BY <1>8, <1>10, <2>1, MoveList
  <2>4. MoveListOf("confirm", b, d, move.from, move.to, s, L)
    BY <2>1, <2>2, <2>3
  <2>5. QED
    BY <2>4 DEF MoveListOf
<1>12. ASSUME b \notin hist.raced, Rivals(a, "confirm", b) = {}
       PROVE  SaveInv("confirm", b, L, e)
  <2>1. req[a] = Idle
    BY <1>9 DEF Alone, Begin
  <2>2. /\ MoveInv(d) /\ Priced(b, d, FALSE)
        /\ d.status = "CHECKED_OUT" => b \in hist.edited \/ Invoiced(b, d.total, FALSE)
    BY <1>1, <1>2, <1>12, <2>1, StayKnown
  <2>3. move.from # move.to
    BY <1>2, <1>3, <2>2 DEF MoveInv
  <2>4. MoveInv(e)
    BY <1>4, <1>6 DEF MoveInv
  <2>5. Priced(b, e, "confirm" = "transfer" /\ e.total = 0)
    <3>1. \A x : FairPrice(e, x) = FairPrice(d, x)
      BY <1>6 DEF EditOf, FairPrice
    <3>2. Priced(b, e, FALSE)
      BY <1>2, <1>3, <1>6, <2>2, <3>1 DEF Priced, BillInv
    <3>3. QED
      BY <3>2
  <2>6. e.status = "CHECKED_OUT" =>
          b \in hist.edited \/ Invoiced(b, e.total, "confirm" = "confirm")
    BY <1>6, <2>2 DEF Invoiced
  <2>7. e.status = "CHECKED_IN" /\ faults = 0 => WillBeOccupied(b, L, e.room)
    BY <1>6, <1>11, <2>3
  <2>8. L[1].w = "save" /\ ~\E i \in 1..Len(L) : L[i].w = "close"
    BY <1>8, <1>11
  <2>9. QED
    BY <2>4, <2>5, <2>7, <2>8, <2>6 DEF SaveInv
<1>13. Alone(a, "confirm", b, L)
  BY <1>9, <1>10
<1>14. /\ ShapeOf("confirm", b, L) /\ Saving(L)
       /\ SaveInv("confirm", b, L, Saved(d, s)) => PlanInv("confirm", b, L, d)
  BY <1>11
<1>15. QED
  BY <1>1, <1>2, <1>6, <1>7, <1>12, <1>13, <1>14, EditBegins

\* transferRoom: what it will decide on is what it has read.
LEMMA TransferClaims ==
  ASSUME IInv, IInv', ClaimsInv, NEW a \in Actor, NEW b \in Booking, NEW to \in Room,
         TransferRoom(a, b, to)
  PROVE  ClaimsInv'
<1>1. PICK d : d = docs[b]
  OBVIOUS
<1>2. PICK t : t = CheckTarget(d, to)
  OBVIOUS
<1>3. t.w = "target" /\ t.copy = d
  BY <1>2 DEF CheckTarget
<1>4. PICK L : L = <<t>>
  OBVIOUS
<1>5. Len(L) = 1 /\ L[1] = t /\ 1..1 = {1}
  BY <1>4, Tuples
<1>6. \A i \in 1..Len(L) : i = 1 /\ L[i] = t
  BY <1>5
<1>7. 1 \in 1..Len(L)
  BY <1>5
<1>8. Saves(t)
  BY <1>3 DEF Saves
<1>9. ShapeOf("transfer", b, L) /\ Saving(L)
  BY <1>3, <1>6, <1>7, <1>8 DEF ShapeOf, Saving
<1>10. Exists(b) /\ d.status \notin Closed /\ d.pending = NoMove
  BY <1>1 DEF TransferRoom
<1>11. PlanInv("transfer", b, L, d)
  <2>1. TargetInv(d, d)
    BY <1>10 DEF TargetInv, SameStay
  <2>2. QED
    BY <1>3, <1>6, <2>1 DEF PlanInv
<1>12. Begin(a, "transfer", b, L)
  BY <1>1, <1>2, <1>4 DEF TransferRoom, Alone
<1>13. QED
  BY <1>1, <1>9, <1>10, <1>11, <1>12, BeginClaims

\* A request that claims nothing and marks no room begins.
LEMMA PlainBegins ==
  ASSUME IInv, IInv', ClaimsInv, NEW a \in Actor, NEW op, op \notin Claiming, NEW b,
         NEW L, Begin(a, op, b, L),
         \A i \in 1..Len(L) :
           \/ L[i].w \in {"insert", "drop", "active"}
           \/ L[i].w = "room" /\ b \notin Booking
           \/ /\ L[i].w = "save" /\ Len(L) = 1
              /\ DOMAIN L[i].set \subseteq {"paid", "pay"} /\ Len(L[i].push) = 0
  PROVE  ClaimsInv'
<1>1. ASSUME NEW i \in 1..Len(L), NEW j \in 1..Len(L), Saves(L[i])
      PROVE  /\ Saves(L[j]) => i = j
             /\ L[j].w = "room" /\ j < i => L[j].status = "OCCUPIED"
             /\ L[j].w = "close" => i < j
  <2>1. L[i].w = "save" /\ Len(L) = 1
    BY <1>1 DEF Saves
  <2>2. i = 1 /\ j = 1
    BY <2>1
  <2>3. QED
    BY <2>1, <2>2
<1>2. ShapeOf(op, b, L)
  BY <1>1 DEF ShapeOf, Claiming
<1>3. QED
  BY <1>2, BeginClaims

\* The save of an edit of what was paid writes nothing else.
LEMMA PaymentSave ==
  ASSUME NEW d \in Docs, NEW e \in Docs,
         \A g \in {"room", "guest", "nights", "status", "terms", "total", "pending",
                   "transfers"} : e[g] = d[g]
  PROVE  DOMAIN Save(d, e).set \subseteq {"paid", "pay"} /\ Len(Save(d, e).push) = 0
<1>1. ASSUME NEW g, g \in DOMAIN Save(d, e).set
      PROVE  g \in {"paid", "pay"}
  <2>1. /\ g \in {"room", "guest", "nights", "status", "paid", "pay", "terms", "total",
                  "pending"}
        /\ d[g] # e[g]
    BY <1>1, SaveShape
  <2>2. g \notin {"room", "guest", "nights", "status", "terms", "total", "pending",
                  "transfers"}
    BY <2>1
  <2>3. QED
    BY <2>1, <2>2
<1>2. Len(Save(d, e).push) = 0
  <2>1. PICK p, s, t : p = Save(d, e).push /\ s = d.transfers /\ t = e.transfers
    OBVIOUS
  <2>2. s = t
    BY <2>1
  <2>3. p \in Seq(Refunds) /\ Len(s) + Len(p) = Len(t)
    BY <2>1, <2>2, SavePush DEF Grows
  <2>4. Len(s) \in Nat /\ Len(p) \in Nat
    BY <2>1, <2>3, LenProperties DEF Docs, Refunds
  <2>5. PICK k \in Nat, l \in Nat : k = Len(s) /\ l = Len(p)
    BY <2>4
  <2>6. k + l = k
    BY <2>2, <2>3, <2>5
  <2>7. l = 0
    BY <2>6
  <2>8. QED
    BY <2>1, <2>5, <2>7
<1>3. QED
  BY <1>1, <1>2

\* Payments, transfers and the end of a booking that is not paid claim nothing.
LEMMA PaymentClaims ==
  ASSUME IInv, IInv', ClaimsInv, NEW a \in Actor, NEW b \in Booking,
         \/ CreateBookingRazorpayOrder(a, b) \/ VerifyWrongSignature(a, b)
         \/ \E s \in {"PAID", "PENDING"} : RecordBookingPayment(a, b, s)
         \/ MarkTransferRefundProcessed(a, b) \/ CancelPendingBooking(a, b)
  PROVE  ClaimsInv'
<1>1. PICK d : d = docs[b]
  OBVIOUS
<1>2. d \in Docs
  BY <1>1, ExistingIsADoc
     DEF CreateBookingRazorpayOrder, VerifyWrongSignature, RecordBookingPayment,
         MarkTransferRefundProcessed, CancelPendingBooking, Mine
<1>3. /\ d.paid \in {"PENDING", "PAID"}
      /\ \A q : [d EXCEPT !.pay = q] = [d EXCEPT !.paid = d.paid, !.pay = q]
  <2>1. d.paid \in {"PENDING", "PAID"} /\ d = [f \in DOMAIN d |-> d[f]]
    BY <1>2 DEF Docs
  <2>2. [d EXCEPT !.paid = d.paid] = d
    BY <2>1
  <2>3. QED
    BY <2>1, <2>2
<1>4. ASSUME NEW op, op \notin Claiming, NEW w,
             \/ w.w = "drop"
             \/ /\ w.w = "save" /\ DOMAIN w.set \subseteq {"paid", "pay"}
                /\ Len(w.push) = 0,
             Begin(a, op, b, <<w>>)
      PROVE  ClaimsInv'
  <2>1. PICK L : L = <<w>>
    OBVIOUS
  <2>2. Len(L) = 1 /\ L[1] = w /\ 1..1 = {1}
    BY <2>1, Tuples
  <2>3. \A i \in 1..Len(L) :
          \/ L[i].w \in {"insert", "drop", "active"}
          \/ L[i].w = "room" /\ b \notin Booking
          \/ /\ L[i].w = "save" /\ Len(L) = 1
             /\ DOMAIN L[i].set \subseteq {"paid", "pay"} /\ Len(L[i].push) = 0
    BY <1>4, <2>2
  <2>4. QED
    BY <1>4, <2>1, <2>3, PlainBegins
<1>5. {"order", "unverified", "collect", "uncollect", "refund", "drop"} \cap Claiming = {}
  BY DEF Claiming
<1>6. ASSUME NEW op \in {"order", "unverified", "collect", "uncollect"},
             NEW p \in {"PENDING", "PAID"}, NEW q \in {"PENDING", "PAID", "FAILED"},
             NEW e, e = [d EXCEPT !.paid = p, !.pay = q],
             Begin(a, op, b, <<Save(d, e)>>)
      PROVE  ClaimsInv'
  <2>1. DOMAIN Save(d, e).set \subseteq {"paid", "pay"} /\ Len(Save(d, e).push) = 0
    <3>1. /\ e \in Docs
          /\ \A g \in {"room", "guest", "nights", "status", "terms", "total", "pending",
                       "transfers"} : e[g] = d[g]
      BY <1>2, <1>6 DEF Docs
    <3>2. QED
      BY <1>2, <3>1, PaymentSave
  <2>2. PICK w : w = Save(d, e)
    OBVIOUS
  <2>3. w.w = "save"
    BY <2>2 DEF Save
  <2>4. op \notin Claiming
    BY <1>5
  <2>5. QED
    BY <1>4, <1>6, <2>1, <2>2, <2>3, <2>4
<1>7. CASE CreateBookingRazorpayOrder(a, b)
  <2>1. Begin(a, "order", b, <<Save(d, [d EXCEPT !.pay = "PENDING"])>>)
    BY <1>1, <1>7 DEF CreateBookingRazorpayOrder
  <2>2. QED
    BY <1>3, <1>6, <2>1
<1>8. CASE VerifyWrongSignature(a, b)
  <2>1. Begin(a, "unverified", b, <<Save(d, [d EXCEPT !.pay = "FAILED"])>>)
    BY <1>1, <1>8 DEF VerifyWrongSignature, Alone
  <2>2. QED
    BY <1>3, <1>6, <2>1
<1>9. ASSUME NEW s \in {"PAID", "PENDING"}, RecordBookingPayment(a, b, s)
      PROVE  ClaimsInv'
  <2>1. PICK op : op = IF s = "PAID" THEN "collect" ELSE "uncollect"
    OBVIOUS
  <2>2. Begin(a, op, b, <<Save(d, [d EXCEPT !.paid = s, !.pay = s])>>)
    BY <1>1, <1>9, <2>1 DEF RecordBookingPayment, Alone
  <2>3. QED
    BY <1>6, <1>9, <2>1, <2>2
<1>10. CASE MarkTransferRefundProcessed(a, b)
  <2>1. PICK i : Begin(a, "refund", b, <<[Save(d, d) EXCEPT !.settle = i]>>)
    BY <1>1, <1>10 DEF MarkTransferRefundProcessed, Alone
  <2>2. PICK w : w = [Save(d, d) EXCEPT !.settle = i]
    OBVIOUS
  <2>3. w.w = "save" /\ w.set = Save(d, d).set /\ w.push = Save(d, d).push
    BY <2>2 DEF Save
  <2>4. DOMAIN w.set \subseteq {"paid", "pay"} /\ Len(w.push) = 0
    BY <1>2, <2>3, PaymentSave
  <2>5. QED
    BY <1>4, <1>5, <2>1, <2>2, <2>3, <2>4
<1>11. CASE CancelPendingBooking(a, b)
  <2>1. Begin(a, "drop", b, <<Drop(b)>>)
    BY <1>11 DEF CancelPendingBooking, Alone
  <2>2. PICK w : w = Drop(b)
    OBVIOUS
  <2>3. w.w = "drop"
    BY <2>2 DEF Drop
  <2>4. QED
    BY <1>4, <1>5, <2>1, <2>2, <2>3
<1>12. QED
  BY <1>7, <1>8, <1>9, <1>10, <1>11

\* The rooms are managed.
LEMMA RoomClaims ==
  ASSUME IInv, IInv', ClaimsInv, NEW a \in Actor, NEW r \in Room,
         SetRoomActive(a, r) \/ \E s \in RoomStatuses : SetRoomStatus(a, r, s)
  PROVE  ClaimsInv'
<1>1. "room" \notin Claiming /\ NoBooking \notin Booking
  BY RoomBookingAssumption DEF Claiming
<1>2. Len(<<>>) = 0
  BY Tuples
<1>3. PICK w : /\ w.w \in {"room", "active"}
               /\ Alone(a, "room", NoBooking, <<w>>) \/ Alone(a, "room", NoBooking, <<>>)
  <2>1. CASE SetRoomActive(a, r)
    <3>1. PICK w : w = SetActive(r, ~rooms[r].active)
      OBVIOUS
    <3>2. w.w = "active" /\ Alone(a, "room", NoBooking, <<w>>)
      BY <2>1, <3>1 DEF SetRoomActive, SetActive
    <3>3. QED
      BY <3>2
  <2>2. ASSUME NEW s \in RoomStatuses, SetRoomStatus(a, r, s)
        PROVE  \E w : /\ w.w \in {"room", "active"}
                      /\ \/ Alone(a, "room", NoBooking, <<w>>)
                         \/ Alone(a, "room", NoBooking, <<>>)
    <3>1. PICK w : w = SetRoom(r, s)
      OBVIOUS
    <3>2. w.w = "room"
      BY <3>1 DEF SetRoom
    <3>3. \/ Alone(a, "room", NoBooking, <<w>>)
          \/ Alone(a, "room", NoBooking, <<>>)
      BY <2>2, <3>1 DEF SetRoomStatus
    <3>4. QED
      BY <3>2, <3>3
  <2>3. QED
    BY <2>1, <2>2
<1>4. Len(<<w>>) = 1 /\ <<w>>[1] = w /\ 1..1 = {1}
  BY Tuples
<1>5. ASSUME NEW L \in {<<>>, <<w>>}, Begin(a, "room", NoBooking, L)
      PROVE  ClaimsInv'
  <2>1. \A i \in 1..Len(L) : L[i] = w
    BY <1>2, <1>4, <1>5
  <2>2. \A i \in 1..Len(L) :
          \/ L[i].w \in {"insert", "drop", "active"}
          \/ L[i].w = "room" /\ NoBooking \notin Booking
          \/ /\ L[i].w = "save" /\ Len(L) = 1
             /\ DOMAIN L[i].set \subseteq {"paid", "pay"} /\ Len(L[i].push) = 0
    BY <1>1, <1>3, <2>1
  <2>3. QED
    BY <1>1, <1>5, <2>2, PlainBegins
<1>6. QED
  BY <1>3, <1>5 DEF Alone

\* createRoomBooking: a booking that does not exist yet is claimed by nobody.
LEMMA CreateClaims ==
  ASSUME IInv, IInv', ClaimsInv, NEW a \in Guest, NEW r \in Room, NEW nights \in Stays,
         NEW status \in {"PENDING", "CONFIRMED"}, NEW terms \in Terms,
         CreateRoomBooking(a, r, nights, status, terms)
  PROVE  ClaimsInv'
<1> DEFINE found == Conflicts(r, nights)
           own == {b \in found : docs[b].status = "PENDING" /\ docs[b].guest = a}
           k == Cardinality(own)
<1>1. PICK drops \in [1..k -> own] :
        /\ \A i, j \in DOMAIN drops : drops[i] = drops[j] => i = j
        /\ LET deletes == [i \in DOMAIN drops |-> Drop(drops[i])]
           IN  IF own = found
               THEN Alone(a, "create", NoBooking,
                          deletes \o <<Insert(r, nights, status, terms)>>)
               ELSE \E n \in 0..Len(deletes) :
                      Alone(a, "refused", NoBooking, SubSeq(deletes, 1, n))
  BY DEF CreateRoomBooking
<1>2. k \in Nat
  <2>1. own \in SUBSET Booking
    BY DEF Conflicts, Bookings
  <2>2. IsFiniteSet(own)
    BY <2>1, RoomBookingAssumption, FS_Subset
  <2> HIDE DEF own
  <2>3. QED
    BY <2>2, FS_CardinalityType
<1> HIDE DEF own
<1>3. PICK deletes : deletes = [i \in 1..k |-> Drop(drops[i])]
  OBVIOUS
<1>4. deletes = [i \in DOMAIN drops |-> Drop(drops[i])]
  BY <1>1, <1>3
<1> HIDE DEF k
<1>5. PICK D : D = {w \in {Drop(b) : b \in own} \cup {Insert(r, nights, status, terms)} :
                      w.w \in {"insert", "drop"}}
  OBVIOUS
<1>6. PICK insert : insert = Insert(r, nights, status, terms)
  OBVIOUS
<1>7. /\ deletes \in Seq(D) /\ Len(deletes) = k /\ insert \in D
      /\ \A w \in D : w.w \in {"insert", "drop"}
  <2>1. \A i \in 1..k : Drop(drops[i]) \in D
    BY <1>1, <1>5 DEF Drop
  <2>2. insert \in D
    BY <1>5, <1>6 DEF Insert
  <2>3. \A w \in D : w.w \in {"insert", "drop"}
    BY <1>5
  <2>4. QED
    BY <1>2, <1>3, <2>1, <2>2, <2>3
<1>8. ASSUME NEW op \in {"create", "refused"}, NEW L \in Seq(D),
             Alone(a, op, NoBooking, L)
      PROVE  ClaimsInv'
  <2>1. \A i \in 1..Len(L) : L[i] \in D
    BY <1>8, ElementOfSeq
  <2>2. \A i \in 1..Len(L) :
          \/ L[i].w \in {"insert", "drop", "active"}
          \/ L[i].w = "room" /\ NoBooking \notin Booking
          \/ /\ L[i].w = "save" /\ Len(L) = 1
             /\ DOMAIN L[i].set \subseteq {"paid", "pay"} /\ Len(L[i].push) = 0
    BY <1>7, <2>1
  <2>3. op \notin Claiming /\ a \in Actor
    BY <1>8 DEF Claiming, Actor
  <2>4. Begin(a, op, NoBooking, L)
    BY <1>8 DEF Alone
  <2>5. QED
    BY <2>2, <2>3, <2>4, PlainBegins
<1>9. CASE Alone(a, "create", NoBooking, deletes \o <<insert>>)
  <2>1. <<insert>> \in Seq(D)
    BY <1>7
  <2>2. deletes \o <<insert>> \in Seq(D)
    BY <1>7, <2>1, ConcatProperties
  <2>3. QED
    BY <1>8, <1>9, <2>2
<1>10. ASSUME NEW n \in 0..Len(deletes),
              Alone(a, "refused", NoBooking, SubSeq(deletes, 1, n))
       PROVE  ClaimsInv'
  <2>1. \A i \in 1..n : deletes[i] \in D
    BY <1>2, <1>7, <1>10, ElementOfSeq
  <2>2. SubSeq(deletes, 1, n) \in Seq(D)
    BY <2>1, SubSeqProperties
  <2>3. QED
    BY <1>8, <1>10, <2>2
<1>11. QED
  BY <1>1, <1>4, <1>6, <1>9, <1>10

----------------------------------------------------------------------------
(* Writes. *)

\* A request that has written the head of its list goes on with the rest.
LEMMA Progress ==
  ASSUME IInv, NEW a \in Actor, req[a] # Idle, Done(a) \/ Continue(a, <<>>)
  PROVE  /\ \A o \in Actor : o # a => req'[o] = req[o]
         /\ Continue(a, <<>>) => req'[a] = Idle
         /\ Done(a) =>
              \/ req'[a] = Idle /\ Tail(req[a].todo) = <<>>
              \/ /\ req'[a].op = req[a].op /\ req'[a].b = req[a].b
                 /\ req'[a].todo = Tail(req[a].todo) /\ req'[a].todo # <<>>
<1>1. req = [o \in Actor |-> req[o]] /\ RequestInv(req[a], Settled)
  BY DEF IInv, DataInv, RequestsInv
<1>2. PICK q, t : q = req[a] /\ t = Tail(q.todo)
  OBVIOUS
<1>3. q = [op |-> q.op, b |-> q.b, todo |-> q.todo]
  BY <1>1, <1>2 DEF RequestInv
<1>4. Continue(a, <<>>) => req'[a] = Idle /\ \A o \in Actor : o # a => req'[o] = req[o]
  BY <1>1 DEF Continue
<1>5. ASSUME Done(a)
      PROVE  /\ req'[a] = IF t = <<>> THEN Idle ELSE [q EXCEPT !.todo = t]
             /\ \A o \in Actor : o # a => req'[o] = req[o]
  <2>1. req' = [req EXCEPT ![a] = IF t = <<>> THEN Idle ELSE [q EXCEPT !.todo = t]]
    BY <1>2, <1>5 DEF Done, Continue
  <2>2. QED
    BY <1>1, <2>1
<1>6. PICK e : e = [q EXCEPT !.todo = t]
  OBVIOUS
<1>7. e.op = q.op /\ e.b = q.b /\ e.todo = t
  BY <1>3, <1>6
<1>8. QED
  BY <1>2, <1>4, <1>5, <1>6, <1>7

\* A request that ends, or goes on with its booking, is no new rival.
LEMMA RivalryStays ==
  ASSUME ClaimRivalry, NEW a \in Actor, \A o \in Actor : o # a => req'[o] = req[o],
         req'[a] = Idle \/ (req'[a].op = req[a].op /\ req'[a].b = req[a].b),
         hist.crossed \subseteq hist'.crossed
  PROVE  ClaimRivalry'
<1>1. Idle.op \notin Claiming
  BY DEF Idle, Claiming
<1>2. SUFFICES ASSUME NEW x \in Actor, NEW y \in Actor, x # y, req'[x].op \in Claiming,
                      req'[y].op \in Claiming, req'[x].b = req'[y].b
               PROVE  x \in hist'.crossed
  BY DEF ClaimRivalry, Claiming
<1>3. /\ req'[x].op = req[x].op /\ req'[x].b = req[x].b
      /\ req'[y].op = req[y].op /\ req'[y].b = req[y].b
  BY <1>1, <1>2
<1>4. x \in hist.crossed
  BY <1>2, <1>3 DEF ClaimRivalry
<1>5. QED
  BY <1>4

\* A request that has ended claims nothing.
LEMMA IdleClaims ==
  ASSUME NEW a \in Actor, req'[a] = Idle
  PROVE  Shape(a)' /\ ClaimInv(a)' /\ Proceeds(a)
<1>1. /\ Idle.op = "idle" /\ Idle.todo = <<>> /\ Idle.b = NoBooking
      /\ "idle" \notin Claiming /\ Len(<<>>) = 0
  BY Tuples DEF Idle, Claiming
<1>2. ShapeOf("idle", NoBooking, <<>>)
  BY <1>1 DEF ShapeOf
<1>3. QED
  BY <1>1, <1>2 DEF Shape, ClaimInv, Proceeds

\* A booking that is not written is the same.
LEMMA UnwrittenStays ==
  ASSUME NEW a \in Actor, Steady(a), NEW c, docs'[c] = docs[c]
  PROVE  SameBooking(c)
BY DEF SameBooking, SameStay, Steady, Bookings, Exists

\* A request that ends early has not saved, or somebody knows that it died.
LEMMA EndClaims ==
  ASSUME IInv, IInv', ClaimsInv, NEW a \in Actor,
         CouponInvalid(a) \/ SaveNothing(a) \/ Dies(a)
  PROVE  ClaimsInv'
<1>1. /\ req[a] # Idle /\ Continue(a, <<>>)
      /\ docs' = docs /\ rooms' = rooms /\ invoices' = invoices /\ hist' = hist
      /\ rates' = rates
      /\ faults' = 0 => faults = 0
  <2>1. faults \in Nat
    BY DEF IInv, DataInv, CountersInv
  <2>2. faults' = 0 => faults = 0
    BY <2>1 DEF CouponInvalid, SaveNothing, Dies
  <2>3. QED
    BY <2>2 DEF CouponInvalid, SaveNothing, Dies, Next1
<1>2. req'[a] = Idle /\ \A o \in Actor : o # a => req'[o] = req[o]
  BY <1>1 DEF Continue, IInv, DataInv, RequestsInv
<1>3. Steady(a)
  BY <1>1, <1>2 DEF Steady
<1>4. Shape(a)' /\ ClaimInv(a)' /\ Proceeds(a)
  BY <1>2, IdleClaims
<1>5. ASSUME NEW c \in Booking, Claims(a, c), ~Saving(req[a].todo)
      PROVE  faults' # 0
  <2>1. /\ WriteInv(req[a].op, req[a].b, Head(req[a].todo), Settled)
        /\ Head(req[a].todo) = req[a].todo[1] /\ 1 \in 1..Len(req[a].todo)
    BY <1>1, HeadFacts
  <2>2. CASE CouponInvalid(a)
    <3>1. Head(req[a].todo).w = "insert"
      BY <2>2 DEF CouponInvalid, Next1
    <3>2. req[a].op = "create"
      BY <2>1, <3>1 DEF WriteInv
    <3>3. QED
      BY <1>5, <3>2 DEF Claims, Claiming
  <2>3. CASE SaveNothing(a)
    <3>1. Head(req[a].todo).w = "save"
      BY <2>3 DEF SaveNothing, Next1
    <3>2. QED
      BY <1>5, <2>1, <3>1 DEF Saving, Saves
  <2>4. CASE Dies(a)
    <3>1. faults \in Nat
      BY DEF IInv, DataInv, CountersInv
    <3>2. QED
      BY <2>4, <3>1 DEF Dies
  <2>5. QED
    BY <2>2, <2>3, <2>4
<1>6. ASSUME NEW c \in Booking
      PROVE  SameBooking(c) /\ HouseKept(a, c) /\ FinishesWell(a, c)
  <2>1. SameBooking(c)
    BY <1>1, <1>3, UnwrittenStays
  <2>2. HouseKept(a, c)
    BY <1>1 DEF HouseKept, Occupied
  <2>3. FinishesWell(a, c)
    BY <1>2, <1>5 DEF FinishesWell
  <2>4. QED
    BY <2>1, <2>2, <2>3
<1>7. InvoicesInv'
  BY <1>1 DEF ClaimsInv, InvoicesInv
<1>8. ClaimRivalry'
  BY <1>1, <1>2, RivalryStays DEF ClaimsInv
<1>9. QED
  BY <1>3, <1>4, <1>6, <1>7, <1>8, ActorStep

\* A room, its flag or an invoice is written, and the request goes on: what it
\* left of its list is harmless, and others find their rooms as they were.
LEMMA HouseClaims ==
  ASSUME IInv, IInv', ClaimsInv, NEW a \in Actor,
         DoSetRoom(a) \/ DoSetActive(a) \/ DoInvoice(a)
  PROVE  ClaimsInv'
<1>1. PICK b, op, todo, w : /\ b = req[a].b /\ op = req[a].op /\ todo = req[a].todo
                            /\ w = Head(req[a].todo)
  OBVIOUS
<1>2. /\ req[a] # Idle /\ w.w \in {"room", "active", "invoice"}
      /\ Done(a) \/ (DoInvoice(a) /\ Continue(a, <<>>))
      /\ docs' = docs /\ rates' = rates /\ faults' = faults /\ hist' = hist
  BY <1>1 DEF DoSetRoom, DoSetActive, DoInvoice, Next1
<1>3. WriteInv(op, b, w, Settled) /\ w = todo[1] /\ 1 \in 1..Len(todo)
  BY <1>1, <1>2, HeadFacts
<1>4. /\ \A o \in Actor : o # a => req'[o] = req[o]
      /\ \/ req'[a] = Idle /\ (Tail(todo) = <<>> \/ DoInvoice(a))
         \/ /\ req'[a].op = op /\ req'[a].b = b
            /\ req'[a].todo = Tail(todo) /\ req'[a].todo # <<>>
  <2>1. CASE Done(a)
    <3>1. /\ \A o \in Actor : o # a => req'[o] = req[o]
          /\ \/ req'[a] = Idle /\ Tail(req[a].todo) = <<>>
             \/ /\ req'[a].op = req[a].op /\ req'[a].b = req[a].b
                /\ req'[a].todo = Tail(req[a].todo) /\ req'[a].todo # <<>>
      BY <1>2, <2>1, Progress
    <3>2. QED
      BY <1>1, <3>1
  <2>2. CASE DoInvoice(a) /\ Continue(a, <<>>)
    <3>1. req'[a] = Idle /\ \A o \in Actor : o # a => req'[o] = req[o]
      BY <2>2 DEF Continue, IInv, DataInv, RequestsInv
    <3>2. QED
      BY <2>2, <3>1
  <2>3. QED
    BY <1>2, <2>1, <2>2
<1>5. ShapeOf(op, b, todo)
  BY <1>1 DEF ClaimsInv, Shape
<1>6. DoInvoice(a) => w.w = "invoice" /\ Saving(todo) /\ Balanced(w.bill) /\ b \in Booking
  BY <1>1, <1>3, <1>5 DEF DoInvoice, Next1, ShapeOf, WriteInv
<1>7. /\ \A r \in Room : Marks(w, r) => rooms'[r].status = w.status /\ rooms'[r].by = b
      /\ \A r \in Room : ~Marks(w, r) =>
           rooms'[r].status = rooms[r].status /\ rooms'[r].by = rooms[r].by
  <2>1. CASE DoSetRoom(a)
    <3>1. rooms' = [rooms EXCEPT ![w.room].status = w.status, ![w.room].by = b]
      BY <1>1, <2>1 DEF DoSetRoom
    <3>2. w.w = "room" /\ w.room \in Room
      BY <1>1, <1>3, <2>1 DEF WriteInv, DoSetRoom, Next1
    <3>3. \A r \in Room : rooms'[r] = IF r = w.room
                            THEN [rooms[r] EXCEPT !.status = w.status, !.by = b]
                            ELSE rooms[r]
      BY <3>1, <3>2 DEF IInv, DataInv, RoomsInv
    <3>4. \A r \in Room : rooms[r] = [status |-> rooms[r].status,
                                      active |-> rooms[r].active, by |-> rooms[r].by]
      BY DEF IInv, DataInv, RoomsInv
    <3>5. ASSUME NEW r \in Room, r = w.room
          PROVE  rooms'[r].status = w.status /\ rooms'[r].by = b
      BY <3>3, <3>4, <3>5
    <3>6. QED
      BY <3>2, <3>3, <3>5 DEF Marks
  <2>2. CASE DoSetActive(a)
    <3>1. rooms' = [rooms EXCEPT ![w.room].active = w.flag] /\ w.w = "active"
      BY <1>1, <2>2 DEF DoSetActive, Next1
    <3>2. w.room \in Room
      BY <1>3, <3>1 DEF WriteInv
    <3>3. \A r \in Room : rooms'[r] = IF r = w.room
                            THEN [rooms[r] EXCEPT !.active = w.flag] ELSE rooms[r]
      BY <3>1, <3>2 DEF IInv, DataInv, RoomsInv
    <3>4. \A r \in Room : rooms[r] = [status |-> rooms[r].status,
                                      active |-> rooms[r].active, by |-> rooms[r].by]
      BY DEF IInv, DataInv, RoomsInv
    <3>5. \A r \in Room : rooms'[r].status = rooms[r].status /\ rooms'[r].by = rooms[r].by
      BY <3>3, <3>4
    <3>6. QED
      BY <3>1, <3>5 DEF Marks
  <2>3. CASE DoInvoice(a)
    BY <1>6, <2>3 DEF DoInvoice, Marks
  <2>4. QED
    BY <2>1, <2>2, <2>3
<1>8. /\ \A c \in Booking : c # b \/ ~DoInvoice(a) => invoices'[c] = invoices[c]
      /\ DoInvoice(a) =>
           \/ invoices' = invoices /\ invoices[b] # NoInvoice /\ Continue(a, <<>>)
           \/ invoices[b] = NoInvoice /\ invoices'[b] = w.bill /\ Done(a)
  <2>1. invoices \in [Booking -> {NoInvoice} \cup Bills]
    BY DEF IInv, DataInv, CountersInv
  <2>2. CASE DoInvoice(a)
    <3>1. \/ invoices' = invoices /\ invoices[b] # NoInvoice /\ Continue(a, <<>>)
          \/ invoices[b] = NoInvoice /\ invoices' = [invoices EXCEPT ![b] = w.bill] /\ Done(a)
      BY <1>1, <2>2 DEF DoInvoice
    <3>2. QED
      BY <1>6, <2>1, <2>2, <3>1
  <2>3. CASE ~DoInvoice(a)
    BY <2>3 DEF DoSetRoom, DoSetActive
  <2>4. QED
    BY <2>2, <2>3
<1>9. InvoicesInv'
  <2>1. ASSUME NEW c \in Booking, invoices'[c] # NoInvoice
        PROVE  Balanced(invoices'[c])
    <3>1. invoices[c] # NoInvoice => Balanced(invoices[c])
      BY DEF ClaimsInv, InvoicesInv
    <3>2. CASE invoices'[c] = invoices[c]
      BY <2>1, <3>1, <3>2
    <3>3. CASE DoInvoice(a) /\ invoices'[c] = w.bill
      BY <1>6, <3>3
    <3>4. QED
      BY <1>8, <3>2, <3>3
  <2>2. QED
    BY <2>1 DEF InvoicesInv, Balanced
<1>10. Steady(a)
  <2>1. \A c \in Booking : invoices[c] # NoInvoice => invoices'[c] = invoices[c]
    BY <1>8
  <2>2. QED
    BY <1>2, <1>4, <2>1 DEF Steady
<1>11. ASSUME req'[a] # Idle \/ ~Saving(todo)
       PROVE  HeadWritten(b, w)
  <2>1. \A r \in Room :
          /\ Marks(w, r) /\ w.status = "OCCUPIED" => Occupied(b, r)'
          /\ ~Marks(w, r) /\ Occupied(b, r) => Occupied(b, r)'
    BY <1>7 DEF Occupied
  <2>2. ASSUME w.w = "invoice"
        PROVE  invoices'[b] # NoInvoice /\ invoices'[b].stay = w.bill.stay
    <3>1. DoInvoice(a)
      BY <1>1, <2>2 DEF DoSetRoom, DoSetActive, DoInvoice, Next1
    <3>2. w.bill \in Bills
      BY <1>3, <2>2 DEF WriteInv
    <3>3. invoices'[b] # NoInvoice
      BY <1>8, <3>1, <3>2, ExistingAssumption DEF Bills
    <3>4. invoices'[b] = w.bill
      <4>1. Continue(a, <<>>) => req'[a] = Idle
        BY DEF Continue, IInv, DataInv, RequestsInv
      <4>2. QED
        BY <1>6, <1>8, <1>11, <3>1, <4>1
    <3>5. QED
      BY <3>3, <3>4
  <2>3. QED
    BY <2>1, <2>2 DEF HeadWritten
<1>12. ASSUME NEW c \in Booking
       PROVE  SameBooking(c) /\ HouseKept(a, c)
  <2>1. SameBooking(c)
    BY <1>2, <1>10, UnwrittenStays
  <2>2. HouseKept(a, c)
    <3>1. SUFFICES ASSUME Claims(a, c) => Saving(todo), NEW r \in Room, Occupied(c, r)
                   PROVE  Occupied(c, r)'
      BY <1>1 DEF HouseKept
    <3>2. CASE ~Marks(w, r) \/ c # b
      BY <1>7, <3>1, <3>2 DEF Occupied
    <3>3. CASE Marks(w, r) /\ c = b
      <4>1. w.w = "room" /\ op \in Claiming
        BY <1>3, <1>5, <3>3 DEF Marks, ShapeOf
      <4>2. PICK i \in 1..Len(todo) : Saves(todo[i])
        BY <1>1, <3>1, <3>3, <4>1 DEF Claims, Saving
      <4>3. i # 1
        BY <1>3, <4>1, <4>2 DEF Saves
      <4>4. Len(todo) \in Nat /\ 1 < i
        BY <1>1, <1>2, <4>3, HeadFacts
      <4>5. w.status = "OCCUPIED"
        BY <1>3, <1>5, <4>1, <4>2, <4>4 DEF ShapeOf
      <4>6. QED
        BY <1>7, <3>3, <4>5 DEF Occupied
    <3>4. QED
      BY <3>2, <3>3
  <2>3. QED
    BY <2>1, <2>2
<1>13. /\ Shape(a)' /\ ClaimInv(a)' /\ Proceeds(a)
       /\ \A c \in Booking : FinishesWell(a, c)
  <2>1. ~Saves(Head(req[a].todo))
    BY <1>1, <1>2 DEF Saves
  <2>2. docs' = docs /\ hist'.crossed = hist.crossed
    BY <1>2
  <2>3. \/ req'[a] = Idle /\ (Tail(req[a].todo) = <<>> \/ Saving(req[a].todo))
        \/ /\ req'[a].op = req[a].op /\ req'[a].b = req[a].b
           /\ req'[a].todo = Tail(req[a].todo) /\ req'[a].todo # <<>>
    BY <1>1, <1>4, <1>6
  <2>4. req'[a] # Idle \/ ~Saving(req[a].todo)
        => HeadWritten(req[a].b, Head(req[a].todo))
    BY <1>1, <1>11
  <2>5. QED
    BY <1>2, <1>10, <2>1, <2>2, <2>3, <2>4, TailClaims
<1>14. ClaimRivalry'
  <2>1. req'[a] = Idle \/ (req'[a].op = req[a].op /\ req'[a].b = req[a].b)
    BY <1>1, <1>4
  <2>2. QED
    BY <1>2, <1>4, <2>1, RivalryStays DEF ClaimsInv
<1>15. QED
  BY <1>9, <1>10, <1>12, <1>13, <1>14, ActorStep

\* A booking is deleted: it matters no more.
LEMMA DropClaims ==
  ASSUME IInv, IInv', ClaimsInv, NEW a \in Actor, DoDrop(a)
  PROVE  ClaimsInv'
<1>1. PICK w : w = Head(req[a].todo)
  OBVIOUS
<1>2. /\ req[a] # Idle /\ w.w = "drop" /\ Done(a)
      /\ docs' = [docs EXCEPT ![w.b] = Gone]
      /\ rooms' = rooms /\ rates' = rates /\ invoices' = invoices
      /\ faults' = faults /\ hist' = hist
  BY <1>1 DEF DoDrop, Next1
<1>3. w.b \in Booking
  BY <1>1, <1>2, HeadFacts DEF WriteInv
<1>4. \A c \in Booking : docs'[c] = IF c = w.b THEN Gone ELSE docs[c]
  BY <1>2, <1>3 DEF IInv, DataInv, DocsInv
<1>5. /\ \A o \in Actor : o # a => req'[o] = req[o]
      /\ \/ req'[a] = Idle /\ Tail(req[a].todo) = <<>>
         \/ /\ req'[a].op = req[a].op /\ req'[a].b = req[a].b
            /\ req'[a].todo = Tail(req[a].todo) /\ req'[a].todo # <<>>
  BY <1>2, Progress
<1>6. Steady(a)
  <2>1. \A c \in Booking : docs[c] # Free => docs'[c] # Free
    BY <1>4, ExistingAssumption
  <2>2. QED
    BY <1>2, <1>5, <2>1 DEF Steady
<1>7. ASSUME NEW c, c \in Bookings'
      PROVE  docs'[c] = docs[c] /\ c \in Booking
  BY <1>4, <1>7 DEF Bookings, Exists
<1>8. ASSUME NEW c \in Booking
      PROVE  SameBooking(c) /\ HouseKept(a, c)
  <2>1. SameBooking(c)
    BY <1>2, <1>7, UnwrittenStays, <1>6 DEF SameBooking
  <2>2. HouseKept(a, c)
    BY <1>2 DEF HouseKept, Occupied
  <2>3. QED
    BY <2>1, <2>2
<1>9. ASSUME NEW b
      PROVE  HeadWritten(b, w)
  BY <1>2 DEF HeadWritten, Marks, Occupied
<1>10. /\ Shape(a)' /\ ClaimInv(a)' /\ Proceeds(a)
       /\ \A c \in Booking : FinishesWell(a, c)
  <2>1. ~Saves(Head(req[a].todo)) /\ hist'.crossed = hist.crossed
    BY <1>1, <1>2 DEF Saves
  <2>2. HeadWritten(req[a].b, Head(req[a].todo))
    BY <1>1, <1>9
  <2>3. req[a].op \in Claiming /\ req[a].b \in Bookings'
        => docs'[req[a].b] = docs[req[a].b]
    BY <1>7
  <2>4. QED
    BY <1>2, <1>5, <1>6, <2>1, <2>2, <2>3, TailClaims
<1>11. ClaimRivalry'
  BY <1>2, <1>5, RivalryStays DEF ClaimsInv
<1>12. InvoicesInv'
  BY <1>2 DEF ClaimsInv, InvoicesInv
<1>13. QED
  BY <1>6, <1>8, <1>10, <1>11, <1>12, ActorStep

\* A step of actor a that writes booking x, which nobody else claims any more,
\* and leaves the others alone.
LEMMA WriterStep ==
  ASSUME IInv, IInv', ClaimsInv, NEW a \in Actor, Steady(a), Proceeds(a), NEW x \in Booking,
         \A c \in Booking \ {x} : SameBooking(c) /\ HouseKept(a, c) /\ FinishesWell(a, c),
         \A o \in Actor \ {a} : Claims(o, x) => x \in hist'.raced,
         BilledInv(x)', OccupiedInv(x)',
         Shape(a)', ClaimInv(a)', InvoicesInv', ClaimRivalry'
  PROVE  ClaimsInv'
<1>1. ASSUME NEW o \in Actor
      PROVE  Shape(o)' /\ ClaimInv(o)'
  <2>1. CASE o = a
    BY <2>1
  <2>2. CASE o # a
    <3>1. Shape(o)
      BY DEF ClaimsInv
    <3>2. Shape(o)'
      BY <2>2, <3>1, OthersShape
    <3>3. req[o].op \in Claiming => req[o].b \in Booking
      BY <3>1 DEF Shape
    <3>4. CASE Claims(o, x)
      <4>1. x \in hist'.raced /\ req'[o].b = x
        BY <2>2, <3>4 DEF Claims, Steady
      <4>2. QED
        BY <3>2, <4>1 DEF ClaimInv
    <3>5. CASE ~Claims(o, x)
      <4>1. req[o].op \in Claiming => req[o].b \in Booking \ {x}
        BY <3>3, <3>5 DEF Claims
      <4>2. ClaimInv(o)'
        BY <2>2, <4>1, OthersClaim
      <4>3. QED
        BY <3>2, <4>2
    <3>6. QED
      BY <3>4, <3>5
  <2>3. QED
    BY <2>1, <2>2
<1>2. ASSUME NEW c \in Booking
      PROVE  BilledInv(c)' /\ OccupiedInv(c)'
  <2>1. CASE c = x
    BY <2>1
  <2>2. CASE c # x
    BY <2>2, BilledStays, OccupiedStays
  <2>3. QED
    BY <2>1, <2>2
<1>3. QED
  BY <1>1, <1>2 DEF ClaimsInv

\* A booking is created: billed for its room, and nobody claims it yet.
LEMMA InsertClaims ==
  ASSUME IInv, IInv', ClaimsInv, NEW a \in Actor, DoInsert(a)
  PROVE  ClaimsInv'
<1>1. PICK w : w = Head(req[a].todo)
  OBVIOUS
<1>2. PICK b, base, off, new :
        /\ b \in Booking /\ docs[b] = Free
        /\ base = Base(w.rate, w.nights, w.terms.extra)
        /\ off = Discount(w.terms.off, base)
        /\ new = [room |-> w.room, guest |-> a, nights |-> w.nights,
                  status |-> w.status, paid |-> "PENDING", pay |-> "PENDING",
                  terms |-> [extra |-> w.terms.extra, off |-> off],
                  total |-> WithTaxes(base) - off, pending |-> NoMove,
                  transfers |-> <<>>]
        /\ docs' = [docs EXCEPT ![b] = new]
        /\ hist' = [hist EXCEPT
             !.unchecked = IF a \in hist.contended THEN @ \cup {b} ELSE @,
             !.repriced = IF w.rate # NightlyRate(w.room) THEN @ \cup {b} ELSE @]
  <2> DEFINE base == Base(w.rate, w.nights, w.terms.extra)
             off == Discount(w.terms.off, base)
             new == [room |-> w.room, guest |-> a, nights |-> w.nights,
                     status |-> w.status, paid |-> "PENDING", pay |-> "PENDING",
                     terms |-> [extra |-> w.terms.extra, off |-> off],
                     total |-> WithTaxes(base) - off, pending |-> NoMove,
                     transfers |-> <<>>]
  <2>1. PICK b : /\ b \in Booking /\ docs[b] = Free
                 /\ docs' = [docs EXCEPT ![b] = new]
                 /\ hist' = [hist EXCEPT
                      !.unchecked = IF a \in hist.contended THEN @ \cup {b} ELSE @,
                      !.repriced = IF w.rate # NightlyRate(w.room)
                                   THEN @ \cup {b} ELSE @]
    BY <1>1 DEF DoInsert
  <2>2. QED
    BY <2>1, Zenon
<1>3. /\ req[a] # Idle /\ w.w = "insert" /\ Done(a)
      /\ rooms' = rooms /\ rates' = rates /\ invoices' = invoices /\ faults' = faults
  BY <1>1 DEF DoInsert, Next1
<1>4. /\ req[a].op = "create" /\ req[a].op \notin Claiming
      /\ w.room \in Room /\ w.nights \in Stays /\ w.status \in {"PENDING", "CONFIRMED"}
      /\ w.rate \in Nat /\ w.terms \in [extra : Nat, off : Nat]
      /\ Head(req[a].todo).w = IF Len(req[a].todo) = 1 THEN "insert" ELSE "drop"
      /\ Len(req[a].todo) \in Nat \ {0}
  BY <1>1, <1>3, HeadFacts DEF WriteInv, Claiming
<1>5. /\ \A c \in Booking : docs'[c] = IF c = b THEN new ELSE docs[c]
      /\ new.room = w.room /\ new.nights = w.nights /\ new.status = w.status
      /\ new.terms.extra = w.terms.extra /\ new.terms.off = off
      /\ new.total = WithTaxes(base) - off /\ new.pending = NoMove
      /\ new.transfers = <<>>
      /\ hist'.raced = hist.raced /\ hist'.crossed = hist.crossed
      /\ hist'.edited = hist.edited /\ hist'.late = hist.late
      /\ hist'.clamped = hist.clamped /\ hist.repriced \subseteq hist'.repriced
      /\ b \notin hist'.repriced => w.rate = NightlyRate(w.room)
  <2>1. IsHistory(hist)
    BY DEF IInv, DataInv, CountersInv
  <2>2. hist' = [hist EXCEPT !.unchecked = hist'.unchecked,
                             !.repriced = IF w.rate # NightlyRate(w.room)
                                          THEN @ \cup {b} ELSE @]
    BY <1>2, <2>1 DEF IsHistory
  <2>3. /\ hist'.raced = hist.raced /\ hist'.crossed = hist.crossed
        /\ hist'.edited = hist.edited /\ hist'.late = hist.late
        /\ hist'.clamped = hist.clamped /\ hist.repriced \subseteq hist'.repriced
        /\ b \notin hist'.repriced => w.rate = NightlyRate(w.room)
    BY <2>1, <2>2 DEF IsHistory
  <2>4. \A c \in Booking : docs'[c] = IF c = b THEN new ELSE docs[c]
    BY <1>2 DEF IInv, DataInv, DocsInv
  <2>5. QED
    BY <1>2, <2>3, <2>4
<1>6. req'[a] = Idle /\ \A o \in Actor : o # a => req'[o] = req[o]
  <2>1. Len(req[a].todo) = 1
    BY <1>1, <1>3, <1>4
  <2>2. RequestInv(req[a], Settled)
    BY DEF IInv, DataInv, RequestsInv
  <2>3. Len(Tail(req[a].todo)) = 0 /\ IsSequence(Tail(req[a].todo))
    BY <1>3, <2>1, <2>2, TailIsAllowed DEF TodoInv
  <2>4. Tail(req[a].todo) = <<>>
    BY <2>3, HeadAndTail
  <2>5. QED
    BY <1>3, <2>4, Progress
<1>7. req'[a].op \notin Claiming
  BY <1>6 DEF Idle, Claiming
<1>8. ASSUME NEW o \in Actor
      PROVE  ~Claims(o, b) /\ ~Claims(o, b)'
  <2>1. Shape(o)
    BY DEF ClaimsInv
  <2>2. ~Claims(o, b)
    BY <1>2, <2>1 DEF Shape, Claims
  <2>3. QED
    BY <1>6, <1>7, <2>2 DEF Claims
<1>9. Steady(a)
  <2>1. \A c \in Booking : docs[c] # Free => docs'[c] # Free
    BY <1>2, <1>5
  <2>2. QED
    BY <1>3, <1>5, <1>6, <2>1 DEF Steady
<1>10. Shape(a)' /\ ClaimInv(a)' /\ Proceeds(a)
  BY <1>6, IdleClaims
<1>11. BilledInv(b)'
  <2>1. /\ docs'[b] = new /\ new.room \in Room /\ new.pending = NoMove
        /\ new.status # "CHECKED_OUT"
    BY <1>2, <1>4, <1>5
  <2>2. ASSUME b \notin hist'.repriced
        PROVE  BillInv(new, b \in hist.clamped)'
    <3>1. /\ w.rate = NightlyRate(new.room) /\ NightlyRate(new.room)' = w.rate
          /\ Len(new.transfers) = 0
      BY <1>3, <1>5, <2>2 DEF NightlyRate
    <3>2. WithTaxes(base) - off \in Nat
      BY <1>2, <1>4, BookedPrice
    <3>3. FairPrice(new, w.rate) = WithTaxes(base) - off
      BY <1>2, <1>5 DEF FairPrice
    <3>4. PICK price \in Nat : price = WithTaxes(base) - off
      BY <3>2
    <3>5. \A low : Billed(price, price, 0, low)
      BY DEF Billed
    <3>6. \A low : BillInv(new, low)'
      BY <1>5, <2>1, <3>1, <3>3, <3>4, <3>5 DEF BillInv
    <3>7. QED
      BY <3>6
  <2>3. Priced(b, new, FALSE)'
    BY <2>2 DEF Priced
  <2>4. MoveInv(new)
    BY <2>1 DEF MoveInv
  <2>5. QED
    BY <2>1, <2>3, <2>4 DEF BilledInv, MoveInv
<1>12. OccupiedInv(b)'
  <2>1. docs'[b].status # "CHECKED_IN"
    BY <1>2, <1>4, <1>5
  <2>2. QED
    BY <1>8, <2>1 DEF OccupiedInv
<1>13. ASSUME NEW c \in Booking \ {b}
       PROVE  SameBooking(c) /\ HouseKept(a, c) /\ FinishesWell(a, c)
  <2>1. SameBooking(c)
    BY <1>5, <1>9, UnwrittenStays
  <2>2. HouseKept(a, c)
    BY <1>3 DEF HouseKept, Occupied
  <2>3. FinishesWell(a, c)
    BY <1>4 DEF FinishesWell, Claims
  <2>4. QED
    BY <2>1, <2>2, <2>3
<1>14. InvoicesInv' /\ ClaimRivalry'
  BY <1>3, <1>5, <1>6, RivalryStays DEF ClaimsInv, InvoicesInv
<1>15. \A o \in Actor \ {a} : Claims(o, b) => b \in hist'.raced
  BY <1>8
<1>16. b \in Booking
  BY <1>2
<1>17. QED
  BY <1>9, <1>10, <1>11, <1>12, <1>13, <1>14, <1>15, <1>16, WriterStep

----------------------------------------------------------------------------
(* Saves. *)

\* What a save puts on record of its booking.
OnRecord(a) ==
    LET b == req[a].b
    IN  /\ req[a].op = "status" /\ docs'[b].status = "CHECKED_OUT" => b \in hist'.edited
        /\ req[a].op = "confirm" /\ docs[b].status = "CHECKED_OUT" => b \in hist'.late
        /\ req[a].op = "transfer" /\ docs'[b].total = 0 => b \in hist'.clamped

\* What a save does, to its booking and to the histories.
LEMMA SaveStep ==
  ASSUME IInv, ClaimsInv, NEW a \in Actor, DoSave(a)
  PROVE  /\ req[a] # Idle /\ req[a].b \in Bookings /\ req[a].b \in Booking
         /\ Head(req[a].todo) = req[a].todo[1] /\ Head(req[a].todo).w = "save"
         /\ PatchInv(req[a].op, req[a].b, Head(req[a].todo).set, Settled)
         /\ Head(req[a].todo).push \in Seq(Refunds)
         /\ docs'[req[a].b] = Saved(docs[req[a].b], Head(req[a].todo))
         /\ \A c \in Booking : c # req[a].b => docs'[c] = docs[c]
         /\ rooms' = rooms /\ invoices' = invoices /\ faults' = faults
         /\ hist'.crossed = hist.crossed
         /\ hist'.raced = IF a \in hist.crossed THEN hist.raced \cup {req[a].b}
                          ELSE hist.raced
         /\ OnRecord(a)
         /\ Steady(a)
         /\ \A o \in Actor : o # a => req'[o] = req[o]
         /\ \/ req'[a] = Idle /\ Tail(req[a].todo) = <<>>
            \/ /\ req'[a].op = req[a].op /\ req'[a].b = req[a].b
               /\ req'[a].todo = Tail(req[a].todo) /\ req'[a].todo # <<>>
<1>1. PICK b, w, op : b = req[a].b /\ w = Head(req[a].todo) /\ op = req[a].op
  OBVIOUS
<1>2. /\ req[a] # Idle /\ w = req[a].todo[1] /\ w.w = "save"
      /\ b \in Bookings
      /\ PatchInv(op, b, w.set, Settled)
      /\ docs'[b] \in Docs /\ docs'[b] \notin {Free, Gone}
      /\ docs'[b] = Saved(docs[b], w)
      /\ \A c \in Booking : c # b => docs'[c] = docs[c]
  BY <1>1, SaveFacts
<1>3. b \in Booking
  BY <1>2 DEF Bookings
<1>4. WriteInv(op, b, w, Settled)
  BY <1>1, <1>2, HeadFacts
<1>5. w.push \in Seq(Refunds)
  BY <1>2, <1>4 DEF WriteInv
<1>6. IsHistory(hist)
  BY DEF IInv, DataInv, CountersInv
<1>7. /\ hist'.crossed = hist.crossed /\ hist'.repriced = hist.repriced
      /\ hist'.raced = IF a \in hist.crossed THEN hist.raced \cup {b} ELSE hist.raced
      /\ hist.edited \subseteq hist'.edited /\ hist.late \subseteq hist'.late
      /\ hist.clamped \subseteq hist'.clamped
      /\ OnRecord(a)
  <2>1. PICK new : new = docs'[b]
    OBVIOUS
  <2>2. /\ hist' = [hist EXCEPT !.raced = hist'.raced, !.unchecked = hist'.unchecked,
                                !.edited = hist'.edited, !.late = hist'.late,
                                !.clamped = hist'.clamped]
        /\ hist'.raced = IF a \in hist.crossed THEN hist.raced \cup {b} ELSE hist.raced
    BY <1>1, <1>6 DEF DoSave, IsHistory
  <2>3. hist'.edited = IF op = "status" /\ new.status = "CHECKED_OUT"
                       THEN hist.edited \cup {b} ELSE hist.edited
    BY <1>1, <1>2, <1>6, <2>1 DEF DoSave, IsHistory
  <2>4. hist'.late = IF op = "confirm" /\ docs[b].status = "CHECKED_OUT"
                     THEN hist.late \cup {b} ELSE hist.late
    BY <1>1, <1>6 DEF DoSave, IsHistory
  <2>5. hist'.clamped = IF op = "transfer" /\ new.total = 0
                        THEN hist.clamped \cup {b} ELSE hist.clamped
    BY <1>1, <1>2, <1>6, <2>1 DEF DoSave, IsHistory
  <2>6. hist'.crossed = hist.crossed /\ hist'.repriced = hist.repriced
    BY <1>6, <2>2 DEF IsHistory
  <2>7. QED
    BY <1>1, <2>1, <2>2, <2>3, <2>4, <2>5, <2>6 DEF OnRecord
<1>8. /\ Done(a) /\ rooms' = rooms /\ invoices' = invoices /\ faults' = faults
      /\ rates' = rates
  BY DEF DoSave
<1>9. /\ \A o \in Actor : o # a => req'[o] = req[o]
      /\ \/ req'[a] = Idle /\ Tail(req[a].todo) = <<>>
         \/ /\ req'[a].op = req[a].op /\ req'[a].b = req[a].b
            /\ req'[a].todo = Tail(req[a].todo) /\ req'[a].todo # <<>>
  BY <1>2, <1>8, Progress
<1>10. Steady(a)
  <2>1. \A c \in Booking : docs[c] # Free => docs'[c] # Free
    BY <1>2
  <2>2. QED
    BY <1>7, <1>8, <1>9, <2>1 DEF Steady
<1>11. QED
  BY <1>1, <1>2, <1>3, <1>5, <1>7, <1>8, <1>9, <1>10

\* A request that claims nothing saves payments only.
LEMMA PlainSave ==
  ASSUME IInv, IInv', ClaimsInv, NEW a \in Actor, DoSave(a), req[a].op \notin Claiming
  PROVE  ClaimsInv'
<1>1. PICK b, w, op : b = req[a].b /\ w = Head(req[a].todo) /\ op = req[a].op
  OBVIOUS
<1>2. /\ req[a] # Idle /\ b \in Bookings /\ b \in Booking
      /\ w = req[a].todo[1] /\ w.w = "save"
      /\ PatchInv(op, b, w.set, Settled)
      /\ w.push \in Seq(Refunds)
      /\ docs'[b] = Saved(docs[b], w)
      /\ \A c \in Booking : c # b => docs'[c] = docs[c]
      /\ rooms' = rooms /\ invoices' = invoices /\ faults' = faults
      /\ hist'.crossed = hist.crossed /\ Steady(a)
      /\ \A o \in Actor : o # a => req'[o] = req[o]
      /\ \/ req'[a] = Idle
         \/ req'[a].op = req[a].op /\ req'[a].b = req[a].b
  BY <1>1, SaveStep
<1>3. docs[b] \in Docs
  BY <1>2, ExistingIsADoc DEF Bookings
<1>4. DOMAIN w.set \subseteq {"paid", "pay"} /\ Len(w.push) = 0
  <2>1. ShapeOf(op, b, req[a].todo) /\ op \notin Claiming
    BY <1>1 DEF ClaimsInv, Shape
  <2>2. 1 \in 1..Len(req[a].todo)
    BY <1>2, HeadFacts
  <2>3. QED
    BY <1>2, <2>1, <2>2 DEF ShapeOf
<1>5. SameStay(docs'[b], docs[b])
  <2>1. PICK d : d = docs[b]
    OBVIOUS
  <2>2. {"room", "status", "total", "pending"} \cap DOMAIN w.set = {}
    BY <1>4
  <2>3. PICK n : n = Saved(d, w)
    OBVIOUS
  <2>4. /\ n.nights = d.nights /\ n.terms = d.terms
        /\ Len(n.transfers) = Len(d.transfers) + Len(w.push)
        /\ n.room = IF "room" \in DOMAIN w.set THEN w.set.room ELSE d.room
        /\ n.status = IF "status" \in DOMAIN w.set THEN w.set.status ELSE d.status
        /\ n.total = IF "total" \in DOMAIN w.set THEN w.set.total ELSE d.total
        /\ n.pending = IF "pending" \in DOMAIN w.set THEN w.set.pending ELSE d.pending
    BY <1>2, <1>3, <2>1, <2>3, SavedIsADoc
  <2>5. Len(d.transfers) \in Nat
    BY <1>3, <2>1, LenProperties DEF Docs
  <2>6. Len(n.transfers) = Len(d.transfers)
    BY <1>4, <2>4, <2>5
  <2>7. SameStay(n, d)
    BY <2>2, <2>4, <2>6 DEF SameStay
  <2>8. QED
    BY <1>2, <2>1, <2>3, <2>7
<1>6. ASSUME NEW c \in Booking
      PROVE  SameBooking(c) /\ HouseKept(a, c) /\ FinishesWell(a, c)
  <2>1. c = b => SameBooking(c)
    BY <1>2, <1>5 DEF SameBooking
  <2>2. c # b => SameBooking(c)
    BY <1>2, UnwrittenStays
  <2>3. HouseKept(a, c)
    BY <1>2 DEF HouseKept, Occupied
  <2>4. FinishesWell(a, c)
    BY DEF FinishesWell, Claims
  <2>5. QED
    BY <2>1, <2>2, <2>3, <2>4
<1>7. Proceeds(a) /\ req'[a].op \notin Claiming
  BY <1>2 DEF Proceeds, Idle, Claiming
<1>8. Shape(a)'
  <2>1. CASE req'[a] = Idle
    BY <2>1, IdleClaims
  <2>2. CASE req'[a] # Idle
    <3>1. req'[a].op = op /\ req'[a].b = b /\ req'[a].todo = Tail(req[a].todo)
      BY <1>1, <2>2, SaveStep
    <3>2. PICK todo : todo = req[a].todo
      OBVIOUS
    <3>3. IsSequence(todo) /\ todo # <<>>
      BY <1>2, <3>2 DEF IInv, DataInv, RequestsInv, RequestInv, TodoInv
    <3>4. ShapeOf(op, b, todo) /\ op \notin Claiming
      BY <1>1, <3>2 DEF ClaimsInv, Shape, Claiming
    <3>5. ShapeOf(op, b, Tail(todo))
      BY <3>3, <3>4, TailShape
    <3>6. QED
      BY <3>1, <3>2, <3>4, <3>5 DEF Shape
  <2>3. QED
    BY <2>1, <2>2
<1>9. ClaimInv(a)'
  BY <1>7 DEF ClaimInv
<1>10. InvoicesInv' /\ ClaimRivalry'
  <2>1. ClaimRivalry'
    BY <1>2, RivalryStays DEF ClaimsInv
  <2>2. QED
    BY <1>2, <2>1 DEF ClaimsInv, InvoicesInv
<1>11. Steady(a)
  BY <1>2
<1>12. QED
  BY <1>6, <1>7, <1>8, <1>9, <1>10, <1>11, ActorStep

\* A request that claims a booking, and that nobody crossed, saves it as planned.
LEMMA PlannedSave ==
  ASSUME IInv, ClaimsInv, NEW a \in Actor, DoSave(a), req[a].op \in Claiming,
         NEW b, b = req[a].b, NEW n, n = docs'[b], NEW rest, rest = Tail(req[a].todo),
         b \notin hist'.raced
  PROVE  /\ MoveInv(n) /\ Priced(b, n, FALSE)'
         /\ n.status = "CHECKED_OUT" /\ b \notin hist'.edited
              => Invoiced(b, n.total, FALSE)'
         /\ RestInv(b, rest, n)'
         /\ ~Saving(rest) /\ a \notin hist'.crossed
<1>1. PICK w, op, todo : w = Head(req[a].todo) /\ op = req[a].op /\ todo = req[a].todo
  OBVIOUS
<1>2. /\ req[a] # Idle /\ b \in Bookings /\ b \in Booking
      /\ w = todo[1] /\ w.w = "save"
      /\ n = Saved(docs[b], w)
      /\ PatchInv(op, b, w.set, Settled) /\ w.push \in Seq(Refunds)
      /\ rooms' = rooms /\ invoices' = invoices /\ faults' = faults
      /\ hist'.crossed = hist.crossed
      /\ hist'.raced = IF a \in hist.crossed THEN hist.raced \cup {b} ELSE hist.raced
      /\ OnRecord(a)
      /\ Steady(a)
  BY <1>1, SaveStep
<1>3. b \notin hist.raced /\ a \notin hist.crossed
  BY <1>2
<1>4. 1 \in 1..Len(todo) /\ IsSequence(todo) /\ todo # <<>>
  <2>1. 1 \in 1..Len(todo)
    BY <1>1, <1>2, HeadFacts
  <2>2. IsSequence(todo) /\ todo # <<>>
    BY <1>1, <1>2 DEF IInv, DataInv, RequestsInv, RequestInv, TodoInv
  <2>3. QED
    BY <2>1, <2>2
<1>5. SaveInv(op, b, todo, n)
  BY <1>1, <1>2, <1>3, <1>4 DEF ClaimsInv, ClaimInv, PlanInv
<1>6. ShapeOf(op, b, todo)
  BY <1>1 DEF ClaimsInv, Shape
<1>7. ~Saving(Tail(todo))
  BY <1>2, <1>4, <1>6, TailShape DEF Saves
<1>8. MoveInv(n) /\ n.room \in Room /\ Priced(b, n, FALSE)'
  <2>1. PICK cut : cut = (op = "transfer" /\ n.total = 0)
    OBVIOUS
  <2>2. MoveInv(n) /\ n.room \in Room /\ Priced(b, n, cut)
    BY <1>5, <2>1 DEF SaveInv, MoveInv
  <2>3. cut \/ b \in hist.clamped => b \in hist'.clamped
    BY <1>1, <1>2, <2>1 DEF OnRecord, Steady
  <2>4. rates' = rates /\ hist.repriced \subseteq hist'.repriced
    BY <1>2 DEF Steady
  <2>5. ASSUME b \notin hist'.repriced
        PROVE  BillInv(n, FALSE \/ b \in hist.clamped)'
    <3>1. BillInv(n, cut \/ b \in hist.clamped)
      BY <2>2, <2>4, <2>5 DEF Priced
    <3>2. PICK low, mark : low = (cut \/ b \in hist.clamped) /\ mark = (b \in hist'.clamped)
      OBVIOUS
    <3>3. BillInv(n, low) /\ (low => mark)
      BY <2>3, <3>1, <3>2
    <3>4. BillInv(n, mark)
      BY <3>3 DEF BillInv, Billed
    <3>5. BillInv(n, mark)'
      BY <2>4, <3>4 DEF BillInv, Billed, NightlyRate
    <3>6. QED
      BY <3>2, <3>5
  <2>6. QED
    BY <2>2, <2>5 DEF Priced
<1>9. ASSUME n.status = "CHECKED_OUT", b \notin hist'.edited
      PROVE  Invoiced(b, n.total, FALSE)'
  <2>1. todo[1].w # "invoice"
    BY <1>2
  <2>2. op = "status" \/ b \in hist.edited \/ Invoiced(b, n.total, op = "confirm")
    BY <1>5, <1>9, <2>1 DEF SaveInv
  <2>3. op # "status" /\ b \notin hist.edited
    BY <1>1, <1>2, <1>9 DEF OnRecord, Steady
  <2>4. op = "confirm" => b \in hist'.late
    <3>1. SUFFICES ASSUME op = "confirm" PROVE b \in hist'.late
      OBVIOUS
    <3>2. "status" \notin DOMAIN w.set
      BY <1>2, <1>4, <1>6, <3>1 DEF ShapeOf
    <3>3. PICK d \in Docs : d = docs[b]
      BY <1>2, ExistingIsADoc DEF Bookings
    <3>4. Saved(d, w).status = IF "status" \in DOMAIN w.set THEN w.set.status
                               ELSE d.status
      BY <1>2, <3>3, SavedIsADoc
    <3>5. n.status = docs[b].status
      BY <1>2, <3>2, <3>3, <3>4
    <3>6. QED
      BY <1>1, <1>2, <1>9, <3>1, <3>5 DEF OnRecord
  <2>5. QED
    BY <1>2, <2>2, <2>3, <2>4 DEF Invoiced, Steady
<1>10. HeadWritten(b, todo[1])
  BY <1>2 DEF HeadWritten, Marks, Occupied
<1>11. RestInv(b, Tail(todo), n)'
  <2>1. n.status = "CHECKED_IN" /\ faults' = 0 => WillBeOccupied(b, todo, n.room)
    BY <1>2, <1>5 DEF SaveInv
  <2>2. WillBeOccupied(b, todo, n.room) => WillBeOccupied(b, Tail(todo), n.room)'
    BY <1>4, <1>8, <1>10, TailMarks
  <2>3. PICK t : t = Tail(todo)
    OBVIOUS
  <2>4. \A i \in 1..Len(t) : i + 1 \in 1..Len(todo) /\ t[i] = todo[i + 1]
    BY <1>4, <2>3, HeadAndTail
  <2>5. \A i \in 1..Len(t) : t[i].w = "close" => n.status = "CHECKED_OUT"
    BY <1>5, <2>4 DEF SaveInv
  <2>6. RestInv(b, t, n)'
    BY <2>1, <2>2, <2>3, <2>5 DEF RestInv
  <2>7. QED
    BY <2>3, <2>6
<1>12. QED
  <2>1. rest = Tail(todo)
    BY <1>1
  <2>2. RestInv(b, rest, n)' /\ ~Saving(rest)
    BY <1>7, <1>11, <2>1
  <2>3. QED
    BY <1>2, <1>3, <1>8, <1>9, <2>2

\* A request that claims a booking saves it: as planned, unless it is raced now.
LEMMA ClaimingSave ==
  ASSUME IInv, IInv', ClaimsInv, NEW a \in Actor, DoSave(a), req[a].op \in Claiming
  PROVE  ClaimsInv'
<1>1. PICK b, w, op, todo, rest :
         /\ b = req[a].b /\ w = Head(req[a].todo) /\ op = req[a].op
         /\ todo = req[a].todo /\ rest = Tail(todo)
  OBVIOUS
<1>2. PICK n : n = docs'[b]
  OBVIOUS
<1>3. /\ req[a] # Idle /\ b \in Bookings /\ b \in Booking
      /\ w = todo[1] /\ w.w = "save"
      /\ \A c \in Booking : c # b => docs'[c] = docs[c]
      /\ rooms' = rooms /\ invoices' = invoices
      /\ hist'.crossed = hist.crossed
      /\ hist'.raced = IF a \in hist.crossed THEN hist.raced \cup {b} ELSE hist.raced
      /\ Steady(a)
      /\ \A o \in Actor : o # a => req'[o] = req[o]
      /\ \/ req'[a] = Idle /\ rest = <<>>
         \/ req'[a].op = op /\ req'[a].b = b /\ req'[a].todo = rest
  BY <1>1, SaveStep
<1>4. op \in Claiming /\ op # "idle" /\ Idle.op = "idle" /\ "idle" \notin Claiming
  BY <1>1 DEF Claiming, Idle
<1>5. b \notin hist'.raced =>
        /\ MoveInv(n) /\ Priced(b, n, FALSE)'
        /\ n.status = "CHECKED_OUT" /\ b \notin hist'.edited
             => Invoiced(b, n.total, FALSE)'
        /\ RestInv(b, rest, n)'
        /\ ~Saving(rest) /\ a \notin hist'.crossed
  BY <1>1, <1>2, <1>4, PlannedSave
<1>6. ASSUME NEW o \in Actor \ {a}, Claims(o, b)
      PROVE  b \in hist'.raced
  BY <1>1, <1>3, <1>4, <1>6 DEF ClaimsInv, ClaimRivalry, Claims
<1>7. BilledInv(b)'
  <2>1. SUFFICES ASSUME b \notin hist'.raced
                 PROVE  /\ MoveInv(docs'[b]) /\ Priced(b, docs[b], FALSE)'
                        /\ docs'[b].status = "CHECKED_OUT" /\ b \notin hist'.edited
                             => Invoiced(b, docs[b].total, FALSE)'
    BY DEF BilledInv, MoveInv
  <2>2. /\ MoveInv(n) /\ Priced(b, n, FALSE)'
        /\ n.status = "CHECKED_OUT" /\ b \notin hist'.edited
             => Invoiced(b, n.total, FALSE)'
    BY <1>5, <2>1
  <2>3. /\ Priced(b, n, FALSE)' => Priced(b, docs[b], FALSE)'
        /\ Invoiced(b, n.total, FALSE)' => Invoiced(b, docs[b].total, FALSE)'
    BY <1>2
  <2>4. QED
    BY <1>2, <2>2, <2>3
<1>8. OccupiedInv(b)'
  <2>1. SUFFICES ASSUME b \notin hist'.raced
                 PROVE  /\ /\ n.status = "CHECKED_IN" /\ faults' = 0
                           /\ \A o \in Actor : Claims(o, b)' => Saving(req'[o].todo)
                           => Occupied(b, n.room)'
                        /\ \A x, y \in Actor :
                             x # y => ~(Claims(x, b)' /\ Claims(y, b)')
    BY <1>2 DEF OccupiedInv, Saving
  <2>2. \A o \in Actor : o # a => ~Claims(o, b)'
    BY <1>3, <1>6, <2>1 DEF Claims
  <2>3. ASSUME n.status = "CHECKED_IN", faults' = 0,
               \A o \in Actor : Claims(o, b)' => Saving(req'[o].todo)
        PROVE  Occupied(b, n.room)'
    <3>1. rest = <<>>
      BY <1>3, <1>4, <1>5, <2>1, <2>3 DEF Claims
    <3>2. Len(rest) = 0
      BY <3>1, Tuples
    <3>3. WillBeOccupied(b, rest, n.room)'
      BY <1>5, <2>1, <2>3 DEF RestInv
    <3>4. QED
      BY <3>2, <3>3 DEF WillBeOccupied
  <2>4. QED
    BY <2>2, <2>3
<1>9. ASSUME NEW c \in Booking \ {b}
      PROVE  SameBooking(c) /\ HouseKept(a, c) /\ FinishesWell(a, c)
  <2>1. SameBooking(c)
    BY <1>3, UnwrittenStays
  <2>2. HouseKept(a, c)
    BY <1>3 DEF HouseKept, Occupied
  <2>3. FinishesWell(a, c)
    BY <1>1 DEF FinishesWell, Claims
  <2>4. QED
    BY <2>1, <2>2, <2>3
<1>10. Proceeds(a)
  BY <1>1, <1>3 DEF Proceeds
<1>11. Shape(a)' /\ ClaimInv(a)'
  <2>1. CASE req'[a] = Idle
    BY <2>1, IdleClaims
  <2>2. CASE req'[a] # Idle
    <3>1. req'[a].op = op /\ req'[a].b = b /\ req'[a].todo = rest
      BY <1>3, <2>2
    <3>2. IsSequence(todo) /\ todo # <<>>
      BY <1>1, <1>3 DEF IInv, DataInv, RequestsInv, RequestInv, TodoInv
    <3>3. ShapeOf(op, b, todo) /\ docs[b] # Free
      BY <1>1, <1>4 DEF ClaimsInv, Shape
    <3>4. ShapeOf(op, b, rest)
      BY <1>1, <3>2, <3>3, TailShape
    <3>5. docs'[b] # Free
      BY <1>3, <3>3 DEF Steady
    <3>6. Shape(a)'
      BY <1>3, <3>1, <3>3, <3>4, <3>5 DEF Shape
    <3>7. ASSUME b \notin hist'.raced
          PROVE  PlanInv(op, b, rest, n)' /\ RestInv(b, rest, n)'
      <4>1. ~Saving(rest)
        BY <1>5, <3>7
      <4>2. PlanInv(op, b, rest, n)'
        BY <4>1 DEF PlanInv, Saving, Saves
      <4>3. QED
        BY <1>5, <3>7, <4>2
    <3>8. /\ PlanInv(op, b, rest, n)' => PlanInv(op, b, rest, docs[b])'
          /\ RestInv(b, rest, n)' => RestInv(b, rest, docs[b])'
      BY <1>2
    <3>9. ClaimInv(a)'
      BY <3>1, <3>7, <3>8 DEF ClaimInv
    <3>10. QED
      BY <3>6, <3>9
  <2>3. QED
    BY <2>1, <2>2
<1>12. InvoicesInv' /\ ClaimRivalry'
  <2>1. ClaimRivalry'
    BY <1>1, <1>3, RivalryStays DEF ClaimsInv
  <2>2. QED
    BY <1>3, <2>1 DEF ClaimsInv, InvoicesInv
<1>13. Steady(a)
  BY <1>3
<1>14. QED
  BY <1>3, <1>6, <1>7, <1>8, <1>9, <1>10, <1>11, <1>12, <1>13, WriterStep

----------------------------------------------------------------------------
(* A second look. *)

\* A request that looks again goes on with a list of its own, or ends; it changes
\* nothing yet.
LEMMA LookClaims ==
  ASSUME IInv, IInv', ClaimsInv, NEW a \in Actor, req[a] # Idle,
         UNCHANGED <<docs, rooms, rates, invoices, faults, hist>>,
         \A o \in Actor : o # a => req'[o] = req[o],
         NEW b, b = req[a].b, NEW op \in Claiming, op = req[a].op, NEW more,
         \/ req'[a] = Idle
         \/ /\ req'[a].op = op /\ req'[a].b = b /\ req'[a].todo = more
            /\ ShapeOf(op, b, more) /\ Saving(more)
            /\ b \in Bookings \ hist.raced /\ a \notin hist.crossed =>
                 PlanInv(op, b, more, docs[b]),
         b \in Bookings \ hist.raced =>
           \/ Saving(req[a].todo)
           \/ req'[a] = Idle /\ docs[b].status # "CHECKED_IN"
  PROVE  ClaimsInv'
<1>1. Steady(a)
  BY DEF Steady
<1>2. Proceeds(a)
  BY DEF Proceeds
<1>3. ASSUME NEW c \in Booking
      PROVE  SameBooking(c) /\ HouseKept(a, c) /\ FinishesWell(a, c)
  <2>1. SameBooking(c)
    BY <1>1, UnwrittenStays
  <2>2. HouseKept(a, c)
    BY DEF HouseKept, Occupied
  <2>3. FinishesWell(a, c)
    <3>1. SUFFICES ASSUME c \in Bookings' \ hist'.raced, Claims(a, c)
                   PROVE  /\ Saving(req[a].todo) => req'[a] = Idle \/ Saving(req'[a].todo)
                          /\ ~Saving(req[a].todo) =>
                               req'[a] = Idle /\ docs[c].status # "CHECKED_IN"
      BY DEF FinishesWell
    <3>2. c = b /\ b \in Bookings \ hist.raced
      BY <3>1 DEF Claims, Bookings, Exists
    <3>3. req'[a] = Idle \/ Saving(req'[a].todo)
      OBVIOUS
    <3>4. QED
      BY <3>2, <3>3
  <2>4. QED
    BY <2>1, <2>2, <2>3
<1>4. Shape(a)' /\ ClaimInv(a)'
  <2>1. CASE req'[a] = Idle
    BY <2>1, IdleClaims
  <2>2. CASE req'[a] # Idle
    <3>1. /\ req'[a].op = op /\ req'[a].b = b /\ req'[a].todo = more
          /\ ShapeOf(op, b, more) /\ Saving(more)
      BY <2>2
    <3>2. b \in Booking /\ docs[b] # Free
      BY DEF ClaimsInv, Shape
    <3>3. Shape(a)'
      BY <3>1, <3>2 DEF Shape
    <3>4. ASSUME b \in Bookings' \ hist'.raced, a \notin hist'.crossed
          PROVE  PlanInv(op, b, more, docs[b])'
      <4>1. b \in Bookings \ hist.raced
        BY <3>4 DEF Bookings, Exists
      <4>2. PICK d : d = docs[b]
        OBVIOUS
      <4>3. PlanInv(op, b, more, d)
        BY <2>2, <3>4, <4>1, <4>2
      <4>4. Keeps(b)
        BY DEF Keeps, KeepsPrice, Occupied
      <4>5. PlanInv(op, b, more, d)'
        BY <4>3, <4>4, PlanStays
      <4>6. PlanInv(op, b, more, d)' => PlanInv(op, b, more, docs[b])'
        BY <4>2
      <4>7. QED
        BY <4>5, <4>6
    <3>5. ClaimInv(a)'
      BY <3>1, <3>4 DEF ClaimInv
    <3>6. QED
      BY <3>3, <3>5
  <2>3. QED
    BY <2>1, <2>2
<1>5. InvoicesInv' /\ ClaimRivalry'
  <2>1. ClaimRivalry'
    BY RivalryStays DEF ClaimsInv
  <2>2. QED
    BY <2>1 DEF ClaimsInv, InvoicesInv
<1>6. QED
  BY <1>1, <1>2, <1>3, <1>4, <1>5, ActorStep

\* A request whose list is replaced goes on with the new one, or ends.
LEMMA Replaced ==
  ASSUME IInv, NEW a \in Actor, req[a] # Idle, NEW more, Continue(a, more)
  PROVE  /\ \A o \in Actor : o # a => req'[o] = req[o]
         /\ more = <<>> => req'[a] = Idle
         /\ more # <<>> => /\ req'[a].op = req[a].op /\ req'[a].b = req[a].b
                           /\ req'[a].todo = more
<1>1. req = [o \in Actor |-> req[o]] /\ RequestInv(req[a], Settled)
  BY DEF IInv, DataInv, RequestsInv
<1>2. PICK q, e : q = req[a] /\ e = [q EXCEPT !.todo = more]
  OBVIOUS
<1>3. q = [op |-> q.op, b |-> q.b, todo |-> q.todo]
  BY <1>1, <1>2 DEF RequestInv
<1>4. e.op = q.op /\ e.b = q.b /\ e.todo = more
  BY <1>2, <1>3
<1>5. req' = [req EXCEPT ![a] = IF more = <<>> THEN Idle ELSE e]
  BY <1>2 DEF Continue
<1>6. /\ req'[a] = IF more = <<>> THEN Idle ELSE e
      /\ \A o \in Actor : o # a => req'[o] = req[o]
  BY <1>1, <1>5
<1>7. QED
  BY <1>2, <1>4, <1>6

\* updateBookingStatus(CHECKED_OUT): the stay has ended by then, so that there is
\* no invoice to write, unless somebody raced.
LEMMA CloseClaims ==
  ASSUME IInv, IInv', ClaimsInv, NEW a \in Actor, DoClose(a)
  PROVE  ClaimsInv'
<1>1. PICK b, op, todo : b = req[a].b /\ op = req[a].op /\ todo = req[a].todo
  OBVIOUS
<1>2. /\ req[a] # Idle /\ Head(req[a].todo).w = "close"
      /\ UNCHANGED <<docs, rooms, rates, invoices, faults, hist>>
  BY DEF DoClose, Next1
<1>3. /\ WriteInv(req[a].op, req[a].b, Head(req[a].todo), Settled)
      /\ Head(req[a].todo) = req[a].todo[1] /\ 1 \in 1..Len(req[a].todo)
  BY <1>2, HeadFacts
<1>4. /\ op = "status" /\ op \in Claiming /\ b \in Booking
      /\ todo[1].w = "close" /\ 1 \in 1..Len(todo)
  BY <1>1, <1>2, <1>3 DEF WriteInv, Claiming
<1>5. ~Saving(todo)
  <2>1. ShapeOf(op, b, todo)
    BY <1>1 DEF ClaimsInv, Shape
  <2>2. \A i \in 1..Len(todo) : Saves(todo[i]) => i < 1
    BY <1>4, <2>1 DEF ShapeOf
  <2>3. \A i \in 1..Len(todo) : ~(i < 1)
    OBVIOUS
  <2>4. QED
    BY <2>2, <2>3 DEF Saving
<1>6. ASSUME b \in Bookings \ hist.raced
      PROVE  docs[b].status = "CHECKED_OUT"
  <2>1. RestInv(b, todo, docs[b])
    BY <1>1, <1>4, <1>5, <1>6 DEF ClaimsInv, ClaimInv
  <2>2. QED
    BY <1>4, <2>1 DEF RestInv
<1>7. PICK extra \in Extras :
        Continue(a, IF Exists(b) THEN CheckOutWrites(docs[b], extra) ELSE <<>>)
  BY <1>1 DEF DoClose
<1>8. PICK more : more = IF Exists(b) THEN CheckOutWrites(docs[b], extra) ELSE <<>>
  OBVIOUS
<1>9. /\ \A o \in Actor : o # a => req'[o] = req[o]
      /\ more = <<>> => req'[a] = Idle
      /\ more # <<>> => req'[a].op = op /\ req'[a].b = b /\ req'[a].todo = more
  <2>1. Continue(a, more)
    BY <1>7, <1>8
  <2>2. /\ \A o \in Actor : o # a => req'[o] = req[o]
        /\ more = <<>> => req'[a] = Idle
        /\ more # <<>> => /\ req'[a].op = req[a].op /\ req'[a].b = req[a].b
                          /\ req'[a].todo = more
    BY <1>2, <2>1, Replaced
  <2>3. QED
    BY <1>1, <2>2
<1>10. CASE more = <<>>
  <2>1. b \in Bookings \ hist.raced => docs[b].status # "CHECKED_IN"
    BY <1>6
  <2>2. QED
    BY <1>1, <1>2, <1>4, <1>9, <1>10, <2>1, LookClaims
<1>11. CASE more # <<>>
  <2>1. Exists(b) /\ more = CheckOutWrites(docs[b], extra)
        /\ docs[b].status # "CHECKED_OUT"
    BY <1>8, <1>11 DEF CheckOutWrites
  <2>2. b \notin Bookings \ hist.raced
    BY <1>6, <2>1
  <2>3. docs[b] \in Docs
    BY <1>4, <2>1, ExistingIsADoc
  <2>4. ShapeOf(op, b, more) /\ Saving(more)
    <3>1. PICK d \in Docs : d = docs[b]
      BY <2>3
    <3>2. PICK o \in Claiming : o = op
      BY <1>4
    <3>3. d.status # "CHECKED_OUT" /\ o # "confirm"
      BY <1>4, <2>1, <3>1, <3>2
    <3>4. \E e, v, s, x :
            LET L == <<v, s, x>>
            IN  /\ CheckOutWrites(d, extra) = L
                /\ e \in Docs /\ EditOf(d, e) /\ e.room = d.room
                /\ e.status = "CHECKED_OUT" /\ e.total = d.total /\ e.pending = d.pending
                /\ v.w = "invoice" /\ v.bill.stay = d.total /\ Balanced(v.bill)
                /\ s = Save(d, e) /\ s.w = "save" /\ x.w = "room"
                /\ ShapeOf(o, b, L) /\ Saving(L)
                /\ SaveInv(o, b, L, Saved(d, s)) => PlanInv(o, b, L, d)
      BY <3>3, CheckOutList
    <3>5. PICK L : CheckOutWrites(d, extra) = L /\ ShapeOf(o, b, L) /\ Saving(L)
      BY <3>4
    <3>6. QED
      BY <2>1, <3>1, <3>2, <3>5
  <2>5. QED
    BY <1>1, <1>2, <1>4, <1>9, <1>11, <2>2, <2>4, LookClaims
<1>12. QED
  BY <1>10, <1>11

\* The list of a move starts with the save of an edit: its plan is what the edit
\* leaves of the stay.
LEMMA PlannedEdit ==
  ASSUME NEW op, NEW b, NEW d \in Docs, NEW e \in Docs, EditOf(d, e),
         NEW s, s.set = Save(d, e).set, s.push = Save(d, e).push, NEW L,
         SaveInv(op, b, L, Saved(d, s)) => PlanInv(op, b, L, d), SaveInv(op, b, L, e)
  PROVE  PlanInv(op, b, L, d)
<1>1. SameStay(d, d)
  BY DEF SameStay
<1>2. SameStay(Saved(d, s), e)
  BY <1>1, SavedEdit
<1>3. PICK n : n = Saved(d, s)
  OBVIOUS
<1>4. SameStay(e, n)
  BY <1>2, <1>3 DEF SameStay
<1>5. SaveInv(op, b, L, n)
  BY <1>4, SaveOfSame
<1>6. QED
  BY <1>3, <1>5

\* What a transfer knows of the stay it moves.
Movement(b, d) ==
    /\ MoveInv(d) /\ Priced(b, d, FALSE)
    /\ d.status # "CHECKED_OUT" /\ d.pending = NoMove
    /\ d.status = "CHECKED_IN" /\ faults = 0 => Occupied(b, d.room)

\* What a stay costs where it is and where it moves to differ by the differential,
\* but for what the taxes round.
LEMMA FairMoves ==
  ASSUME CountersInv, NEW d \in Docs, NEW to \in Room
  PROVE  LET p == FairPrice(d, NightlyRate(d.room))
             q == FairPrice(d, NightlyRate(to))
             amount == Differential(d.room, to, d.nights)
         IN  /\ p \in Int /\ q \in Int /\ amount \in Nat
             /\ MoveKind(d.room, to) = "UPGRADE" => q <= p + amount + 2 /\ p + amount <= q + 2
             /\ MoveKind(d.room, to) = "DOWNGRADE" => p <= q + amount + 2 /\ q + amount <= p + 2
             /\ MoveKind(d.room, to) \notin {"UPGRADE", "DOWNGRADE"} => p = q
<1>1. PICK from \in Room, n \in Stays, extra \in Nat, off \in Nat :
        from = d.room /\ n = d.nights /\ extra = d.terms.extra /\ off = d.terms.off
  BY DEF Docs
<1>2. /\ StayPrice(from, n, extra) \in Nat /\ StayPrice(to, n, extra) \in Nat
      /\ FairPrice(d, NightlyRate(from)) = StayPrice(from, n, extra) - off
      /\ FairPrice(d, NightlyRate(to)) = StayPrice(to, n, extra) - off
  BY <1>1, FairPrices
<1>3. Differential(from, to, n) \in Nat
  BY PricesAreNat
<1>4. /\ MoveKind(from, to) = "UPGRADE" =>
           /\ StayPrice(to, n, extra) <= StayPrice(from, n, extra) + Differential(from, to, n) + 2
           /\ StayPrice(from, n, extra) + Differential(from, to, n) <= StayPrice(to, n, extra) + 2
      /\ MoveKind(from, to) = "DOWNGRADE" =>
           /\ StayPrice(from, n, extra) <= StayPrice(to, n, extra) + Differential(from, to, n) + 2
           /\ StayPrice(to, n, extra) + Differential(from, to, n) <= StayPrice(from, n, extra) + 2
      /\ MoveKind(from, to) \notin {"UPGRADE", "DOWNGRADE"} =>
           StayPrice(from, n, extra) = StayPrice(to, n, extra)
  BY MovePrices
<1>5. PICK p \in Nat, q \in Nat, amount \in Nat :
        /\ p = StayPrice(from, n, extra) /\ q = StayPrice(to, n, extra)
        /\ amount = Differential(from, to, n)
  BY <1>2, <1>3
<1>6. /\ MoveKind(from, to) = "UPGRADE" =>
           (q - off) <= (p - off) + amount + 2 /\ (p - off) + amount <= (q - off) + 2
      /\ MoveKind(from, to) = "DOWNGRADE" =>
           (p - off) <= (q - off) + amount + 2 /\ (q - off) + amount <= (p - off) + 2
      /\ MoveKind(from, to) \notin {"UPGRADE", "DOWNGRADE"} => p - off = q - off
      /\ p - off \in Int /\ q - off \in Int
  BY <1>4, <1>5
<1>7. /\ FairPrice(d, NightlyRate(d.room)) = p - off
      /\ FairPrice(d, NightlyRate(to)) = q - off
      /\ Differential(d.room, to, d.nights) = amount
      /\ MoveKind(d.room, to) = MoveKind(from, to)
  BY <1>1, <1>2, <1>5
<1>8. QED
  BY <1>5, <1>6, <1>7

\* An upgrade: the room is held and the guest owes the difference.
LEMMA UpgradePlan ==
  ASSUME CountersInv, NEW b, NEW op \in Claiming, op = "transfer",
         NEW d \in Docs, NEW to \in Room, d.room # to,
         MoveKind(d.room, to) = "UPGRADE", NEW L, L = MoveWrites(d, to)
  PROVE  /\ L # <<>> /\ ShapeOf(op, b, L) /\ Saving(L)
         /\ Movement(b, d) => PlanInv(op, b, L, d)
<1>1. PICK from, amount : from = d.room /\ amount = Differential(from, to, d.nights)
  OBVIOUS
<1>2. d.room \in Room /\ d.nights \in Stays /\ d.total \in Nat /\ amount \in Nat
  BY <1>1, PricesAreNat DEF Docs
<1>3. PICK move : move = [from |-> from, to |-> to, due |-> amount]
  OBVIOUS
<1>4. move \in Moves /\ move.from = from /\ move.to = to /\ move.due = amount
  BY <1>1, <1>2, <1>3 DEF Moves
<1>5. PICK e : e = [d EXCEPT !.pending = move]
  OBVIOUS
<1>6. /\ e \in Docs /\ EditOf(d, e) /\ e.room = d.room /\ e.status = d.status
      /\ e.total = d.total /\ e.pending = move /\ e.transfers = d.transfers
  BY <1>4, <1>5 DEF Docs, EditOf, Grows
<1>7. PICK s, x, v : s = Save(d, e) /\ x = SetRoom(to, "RESERVED")
                     /\ v = SetRoom(to, "OCCUPIED")
  OBVIOUS
<1>8. /\ s.w = "save" /\ x.w = "room" /\ x.room = to
      /\ v.w = "room" /\ v.status = "OCCUPIED"
  BY <1>7 DEF Save, SetRoom
<1>9. L = <<s, x>>
  BY <1>1, <1>3, <1>5, <1>7 DEF MoveWrites
<1>10. /\ Len(L) = 2 /\ L[1] = s /\ L[2] = x /\ 1..2 = {1, 2} /\ Len(<<>>) = 0
  BY <1>9, Tuples
<1>11. \A i \in 1..Len(L) : (i = 1 /\ L[i] = s) \/ (i = 2 /\ L[i] = x)
  BY <1>10
<1>12. /\ ShapeOf(op, b, L) /\ Saving(L)
       /\ SaveInv(op, b, L, Saved(d, s)) => PlanInv(op, b, L, d)
  <2>1. \A M \in {<<s, x>>} :
          /\ ShapeOf(op, b, M) /\ Saving(M)
          /\ SaveInv(op, b, M, Saved(d, s)) => PlanInv(op, b, M, d)
    BY <1>8, ListsOfOneSave
  <2>2. QED
    BY <1>9, <2>1
<1>13. ASSUME b \notin hist.repriced, Priced(b, d, FALSE), NEW low \in BOOLEAN,
              b \in hist.clamped => low
       PROVE  BillInv(e, low)
  <2>1. PICK p \in Int, q \in Int, k \in Nat :
          /\ p = FairPrice(d, NightlyRate(d.room)) /\ q = FairPrice(d, NightlyRate(to))
          /\ k = Len(d.transfers)
    BY FairMoves, LenProperties DEF Docs
  <2>2. q <= p + amount + 2 /\ p + amount <= q + 2
    BY <1>1, <2>1, FairMoves
  <2>3. /\ p - 2 * k <= d.total
        /\ b \in hist.clamped \/ d.total <= p + 2 * k
    BY <1>13, <2>1 DEF Priced, BillInv, Billed
  <2>4. /\ q - 2 * (k + 1) <= d.total + amount
        /\ b \in hist.clamped \/ d.total + amount <= q + 2 * (k + 1)
    BY <1>2, <2>2, <2>3
  <2>5. \A x1 : FairPrice(e, x1) = FairPrice(d, x1)
    BY <1>6 DEF EditOf, FairPrice
  <2>6. Billed(e.total, FairPrice(e, NightlyRate(e.room)), Len(e.transfers), low)
    BY <1>6, <1>13, <2>1, <2>3, <2>5 DEF Billed
  <2>7. Billed(e.total + e.pending.due, FairPrice(e, NightlyRate(e.pending.to)),
               Len(e.transfers) + 1, low)
    BY <1>4, <1>6, <1>13, <2>1, <2>4, <2>5 DEF Billed
  <2>8. QED
    BY <2>6, <2>7 DEF BillInv
<1>14. ASSUME Movement(b, d)
       PROVE  SaveInv(op, b, L, e)
  <2>1. MoveInv(e)
    BY <1>1, <1>2, <1>4, <1>6 DEF MoveInv
  <2>2. Priced(b, e, op = "transfer" /\ e.total = 0)
    <3>1. PICK cut \in BOOLEAN : cut = (op = "transfer" /\ e.total = 0)
      OBVIOUS
    <3>2. ASSUME b \notin hist.repriced
          PROVE  BillInv(e, cut \/ b \in hist.clamped)
      BY <1>13, <1>14, <3>2 DEF Movement
    <3>3. Priced(b, e, cut)
      BY <3>2 DEF Priced
    <3>4. QED
      BY <3>1, <3>3
  <2>3. e.status = "CHECKED_IN" /\ faults = 0 => WillBeOccupied(b, L, e.room)
    BY <1>6, <1>8, <1>11, <1>14 DEF Movement, WillBeOccupied, Marks
  <2>4. L[1].w # "invoice" /\ ~\E i \in 1..Len(L) : L[i].w = "close"
    BY <1>8, <1>10, <1>11
  <2>5. e.status # "CHECKED_OUT"
    BY <1>6, <1>14 DEF Movement
  <2>6. QED
    BY <2>1, <2>2, <2>3, <2>4, <2>5 DEF SaveInv
<1>15. L # <<>>
  BY <1>10
<1>16. QED
  BY <1>6, <1>7, <1>12, <1>14, <1>15, PlannedEdit

\* Any other move takes effect: the bill is that of the new room.
LEMMA EffectPlan ==
  ASSUME NEW b, NEW op \in Claiming, op = "transfer",
         NEW d \in Docs, NEW to \in Room, d.room # to,
         NEW e \in Docs, EditOf(d, e), e.room = to, e.status = d.status,
         e.pending = d.pending,
         \A low \in BOOLEAN : BillInv(d, low) /\ d.pending = NoMove =>
                                BillInv(e, low \/ e.total = 0),
         NEW s, s.w = "save", s.set = Save(d, e).set, s.push = Save(d, e).push,
         NEW L, L = <<s>> \o ApplyRoomOccupancy(d, d.room, to)
  PROVE  /\ L # <<>> /\ ShapeOf(op, b, L) /\ Saving(L)
         /\ Movement(b, d) => PlanInv(op, b, L, d)
<1>1. MoveListOf(op, b, d, d.room, to, s, L)
  BY MoveList
<1>2. /\ L[1] = s /\ L # <<>>
      /\ ShapeOf(op, b, L) /\ Saving(L)
      /\ SaveInv(op, b, L, Saved(d, s)) => PlanInv(op, b, L, d)
      /\ \A i \in 1..Len(L) : L[i].w # "close"
      /\ d.status = "CHECKED_IN" => WillBeOccupied(b, L, to)
  BY <1>1 DEF MoveListOf
<1>3. ASSUME Movement(b, d)
      PROVE  SaveInv(op, b, L, e)
  <2>1. MoveInv(e)
    BY <1>3 DEF Movement, MoveInv
  <2>2. Priced(b, e, op = "transfer" /\ e.total = 0)
    <3>1. PICK cut \in BOOLEAN : cut = (op = "transfer" /\ e.total = 0)
      OBVIOUS
    <3>2. PICK low \in BOOLEAN : low = (FALSE \/ b \in hist.clamped)
      OBVIOUS
    <3>3. b \notin hist.repriced => BillInv(d, low)
      BY <1>3, <3>2 DEF Movement, Priced
    <3>4. b \notin hist.repriced => BillInv(e, low \/ e.total = 0)
      BY <1>3, <3>3 DEF Movement
    <3>5. (low \/ e.total = 0) = (cut \/ b \in hist.clamped)
      BY <3>1, <3>2
    <3>6. Priced(b, e, cut)
      BY <3>4, <3>5 DEF Priced
    <3>7. QED
      BY <3>1, <3>6
  <2>3. e.status = "CHECKED_IN" /\ faults = 0 => WillBeOccupied(b, L, e.room)
    BY <1>2
  <2>4. e.status # "CHECKED_OUT" /\ L[1].w # "invoice"
        /\ ~\E i \in 1..Len(L) : L[i].w = "close"
    BY <1>2, <1>3 DEF Movement
  <2>5. QED
    BY <2>1, <2>2, <2>3, <2>4 DEF SaveInv
<1>4. QED
  BY <1>2, <1>3, PlannedEdit

\* Whatever the move, what it plans leaves a good stay.
LEMMA MovePlan ==
  ASSUME CountersInv, NEW b, NEW op \in Claiming, op = "transfer",
         NEW d \in Docs, NEW to \in Room, d.room # to,
         NEW L, L = MoveWrites(d, to)
  PROVE  /\ L # <<>> /\ ShapeOf(op, b, L) /\ Saving(L)
         /\ Movement(b, d) => PlanInv(op, b, L, d)
<1>1. PICK from, amount : from = d.room /\ amount = Differential(from, to, d.nights)
  OBVIOUS
<1>2. PICK p \in Int, q \in Int, k \in Nat :
        /\ p = FairPrice(d, NightlyRate(d.room)) /\ q = FairPrice(d, NightlyRate(to))
        /\ k = Len(d.transfers)
  BY FairMoves, LenProperties DEF Docs
<1>3. /\ from \in Room /\ d.room \in Room /\ d.total \in Nat /\ amount \in Nat
      /\ MoveKind(from, to) = "DOWNGRADE" => p <= q + amount + 2 /\ q + amount <= p + 2
      /\ MoveKind(from, to) \notin {"UPGRADE", "DOWNGRADE"} => p = q
  BY <1>1, <1>2, FairMoves DEF Docs
<1>4. \A low : BillInv(d, low) => p - 2 * k <= d.total /\ (low \/ d.total <= p + 2 * k)
  BY <1>2 DEF BillInv, Billed
<1>5. ASSUME NEW e \in Docs, EditOf(d, e), e.room = to, e.pending = d.pending,
             Len(e.transfers) = k + 1, NEW low \in BOOLEAN, d.pending = NoMove,
             q - 2 * (k + 1) <= e.total, low \/ e.total <= q + 2 * (k + 1)
      PROVE  BillInv(e, low)
  <2>1. FairPrice(e, NightlyRate(e.room)) = q
    BY <1>2, <1>5 DEF EditOf, FairPrice
  <2>2. QED
    BY <1>5, <2>1 DEF BillInv, Billed
<1> DEFINE Moved(refund, total) ==
             [[d EXCEPT !.room = to, !.transfers = Append(@, refund)]
                EXCEPT !.total = total]
           IsMoved(e, total) ==
             /\ e \in Docs /\ EditOf(d, e) /\ e.room = to /\ e.status = d.status
             /\ e.pending = d.pending /\ e.total = total
             /\ Len(e.transfers) = k + 1
<1>6. ASSUME NEW refund \in Refunds, NEW total \in Nat
      PROVE  IsMoved(Moved(refund, total), total)
  <2>1. PICK e : e = Moved(refund, total)
    OBVIOUS
  <2>2. PICK t : t = Append(d.transfers, refund)
    OBVIOUS
  <2>3. t \in Seq(Refunds) /\ Len(t) = k + 1
    BY <1>2, <2>2, AppendProperties DEF Docs, Refunds
  <2>4. e = [d EXCEPT !.room = to, !.transfers = t, !.total = total]
    BY <2>1, <2>2
  <2>5. /\ e \in Docs /\ e.guest = d.guest /\ e.nights = d.nights /\ e.terms = d.terms
        /\ e.room = to /\ e.status = d.status /\ e.total = total
        /\ e.pending = d.pending /\ e.transfers = t
    BY <2>3, <2>4 DEF Docs, Refunds
  <2>6. IsMoved(e, total)
    BY <2>2, <2>3, <2>5 DEF EditOf, Grows
  <2>7. QED
    BY <2>1, <2>6
<1> HIDE DEF Moved
<1>7. CASE MoveKind(from, to) = "UPGRADE"
  BY <1>1, <1>7, UpgradePlan
<1>8. CASE MoveKind(from, to) = "DOWNGRADE"
  <2>1. PICK lower \in Nat : lower = IF d.total > amount THEN d.total - amount ELSE 0
    BY <1>3
  <2>2. PICK e : e = Moved("PENDING", lower)
    OBVIOUS
  <2>3. "PENDING" \in Refunds
    BY DEF Refunds
  <2>4. /\ e \in Docs /\ EditOf(d, e) /\ e.room = to /\ e.status = d.status
        /\ e.pending = d.pending /\ e.total = lower /\ Len(e.transfers) = k + 1
    BY <1>6, <2>2, <2>3
  <2>5. PICK s : s = Save(d, e)
    OBVIOUS
  <2>6. s.w = "save" /\ s.set = Save(d, e).set /\ s.push = Save(d, e).push
    BY <2>5 DEF Save
  <2>7. L = <<s>> \o ApplyRoomOccupancy(d, d.room, to)
    BY <1>1, <1>8, <2>1, <2>2, <2>5 DEF MoveWrites, Moved
  <2>8. ASSUME NEW low \in BOOLEAN, BillInv(d, low), d.pending = NoMove
        PROVE  BillInv(e, low \/ e.total = 0)
    <3>1. /\ p - 2 * k <= d.total /\ (low \/ d.total <= p + 2 * k)
          /\ p <= q + amount + 2 /\ q + amount <= p + 2
      BY <1>3, <1>4, <1>8, <2>8
    <3>2. q - 2 * (k + 1) <= lower
      BY <1>3, <2>1, <3>1
    <3>3. low \/ lower = 0 \/ lower <= q + 2 * (k + 1)
      BY <1>3, <2>1, <3>1
    <3>4. PICK either \in BOOLEAN : either = (low \/ e.total = 0)
      OBVIOUS
    <3>5. either \/ e.total <= q + 2 * (k + 1)
      BY <2>4, <3>3, <3>4
    <3>6. BillInv(e, either)
      BY <1>5, <2>4, <2>8, <3>2, <3>5
    <3>7. QED
      BY <3>4, <3>6
  <2>9. QED
    BY <2>4, <2>6, <2>7, <2>8, EffectPlan
<1>9. CASE MoveKind(from, to) \notin {"UPGRADE", "DOWNGRADE"}
  <2>1. PICK m, e : /\ m = [d EXCEPT !.room = to, !.transfers = Append(@, "NONE")]
                    /\ e = Moved("NONE", d.total)
    OBVIOUS
  <2>2. e = m
    BY <2>1 DEF Docs, Moved
  <2>3. "NONE" \in Refunds
    BY DEF Refunds
  <2>4. /\ e \in Docs /\ EditOf(d, e) /\ e.room = to /\ e.status = d.status
        /\ e.pending = d.pending /\ e.total = d.total /\ Len(e.transfers) = k + 1
    BY <1>3, <1>6, <2>1, <2>3
  <2>5. PICK s : s = Save(d, e)
    OBVIOUS
  <2>6. s.w = "save" /\ s.set = Save(d, e).set /\ s.push = Save(d, e).push
    BY <2>5 DEF Save
  <2>7. L = <<s>> \o ApplyRoomOccupancy(d, d.room, to)
    BY <1>1, <1>9, <2>1, <2>2, <2>5 DEF MoveWrites
  <2>8. ASSUME NEW low \in BOOLEAN, BillInv(d, low), d.pending = NoMove
        PROVE  BillInv(e, low \/ e.total = 0)
    <3>1. /\ p - 2 * k <= d.total /\ (low \/ d.total <= p + 2 * k) /\ p = q
      BY <1>3, <1>4, <1>9, <2>8
    <3>2. q - 2 * (k + 1) <= d.total /\ (low \/ d.total <= q + 2 * (k + 1))
      BY <1>3, <3>1
    <3>3. PICK either \in BOOLEAN : either = (low \/ e.total = 0)
      OBVIOUS
    <3>4. BillInv(e, either)
      BY <1>5, <2>4, <2>8, <3>2, <3>3
    <3>5. QED
      BY <3>3, <3>4
  <2>9. QED
    BY <2>4, <2>6, <2>7, <2>8, EffectPlan
<1>10. QED
  BY <1>7, <1>8, <1>9

\* The second look of a transfer: it goes on with its move, or ends.
LEMMA TargetClaims ==
  ASSUME IInv, IInv', ClaimsInv, NEW a \in Actor, DoCheckTarget(a)
  PROVE  ClaimsInv'
<1>1. PICK b, op, todo, w : /\ b = req[a].b /\ op = req[a].op /\ todo = req[a].todo
                            /\ w = Head(req[a].todo)
  OBVIOUS
<1>2. /\ req[a] # Idle /\ w.w = "target"
      /\ UNCHANGED <<docs, rooms, rates, invoices, faults, hist>>
  BY <1>1 DEF DoCheckTarget, Next1
<1>3. /\ WriteInv(req[a].op, req[a].b, Head(req[a].todo), Settled)
      /\ Head(req[a].todo) = req[a].todo[1] /\ 1 \in 1..Len(req[a].todo)
  BY <1>2, HeadFacts
<1>4. /\ op = "transfer" /\ op \in Claiming /\ b \in Booking
      /\ w = todo[1] /\ 1 \in 1..Len(todo) /\ w.to \in Room /\ w.copy \in Docs
  BY <1>1, <1>2, <1>3 DEF WriteInv, Claiming
<1>5. PICK copy \in Docs, to \in Room : copy = w.copy /\ to = w.to
  BY <1>4
<1>6. Saving(todo)
  BY <1>2, <1>4 DEF Saving, Saves
<1>7. PICK more : more = IF Movable(b, copy, to) THEN MoveWrites(copy, to) ELSE <<>>
  OBVIOUS
<1>8. /\ \A o \in Actor : o # a => req'[o] = req[o]
      /\ more = <<>> => req'[a] = Idle
      /\ more # <<>> => req'[a].op = op /\ req'[a].b = b /\ req'[a].todo = more
  <2>1. Continue(a, more)
    BY <1>1, <1>5, <1>7 DEF DoCheckTarget
  <2>2. /\ \A o \in Actor : o # a => req'[o] = req[o]
        /\ more = <<>> => req'[a] = Idle
        /\ more # <<>> => /\ req'[a].op = req[a].op /\ req'[a].b = req[a].b
                          /\ req'[a].todo = more
    BY <1>2, <2>1, Replaced
  <2>3. QED
    BY <1>1, <2>2
<1>9. CASE more = <<>>
  BY <1>1, <1>2, <1>4, <1>6, <1>8, <1>9, LookClaims
<1>10. CASE more # <<>>
  <2>1. copy.room # to /\ more = MoveWrites(copy, to)
    BY <1>7, <1>10 DEF Movable
  <2>2. /\ ShapeOf(op, b, more) /\ Saving(more)
        /\ Movement(b, copy) => PlanInv(op, b, more, copy)
    BY <1>4, <2>1, MovePlan DEF IInv, DataInv
  <2>3. ASSUME b \in Bookings \ hist.raced, a \notin hist.crossed
        PROVE  PlanInv(op, b, more, docs[b])
    <3>1. PICK d \in Docs : d = docs[b]
      BY <1>4, <2>3, ExistingIsADoc DEF Bookings
    <3>2. PlanInv(op, b, todo, d)
      BY <1>1, <1>4, <2>3, <3>1 DEF ClaimsInv, ClaimInv
    <3>3. /\ SameStay(d, copy) /\ copy.status \notin Closed /\ copy.pending = NoMove
      BY <1>2, <1>4, <1>5, <3>2 DEF PlanInv, TargetInv
    <3>4. BilledInv(b) /\ OccupiedInv(b)
      BY <1>4 DEF ClaimsInv
    <3>5. MoveInv(d) /\ Priced(b, d, FALSE)
      BY <2>3, <3>1, <3>4 DEF BilledInv
    <3>6. MoveInv(copy) /\ Priced(b, copy, FALSE)
      BY <3>3, <3>5, PricedSame DEF SameStay, MoveInv
    <3>7. \A o \in Actor : Claims(o, b) => o = a
      BY <1>1, <1>4, <2>3 DEF ClaimsInv, ClaimRivalry, Claims
    <3>8. copy.status = "CHECKED_IN" /\ faults = 0 => Occupied(b, copy.room)
      BY <1>1, <1>6, <2>3, <3>1, <3>3, <3>4, <3>7 DEF OccupiedInv, SameStay
    <3>9. Movement(b, copy)
      BY <3>3, <3>6, <3>8 DEF Movement, Closed
    <3>10. PICK c : c = Settled
      OBVIOUS
    <3>11. TodoInv("transfer", b, MoveWrites(copy, to), c)
      BY <1>4, MoveTodo DEF IInv, DataInv
    <3>12. TodoInv(op, b, more, c)
      BY <1>4, <2>1, <3>11
    <3>13. PlanInv(op, b, more, d)
      BY <2>2, <3>3, <3>9, <3>12, PlanOfSame
    <3>14. QED
      BY <3>1, <3>13
  <2>4. QED
    BY <1>1, <1>2, <1>4, <1>6, <1>8, <1>10, <2>2, <2>3, LookClaims
<1>11. QED
  BY <1>9, <1>10

----------------------------------------------------------------------------
(* The start and every step. *)

\* The server starts on stays in order, and nobody claims anything.
LEMMA InitClaims ==
  ASSUME Init
  PROVE  ClaimsInv
<1>1. /\ docs \in Existing /\ docs \in [Booking -> Docs \cup {Free, Gone}]
      /\ rooms = [r \in Room |-> [rooms[r] EXCEPT !.by = NoBooking]]
      /\ invoices = [b \in Booking |-> NoInvoice]
      /\ rates = [c \in Categories |-> Rate[c]]
      /\ \A a \in Actor : req[a] = Idle
  <2> DEFINE s(r) == CASE \E b \in Bookings : docs[b].room = r
                                /\ docs[b].status = "CHECKED_IN" -> "OCCUPIED"
                           [] \E b \in Bookings : docs[b].pending # NoMove
                                /\ docs[b].pending.to = r -> "RESERVED"
                           [] OTHER -> "AVAILABLE"
  <2>1. rooms = [r \in Room |-> [status |-> s(r), active |-> TRUE, by |-> NoBooking]]
    BY DEF Init
  <2> HIDE DEF s
  <2>2. rooms = [r \in Room |-> [rooms[r] EXCEPT !.by = NoBooking]]
    BY <2>1
  <2>3. QED
    BY <2>2, ExistingAssumption DEF Init
<1>2. \A r \in Room : rooms[r].by = NoBooking
  <2>1. \A r \in Room : rooms[r] = [rooms[r] EXCEPT !.by = NoBooking]
    BY <1>1
  <2>2. \A r \in Room : "by" \in DOMAIN rooms[r]
    BY InitIInv DEF IInv, DataInv, RoomsInv
  <2>3. QED
    BY <2>1, <2>2
<1>3. /\ Idle.op = "idle" /\ Idle.todo = <<>> /\ Idle.b = NoBooking
      /\ "idle" \notin Claiming /\ Len(<<>>) = 0
  BY Tuples DEF Idle, Claiming
<1>4. \A a \in Actor : Shape(a) /\ ClaimInv(a) /\ req[a].op \notin Claiming
  BY <1>1, <1>3 DEF Shape, ClaimInv, ShapeOf
<1>5. ClaimRivalry /\ InvoicesInv
  BY <1>1, <1>4 DEF ClaimRivalry, InvoicesInv
<1>6. ASSUME NEW b \in Booking
      PROVE  BilledInv(b) /\ OccupiedInv(b)
  <2>1. CASE b \in Bookings
    <3>1. docs[b] \in Docs
      BY <1>1, <2>1 DEF Bookings, Exists
    <3>2. PICK d \in Docs : d = docs[b]
      BY <3>1
    <3>3. /\ d.status # "CHECKED_OUT"
          /\ d.pending # NoMove =>
               d.pending.from = d.room /\ d.pending.to # d.room
          /\ Billed(d.total, FairPrice(d, Rate[Class[d.room]]), Len(d.transfers), FALSE)
          /\ d.pending # NoMove =>
               Billed(d.total + d.pending.due, FairPrice(d, Rate[Class[d.pending.to]]),
                      Len(d.transfers) + 1, FALSE)
      BY <1>1, <3>2, StaysAssumption
    <3>4. d.room \in Room /\ (d.pending # NoMove => d.pending.to \in Room)
      BY DEF Docs, Moves
    <3>5. \A r \in Room : NightlyRate(r) = Rate[Class[r]]
      BY <1>1 DEF NightlyRate, Categories
    <3>6. BillInv(d, FALSE)
      BY <3>3, <3>4, <3>5 DEF BillInv
    <3>7. \A low : BillInv(d, low)
      BY <3>6 DEF BillInv, Billed
    <3>8. BilledInv(b)
      BY <3>2, <3>3, <3>4, <3>7 DEF BilledInv, MoveInv, Priced
    <3>9. OccupiedInv(b)
      BY <1>2, <1>4, <3>2, <3>4, RoomBookingAssumption DEF OccupiedInv, Occupied, Claims
    <3>10. QED
      BY <3>8, <3>9
  <2>2. CASE b \notin Bookings
    BY <2>2 DEF BilledInv, OccupiedInv
  <2>3. QED
    BY <2>1, <2>2
<1>7. QED
  BY <1>4, <1>5, <1>6 DEF ClaimsInv

\* A step of the gateway or the clock touches nothing a stay is about; a new price
\* puts the bookings on record.
LEMMA NobodyClaims ==
  ASSUME ClaimsInv, UNCHANGED <<docs, rooms, invoices, req, faults>>,
         hist'.crossed = hist.crossed, hist'.raced = hist.raced,
         hist'.edited = hist.edited, hist'.late = hist.late,
         hist'.clamped = hist.clamped,
         \/ rates' = rates /\ hist'.repriced = hist.repriced
         \/ Bookings \subseteq hist'.repriced
  PROVE  ClaimsInv'
<1>1. ASSUME NEW b \in Bookings
      PROVE  KeepsPrice(b)
  BY DEF KeepsPrice
<1>2. ClaimRivalry' /\ InvoicesInv'
  BY DEF ClaimsInv, ClaimRivalry, InvoicesInv
<1>3. ASSUME NEW a \in Actor
      PROVE  Shape(a)' /\ ClaimInv(a)'
  <2>1. PICK b, op, todo : b = req[a].b /\ op = req[a].op /\ todo = req[a].todo
    OBVIOUS
  <2>2. /\ op \in Claiming => b \in Booking /\ docs[b] # Free
        /\ ShapeOf(op, b, todo)
    BY <2>1 DEF ClaimsInv, Shape
  <2>3. Shape(a)'
    BY <2>1, <2>2 DEF Shape
  <2>4. SUFFICES ASSUME op \in Claiming, b \in Bookings \ hist.raced
                 PROVE  /\ a \notin hist.crossed => PlanInv(op, b, todo, docs[b])'
                        /\ ~Saving(todo) => RestInv(b, todo, docs[b])'
    BY <2>1, <2>3 DEF ClaimInv, Bookings, Exists
  <2>5. PICK d : d = docs[b]
    OBVIOUS
  <2>6. /\ a \notin hist.crossed => PlanInv(op, b, todo, d)
        /\ ~Saving(todo) => RestInv(b, todo, d)
    BY <2>1, <2>4, <2>5 DEF ClaimsInv, ClaimInv
  <2>7. Keeps(b)
    BY <1>1, <2>4 DEF Keeps, Occupied
  <2>8. d.room \in Room
    BY <2>2, <2>4, <2>5 DEF ClaimsInv, BilledInv, MoveInv
  <2>9. /\ PlanInv(op, b, todo, d) => PlanInv(op, b, todo, d)'
        /\ RestInv(b, todo, d) => RestInv(b, todo, d)'
    BY <2>7, <2>8, PlanStays
  <2>10. /\ PlanInv(op, b, todo, d)' => PlanInv(op, b, todo, docs[b])'
         /\ RestInv(b, todo, d)' => RestInv(b, todo, docs[b])'
    BY <2>5
  <2>11. QED
    BY <2>6, <2>9, <2>10
<1>4. ASSUME NEW b \in Booking
      PROVE  BilledInv(b)' /\ OccupiedInv(b)'
  <2>1. BilledInv(b) /\ OccupiedInv(b)
    BY DEF ClaimsInv
  <2>2. BilledInv(b)'
    <3>1. SUFFICES ASSUME b \in Bookings \ hist.raced
                   PROVE  /\ MoveInv(docs'[b]) /\ Priced(b, docs[b], FALSE)'
                          /\ docs'[b].status = "CHECKED_OUT" /\ b \notin hist'.edited
                               => Invoiced(b, docs[b].total, FALSE)'
      BY DEF BilledInv, MoveInv, Bookings, Exists
    <3>2. PICK d : d = docs[b]
      OBVIOUS
    <3>3. Priced(b, d, FALSE)
      BY <2>1, <3>1, <3>2 DEF BilledInv
    <3>4. Priced(b, d, FALSE)'
      BY <1>1, <3>1, <3>3, PricedStays
    <3>5. Priced(b, d, FALSE)' => Priced(b, docs[b], FALSE)'
      BY <3>2
    <3>6. QED
      BY <2>1, <3>1, <3>4, <3>5 DEF BilledInv, MoveInv, Invoiced
  <2>3. OccupiedInv(b)'
    BY <2>1 DEF OccupiedInv, Occupied, Claims, Bookings, Exists
  <2>4. QED
    BY <2>2, <2>3
<1>5. QED
  BY <1>2, <1>3, <1>4 DEF ClaimsInv

\* Every step keeps the invariant of the stays.
LEMMA NextClaims ==
  ASSUME IInv, ClaimsInv, [Next]_vars
  PROVE  ClaimsInv'
<1>1. IInv'
  BY NextIInv
<1>2. ASSUME NEW a \in Guest, GuestRequests(a)
      PROVE  ClaimsInv'
  <2>1. a \in Actor
    BY DEF Actor
  <2>2. ASSUME NEW r \in Room, NEW n \in Stays, NEW s \in {"PENDING", "CONFIRMED"},
               NEW t \in Terms, CreateRoomBooking(a, r, n, s, t)
        PROVE  ClaimsInv'
    BY <1>1, <2>2, CreateClaims
  <2>3. ASSUME NEW b \in Booking, CreateBookingRazorpayOrder(a, b)
                                  \/ VerifyWrongSignature(a, b) \/ CancelPendingBooking(a, b)
        PROVE  ClaimsInv'
    BY <1>1, <2>1, <2>3, PaymentClaims
  <2>4. ASSUME NEW b \in Booking, VerifyBookingPayment(a, b)
        PROVE  ClaimsInv'
    BY <1>1, <2>1, <2>4, VerifyClaims
  <2>5. ASSUME NEW b \in Booking, CancelGuestBooking(a, b)
        PROVE  ClaimsInv'
    BY <1>1, <2>1, <2>5, CancelClaims
  <2>6. QED
    BY <1>2, <2>2, <2>3, <2>4, <2>5 DEF GuestRequests
<1>3. ASSUME NEW a \in Desk, DeskRequests(a)
      PROVE  ClaimsInv'
  <2>1. a \in Actor
    BY DEF Actor
  <2>2. ASSUME NEW b \in Booking, \/ \E s \in {"PAID", "PENDING"} : RecordBookingPayment(a, b, s)
                                  \/ MarkTransferRefundProcessed(a, b)
        PROVE  ClaimsInv'
    BY <1>1, <2>1, <2>2, PaymentClaims
  <2>3. ASSUME NEW b \in Booking,
               CheckInGuest(a, b) \/ \E s \in HandStatuses : UpdateBookingStatus(a, b, s)
        PROVE  ClaimsInv'
    BY <1>1, <2>1, <2>3, StatusClaims
  <2>4. ASSUME NEW b \in Booking, CheckOutGuest(a, b)
        PROVE  ClaimsInv'
    BY <1>1, <2>1, <2>4, CheckOutClaims
  <2>5. ASSUME NEW b \in Booking, CancelGuestBooking(a, b)
        PROVE  ClaimsInv'
    BY <1>1, <2>1, <2>5, CancelClaims
  <2>6. ASSUME NEW b \in Booking, NEW to \in Room, TransferRoom(a, b, to)
        PROVE  ClaimsInv'
    BY <1>1, <2>1, <2>6, TransferClaims
  <2>7. ASSUME NEW b \in Booking, ConfirmTransferPayment(a, b)
        PROVE  ClaimsInv'
    BY <1>1, <2>1, <2>7, ConfirmClaims
  <2>8. ASSUME NEW b \in Booking, CancelPendingTransfer(a, b)
        PROVE  ClaimsInv'
    BY <1>1, <2>1, <2>8, DropMoveClaims
  <2>9. ASSUME NEW r \in Room,
               SetRoomActive(a, r) \/ \E s \in RoomStatuses : SetRoomStatus(a, r, s)
        PROVE  ClaimsInv'
    BY <1>1, <2>1, <2>9, RoomClaims
  <2>10. ASSUME NEW c \in Categories, NEW p \in Prices, UpdateCategory(a, c, p)
         PROVE  ClaimsInv'
    <3>1. IsHistory(hist)
      BY DEF IInv, DataInv, CountersInv
    <3>2. /\ UNCHANGED <<docs, rooms, invoices, req, faults>>
          /\ hist' = [hist EXCEPT !.repriced = @ \cup Bookings]
      BY <2>10 DEF UpdateCategory
    <3>3. /\ hist'.crossed = hist.crossed /\ hist'.raced = hist.raced
          /\ hist'.edited = hist.edited /\ hist'.late = hist.late
          /\ hist'.clamped = hist.clamped /\ Bookings \subseteq hist'.repriced
      BY <3>1, <3>2 DEF IsHistory
    <3>4. QED
      BY <3>2, <3>3, NobodyClaims
  <2>11. QED
    BY <1>3, <2>2, <2>3, <2>4, <2>5, <2>6, <2>7, <2>8, <2>9, <2>10 DEF DeskRequests
<1>4. ASSUME NEW a \in Actor, Writes(a) \/ Dies(a)
      PROVE  ClaimsInv'
  <2>1. DoSave(a) => ClaimsInv'
    BY <1>1, PlainSave, ClaimingSave
  <2>2. DoInsert(a) \/ DoDrop(a) => ClaimsInv'
    BY <1>1, InsertClaims, DropClaims
  <2>3. CouponInvalid(a) \/ SaveNothing(a) \/ Dies(a) => ClaimsInv'
    BY <1>1, EndClaims
  <2>4. DoSetRoom(a) \/ DoSetActive(a) \/ DoInvoice(a) => ClaimsInv'
    BY <1>1, HouseClaims
  <2>5. DoClose(a) \/ DoCheckTarget(a) => ClaimsInv'
    BY <1>1, CloseClaims, TargetClaims
  <2>6. QED
    BY <1>4, <2>1, <2>2, <2>3, <2>4, <2>5 DEF Writes
<1>5. ASSUME (\E b \in Booking : GuestPays(b) \/ HoldEnds(b)) \/ UNCHANGED vars
      PROVE  ClaimsInv'
  <2>1. /\ UNCHANGED <<docs, rooms, rates, invoices, req, faults>>
        /\ hist'.crossed = hist.crossed /\ hist'.raced = hist.raced
        /\ hist'.edited = hist.edited /\ hist'.late = hist.late
        /\ hist'.clamped = hist.clamped /\ hist'.repriced = hist.repriced
    BY <1>5 DEF GuestPays, HoldEnds, vars, IInv, DataInv, CountersInv, IsHistory
  <2>2. QED
    BY <2>1, NobodyClaims
<1>6. QED
  BY <1>2, <1>3, <1>4, <1>5 DEF Next

----------------------------------------------------------------------------
(* The theorems. *)

\* The inductive invariant of the stays, on top of that of the bookings.
THEOREM StaysInvariant == Spec => [](IInv /\ ClaimsInv)
<1>1. Init => IInv /\ ClaimsInv
  BY InitIInv, InitClaims
<1>2. IInv /\ ClaimsInv /\ [Next]_vars => (IInv /\ ClaimsInv)'
  BY NextIInv, NextClaims
<1>3. QED
  BY <1>1, <1>2, PTL DEF Spec

\* Whatever moves a booking makes, with its extra charges and its discount, its
\* total is what it would cost in the room it is in, but for 2 rupees a move its
\* taxes may round, and for a total that was cut off at 0: upgrades confirmed later,
\* downgrades and moves within a category all leave the bill that createRoomBooking
\* would make, at any prices.  Bookings that were there, or on their way, when a
\* price changed and those saved by overlapping requests are left out.
THEOREM RoomsAreBilled == Spec => []BilledForRoom
<1>1. ASSUME ClaimsInv
      PROVE  BilledForRoom
  <2>1. SUFFICES ASSUME NEW b \in Bookings \ (hist.raced \cup hist.repriced)
                 PROVE  Billed(docs[b].total, FairPrice(docs[b], NightlyRate(docs[b].room)),
                               Len(docs[b].transfers), b \in hist.clamped)
    BY DEF BilledForRoom
  <2>2. BilledInv(b)
    BY <1>1 DEF ClaimsInv, Bookings
  <2>3. PICK low : low = (FALSE \/ b \in hist.clamped)
    OBVIOUS
  <2>4. BillInv(docs[b], low)
    BY <2>1, <2>2, <2>3 DEF BilledInv, Priced
  <2>5. QED
    BY <2>3, <2>4 DEF BillInv
<1>2. IInv /\ ClaimsInv => BilledForRoom
  BY <1>1
<1>3. QED
  BY <1>2, StaysInvariant, PTL

\* A booking that is checked out has its invoice, what was paid and is due makes up
\* its total, and it is over the booking's total unless an upgrade was confirmed after
\* the check-out.  Bookings CHECKED_OUT by hand, which get no invoice, and those
\* saved by overlapping requests are left out.
THEOREM StaysAreInvoiced == Spec => []InvoicedAsBilled
<1>1. ASSUME ClaimsInv
      PROVE  InvoicedAsBilled
  <2>1. SUFFICES ASSUME NEW b \in Bookings \ (hist.raced \cup hist.edited),
                        docs[b].status = "CHECKED_OUT"
                 PROVE  /\ invoices[b] # NoInvoice
                        /\ b \notin hist.late => invoices[b].stay = docs[b].total
                        /\ invoices[b].paid + invoices[b].due = invoices[b].grand
    BY DEF InvoicedAsBilled
  <2>2. b \in Booking
    BY DEF Bookings
  <2>3. BilledInv(b) /\ InvoicesInv
    BY <1>1, <2>2 DEF ClaimsInv
  <2>4. Invoiced(b, docs[b].total, FALSE)
    BY <2>1, <2>3 DEF BilledInv
  <2>5. QED
    BY <2>2, <2>3, <2>4 DEF Invoiced, InvoicesInv, Balanced
<1>2. IInv /\ ClaimsInv => InvoicedAsBilled
  BY <1>1
<1>3. QED
  BY <1>2, StaysInvariant, PTL

\* The room of a guest in the house is occupied once the requests are finished,
\* if it was this booking that marked it last, and what the desk and the search
\* page are offered is what the handlers accept.
THEOREM HouseIsAsSeen == Spec => []HouseInv
<1>1. ASSUME ClaimsInv
      PROVE  GuestRoomOccupied
  <2>1. SUFFICES ASSUME NEW b \in Bookings \ hist.raced, docs[b].status = "CHECKED_IN",
                        \A a \in Actor : req[a] = Idle, faults = 0,
                        rooms[docs[b].room].by = b
                 PROVE  rooms[docs[b].room].status = "OCCUPIED"
    BY DEF GuestRoomOccupied
  <2>2. OccupiedInv(b)
    BY <1>1 DEF ClaimsInv, Bookings
  <2>3. \A a \in Actor : ~Claims(a, b)
    BY <2>1 DEF Claims, Idle, Claiming
  <2>4. Occupied(b, docs[b].room)
    BY <2>1, <2>2, <2>3 DEF OccupiedInv
  <2>5. QED
    BY <2>1, <2>4 DEF Occupied
<1>2. IInv /\ ClaimsInv => GuestRoomOccupied
  BY <1>1
<1>3. GuestRoomOccupied /\ OffersAreAccepted => HouseInv
  BY DEF HouseInv
<1>4. QED
  BY <1>2, <1>3, StaysInvariant, OffersHold, PTL
=============================================================================
