---------------------------- MODULE DiningProofs ----------------------------
(***************************************************************************)
(* Theorems about Dining and Waitlist, for any tables, reservations,       *)
(* orders, groups and actors and any number of requests.                   *)
(*                                                                         *)
(* Every handler works on a table or a reservation it has read; what it    *)
(* read still holds when it writes, unless another request about the same  *)
(* document was in flight (Claims).  Such requests are on record           *)
(* (Rivalry), so a step of one disturbs no claim of another.               *)
(*                                                                         *)
(* The second part is about the waitlist, whose requests run beside those  *)
(* of the floor: the queue (QIInv), then the parties at the tables         *)
(* (PartyInv).                                                             *)
(***************************************************************************)
EXTENDS Waitlist, SequenceTheorems, FiniteSetTheorems, WellFoundedInduction, TLAPS

InUse == {"OCCUPIED", "BILLING"}

\* The collections have the shapes of their schemas.
DataInv ==
    /\ tables \in [Table -> TableDocs]
    /\ \A t \in Table : /\ tables[t].session.id <= sessions
                        /\ tables[t].session.book \in {NoReservation} \cup Books
    /\ books = [r \in Reservation |-> books[r]]
    /\ \A r \in Books : books[r] \in BookDocs
    /\ locked \subseteq Books
    /\ orders = [o \in Order |-> orders[o]]
    /\ \A o \in Orders : orders[o] \in OrderDocs
    /\ sessions \in 0..MaxSessions /\ faults \in Nat
    /\ hist = [crossed |-> hist.crossed, raced |-> hist.raced,
               unchecked |-> hist.unchecked, edited |-> hist.edited,
               disturbed |-> hist.disturbed, strayed |-> hist.strayed]

-----------------------------------------------------------------------------
(* What is left of a request.                                               *)

\* What a save of a table may change, by the handler it is for.
TablePatch(op, set) ==
    /\ DOMAIN set \subseteq {"status", "active", "session"}
    /\ "status" \in DOMAIN set => set.status \in TableStatus
    /\ "active" \in DOMAIN set => set.active \in BOOLEAN
    /\ "session" \in DOMAIN set => set.session \in Sittings
    /\ op = "edit" => /\ "session" \notin DOMAIN set
                      /\ "status" \in DOMAIN set => set.status = "INACTIVE"
    /\ op \in {"seat", "order"} => /\ {"status", "session"} \subseteq DOMAIN set
                                   /\ set.status = "OCCUPIED" /\ set.session.id # 0
    /\ op = "bill" => DOMAIN set = {"status"} /\ set.status = "BILLING"
    /\ op = "pay" => DOMAIN set = {"status"} /\ set.status = "RESERVED"
    /\ op = "close" => /\ "status" \in DOMAIN set /\ set.status = "AVAILABLE"
                       /\ "session" \in DOMAIN set => set.session = NoSession
    /\ op \in {"edit", "bill", "seat", "close", "order", "pay"}

\* What a save of a reservation may change.
BookPatch(op, set) ==
    /\ DOMAIN set \subseteq {"status", "pay", "payment"}
    /\ "status" \in DOMAIN set => set.status \in ReservationStatus
    /\ "pay" \in DOMAIN set => set.pay \in {"PENDING", "PAID", "FAILED"}
    /\ "payment" \in DOMAIN set => set.payment \in {"none", "order", "payment"}
    /\ op = "seat" => "status" \in DOMAIN set /\ set.status = "SEATED"
    /\ op = "close" => "status" \in DOMAIN set /\ set.status = "COMPLETED"
    /\ op = "pay" /\ "status" \in DOMAIN set => set.status = "CONFIRMED"
    /\ op \in {"seat", "close", "pay", "update"}

TableWrite(op, on, h) ==
    /\ h.w = "table" /\ h.t \in Table \cap on /\ TablePatch(op, h.set)
    /\ "session" \in DOMAIN h.set => h.set.session.id <= sessions
BookWrite(op, on, h) == h.w = "book" /\ h.r \in Books \cap on /\ BookPatch(op, h.set)

\* The steps a handler has left, by the one that comes next.
PlanInv(op, on, h, t) ==
    \/ op \in {"edit", "bill", "pay", "close"} /\ TableWrite(op, on, h) /\ t = <<>>
    \/ /\ op = "seat" /\ TableWrite(op, on, h)
       /\ \/ h.set.session.book = NoReservation /\ t = <<>>
          \/ /\ h.set.session.book \in Books \cap on
             /\ t = <<SetBook(h.set.session.book, "SEATED")>>
    \/ /\ op = "order" /\ TableWrite(op, on, h) /\ h.set.session.book = NoReservation
       /\ t = <<PlaceAt(h.t, h.set.session.id)>>
    \/ op = "seat" /\ BookWrite(op, on, h) /\ t = <<>>
    \/ /\ op = "close" /\ BookWrite(op, on, h)
       /\ TableWrite(op, on, Head(t)) /\ t = <<Head(t)>>
    \/ /\ op = "pay" /\ BookWrite(op, on, h)
       /\ \/ t = <<>>
          \/ books[h.r].table \in on /\ t = <<ReserveIfFree(books[h.r].table)>>
    \/ /\ op = "update" /\ BookWrite(op, on, h) /\ h.r \in hist.edited
       /\ \/ t = <<>> /\ ("status" \in DOMAIN h.set => h.set.status \notin Terminal)
          \/ books[h.r].table \in on /\ t = <<ReleaseIfLast(books[h.r].table, h.r)>>
    \/ /\ op = "close" /\ h.w = "close" /\ h.t \in Table \cap on /\ h.copy \in TableDocs
       /\ h.copy.session.book \in {NoReservation} \cup (Books \cap on)
       /\ h.copy.status # "AVAILABLE" /\ t = <<>>
    \/ /\ op = "order" /\ h.w = "order" /\ h.t \in Table \cap on
       /\ h.session \in 0..MaxSessions /\ t = <<>>
    \/ /\ op = "reserve" /\ h.w = "insert" /\ h.t \in Table \cap on
       /\ h.slot \in Slots /\ t = <<>>
    \/ op = "pay" /\ h.w = "reserve" /\ h.t \in Table \cap on /\ t = <<>>
    \/ op = "update" /\ h.w = "release" /\ h.t \in Table \cap on /\ t = <<>>
    \/ op = "update" /\ h.w = "free" /\ h.t \in Table \cap on /\ t = <<>>

RequestInv(q) ==
    \/ q = Idle
    \/ /\ q = [op |-> q.op, on |-> q.on, todo |-> q.todo]
       /\ q.op # "idle"
       /\ PlanInv(q.op, q.on, Head(q.todo), Tail(q.todo))

RequestsInv ==
    /\ req = [a \in Actor |-> req[a]]
    /\ \A a \in Actor : RequestInv(req[a])

-----------------------------------------------------------------------------
(* What a request knows.                                                    *)

Busy(a) == req[a] # Idle
Alone(a) == Busy(a) /\ a \notin hist.crossed
Rest(a) == Tail(req[a].todo)

\* Requests about the same thing at the same time are on record.
Rivalry ==
    \A a, b \in Actor :
        a # b /\ Busy(a) /\ Busy(b) /\ req[a].on \cap req[b].on # {} => a \in hist.crossed

\* No order the kitchen works on belongs to the session that will be closed.
Vacant(t, set) ==
    /\ "session" \in DOMAIN set \/ tables[t].session = NoSession
    /\ tables[t].session.id # 0 =>
         \A o \in Orders \ hist.strayed :
             orders[o].table = t /\ orders[o].open => orders[o].session # tables[t].session.id

\* A confirmed reservation the request works on is for this table.
Expected(a, t) ==
    \E r \in Books \cap req[a].on : books[r].table = t /\ books[r].status = "CONFIRMED"

TableClaim(a, op, h) ==
    h.w = "table" =>
      /\ op = "seat" => tables[h.t].status \in {"AVAILABLE", "RESERVED"}
      /\ op = "order" => tables[h.t].status = "AVAILABLE"
      /\ op = "bill" => tables[h.t].status = "OCCUPIED"
      /\ op = "edit" /\ "status" \in DOMAIN h.set => tables[h.t].status \notin InUse
      /\ op = "pay" => tables[h.t].status = "AVAILABLE" /\ Expected(a, h.t)
      /\ op = "close" =>
           /\ Vacant(h.t, h.set)
           /\ \/ tables[h.t].session.book = NoReservation
              \/ /\ tables[h.t].session.book \in req[a].on
                 /\ books[tables[h.t].session.book].status # "SEATED"

BookClaim(a, op, h, rest) ==
    h.w = "book" =>
      /\ op = "close" => /\ h.r = tables[Head(rest).t].session.book
                         /\ Vacant(Head(rest).t, Head(rest).set)
      /\ op = "seat" => \E t \in Table \cap req[a].on :
                          tables[t].session.book = h.r /\ tables[t].status \in InUse
      /\ op = "pay" /\ rest # <<>> =>
           books[h.r].status = "CONFIRMED" \/ "status" \in DOMAIN h.set

\* No reservation that holds the table is in the way of the one to be created.
HoldClaim(h) ==
    h.w = "insert" =>
      \A r \in Books \ hist.unchecked :
          books[r].table = h.t /\ books[r].slot \cap h.slot # {} => ~Holds(r)

\* An order belongs to the session of its table.
OrderClaim(h) ==
    h.w = "order" /\ h.session # 0 /\ h.t \notin hist.disturbed =>
        tables[h.t].session.id = h.session /\ tables[h.t].status \in InUse

ReadClaim(a, h) ==
    /\ h.w = "close" => h.copy = tables[h.t]
    /\ h.w = "reserve" => Expected(a, h.t)

Claims(a) ==
    Alone(a) => /\ TableClaim(a, req[a].op, Write(a))
                /\ BookClaim(a, req[a].op, Write(a), Rest(a))
                /\ HoldClaim(Write(a))
                /\ OrderClaim(Write(a))
                /\ ReadClaim(a, Write(a))

\* A table shows a session only while it is in use.
TablesInv ==
    \A t \in Table \ hist.disturbed : tables[t].session.id # 0 => tables[t].status \in InUse

\* A reserved table has a reservation, or somebody is about to look whether it has.
Releases(a, t) == Busy(a) /\ Write(a).w \in {"release", "free"} /\ Write(a).t = t
ReservedInv ==
    \A t \in Table \ hist.disturbed :
        faults = 0 /\ tables[t].status = "RESERVED" =>
            \/ \E r \in Books : books[r].table = t /\ books[r].status \notin Terminal
            \/ \E a \in Actor : Releases(a, t)

IInv == /\ DataInv /\ RequestsInv /\ Rivalry /\ \A a \in Actor : Claims(a)
        /\ TablesInv /\ ReservedInv
        /\ NoDoubleReservation /\ OrdersInTheirSession /\ SeatedGuestsHaveTable

-----------------------------------------------------------------------------
(* Lists of steps, copies and patches.                                      *)

\* The head and the rest of a short list.
LEMMA Tuples ==
  /\ \A x : Head(<<x>>) = x /\ Tail(<<x>>) = <<>> /\ <<x>> # <<>>
  /\ \A x, y : Head(<<x, y>>) = x /\ Tail(<<x, y>>) = <<y>> /\ <<x, y>> # <<>>
OBVIOUS

\* Two sequences joined are the sequence with their elements.
LEMMA Joining ==
  ASSUME NEW S, NEW s \in Seq(S), NEW t \in Seq(S), NEW u \in Seq(S),
         Len(u) = Len(s) + Len(t),
         \A i \in 1..Len(u) : u[i] = IF i <= Len(s) THEN s[i] ELSE t[i - Len(s)]
  PROVE  s \o t = u
<1>1. /\ s \o t \in Seq(S)
      /\ Len(s \o t) = Len(s) + Len(t)
      /\ \A i \in 1..Len(s) + Len(t) :
           (s \o t)[i] = IF i <= Len(s) THEN s[i] ELSE t[i - Len(s)]
  BY ConcatProperties
<1>2. QED
  BY <1>1, SeqEqual

\* A list of one joined to none and to one.
LEMMA Joins ==
  ASSUME NEW x, NEW y
  PROVE  <<x>> \o <<>> = <<x>> /\ <<>> \o <<x>> = <<x>> /\ <<x>> \o <<y>> = <<x, y>>
<1> DEFINE S == {x, y}
<1>1. x \in S /\ y \in S
  OBVIOUS
<1> HIDE DEF S
<1>2. <<x>> \in Seq(S) /\ <<y>> \in Seq(S) /\ <<x, y>> \in Seq(S)
  BY <1>1
<1>3. <<x>> \o <<>> = <<x>> /\ <<>> \o <<x>> = <<x>>
  BY <1>2, ConcatEmptySeq
<1>4. <<x>> \o <<y>> = <<x, y>>
  <2>1. /\ Len(<<x, y>>) = 2 /\ Len(<<x>>) = 1 /\ Len(<<y>>) = 1
        /\ \A i \in 1..2 : <<x, y>>[i] = IF i <= 1 THEN <<x>>[i] ELSE <<y>>[i - 1]
    OBVIOUS
  <2>2. Len(<<x, y>>) = Len(<<x>>) + Len(<<y>>)
    BY <2>1
  <2>3. \A i \in 1..Len(<<x, y>>) :
          <<x, y>>[i] = IF i <= Len(<<x>>) THEN <<x>>[i] ELSE <<y>>[i - Len(<<x>>)]
    BY <2>1
  <2>4. QED
    BY <1>2, <2>2, <2>3, Joining
<1>5. QED
  BY <1>3, <1>4

\* A patched table is a table.
LEMMA PatchedTable ==
  ASSUME NEW d \in TableDocs, NEW op, NEW set, TablePatch(op, set)
  PROVE  /\ Patched(d, set) \in TableDocs
         /\ Patched(d, set).status = IF "status" \in DOMAIN set THEN set.status ELSE d.status
         /\ Patched(d, set).session = IF "session" \in DOMAIN set THEN set.session ELSE d.session
<1>1. DOMAIN d = {"status", "active", "session"}
  BY DEF TableDocs
<1>2. Patched(d, set) =
        [status |-> IF "status" \in DOMAIN set THEN set.status ELSE d.status,
         active |-> IF "active" \in DOMAIN set THEN set.active ELSE d.active,
         session |-> IF "session" \in DOMAIN set THEN set.session ELSE d.session]
  BY <1>1 DEF Patched
<1>3. QED
  BY <1>2 DEF TableDocs, TablePatch

\* A patched reservation is one for the same table and hours.
LEMMA PatchedBook ==
  ASSUME NEW d \in BookDocs, NEW op, NEW set, BookPatch(op, set)
  PROVE  /\ Patched(d, set) \in BookDocs
         /\ Patched(d, set).table = d.table /\ Patched(d, set).slot = d.slot
         /\ Patched(d, set).status = IF "status" \in DOMAIN set THEN set.status ELSE d.status
<1>1. DOMAIN d = {"table", "slot", "status", "pay", "payment"}
  BY DEF BookDocs
<1>2. Patched(d, set) =
        [table |-> d.table, slot |-> d.slot,
         status |-> IF "status" \in DOMAIN set THEN set.status ELSE d.status,
         pay |-> IF "pay" \in DOMAIN set THEN set.pay ELSE d.pay,
         payment |-> IF "payment" \in DOMAIN set THEN set.payment ELSE d.payment]
  BY <1>1 DEF Patched, BookPatch
<1>3. QED
  BY <1>2 DEF BookDocs, BookPatch

\* What a save of a table contains.
LEMMA TableChanges ==
  ASSUME NEW from \in TableDocs, NEW to \in TableDocs
  PROVE  /\ DOMAIN Changes(from, to) \subseteq {"status", "active", "session"}
         /\ "status" \in DOMAIN Changes(from, to) <=> from.status # to.status
         /\ "active" \in DOMAIN Changes(from, to) <=> from.active # to.active
         /\ "session" \in DOMAIN Changes(from, to) <=> from.session # to.session
         /\ from.status # to.status => Changes(from, to).status = to.status
         /\ from.active # to.active => Changes(from, to).active = to.active
         /\ from.session # to.session => Changes(from, to).session = to.session
<1>1. DOMAIN from = {"status", "active", "session"}
  BY DEF TableDocs
<1>2. QED
  BY <1>1 DEF Changes

\* What a save of a reservation contains.
LEMMA BookChanges ==
  ASSUME NEW from \in BookDocs, NEW to \in BookDocs, to.table = from.table, to.slot = from.slot
  PROVE  /\ DOMAIN Changes(from, to) \subseteq {"status", "pay", "payment"}
         /\ "status" \in DOMAIN Changes(from, to) <=> from.status # to.status
         /\ "pay" \in DOMAIN Changes(from, to) <=> from.pay # to.pay
         /\ "payment" \in DOMAIN Changes(from, to) <=> from.payment # to.payment
         /\ from.status # to.status => Changes(from, to).status = to.status
         /\ from.pay # to.pay => Changes(from, to).pay = to.pay
         /\ from.payment # to.payment => Changes(from, to).payment = to.payment
<1>1. DOMAIN from = {"table", "slot", "status", "pay", "payment"}
  BY DEF BookDocs
<1>2. QED
  BY <1>1 DEF Changes

\* A nonempty set of tables has a smallest one.
LEMMA SmallestOf ==
  ASSUME NEW T, T # {}, T \subseteq Table
  PROVE  Smallest(T) \in T
<1> DEFINE R == OpToRel(<, Nat)
           N == {Capacity[t] : t \in T}
<1>1. N \subseteq Nat /\ N # {}
  BY DiningAssumption
<1>2. IsWellFoundedOn(R, Nat)
  BY NatLessThanWellFounded
<1>3. PICK n \in N : \A m \in N : <<m, n>> \notin R
  <2> HIDE DEF R, N
  <2>1. QED
    BY <1>1, <1>2, WFMin
<1>4. \A m \in N : ~(m < n)
  BY <1>1, <1>3 DEF OpToRel
<1>5. PICK t \in T : n = Capacity[t]
  BY <1>3
<1>6. \A s \in T : Capacity[t] <= Capacity[s]
  BY <1>1, <1>4, <1>5
<1>7. QED
  BY <1>5, <1>6 DEF Smallest

-----------------------------------------------------------------------------
(* What a step of somebody else leaves to a request.                        *)

\* Reservations stay, for the same table and hours, and so do sessions, what the
\* staff edited and the strayed orders.
Grows ==
    /\ \A r \in Books : /\ r \in Books'
                        /\ books'[r].table = books[r].table /\ books'[r].slot = books[r].slot
    /\ sessions \in Nat /\ sessions' \in Nat /\ sessions <= sessions'
    /\ hist.edited \subseteq hist'.edited /\ hist.strayed \subseteq hist'.strayed

Undisturbed(c) ==
    /\ req'[c] = req[c]
    /\ c \notin hist'.crossed => c \notin hist.crossed
    /\ \A t \in Table \cap req[c].on :
         tables'[t] = tables[t] /\ (t \notin hist'.disturbed => t \notin hist.disturbed)
    /\ \A r \in Books \cap req[c].on : books'[r] = books[r]
    /\ \A r \in Books' \ hist'.unchecked :
         Holds(r)' /\ books'[r].table \in req[c].on =>
             r \in Books \ hist.unchecked /\ Holds(r)
    /\ \A o \in Orders' \ hist'.strayed :
         orders'[o].table \in req[c].on /\ orders'[o].open =>
             o \in Orders /\ orders'[o] = orders[o]
    /\ Grows

\* The plan of a busy request.
LEMMA ShapeOf ==
  ASSUME RequestsInv, NEW a \in Actor, Busy(a)
  PROVE  /\ req[a] = [op |-> req[a].op, on |-> req[a].on, todo |-> req[a].todo]
         /\ req[a].op # "idle"
         /\ PlanInv(req[a].op, req[a].on, Write(a), Rest(a))
BY DEF RequestsInv, RequestInv, Busy, Write, Rest

\* What the next step works on is what the request is about.
LEMMA WorksOn ==
  ASSUME NEW op, NEW on, NEW h, NEW t, PlanInv(op, on, h, t)
  PROVE  /\ h.w \in {"table", "order", "close", "insert", "reserve", "release", "free"} =>
              h.t \in Table \cap on
         /\ h.w = "book" => h.r \in Books \cap on
         /\ h.w = "table" => TablePatch(op, h.set)
         /\ h.w = "book" => BookPatch(op, h.set)
         /\ h.w = "book" /\ op = "close" =>
              Head(t).t \in Table \cap on /\ TableWrite(op, on, Head(t)) /\ t = <<Head(t)>>
         /\ h.w \in {"table", "book", "order", "close", "insert", "reserve", "release", "free"}
BY DEF PlanInv, TableWrite, BookWrite

\* A request keeps its plan.
LEMMA RequestKept ==
  ASSUME Grows, NEW q, RequestInv(q)
  PROVE  RequestInv(q)'
<1>1. ASSUME NEW r \in Books
      PROVE  r \in Books' /\ books'[r].table = books[r].table
  BY DEF Grows
<1>2. ASSUME NEW op, NEW on, NEW h, BookWrite(op, on, h)
      PROVE  BookWrite(op, on, h)' /\ books'[h.r].table = books[h.r].table
  BY <1>1, <1>2 DEF BookWrite
<1>3. ASSUME NEW op, NEW on, NEW h, NEW t, PlanInv(op, on, h, t)
      PROVE  PlanInv(op, on, h, t)'
  <2>1. ASSUME NEW w, TableWrite(op, on, w) PROVE TableWrite(op, on, w)'
    <3>1. "session" \in DOMAIN w.set => w.set.session.id \in Nat
      BY <2>1 DEF TableWrite, TablePatch, Sittings
    <3>2. QED
      BY <2>1, <3>1 DEF TableWrite, Grows
  <2>2. TableWrite(op, on, h) => TableWrite(op, on, h)'
    BY <2>1
  <2>3. TableWrite(op, on, Head(t)) => TableWrite(op, on, Head(t))'
    BY <2>1
  <2>4. CASE h.w = "book"
    <3>1. BookWrite(op, on, h)
      BY <1>3, <2>4 DEF PlanInv, TableWrite
    <3>2. BookWrite(op, on, h)' /\ books'[h.r].table = books[h.r].table
      BY <1>2, <3>1
    <3>3. hist.edited \subseteq hist'.edited
      BY DEF Grows
    <3>4. QED
      BY <1>3, <2>3, <2>4, <3>2, <3>3 DEF PlanInv, TableWrite
  <2>5. CASE h.w # "book"
    BY <1>1, <1>3, <2>2, <2>3, <2>5 DEF PlanInv, BookWrite
  <2>6. QED
    BY <2>4, <2>5
<1>4. QED
  BY <1>3 DEF RequestInv

\* And what it knows.
LEMMA ClaimsKept ==
  ASSUME DataInv, RequestsInv, NEW c \in Actor, Claims(c), Undisturbed(c)
  PROVE  Claims(c)'
<1>1. SUFFICES ASSUME Alone(c)'
               PROVE  /\ TableClaim(c, req[c].op, Write(c))'
                      /\ BookClaim(c, req[c].op, Write(c), Rest(c))'
                      /\ HoldClaim(Write(c))' /\ OrderClaim(Write(c))'
                      /\ ReadClaim(c, Write(c))'
  BY DEF Claims
<1>2. PICK q : q = req[c]
  OBVIOUS
<1>3. PICK h : h = Head(q.todo)
  OBVIOUS
<1>4. PICK t : t = Tail(q.todo)
  OBVIOUS
<1>5. req'[c] = q /\ Write(c) = h /\ Write(c)' = h /\ Rest(c) = t /\ Rest(c)' = t
  BY <1>2, <1>3, <1>4 DEF Undisturbed, Write, Rest
<1>6. Alone(c)
  BY <1>1, <1>2, <1>5 DEF Undisturbed, Alone, Busy
<1>7. PlanInv(q.op, q.on, h, t)
  BY <1>2, <1>5, <1>6, ShapeOf DEF Alone
<1>8. /\ TableClaim(c, q.op, h) /\ BookClaim(c, q.op, h, t)
      /\ HoldClaim(h) /\ OrderClaim(h) /\ ReadClaim(c, h)
  BY <1>2, <1>5, <1>6 DEF Claims
<1>9. ASSUME NEW u \in Table \cap q.on
      PROVE  /\ tables'[u] = tables[u] /\ (u \notin hist'.disturbed => u \notin hist.disturbed)
             /\ Expected(c, u) => Expected(c, u)'
             /\ \A set : Vacant(u, set) => Vacant(u, set)'
  <2>1. tables'[u] = tables[u] /\ (u \notin hist'.disturbed => u \notin hist.disturbed)
    BY <1>2 DEF Undisturbed
  <2>2. Expected(c, u) => Expected(c, u)'
    BY <1>2, <1>5 DEF Undisturbed, Grows, Expected
  <2>3. ASSUME NEW set, Vacant(u, set)
        PROVE  Vacant(u, set)'
    <3>1. \A o \in Orders' \ hist'.strayed :
            orders'[o].table = u /\ orders'[o].open =>
                o \in Orders \ hist.strayed /\ orders'[o] = orders[o]
      BY <1>2 DEF Undisturbed, Grows
    <3>2. QED
      BY <2>1, <2>3, <3>1 DEF Vacant
  <2>4. QED
    BY <2>1, <2>2, <2>3
<1>10. ASSUME NEW r \in Books \cap q.on
       PROVE  books'[r] = books[r]
  BY <1>2 DEF Undisturbed
<1>11. TableClaim(c, q.op, h)'
  <2>1. SUFFICES ASSUME h.w = "table" PROVE TableClaim(c, q.op, h)'
    BY DEF TableClaim
  <2>2. h.t \in Table \cap q.on
    BY <1>7, <2>1, WorksOn
  <2>3. PICK u : u = h.t
    OBVIOUS
  <2>4. /\ tables'[u] = tables[u] /\ (Expected(c, u) => Expected(c, u)')
        /\ \A set : Vacant(u, set) => Vacant(u, set)'
    BY <1>9, <2>2, <2>3
  <2>5. tables[u].session.book \in {NoReservation} \cup Books
    BY <2>2, <2>3 DEF DataInv
  <2>6. tables[u].session.book \in q.on /\ tables[u].session.book # NoReservation =>
          books'[tables[u].session.book] = books[tables[u].session.book]
    BY <1>10, <2>5
  <2>7. QED
    BY <1>2, <1>5, <1>8, <2>1, <2>3, <2>4, <2>6 DEF TableClaim
<1>12. BookClaim(c, q.op, h, t)'
  <2>1. SUFFICES ASSUME h.w = "book" PROVE BookClaim(c, q.op, h, t)'
    BY DEF BookClaim
  <2>2. h.r \in Books \cap q.on
    BY <1>7, <2>1, WorksOn
  <2>3. books'[h.r] = books[h.r]
    BY <1>10, <2>2
  <2>4. q.op = "close" => /\ h.r = tables'[Head(t).t].session.book
                          /\ Vacant(Head(t).t, Head(t).set)'
    <3>1. SUFFICES ASSUME q.op = "close"
                   PROVE  /\ h.r = tables'[Head(t).t].session.book
                          /\ Vacant(Head(t).t, Head(t).set)'
      OBVIOUS
    <3>2. PICK u : u = Head(t).t
      OBVIOUS
    <3>3. u \in Table \cap q.on
      BY <1>7, <2>1, <3>1, <3>2, WorksOn
    <3>4. tables'[u] = tables[u] /\ \A set : Vacant(u, set) => Vacant(u, set)'
      BY <1>9, <3>3
    <3>5. h.r = tables[u].session.book /\ Vacant(u, Head(t).set)
      BY <1>8, <2>1, <3>1, <3>2 DEF BookClaim
    <3>6. QED
      BY <3>2, <3>4, <3>5
  <2>5. q.op = "seat" => \E u \in Table \cap q.on :
                            tables'[u].session.book = h.r /\ tables'[u].status \in InUse
    BY <1>2, <1>8, <1>9, <2>1 DEF BookClaim
  <2>6. QED
    BY <1>2, <1>5, <1>8, <2>1, <2>3, <2>4, <2>5 DEF BookClaim
<1>13. HoldClaim(h)'
  <2>1. SUFFICES ASSUME h.w = "insert", NEW r \in Books' \ hist'.unchecked,
                        books'[r].table = h.t, books'[r].slot \cap h.slot # {}, Holds(r)'
                 PROVE  FALSE
    BY DEF HoldClaim
  <2>2. h.t \in Table \cap q.on
    BY <1>7, <2>1, WorksOn
  <2>3. r \in Books \ hist.unchecked /\ Holds(r)
    BY <1>2, <2>1, <2>2 DEF Undisturbed
  <2>4. books'[r].table = books[r].table /\ books'[r].slot = books[r].slot
    BY <2>3 DEF Undisturbed, Grows
  <2>5. QED
    BY <1>8, <2>1, <2>3, <2>4 DEF HoldClaim
<1>14. OrderClaim(h)'
  <2>1. SUFFICES ASSUME h.w = "order" PROVE OrderClaim(h)'
    BY DEF OrderClaim
  <2>2. h.t \in Table \cap q.on
    BY <1>7, <2>1, WorksOn
  <2>3. tables'[h.t] = tables[h.t] /\ (h.t \notin hist'.disturbed => h.t \notin hist.disturbed)
    BY <1>9, <2>2
  <2>4. QED
    BY <1>8, <2>3 DEF OrderClaim
<1>15. ReadClaim(c, h)'
  <2>1. CASE h.w = "close"
    <3>1. h.t \in Table \cap q.on
      BY <1>7, <2>1, WorksOn
    <3>2. QED
      BY <1>8, <1>9, <2>1, <3>1 DEF ReadClaim
  <2>2. CASE h.w = "reserve"
    <3>1. h.t \in Table \cap q.on
      BY <1>7, <2>2, WorksOn
    <3>2. PICK u : u = h.t
      OBVIOUS
    <3>3. Expected(c, u)'
      BY <1>8, <1>9, <2>2, <3>1, <3>2 DEF ReadClaim
    <3>4. QED
      BY <2>2, <3>2, <3>3 DEF ReadClaim
  <2>3. CASE h.w \notin {"close", "reserve"}
    BY <2>3 DEF ReadClaim
  <2>4. QED
    BY <2>1, <2>2, <2>3
<1>16. QED
  BY <1>2, <1>5, <1>11, <1>12, <1>13, <1>14, <1>15

-----------------------------------------------------------------------------
(* The frame of a write.                                                    *)

\* Whatever request a writes is what it is about.
Keeps(a) ==
    /\ \A c \in Actor \ {a} : req'[c] = req[c]
    /\ hist'.crossed = hist.crossed
    /\ \A t \in Table \ req[a].on :
         tables'[t] = tables[t] /\ (t \notin hist'.disturbed => t \notin hist.disturbed)
    /\ \A r \in Books \ req[a].on : books'[r] = books[r]
    /\ \A r \in Books' \ hist'.unchecked :
         Holds(r)' => (r \in Books \ hist.unchecked /\ Holds(r)) \/ books'[r].table \in req[a].on
    /\ \A o \in Orders' \ hist'.strayed :
         orders'[o].open => (o \in Orders /\ orders'[o] = orders[o])
                            \/ orders'[o].table \in req[a].on
    /\ Grows

\* It disturbs no claim of another request.
LEMMA OthersKept ==
  ASSUME DataInv, RequestsInv, Rivalry, NEW a \in Actor, Busy(a), Keeps(a),
         NEW c \in Actor \ {a}, Claims(c)
  PROVE  Claims(c)'
<1>1. SUFFICES ASSUME Alone(c)' PROVE Claims(c)'
  BY DEF Claims
<1>2. PICK q : q = req[c]
  OBVIOUS
<1>3. PICK p : p = req[a]
  OBVIOUS
<1>4. Alone(c)
  BY <1>1 DEF Keeps, Alone, Busy
<1>5. q.on \cap p.on = {}
  BY <1>2, <1>3, <1>4 DEF Rivalry, Alone
<1>6. Undisturbed(c)
  <2>1. req'[c] = req[c] /\ (c \notin hist'.crossed => c \notin hist.crossed) /\ Grows
    BY DEF Keeps
  <2>2. \A t \in Table \cap q.on :
          tables'[t] = tables[t] /\ (t \notin hist'.disturbed => t \notin hist.disturbed)
    BY <1>3, <1>5 DEF Keeps
  <2>3. \A r \in Books \cap q.on : books'[r] = books[r]
    BY <1>3, <1>5 DEF Keeps
  <2>4. \A r \in Books' \ hist'.unchecked :
          Holds(r)' /\ books'[r].table \in q.on => r \in Books \ hist.unchecked /\ Holds(r)
    BY <1>3, <1>5 DEF Keeps
  <2>5. \A o \in Orders' \ hist'.strayed :
          orders'[o].table \in q.on /\ orders'[o].open => o \in Orders /\ orders'[o] = orders[o]
    BY <1>3, <1>5 DEF Keeps
  <2>6. QED
    BY <1>2, <2>1, <2>2, <2>3, <2>4, <2>5 DEF Undisturbed
<1>7. QED
  BY <1>6, ClaimsKept

\* Request a becomes n.
GoesOn(a, n) ==
    /\ req' = [c \in Actor |-> req'[c]]
    /\ \A c \in Actor \ {a} : req'[c] = req[c]
    /\ req'[a] = n

\* Continue is such a step.
LEMMA Going ==
  ASSUME RequestsInv, NEW a \in Actor, Busy(a), NEW p, p = req[a], NEW more, Continue(a, more)
  PROVE  /\ GoesOn(a, IF more = <<>> THEN Idle ELSE [op |-> p.op, on |-> p.on, todo |-> more])
         /\ UNCHANGED <<sessions, rzp, started, faults>>
<1>1. p = [op |-> p.op, on |-> p.on, todo |-> p.todo]
  BY ShapeOf
<1>2. [p EXCEPT !.todo = more] = [op |-> p.op, on |-> p.on, todo |-> more]
  BY <1>1
<1>3. PICK n : n = IF more = <<>> THEN Idle ELSE [op |-> p.op, on |-> p.on, todo |-> more]
  OBVIOUS
<1>4. req = [c \in Actor |-> req[c]]
  BY DEF RequestsInv
<1>5. req' = [req EXCEPT ![a] = n]
  BY <1>2, <1>3 DEF Continue
<1>6. GoesOn(a, n)
  BY <1>4, <1>5 DEF GoesOn
<1>7. QED
  BY <1>3, <1>6 DEF Continue

\* A request that is done leaves nobody in its way, and one that goes on is
\* about the same things.
LEMMA GoesKeeps ==
  ASSUME RequestsInv, Rivalry, NEW a \in Actor, Busy(a), NEW n, GoesOn(a, n),
         hist'.crossed = hist.crossed, Grows, RequestInv(n)', n = Idle \/ n.on = req[a].on
  PROVE  RequestsInv' /\ Rivalry'
<1>1. ASSUME NEW c \in Actor PROVE RequestInv(req[c])'
  <2>1. CASE c = a
    BY <2>1 DEF GoesOn
  <2>2. CASE c # a
    <3>1. PICK q : q = req[c]
      OBVIOUS
    <3>2. RequestInv(q)'
      BY <3>1, RequestKept DEF RequestsInv
    <3>3. req'[c] = q
      BY <2>2, <3>1 DEF GoesOn
    <3>4. QED
      BY <3>2, <3>3
  <2>3. QED
    BY <2>1, <2>2
<1>2. RequestsInv'
  BY <1>1 DEF RequestsInv, GoesOn
<1>3. ASSUME NEW c \in Actor, Busy(c)'
      PROVE  Busy(c) /\ req'[c].on = req[c].on
  BY <1>3 DEF GoesOn, Busy
<1>4. Rivalry'
  BY <1>3 DEF Rivalry
<1>5. QED
  BY <1>2, <1>4

\* What a write has to show.
LEMMA Written ==
  ASSUME IInv, NEW a \in Actor, Busy(a), Keeps(a), NEW n, GoesOn(a, n), RequestInv(n)',
         n = Idle \/ n.on = req[a].on, Claims(a)', DataInv', TablesInv', ReservedInv',
         NoDoubleReservation', OrdersInTheirSession', SeatedGuestsHaveTable'
  PROVE  IInv'
<1>1. DataInv /\ RequestsInv /\ Rivalry /\ \A c \in Actor : Claims(c)
  BY DEF IInv
<1>2. RequestsInv' /\ Rivalry'
  <2>1. hist'.crossed = hist.crossed /\ Grows
    BY DEF Keeps
  <2>2. QED
    BY <1>1, <2>1, GoesKeeps
<1>3. \A c \in Actor : Claims(c)'
  <2>1. ASSUME NEW c \in Actor \ {a} PROVE Claims(c)'
    BY <1>1, OthersKept
  <2>2. QED
    BY <2>1
<1>4. QED
  BY <1>2, <1>3 DEF IInv

\* A request whose next step is of some kind.
LEMMA Opening ==
  ASSUME IInv, NEW a \in Actor, NEW kind, Next1(a, kind)
  PROVE  /\ Busy(a) /\ req[a].op # "idle" /\ Write(a).w = kind
         /\ PlanInv(req[a].op, req[a].on, Write(a), Rest(a))
<1>1. Busy(a) /\ Write(a).w = kind
  BY DEF Next1, Busy, Write
<1>2. QED
  BY <1>1, ShapeOf DEF IInv

\* Somebody holds the reserved table or looks whether somebody does.
Reserving(t) == \/ \E r \in Books : books[r].table = t /\ books[r].status \notin Terminal
                \/ \E a \in Actor : Releases(a, t)

\* A table that was not reserved before needs a holder; one that was keeps its.
LEMMA StaysReserved ==
  ASSUME ReservedInv, UNCHANGED faults,
         \A t \in Table \ hist'.disturbed : tables'[t].status = "RESERVED" =>
             \/ Reserving(t)'
             \/ t \notin hist.disturbed /\ tables[t].status = "RESERVED"
                /\ (Reserving(t) => Reserving(t)')
  PROVE  ReservedInv'
BY DEF ReservedInv, Reserving

\* The request that goes on does not look, or goes on looking, and no
\* reservation ends.
LEMMA KeepsHolders ==
  ASSUME NEW a \in Actor, NEW n, GoesOn(a, n), Busy(a),
         \A t : Releases(a, t) => Reserving(t)' \/ (n # Idle /\ Head(n.todo).w = "free" /\ Head(n.todo).t = t),
         \A r \in Books : /\ r \in Books'
                          /\ books[r].status \notin Terminal =>
                               books'[r].table = books[r].table /\ books'[r].status \notin Terminal
  PROVE  \A t : Reserving(t) => Reserving(t)'
<1>1. ASSUME NEW t, NEW c \in Actor \ {a}, Releases(c, t) PROVE Releases(c, t)'
  BY <1>1 DEF GoesOn, Releases, Busy, Write
<1>2. ASSUME NEW t, n # Idle, Head(n.todo).w = "free", Head(n.todo).t = t PROVE Releases(a, t)'
  BY <1>2 DEF GoesOn, Releases, Busy, Write
<1>3. QED
  BY <1>1, <1>2 DEF Reserving

-----------------------------------------------------------------------------
(* DoTable.                                                                 *)

\* A save of a table that nobody disturbed.
LEMMA TableSaved ==
  ASSUME IInv, NEW a \in Actor, NEW op, NEW h, h.w = "table", NEW u \in Table, h.t = u,
         TablePatch(op, h.set), TableClaim(a, op, h),
         NEW old, old = tables[u], NEW new, new = Patched(old, h.set)
  PROVE  /\ \/ u \in hist.disturbed /\ op \notin {"seat", "order", "close"}
            \/ new.session.id # 0 => new.status \in InUse
         /\ \A o \in Orders \ hist.strayed :
              orders[o].table = u /\ orders[o].open /\ orders[o].session # 0
              /\ old.session.id = orders[o].session /\ old.status \in InUse =>
                new.session.id = old.session.id /\ new.status \in InUse
         /\ \A r \in Books :
              books[r].status = "SEATED" /\ old.session.book = r /\ old.status \in InUse =>
                new.session.book = old.session.book /\ new.status \in InUse
         /\ new.status = "RESERVED" =>
              \/ old.status = "RESERVED" /\ op \notin {"seat", "order", "close"}
              \/ \E r \in Books : books[r].table = u /\ books[r].status = "CONFIRMED"
<1>1. old \in TableDocs
  BY DEF IInv, DataInv
<1>2. /\ new.status = IF "status" \in DOMAIN h.set THEN h.set.status ELSE old.status
      /\ new.session = IF "session" \in DOMAIN h.set THEN h.set.session ELSE old.session
  BY <1>1, PatchedTable
<1>3. u \notin hist.disturbed /\ old.session.id # 0 => old.status \in InUse
  BY DEF IInv, TablesInv
<1>4. PICK set : set = h.set
  OBVIOUS
<1>5. CASE op = "edit"
  BY <1>2, <1>3, <1>4, <1>5 DEF TablePatch, TableClaim, InUse
<1>6. CASE op \in {"seat", "order"}
  BY <1>2, <1>4, <1>6 DEF TablePatch, TableClaim, InUse
<1>7. CASE op = "bill"
  BY <1>2, <1>4, <1>7 DEF TablePatch, TableClaim, InUse
<1>8. CASE op = "pay"
  BY <1>2, <1>3, <1>4, <1>8 DEF TablePatch, TableClaim, InUse, Expected
<1>9. CASE op = "close"
  <2>1. /\ Vacant(u, set)
        /\ \/ old.session.book = NoReservation
           \/ books[old.session.book].status # "SEATED"
    BY <1>4, <1>9 DEF TableClaim
  <2>2. new.status = "AVAILABLE" /\ ("session" \in DOMAIN set => new.session = NoSession)
    BY <1>2, <1>4, <1>9 DEF TablePatch
  <2>3. new.session.id = 0
    BY <1>2, <1>4, <2>1, <2>2 DEF Vacant, NoSession
  <2>4. \A o \in Orders \ hist.strayed :
          orders[o].table = u /\ orders[o].open /\ old.session.id # 0 =>
              orders[o].session # old.session.id
    BY <2>1 DEF Vacant
  <2>5. \A r \in Books : r # NoReservation
    BY DiningAssumption DEF Books
  <2>6. QED
    BY <2>1, <2>2, <2>3, <2>4, <2>5
<1>10. QED
  BY <1>5, <1>6, <1>7, <1>8, <1>9 DEF TablePatch

\* The request after its save of a table, and what it knows then.
LEMMA AfterTable ==
  ASSUME IInv, NEW a \in Actor, NEW p, p = req[a], NEW h, h = Write(a), h.w = "table",
         NEW r, r = Rest(a), p.op # "idle", PlanInv(p.op, p.on, h, r), Grows,
         NEW u \in Table, u = h.t, NEW new, new = Patched(tables[u], h.set),
         tables' = [tables EXCEPT ![u] = new], hist'.crossed = hist.crossed,
         GoesOn(a, IF r = <<>> THEN Idle ELSE [op |-> p.op, on |-> p.on, todo |-> r])
  PROVE  /\ RequestInv(IF r = <<>> THEN Idle ELSE [op |-> p.op, on |-> p.on, todo |-> r])'
         /\ Claims(a)'
<1>1. /\ new = tables'[u] /\ u \in p.on
      /\ new.status = IF "status" \in DOMAIN h.set THEN h.set.status ELSE tables[u].status
      /\ new.session = IF "session" \in DOMAIN h.set THEN h.set.session ELSE tables[u].session
  <2>1. tables \in [Table -> TableDocs]
    BY DEF IInv, DataInv
  <2>2. TablePatch(p.op, h.set) /\ h.t \in p.on
    BY WorksOn
  <2>3. QED
    BY <2>1, <2>2, PatchedTable
<1>2. CASE r = <<>>
  <2>1. req'[a] = Idle
    BY <1>2 DEF GoesOn
  <2>2. Claims(a)'
    BY <2>1 DEF Claims, Alone, Busy
  <2>3. QED
    BY <1>2, <2>2 DEF RequestInv
<1>3. CASE r # <<>> /\ p.op = "seat"
  <2>1. PICK b : b = h.set.session.book
    OBVIOUS
  <2>2. PICK g : g = SetBook(b, "SEATED")
    OBVIOUS
  <2>3. PICK n : n = [op |-> "seat", on |-> p.on, todo |-> <<g>>]
    OBVIOUS
  <2>4. b \in Books \cap p.on /\ r = <<g>> /\ TablePatch("seat", h.set)
    BY <1>3, <2>1, <2>2 DEF PlanInv, BookWrite, TableWrite
  <2>5. b \in Books'
    BY <2>4 DEF Grows
  <2>6. BookPatch("seat", g.set) /\ g.w = "book" /\ g.r = b
    <3>1. DOMAIN g.set = {"status"} /\ g.set.status = "SEATED" /\ g.w = "book" /\ g.r = b
      BY <2>2 DEF SetBook
    <3>2. QED
      BY <3>1 DEF BookPatch, ReservationStatus
  <2>7. BookWrite("seat", p.on, g)'
    BY <2>4, <2>5, <2>6 DEF BookWrite
  <2>8. Head(<<g>>) = g /\ Tail(<<g>>) = <<>> /\ <<g>> # <<>>
    BY Tuples
  <2>9. RequestInv(n)'
    BY <2>3, <2>7, <2>8 DEF RequestInv, PlanInv
  <2>10. req'[a] = n
    BY <1>3, <2>3, <2>4, <2>8 DEF GoesOn
  <2>11. Write(a)' = g /\ Rest(a)' = <<>> /\ req'[a].op = "seat" /\ req'[a].on = p.on
    BY <2>3, <2>8, <2>10 DEF Write, Rest
  <2>12. new.session.book = b /\ new.status \in InUse
    BY <1>1, <2>1, <2>4 DEF TablePatch, InUse
  <2>13. Claims(a)'
    BY <1>1, <2>6, <2>11, <2>12 DEF Claims, TableClaim, BookClaim, HoldClaim, OrderClaim, ReadClaim
  <2>14. QED
    BY <1>3, <2>3, <2>4, <2>8, <2>9, <2>13
<1>4. CASE r # <<>> /\ p.op = "order"
  <2>1. PICK g : g = PlaceAt(u, h.set.session.id)
    OBVIOUS
  <2>2. PICK n : n = [op |-> "order", on |-> p.on, todo |-> <<g>>]
    OBVIOUS
  <2>3. r = <<g>> /\ TablePatch("order", h.set)
    BY <1>3, <1>4, <2>1 DEF PlanInv, BookWrite, TableWrite
  <2>4. g.w = "order" /\ g.t = u /\ g.session = h.set.session.id
    BY <2>1 DEF PlaceAt
  <2>5. h.set.session.id \in 0..MaxSessions
    BY <2>3 DEF TablePatch, Sittings
  <2>6. Head(<<g>>) = g /\ Tail(<<g>>) = <<>> /\ <<g>> # <<>>
    BY Tuples
  <2>7. RequestInv(n)'
    BY <1>1, <2>2, <2>4, <2>5, <2>6 DEF RequestInv, PlanInv
  <2>8. req'[a] = n
    BY <1>4, <2>2, <2>3, <2>6 DEF GoesOn
  <2>9. Write(a)' = g /\ Rest(a)' = <<>> /\ req'[a].op = "order" /\ req'[a].on = p.on
    BY <2>2, <2>6, <2>8 DEF Write, Rest
  <2>10. new.session.id = g.session /\ new.status \in InUse
    BY <1>1, <2>3, <2>4 DEF TablePatch, InUse
  <2>11. Claims(a)'
    BY <1>1, <2>4, <2>9, <2>10 DEF Claims, TableClaim, BookClaim, HoldClaim, OrderClaim, ReadClaim
  <2>12. QED
    BY <1>4, <2>2, <2>3, <2>6, <2>7, <2>11
<1>5. p.op \in {"seat", "order"} \/ r = <<>>
  BY DEF PlanInv, BookWrite
<1>6. QED
  BY <1>2, <1>3, <1>4, <1>5

\* A save of a table keeps the invariant.
LEMMA TableStep ==
  ASSUME IInv, NEW a \in Actor, DoTable(a)
  PROVE  IInv'
<1>1. PICK p : p = req[a]
  OBVIOUS
<1>2. PICK h : h = Write(a)
  OBVIOUS
<1>3. PICK r : r = Rest(a)
  OBVIOUS
<1>4. /\ Busy(a) /\ p.op # "idle" /\ h.w = "table"
      /\ PlanInv(p.op, p.on, h, r)
  BY <1>1, <1>2, <1>3, Opening DEF DoTable
<1>5. h.t \in Table \cap p.on /\ TablePatch(p.op, h.set)
  BY <1>4, WorksOn
<1>6. PICK u \in Table : u = h.t
  BY <1>5
<1>7. PICK old : old = tables[u]
  OBVIOUS
<1>8. PICK new : new = Patched(old, h.set)
  OBVIOUS
<1>9. /\ tables' = [tables EXCEPT ![u] = new]
      /\ hist' =
           IF a \in hist.crossed
           THEN [hist EXCEPT
                   !.disturbed = @ \cup {u},
                   !.strayed = @ \cup {o \in Orders : orders[o].table = u},
                   !.raced = @ \cup ({new.session.book, old.session.book} \ {NoReservation})]
           ELSE [hist EXCEPT !.disturbed =
                   IF p.op \in {"seat", "order", "close"} THEN @ \ {u} ELSE @]
      /\ UNCHANGED <<books, locked, orders>>
      /\ Done(a)
  BY <1>1, <1>2, <1>6, <1>7, <1>8 DEF DoTable
<1> DEFINE n == IF r = <<>> THEN Idle ELSE [op |-> p.op, on |-> p.on, todo |-> r]
<1>10. GoesOn(a, n) /\ UNCHANGED <<sessions, rzp, started, faults>>
  <2>1. RequestsInv
    BY DEF IInv
  <2>2. Continue(a, r)
    BY <1>3, <1>9 DEF Done, Rest
  <2>3. QED
    BY <1>1, <1>4, <2>1, <2>2, Going
<1>11. DataInv /\ TablesInv /\ ReservedInv /\ Claims(a)
  BY DEF IInv
<1>12. hist = [crossed |-> hist.crossed, raced |-> hist.raced,
               unchecked |-> hist.unchecked, edited |-> hist.edited,
               disturbed |-> hist.disturbed, strayed |-> hist.strayed]
  BY <1>11 DEF DataInv
<1>13. /\ hist' = [crossed |-> hist'.crossed, raced |-> hist'.raced,
                   unchecked |-> hist'.unchecked, edited |-> hist'.edited,
                   disturbed |-> hist'.disturbed, strayed |-> hist'.strayed]
       /\ UNCHANGED <<hist.crossed, hist.unchecked, hist.edited>>
       /\ hist.raced \subseteq hist'.raced /\ hist.strayed \subseteq hist'.strayed
       /\ \A t \in Table \ {u} : t \in hist'.disturbed <=> t \in hist.disturbed
       /\ a \in hist.crossed =>
            /\ u \in hist'.disturbed
            /\ \A o \in Orders : orders[o].table = u => o \in hist'.strayed
            /\ \A b \in Books : b \in {new.session.book, old.session.book} => b \in hist'.raced
       /\ a \notin hist.crossed /\ p.op \notin {"seat", "order", "close"} =>
            (u \in hist.disturbed => u \in hist'.disturbed)
  <2>1. \A b \in Books : b # NoReservation
    BY DiningAssumption DEF Books
  <2>2. CASE a \in hist.crossed
    BY <1>9, <1>12, <2>1, <2>2
  <2>3. CASE a \notin hist.crossed
    BY <1>9, <1>12, <2>3
  <2>4. QED
    BY <2>2, <2>3
<1>14. /\ tables' = [t \in Table |-> IF t = u THEN new ELSE tables[t]]
       /\ \A t \in Table \ {u} : tables'[t] = tables[t]
       /\ tables'[u] = new /\ old \in TableDocs /\ new \in TableDocs
  <2>1. tables \in [Table -> TableDocs]
    BY <1>11 DEF DataInv
  <2>2. old \in TableDocs
    BY <1>7, <2>1
  <2>3. new \in TableDocs
    BY <1>5, <1>8, <2>2, PatchedTable
  <2>4. QED
    BY <1>7, <1>9, <2>1, <2>2, <2>3
<1>15. Books' = Books /\ Orders' = Orders /\ books' = books /\ orders' = orders
       /\ \A b : Holds(b)' <=> Holds(b)
  BY <1>9 DEF Books, Orders, Exists, Holds
<1>16. Grows
  BY <1>10, <1>11, <1>13, <1>15 DEF Grows, DataInv
<1>17. RequestInv(n)' /\ Claims(a)'
  <2>1. /\ new = Patched(tables[u], h.set) /\ tables' = [tables EXCEPT ![u] = new]
        /\ hist'.crossed = hist.crossed
    BY <1>7, <1>8, <1>9, <1>13
  <2>2. QED
    BY <1>1, <1>2, <1>3, <1>4, <1>6, <1>10, <1>16, <2>1, AfterTable
<1>18. Keeps(a)
  <2>1. (\A c \in Actor \ {a} : req'[c] = req[c]) /\ hist'.crossed = hist.crossed
    BY <1>10, <1>13 DEF GoesOn
  <2>2. \A t \in Table \ p.on :
          tables'[t] = tables[t] /\ (t \notin hist'.disturbed => t \notin hist.disturbed)
    BY <1>5, <1>6, <1>13, <1>14
  <2>3. QED
    BY <1>1, <1>13, <1>15, <1>16, <2>1, <2>2 DEF Keeps
<1>19. DataInv'
  <2>1. new.session = old.session \/ ("session" \in DOMAIN h.set /\ new.session = h.set.session)
    BY <1>5, <1>8, <1>14, PatchedTable
  <2>2. new.session.id <= sessions
    BY <1>4, <1>6, <1>7, <1>11, <2>1 DEF DataInv, PlanInv, TableWrite, BookWrite
  <2>3. new.session.book \in {NoReservation} \cup Books
    <3>1. CASE new.session = old.session
      BY <1>7, <1>11, <3>1 DEF DataInv
    <3>2. CASE "session" \in DOMAIN h.set /\ new.session = h.set.session
      BY <1>4, <1>5, <3>2 DEF PlanInv, TablePatch, BookWrite, NoSession
    <3>3. QED
      BY <2>1, <3>1, <3>2
  <2>4. QED
    BY <1>9, <1>10, <1>11, <1>13, <1>14, <1>15, <2>2, <2>3 DEF DataInv
<1>20. a \in hist.crossed
       \/ /\ TableClaim(a, p.op, h)
          /\ a \notin hist.crossed
  BY <1>1, <1>2, <1>4, <1>11 DEF Claims, Alone
<1>21. a \in hist.crossed
       \/ /\ \/ u \in hist'.disturbed
             \/ new.session.id # 0 => new.status \in InUse
          /\ \A o \in Orders \ hist.strayed :
               orders[o].table = u /\ orders[o].open /\ orders[o].session # 0
               /\ old.session.id = orders[o].session /\ old.status \in InUse =>
                 new.session.id = old.session.id /\ new.status \in InUse
          /\ \A b \in Books :
               books[b].status = "SEATED" /\ old.session.book = b /\ old.status \in InUse =>
                 new.session.book = old.session.book /\ new.status \in InUse
          /\ new.status = "RESERVED" =>
               \/ old.status = "RESERVED" /\ (u \in hist.disturbed => u \in hist'.disturbed)
               \/ \E b \in Books : books[b].table = u /\ books[b].status = "CONFIRMED"
  <2>1. SUFFICES ASSUME TableClaim(a, p.op, h), a \notin hist.crossed
                 PROVE  <1>21!2
    BY <1>20
  <2>2. QED
    BY <1>4, <1>5, <1>6, <1>7, <1>8, <1>13, <2>1, TableSaved
<1>22. TablesInv'
  BY <1>11, <1>13, <1>14, <1>21 DEF TablesInv
<1>23. ReservedInv'
  <2>1. \A t : Releases(a, t) => FALSE
    BY <1>2, <1>4 DEF Releases
  <2>2. \A t : Reserving(t) => Reserving(t)'
    BY <1>4, <1>10, <1>15, <2>1, KeepsHolders
  <2>3. (\E b \in Books : books[b].table = u /\ books[b].status = "CONFIRMED") => Reserving(u)'
    BY <1>15 DEF Reserving, Terminal
  <2>4. \A t \in Table \ hist'.disturbed : tables'[t].status = "RESERVED" =>
             \/ Reserving(t)'
             \/ t \notin hist.disturbed /\ tables[t].status = "RESERVED"
                /\ (Reserving(t) => Reserving(t)')
    BY <1>7, <1>13, <1>14, <1>21, <2>2, <2>3
  <2>5. QED
    BY <1>10, <1>11, <2>4, StaysReserved
<1>24. NoDoubleReservation'
  BY <1>13, <1>15 DEF IInv, NoDoubleReservation
<1>25. OrdersInTheirSession'
  <2>1. SUFFICES ASSUME NEW o \in Orders \ hist'.strayed,
                        orders[o].open, orders[o].session # 0
                 PROVE  /\ tables'[orders[o].table].session.id = orders[o].session
                        /\ tables'[orders[o].table].status \in InUse
    BY <1>15 DEF OrdersInTheirSession, InUse
  <2>2. /\ tables[orders[o].table].session.id = orders[o].session
        /\ tables[orders[o].table].status \in InUse
    BY <1>13, <2>1 DEF IInv, OrdersInTheirSession, InUse
  <2>3. orders[o].table \in Table
    BY <1>11, <2>1 DEF DataInv, OrderDocs
  <2>4. CASE orders[o].table = u
    BY <1>7, <1>13, <1>14, <1>21, <2>1, <2>2, <2>4
  <2>5. CASE orders[o].table # u
    BY <1>14, <2>2, <2>3, <2>5
  <2>6. QED
    BY <2>4, <2>5
<1>26. SeatedGuestsHaveTable'
  <2>1. SUFFICES ASSUME NEW b \in Books \ (hist'.raced \cup hist'.edited),
                        books[b].status = "SEATED"
                 PROVE  \E t \in Table : tables'[t].session.book = b /\ tables'[t].status \in InUse
    BY <1>15 DEF SeatedGuestsHaveTable, InUse
  <2>2. PICK t \in Table : tables[t].session.book = b /\ tables[t].status \in InUse
    BY <1>13, <2>1 DEF IInv, SeatedGuestsHaveTable, InUse
  <2>3. CASE t = u
    BY <1>7, <1>13, <1>14, <1>21, <2>1, <2>2, <2>3
  <2>4. CASE t # u
    BY <1>14, <2>2, <2>4
  <2>5. QED
    BY <2>3, <2>4
<1>27. QED
  <2>1. n = Idle \/ n.on = req[a].on
    BY <1>1
  <2> HIDE DEF n
  <2>2. QED
    BY <1>4, <1>10, <1>17, <1>18, <1>19, <1>22, <1>23, <1>24, <1>25, <1>26, <2>1, Written

-----------------------------------------------------------------------------
(* DoBook.                                                                  *)

\* The request after its save of a reservation, and what it knows then.
LEMMA AfterBook ==
  ASSUME IInv, NEW a \in Actor, NEW p, p = req[a], NEW h, h = Write(a), h.w = "book",
         NEW r, r = Rest(a), p.op # "idle", PlanInv(p.op, p.on, h, r),
         NEW b \in Books, b = h.r, NEW new, new = Patched(books[b], h.set),
         books' = [books EXCEPT ![b] = new],
         UNCHANGED <<tables, orders, sessions, hist.crossed, hist.edited, hist.strayed>>,
         GoesOn(a, IF r = <<>> THEN Idle ELSE [op |-> p.op, on |-> p.on, todo |-> r])
  PROVE  /\ RequestInv(IF r = <<>> THEN Idle ELSE [op |-> p.op, on |-> p.on, todo |-> r])'
         /\ Claims(a)'
<1>1. /\ new = books'[b] /\ b \in p.on /\ b \in Books' /\ new \in BookDocs
      /\ new.status = IF "status" \in DOMAIN h.set THEN h.set.status ELSE books[b].status
      /\ new.table = books[b].table /\ new.table \in Table
  <2>1. books[b] \in BookDocs /\ books = [x \in Reservation |-> books[x]] /\ b \in Reservation
    BY DEF IInv, DataInv, Books
  <2>2. BookPatch(p.op, h.set) /\ h.r \in p.on
    BY WorksOn
  <2>3. /\ new \in BookDocs /\ new.table = books[b].table
        /\ new.status = IF "status" \in DOMAIN h.set THEN h.set.status ELSE books[b].status
    BY <2>1, <2>2, PatchedBook
  <2>4. new = books'[b]
    BY <2>1
  <2>5. new # Free
    BY <2>3, DiningAssumption
  <2>6. QED
    BY <2>1, <2>2, <2>3, <2>4, <2>5 DEF Books, Exists, BookDocs
<1>2. CASE r = <<>>
  <2>1. req'[a] = Idle
    BY <1>2 DEF GoesOn
  <2>2. Claims(a)'
    BY <2>1 DEF Claims, Alone, Busy
  <2>3. QED
    BY <1>2, <2>2 DEF RequestInv
<1>3. ASSUME NEW g, r = <<g>>
      PROVE  /\ r # <<>> /\ Head(r) = g /\ Tail(r) = <<>>
             /\ req'[a] = [op |-> p.op, on |-> p.on, todo |-> r]
             /\ Write(a)' = g /\ Rest(a)' = <<>> /\ req'[a].op = p.op /\ req'[a].on = p.on
  <2>1. Head(<<g>>) = g /\ Tail(<<g>>) = <<>> /\ <<g>> # <<>>
    BY Tuples
  <2>2. req'[a] = [op |-> p.op, on |-> p.on, todo |-> <<g>>]
    BY <1>3, <2>1 DEF GoesOn
  <2>3. req'[a].todo = <<g>> /\ req'[a].op = p.op /\ req'[a].on = p.on
    BY <2>2
  <2>4. Write(a)' = g /\ Rest(a)' = <<>>
    BY <2>1, <2>3 DEF Write, Rest
  <2>5. QED
    BY <1>3, <2>1, <2>2, <2>3, <2>4
<1>4. CASE r # <<>> /\ p.op = "close"
  <2>1. PICK g : g = Head(r)
    OBVIOUS
  <2>2. TableWrite("close", p.on, g) /\ r = <<g>>
    BY <1>4, <2>1, WorksOn
  <2>3. TableWrite("close", p.on, g)'
    BY <2>2 DEF TableWrite
  <2>4. PICK n : n = [op |-> p.op, on |-> p.on, todo |-> r]
    OBVIOUS
  <2>5. RequestInv(n)'
    BY <1>3, <1>4, <2>2, <2>3, <2>4 DEF RequestInv, PlanInv
  <2>6. Alone(a)' =>
           /\ Vacant(g.t, g.set)' /\ tables'[g.t].session.book = b
           /\ b \in p.on /\ books'[b].status # "SEATED"
    <3>1. SUFFICES ASSUME Alone(a)' PROVE Vacant(g.t, g.set) /\ tables[g.t].session.book = b
                                          /\ books'[b].status # "SEATED"
      BY <1>1 DEF Vacant, Orders
    <3>2. Alone(a)
      BY <3>1 DEF Alone, Busy, Idle
    <3>3. BookClaim(a, p.op, h, r)
      BY <3>2 DEF IInv, Claims
    <3>4. h.set.status = "COMPLETED" /\ "status" \in DOMAIN h.set
      BY <1>4, WorksOn DEF BookPatch
    <3>5. QED
      BY <1>1, <1>4, <2>1, <3>3, <3>4 DEF BookClaim
  <2>7. g.w = "table" /\ g.t \in Table
    BY <2>2 DEF TableWrite
  <2>8. Claims(a)'
    <3>1. /\ Write(a)' = g /\ Rest(a)' = <<>> /\ req'[a].op = "close" /\ req'[a].on = p.on
      BY <1>3, <1>4, <2>2
    <3>2. QED
      BY <2>6, <2>7, <3>1 DEF Claims, TableClaim, BookClaim, HoldClaim, OrderClaim, ReadClaim
  <2>9. QED
    BY <1>4, <2>4, <2>5, <2>8
<1>5. CASE r # <<>> /\ p.op = "pay"
  <2>1. PICK u : u = books[b].table
    OBVIOUS
  <2>2. PICK g : g = ReserveIfFree(u)
    OBVIOUS
  <2>3. u \in p.on /\ r = <<g>>
    BY <1>5, <2>1, <2>2 DEF PlanInv, TableWrite
  <2>4. g.w = "reserve" /\ g.t = u /\ u \in Table
    BY <1>1, <2>1, <2>2 DEF ReserveIfFree
  <2>5. PICK n : n = [op |-> p.op, on |-> p.on, todo |-> r]
    OBVIOUS
  <2>6. RequestInv(n)'
    BY <1>3, <1>5, <2>3, <2>4, <2>5 DEF RequestInv, PlanInv
  <2>7. Alone(a)' => Expected(a, u)'
    <3>1. SUFFICES ASSUME Alone(a)' PROVE Expected(a, u)'
      OBVIOUS
    <3>2. Alone(a)
      BY <3>1 DEF Alone, Busy, Idle
    <3>3. BookClaim(a, p.op, h, r)
      BY <3>2 DEF IInv, Claims
    <3>4. "status" \in DOMAIN h.set => h.set.status = "CONFIRMED"
      BY <1>5, WorksOn DEF BookPatch
    <3>5. new.status = "CONFIRMED"
      BY <1>1, <1>5, <3>3, <3>4 DEF BookClaim
    <3>6. req'[a].on = p.on
      BY <1>3, <2>3
    <3>7. QED
      BY <1>1, <2>1, <3>5, <3>6 DEF Expected
  <2>8. Claims(a)'
    BY <1>3, <2>3, <2>4, <2>7 DEF Claims, TableClaim, BookClaim, HoldClaim, OrderClaim, ReadClaim
  <2>9. QED
    BY <1>5, <2>5, <2>6, <2>8
<1>6. CASE r # <<>> /\ p.op = "update"
  <2>1. PICK u : u = books[b].table
    OBVIOUS
  <2>2. PICK g : g = ReleaseIfLast(u, b)
    OBVIOUS
  <2>3. u \in p.on /\ r = <<g>>
    BY <1>6, <2>1, <2>2 DEF PlanInv, TableWrite
  <2>4. g.w = "release" /\ g.t = u /\ u \in Table
    BY <1>1, <2>1, <2>2 DEF ReleaseIfLast
  <2>5. PICK n : n = [op |-> p.op, on |-> p.on, todo |-> r]
    OBVIOUS
  <2>6. RequestInv(n)'
    BY <1>3, <1>6, <2>3, <2>4, <2>5 DEF RequestInv, PlanInv
  <2>7. Claims(a)'
    BY <1>3, <2>3, <2>4 DEF Claims, TableClaim, BookClaim, HoldClaim, OrderClaim, ReadClaim
  <2>8. QED
    BY <1>6, <2>5, <2>6, <2>7
<1>7. p.op \in {"close", "pay", "update"} \/ r = <<>>
  BY DEF PlanInv, TableWrite
<1>8. QED
  BY <1>2, <1>4, <1>5, <1>6, <1>7

\* A request that goes on with one step.
LEMMA NextUp ==
  ASSUME NEW a \in Actor, NEW p, NEW g,
         GoesOn(a, [op |-> p.op, on |-> p.on, todo |-> <<g>>])
  PROVE  /\ Write(a)' = g /\ Rest(a)' = <<>> /\ req'[a].op = p.op /\ req'[a].on = p.on
         /\ Busy(a)' <=> [op |-> p.op, on |-> p.on, todo |-> <<g>>] # Idle
<1>1. req'[a] = [op |-> p.op, on |-> p.on, todo |-> <<g>>]
  BY DEF GoesOn
<1>2. req'[a].todo = <<g>> /\ req'[a].op = p.op /\ req'[a].on = p.on
  BY <1>1
<1>3. Head(<<g>>) = g /\ Tail(<<g>>) = <<>>
  BY Tuples
<1>4. Write(a)' = g /\ Rest(a)' = <<>>
  BY <1>2, <1>3 DEF Write, Rest
<1>5. QED
  BY <1>1, <1>2, <1>4 DEF Busy

\* A save of a reservation keeps the invariant.
LEMMA BookStep ==
  ASSUME IInv, NEW a \in Actor, DoBook(a)
  PROVE  IInv'
<1>1. PICK p : p = req[a]
  OBVIOUS
<1>2. PICK h : h = Write(a)
  OBVIOUS
<1>3. PICK r : r = Rest(a)
  OBVIOUS
<1>4. /\ Busy(a) /\ p.op # "idle" /\ h.w = "book"
      /\ PlanInv(p.op, p.on, h, r)
  BY <1>1, <1>2, <1>3, Opening DEF DoBook
<1>5. h.r \in Books \cap p.on /\ BookPatch(p.op, h.set)
  BY <1>4, WorksOn
<1>6. PICK b \in Books : b = h.r
  BY <1>5
<1>7. PICK old : old = books[b]
  OBVIOUS
<1>8. PICK new : new = Patched(old, h.set)
  OBVIOUS
<1> DEFINE revived == /\ ~Holds(b)
                      /\ \/ new.status \in {"CONFIRMED", "SEATED", "CHECKED_IN"}
                         \/ new.status = "PENDING_PAYMENT" /\ b \in locked
<1>9. /\ books' = [books EXCEPT ![b] = new]
      /\ hist' = [hist EXCEPT
                    !.raced = IF a \in hist.crossed THEN @ \cup {b} ELSE @,
                    !.unchecked = IF revived THEN @ \cup {b} ELSE @]
      /\ UNCHANGED <<tables, locked, orders>>
      /\ Done(a)
  BY <1>2, <1>6, <1>7, <1>8 DEF DoBook
<1> DEFINE n == IF r = <<>> THEN Idle ELSE [op |-> p.op, on |-> p.on, todo |-> r]
<1>10. GoesOn(a, n) /\ UNCHANGED <<sessions, rzp, started, faults>>
  <2>1. RequestsInv
    BY DEF IInv
  <2>2. Continue(a, r)
    BY <1>3, <1>9 DEF Done, Rest
  <2>3. QED
    BY <1>1, <1>4, <2>1, <2>2, Going
<1>11. DataInv /\ TablesInv /\ ReservedInv /\ Claims(a)
  BY DEF IInv
<1>12. hist = [crossed |-> hist.crossed, raced |-> hist.raced,
               unchecked |-> hist.unchecked, edited |-> hist.edited,
               disturbed |-> hist.disturbed, strayed |-> hist.strayed]
  BY <1>11 DEF DataInv
<1>13. /\ hist' = [crossed |-> hist'.crossed, raced |-> hist'.raced,
                   unchecked |-> hist'.unchecked, edited |-> hist'.edited,
                   disturbed |-> hist'.disturbed, strayed |-> hist'.strayed]
       /\ UNCHANGED <<hist.crossed, hist.edited, hist.disturbed, hist.strayed>>
       /\ hist.raced \subseteq hist'.raced /\ hist.unchecked \subseteq hist'.unchecked
       /\ a \in hist.crossed => b \in hist'.raced
       /\ revived => b \in hist'.unchecked
  <2> HIDE DEF revived
  <2>1. QED
    BY <1>9, <1>12
<1>14. /\ books' = [x \in Reservation |-> IF x = b THEN new ELSE books[x]]
       /\ \A x \in Reservation \ {b} : books'[x] = books[x]
       /\ books'[b] = new /\ old \in BookDocs /\ new \in BookDocs
       /\ new.table = old.table /\ new.slot = old.slot
       /\ new.status = IF "status" \in DOMAIN h.set THEN h.set.status ELSE old.status
  <2>1. books = [x \in Reservation |-> books[x]] /\ b \in Reservation
    BY <1>11 DEF DataInv, Books
  <2>2. old \in BookDocs
    BY <1>7, <1>11 DEF DataInv
  <2>3. QED
    BY <1>5, <1>8, <1>9, <2>1, <2>2, PatchedBook
<1>15. /\ Books' = Books /\ Orders' = Orders /\ orders' = orders
       /\ \A x \in Books \ {b} : Holds(x)' <=> Holds(x)
       /\ Holds(b)' /\ ~revived => Holds(b)
  <2>1. new # Free /\ b \in Reservation
    BY <1>14, DiningAssumption DEF Books
  <2>2. Books' = Books
    BY <1>7, <1>14, <2>1 DEF Books, Exists
  <2>3. Orders' = Orders /\ orders' = orders /\ locked' = locked
    BY <1>9 DEF Orders
  <2>4. \A x \in Books \ {b} : Holds(x)' <=> Holds(x)
    BY <1>14, <2>3 DEF Holds, Books
  <2>5. Holds(b)' /\ ~revived => Holds(b)
    BY <1>14, <2>3 DEF Holds
  <2>6. QED
    BY <2>2, <2>3, <2>4, <2>5
<1>16. Grows
  BY <1>7, <1>10, <1>11, <1>13, <1>14, <1>15 DEF Grows, DataInv, Books
<1>17. RequestInv(n)' /\ Claims(a)'
  <2>1. /\ new = Patched(books[b], h.set) /\ books' = [books EXCEPT ![b] = new]
        /\ UNCHANGED <<tables, orders, sessions, hist.crossed, hist.edited, hist.strayed>>
    BY <1>7, <1>8, <1>9, <1>10, <1>13
  <2>2. QED
    BY <1>1, <1>2, <1>3, <1>4, <1>6, <1>10, <2>1, AfterBook
<1>18. Keeps(a)
  <2>1. (\A c \in Actor \ {a} : req'[c] = req[c]) /\ hist'.crossed = hist.crossed
    BY <1>10, <1>13 DEF GoesOn
  <2>2. \A t \in Table \ p.on :
          tables'[t] = tables[t] /\ (t \notin hist'.disturbed => t \notin hist.disturbed)
    BY <1>9, <1>13
  <2>3. \A x \in Books \ p.on : books'[x] = books[x]
    BY <1>5, <1>6, <1>14 DEF Books
  <2>4. \A x \in Books' \ hist'.unchecked : Holds(x)' => x \in Books \ hist.unchecked /\ Holds(x)
    <3> HIDE DEF revived
    <3>1. QED
      BY <1>13, <1>15
  <2>5. QED
    BY <1>1, <1>15, <1>16, <2>1, <2>2, <2>3, <2>4 DEF Keeps
<1>19. DataInv'
  <2>1. \A x \in Books' : books'[x] \in BookDocs
    BY <1>11, <1>14, <1>15 DEF DataInv, Books
  <2>2. QED
    BY <1>9, <1>10, <1>11, <1>13, <1>14, <1>15, <2>1 DEF DataInv
<1>20. TablesInv'
  BY <1>9, <1>11, <1>13 DEF TablesInv
<1>21. ReservedInv'
  <2>1. ASSUME NEW t \in Table, Reserving(t) PROVE Reserving(t)'
    <3>1. CASE \E c \in Actor : Releases(c, t)
      <4>1. PICK c \in Actor : Releases(c, t)
        BY <3>1
      <4>2. c # a
        BY <1>2, <1>4, <4>1 DEF Releases
      <4>3. Releases(c, t)'
        BY <1>10, <4>1, <4>2 DEF GoesOn, Releases, Busy, Write
      <4>4. QED
        BY <4>3 DEF Reserving
    <3>2. CASE \E x \in Books : books[x].table = t /\ books[x].status \notin Terminal
      <4>1. PICK x \in Books : books[x].table = t /\ books[x].status \notin Terminal
        BY <3>2
      <4>2. CASE x # b \/ new.status \notin Terminal
        <5>1. books'[x].table = t /\ books'[x].status \notin Terminal
          BY <1>7, <1>14, <4>1, <4>2 DEF Books
        <5>2. QED
          BY <1>15, <5>1 DEF Reserving
      <4>3. CASE x = b /\ new.status \in Terminal
        <5>1. "status" \in DOMAIN h.set /\ h.set.status \in Terminal
          BY <1>7, <1>14, <4>1, <4>3
        <5>2. p.op = "update" /\ r # <<>>
          <6>1. h.set.status \in {"CANCELLED", "NO_SHOW", "EXPIRED"}
            BY <5>1 DEF Terminal
          <6>2. p.op = "update"
            BY <1>5, <5>1, <6>1 DEF BookPatch
          <6>3. QED
            BY <1>4, <5>1, <6>2, Tuples DEF PlanInv, TableWrite
        <5>3. PICK g : g = ReleaseIfLast(books[b].table, b)
          OBVIOUS
        <5>4. r = <<g>>
          BY <1>4, <1>6, <5>2, <5>3 DEF PlanInv, TableWrite, BookWrite
        <5>5. g.w = "release" /\ g.t = t
          BY <4>1, <4>3, <5>3 DEF ReleaseIfLast
        <5>6. GoesOn(a, [op |-> p.op, on |-> p.on, todo |-> <<g>>])
          BY <1>10, <5>2, <5>4
        <5>7. Write(a)' = g /\ (Busy(a)' <=> [op |-> p.op, on |-> p.on, todo |-> <<g>>] # Idle)
          BY <5>6, NextUp
        <5>8. [op |-> p.op, on |-> p.on, todo |-> <<g>>].op # Idle.op
          BY <5>2 DEF Idle
        <5>9. Releases(a, t)'
          BY <5>5, <5>7, <5>8 DEF Releases
        <5>10. QED
          BY <5>9 DEF Reserving
      <4>4. QED
        BY <4>2, <4>3
    <3>3. QED
      BY <2>1, <3>1, <3>2 DEF Reserving
  <2>2. QED
    BY <1>9, <1>10, <1>11, <1>13, <2>1, StaysReserved
<1>22. NoDoubleReservation'
  <2>1. SUFFICES ASSUME NEW x \in Books, NEW y \in Books, x # y, Holds(x)', Holds(y)',
                        books'[x].table = books'[y].table, books'[x].slot \cap books'[y].slot # {},
                        {x, y} \cap (hist'.raced \cup hist'.unchecked) = {}
                 PROVE  FALSE
    BY <1>15 DEF NoDoubleReservation
  <2>2. Holds(x) /\ Holds(y)
    <3> HIDE DEF revived
    <3>1. QED
      BY <1>13, <1>15, <2>1
  <2>3. \A z \in Books : books'[z].table = books[z].table /\ books'[z].slot = books[z].slot
    BY <1>16 DEF Grows
  <2>4. QED
    BY <1>13, <2>1, <2>2, <2>3 DEF IInv, NoDoubleReservation
<1>23. OrdersInTheirSession'
  BY <1>9, <1>13, <1>15 DEF IInv, OrdersInTheirSession
<1>24. SeatedGuestsHaveTable'
  <2>1. SUFFICES ASSUME NEW x \in Books \ (hist'.raced \cup hist'.edited),
                        books'[x].status = "SEATED"
                 PROVE  \E t \in Table : tables[t].session.book = x /\ tables[t].status \in InUse
    BY <1>9, <1>15 DEF SeatedGuestsHaveTable, InUse
  <2>2. books[x].status = "SEATED" =>
          \E t \in Table : tables[t].session.book = x /\ tables[t].status \in InUse
    BY <1>13, <2>1 DEF IInv, SeatedGuestsHaveTable, InUse
  <2>3. CASE x # b \/ "status" \notin DOMAIN h.set
    BY <1>7, <1>14, <2>1, <2>2, <2>3 DEF Books
  <2>4. CASE x = b /\ "status" \in DOMAIN h.set
    <3>1. h.set.status = "SEATED" /\ a \notin hist.crossed /\ b \notin hist.edited
      BY <1>13, <1>14, <2>1, <2>4
    <3>2. p.op = "seat"
      BY <1>4, <1>5, <1>6, <2>4, <3>1 DEF PlanInv, TableWrite, BookPatch
    <3>3. BookClaim(a, p.op, h, r)
      BY <1>1, <1>2, <1>3, <1>4, <1>11, <3>1 DEF Claims, Alone
    <3>4. QED
      BY <1>4, <1>6, <2>4, <3>2, <3>3 DEF BookClaim
  <2>5. QED
    BY <2>3, <2>4
<1>25. QED
  <2>1. n = Idle \/ n.on = req[a].on
    BY <1>1
  <2> HIDE DEF n
  <2>2. QED
    BY <1>4, <1>10, <1>17, <1>18, <1>19, <1>20, <1>21, <1>22, <1>23, <1>24, <2>1, Written

-----------------------------------------------------------------------------
(* Steps that only look.                                                    *)

\* A step that writes nothing keeps the invariant if it keeps the request's
\* own part of it.
LEMMA Looking ==
  ASSUME IInv, NEW a \in Actor, Busy(a), NEW n, GoesOn(a, n), RequestInv(n)',
         n = Idle \/ n.on = req[a].on, Claims(a)',
         UNCHANGED <<tables, books, locked, orders, hist, sessions, faults>>,
         \A t : Releases(a, t) =>
             Reserving(t)' \/ (n # Idle /\ Head(n.todo).w = "free" /\ Head(n.todo).t = t)
  PROVE  IInv'
<1>1. DataInv /\ TablesInv /\ ReservedInv
  BY DEF IInv
<1>2. Books' = Books /\ Orders' = Orders /\ \A b : Holds(b)' <=> Holds(b)
  BY DEF Books, Orders, Exists, Holds
<1>3. Grows
  BY <1>1, <1>2 DEF DataInv, Grows
<1>4. Keeps(a)
  BY <1>2, <1>3 DEF Keeps, GoesOn
<1>5. DataInv'
  BY <1>1, <1>2 DEF DataInv
<1>6. TablesInv'
  BY <1>1 DEF TablesInv
<1>7. ReservedInv'
  <2>1. \A t : Reserving(t) => Reserving(t)'
    BY <1>2, KeepsHolders
  <2>2. QED
    BY <1>1, <2>1, StaysReserved
<1>8. NoDoubleReservation'
  BY <1>2 DEF IInv, NoDoubleReservation
<1>9. OrdersInTheirSession'
  BY <1>2 DEF IInv, OrdersInTheirSession
<1>10. SeatedGuestsHaveTable'
  BY <1>2 DEF IInv, SeatedGuestsHaveTable
<1>11. QED
  BY <1>4, <1>5, <1>6, <1>7, <1>8, <1>9, <1>10, Written

\* A request that is given up knows nothing.
LEMMA GivenUp ==
  ASSUME NEW a \in Actor, GoesOn(a, Idle)
  PROVE  RequestInv(Idle)' /\ Claims(a)'
<1>1. req'[a] = Idle
  BY DEF GoesOn
<1>2. QED
  BY <1>1 DEF RequestInv, Claims, Alone, Busy

\* An order refused.
LEMMA RefusedStep ==
  ASSUME IInv, NEW a \in Actor, OrderRefused(a)
  PROVE  IInv'
<1>1. PICK p : p = req[a]
  OBVIOUS
<1>2. Busy(a) /\ Write(a).w = "order" /\ RequestsInv
  BY Opening DEF OrderRefused, IInv
<1>3. PICK more : more = <<>>
  OBVIOUS
<1>4. Continue(a, more) /\ UNCHANGED <<tables, books, locked, orders, hist>>
  BY <1>3 DEF OrderRefused
<1>5. /\ GoesOn(a, IF more = <<>> THEN Idle ELSE [op |-> p.op, on |-> p.on, todo |-> more])
      /\ UNCHANGED <<sessions, rzp, started, faults>>
  BY <1>1, <1>2, <1>4, Going
<1>6. GoesOn(a, Idle)
  BY <1>3, <1>5
<1>7. RequestInv(Idle)' /\ Claims(a)'
  BY <1>6, GivenUp
<1>8. \A t : ~Releases(a, t)
  BY <1>2 DEF Releases
<1>9. UNCHANGED <<tables, books, locked, orders, hist, sessions, faults>>
  BY <1>4, <1>5
<1>10. QED
  BY <1>2, <1>6, <1>7, <1>8, <1>9, Looking

\* The table that was found free is marked reserved.
LEMMA ReserveStep ==
  ASSUME IInv, NEW a \in Actor, DoReserve(a)
  PROVE  IInv'
<1>1. PICK p : p = req[a]
  OBVIOUS
<1>2. PICK h : h = Write(a)
  OBVIOUS
<1>3. /\ Busy(a) /\ h.w = "reserve" /\ RequestsInv /\ p.op # "idle"
      /\ PlanInv(p.op, p.on, h, Rest(a))
  BY <1>1, <1>2, Opening DEF DoReserve, IInv
<1>4. p.op = "pay" /\ h.t \in Table \cap p.on
  BY <1>3 DEF PlanInv, TableWrite, BookWrite
<1>5. PICK u \in Table : u = h.t
  BY <1>4
<1>6. PICK g : g = SetTable(u, "RESERVED")
  OBVIOUS
<1>7. /\ Continue(a, IF tables[u].status = "AVAILABLE" THEN <<g>> ELSE <<>>)
      /\ UNCHANGED <<tables, books, locked, orders, hist>>
  BY <1>2, <1>5, <1>6 DEF DoReserve
<1>8. \A t : ~Releases(a, t)
  BY <1>2, <1>3 DEF Releases
<1>9. CASE tables[u].status # "AVAILABLE"
  <2>1. PICK more : more = <<>>
    OBVIOUS
  <2>2. Continue(a, more)
    BY <1>7, <1>9, <2>1
  <2>3. /\ GoesOn(a, IF more = <<>> THEN Idle ELSE [op |-> p.op, on |-> p.on, todo |-> more])
        /\ UNCHANGED <<sessions, rzp, started, faults>>
    BY <1>1, <1>3, <2>2, Going
  <2>4. GoesOn(a, Idle)
    BY <2>1, <2>3
  <2>5. RequestInv(Idle)' /\ Claims(a)'
    BY <2>4, GivenUp
  <2>6. UNCHANGED <<tables, books, locked, orders, hist, sessions, faults>>
    BY <1>7, <2>3
  <2>7. QED
    BY <1>3, <1>8, <2>4, <2>5, <2>6, Looking
<1>10. CASE tables[u].status = "AVAILABLE"
  <2>1. PICK more : more = <<g>>
    OBVIOUS
  <2>2. Continue(a, more) /\ more # <<>>
    BY <1>7, <1>10, <2>1, Tuples
  <2>3. /\ GoesOn(a, IF more = <<>> THEN Idle ELSE [op |-> p.op, on |-> p.on, todo |-> more])
        /\ UNCHANGED <<sessions, rzp, started, faults>>
    BY <1>1, <1>3, <2>2, Going
  <2>4. PICK n : n = [op |-> p.op, on |-> p.on, todo |-> <<g>>]
    OBVIOUS
  <2>5. GoesOn(a, n) /\ GoesOn(a, [op |-> p.op, on |-> p.on, todo |-> <<g>>])
    BY <2>1, <2>2, <2>3, <2>4
  <2>6. Write(a)' = g /\ Rest(a)' = <<>> /\ req'[a].op = p.op /\ req'[a].on = p.on
    BY <2>5, NextUp
  <2>7. g.w = "table" /\ g.t = u /\ DOMAIN g.set = {"status"} /\ g.set.status = "RESERVED"
    BY <1>6 DEF SetTable
  <2>8. TableWrite("pay", p.on, g)'
    BY <1>4, <1>5, <2>7 DEF TableWrite, TablePatch, TableStatus
  <2>9. RequestInv(n)'
    <3>1. Head(<<g>>) = g /\ Tail(<<g>>) = <<>> /\ <<g>> # <<>>
      BY Tuples
    <3>2. QED
      BY <1>3, <1>4, <2>4, <2>8, <3>1 DEF RequestInv, PlanInv
  <2>10. Alone(a)' => Expected(a, u)'
    <3>1. SUFFICES ASSUME Alone(a)' PROVE Expected(a, u)'
      OBVIOUS
    <3>2. Alone(a)
      BY <1>3, <1>7, <3>1 DEF Alone
    <3>3. Expected(a, u)
      BY <1>2, <1>3, <1>5, <3>2 DEF IInv, Claims, ReadClaim
    <3>4. QED
      BY <1>1, <1>7, <2>6, <3>3 DEF Expected, Books, Exists
  <2>11. Claims(a)'
    BY <1>4, <1>7, <1>10, <2>6, <2>7, <2>10
       DEF Claims, TableClaim, BookClaim, HoldClaim, OrderClaim, ReadClaim
  <2>12. n.on = req[a].on
    BY <1>1, <2>4
  <2>13. UNCHANGED <<tables, books, locked, orders, hist, sessions, faults>>
    BY <1>7, <2>3
  <2>14. QED
    BY <1>3, <1>8, <2>5, <2>9, <2>11, <2>12, <2>13, Looking
<1>11. QED
  BY <1>9, <1>10

\* Whether another reservation waits for the table is looked up.
LEMMA ReleaseStep ==
  ASSUME IInv, NEW a \in Actor, DoRelease(a)
  PROVE  IInv'
<1>1. PICK p : p = req[a]
  OBVIOUS
<1>2. PICK h : h = Write(a)
  OBVIOUS
<1>3. /\ Busy(a) /\ h.w = "release" /\ RequestsInv /\ p.op # "idle"
      /\ PlanInv(p.op, p.on, h, Rest(a))
  BY <1>1, <1>2, Opening DEF DoRelease, IInv
<1>4. p.op = "update" /\ h.t \in Table \cap p.on
  BY <1>3 DEF PlanInv, TableWrite, BookWrite
<1>5. PICK u \in Table : u = h.t
  BY <1>4
<1>6. PICK g : g = [w |-> "free", t |-> u]
  OBVIOUS
<1>7. PICK others : others = {r \in Books \ {h.r} : /\ books[r].table = u
                                /\ books[r].status \in {"PENDING_PAYMENT", "CONFIRMED"}}
  OBVIOUS
<1>8. /\ Continue(a, IF others = {} THEN <<g>> ELSE <<>>)
      /\ UNCHANGED <<tables, books, locked, orders, hist>>
  BY <1>2, <1>5, <1>6, <1>7 DEF DoRelease
<1>9. \A t : Releases(a, t) => t = u
  BY <1>2, <1>5 DEF Releases
<1>10. CASE others # {}
  <2>1. PICK more : more = <<>>
    OBVIOUS
  <2>2. Continue(a, more)
    BY <1>8, <1>10, <2>1
  <2>3. /\ GoesOn(a, IF more = <<>> THEN Idle ELSE [op |-> p.op, on |-> p.on, todo |-> more])
        /\ UNCHANGED <<sessions, rzp, started, faults>>
    BY <1>1, <1>3, <2>2, Going
  <2>4. GoesOn(a, Idle)
    BY <2>1, <2>3
  <2>5. RequestInv(Idle)' /\ Claims(a)'
    BY <2>4, GivenUp
  <2>6. UNCHANGED <<tables, books, locked, orders, hist, sessions, faults>>
    BY <1>8, <2>3
  <2>7. Reserving(u)'
    <3>1. \E r \in Books : books[r].table = u /\ books[r].status \notin Terminal
      BY <1>7, <1>10 DEF Terminal
    <3>2. QED
      BY <1>8, <3>1 DEF Reserving, Books, Exists
  <2>8. \A t : Releases(a, t) => Reserving(t)'
    BY <1>9, <2>7
  <2>9. QED
    BY <1>3, <2>4, <2>5, <2>6, <2>8, Looking
<1>11. CASE others = {}
  <2>1. PICK more : more = <<g>>
    OBVIOUS
  <2>2. Continue(a, more) /\ more # <<>>
    BY <1>8, <1>11, <2>1, Tuples
  <2>3. /\ GoesOn(a, IF more = <<>> THEN Idle ELSE [op |-> p.op, on |-> p.on, todo |-> more])
        /\ UNCHANGED <<sessions, rzp, started, faults>>
    BY <1>1, <1>3, <2>2, Going
  <2>4. PICK n : n = [op |-> p.op, on |-> p.on, todo |-> <<g>>]
    OBVIOUS
  <2>5. GoesOn(a, n) /\ GoesOn(a, [op |-> p.op, on |-> p.on, todo |-> <<g>>])
    BY <2>1, <2>2, <2>3, <2>4
  <2>6. Write(a)' = g /\ Rest(a)' = <<>> /\ req'[a].op = p.op /\ req'[a].on = p.on
    BY <2>5, NextUp
  <2>7. g.w = "free" /\ g.t = u
    BY <1>6
  <2>8. Head(<<g>>) = g /\ Tail(<<g>>) = <<>> /\ <<g>> # <<>>
    BY Tuples
  <2>9. RequestInv(n)'
    BY <1>3, <1>4, <1>5, <2>4, <2>7, <2>8 DEF RequestInv, PlanInv
  <2>10. Claims(a)'
    BY <2>6, <2>7 DEF Claims, TableClaim, BookClaim, HoldClaim, OrderClaim, ReadClaim
  <2>11. n.on = req[a].on /\ n # Idle /\ Head(n.todo).w = "free" /\ Head(n.todo).t = u
    <3>1. n.op # "idle" /\ n.on = req[a].on /\ n.todo = <<g>>
      BY <1>1, <1>3, <2>4
    <3>2. QED
      BY <2>7, <2>8, <3>1 DEF Idle
  <2>12. UNCHANGED <<tables, books, locked, orders, hist, sessions, faults>>
    BY <1>8, <2>3
  <2>13. \A t : Releases(a, t) => (n # Idle /\ Head(n.todo).w = "free" /\ Head(n.todo).t = t)
    BY <1>9, <2>11
  <2>14. QED
    BY <1>3, <2>5, <2>9, <2>10, <2>11, <2>12, <2>13, Looking
<1>12. QED
  BY <1>10, <1>11

\* The orders of the session are looked up before the table is closed.
LEMMA CloseStep ==
  ASSUME IInv, NEW a \in Actor, DoClose(a)
  PROVE  IInv'
<1>1. PICK p : p = req[a]
  OBVIOUS
<1>2. PICK h : h = Write(a)
  OBVIOUS
<1>3. /\ Busy(a) /\ h.w = "close" /\ RequestsInv /\ DataInv /\ p.op # "idle"
      /\ PlanInv(p.op, p.on, h, Rest(a))
  BY <1>1, <1>2, Opening DEF DoClose, IInv
<1>4. PICK copy : copy = h.copy
  OBVIOUS
<1>5. /\ p.op = "close" /\ h.t \in Table \cap p.on /\ copy \in TableDocs
      /\ copy.session.book \in {NoReservation} \cup (Books \cap p.on)
      /\ copy.status # "AVAILABLE"
  BY <1>3, <1>4 DEF PlanInv, TableWrite, BookWrite
<1>6. PICK u \in Table : u = h.t
  BY <1>5
<1>7. PICK b : b = copy.session.book
  OBVIOUS
<1>8. PICK s : s = SetBook(b, "COMPLETED")
  OBVIOUS
<1>9. PICK to : to = [copy EXCEPT !.status = "AVAILABLE", !.session = NoSession]
  OBVIOUS
<1>10. PICK g : g = [w |-> "table", t |-> u, set |-> Changes(copy, to)]
  OBVIOUS
<1>11. PICK list : list = IF b = NoReservation THEN <<g>> ELSE <<s, g>>
  OBVIOUS
<1>12. Closing(u, copy) = list
  <2>1. <<>> \o <<g>> = <<g>> /\ <<s>> \o <<g>> = <<s, g>>
    BY Joins
  <2>2. QED
    BY <1>7, <1>8, <1>9, <1>10, <1>11, <2>1 DEF Closing
<1>13. /\ Continue(a, IF copy.session.id # 0 /\ OpenOrders(copy.session.id) # {}
                      THEN <<>> ELSE list)
       /\ UNCHANGED <<tables, books, locked, orders, hist>>
  BY <1>2, <1>4, <1>6, <1>12 DEF DoClose
<1>14. \A t : ~Releases(a, t)
  BY <1>2, <1>3 DEF Releases
<1>15. CASE copy.session.id # 0 /\ OpenOrders(copy.session.id) # {}
  <2>1. PICK more : more = <<>>
    OBVIOUS
  <2>2. Continue(a, more)
    BY <1>13, <1>15, <2>1
  <2>3. /\ GoesOn(a, IF more = <<>> THEN Idle ELSE [op |-> p.op, on |-> p.on, todo |-> more])
        /\ UNCHANGED <<sessions, rzp, started, faults>>
    BY <1>1, <1>3, <2>2, Going
  <2>4. GoesOn(a, Idle)
    BY <2>1, <2>3
  <2>5. RequestInv(Idle)' /\ Claims(a)'
    BY <2>4, GivenUp
  <2>6. UNCHANGED <<tables, books, locked, orders, hist, sessions, faults>>
    BY <1>13, <2>3
  <2>7. QED
    BY <1>3, <1>14, <2>4, <2>5, <2>6, Looking
<1>16. CASE copy.session.id = 0 \/ OpenOrders(copy.session.id) = {}
  <2>1. list # <<>> /\ Continue(a, list)
    BY <1>11, <1>13, <1>16, Tuples
  <2>2. /\ GoesOn(a, IF list = <<>> THEN Idle ELSE [op |-> p.op, on |-> p.on, todo |-> list])
        /\ UNCHANGED <<sessions, rzp, started, faults>>
    BY <1>1, <1>3, <2>1, Going
  <2>3. PICK n : n = [op |-> p.op, on |-> p.on, todo |-> list]
    OBVIOUS
  <2>4. GoesOn(a, n) /\ n.op = "close" /\ n.on = p.on /\ n.todo = list
    BY <1>5, <2>1, <2>2, <2>3
  <2>5. UNCHANGED <<tables, books, locked, orders, hist, sessions, faults>>
    BY <1>13, <2>2
  <2>6. /\ to \in TableDocs /\ to.status = "AVAILABLE" /\ to.session = NoSession
        /\ to.active = copy.active
    <3>1. /\ copy = [status |-> copy.status, active |-> copy.active, session |-> copy.session]
          /\ copy.active \in BOOLEAN
      BY <1>5 DEF TableDocs
    <3>2. to = [status |-> "AVAILABLE", active |-> copy.active, session |-> NoSession]
      BY <1>9, <3>1
    <3>3. NoSession \in Sittings
      BY DiningAssumption DEF NoSession, Sittings
    <3>4. QED
      BY <3>1, <3>2, <3>3 DEF TableDocs, TableStatus
  <2>7. /\ g.w = "table" /\ g.t = u /\ TablePatch("close", g.set)
        /\ "session" \in DOMAIN g.set \/ copy.session = NoSession
        /\ "session" \in DOMAIN g.set => g.set.session = NoSession
    <3>1. g.w = "table" /\ g.t = u /\ g.set = Changes(copy, to)
      BY <1>10
    <3>2. /\ DOMAIN g.set \subseteq {"status", "active", "session"}
          /\ "status" \in DOMAIN g.set /\ g.set.status = "AVAILABLE"
          /\ "active" \notin DOMAIN g.set
          /\ "session" \in DOMAIN g.set <=> copy.session # NoSession
          /\ "session" \in DOMAIN g.set => g.set.session = NoSession
      BY <1>5, <2>6, <3>1, TableChanges
    <3>3. NoSession \in Sittings
      BY DiningAssumption DEF NoSession, Sittings
    <3>4. QED
      BY <3>1, <3>2, <3>3 DEF TablePatch, TableStatus
  <2>8. TableWrite("close", p.on, g)'
    <3>1. sessions' \in Nat /\ NoSession.id = 0
      BY <1>3, <2>5 DEF DataInv, NoSession
    <3>2. QED
      BY <1>5, <1>6, <2>7, <3>1 DEF TableWrite
  <2>9. Alone(a)' => /\ tables[u] = copy
                     /\ Vacant(u, g.set)'
    <3>1. SUFFICES ASSUME Alone(a)' PROVE tables[u] = copy /\ Vacant(u, g.set)'
      OBVIOUS
    <3>2. Alone(a)
      BY <1>3, <2>5, <3>1 DEF Alone
    <3>3. tables[u] = copy
      BY <1>2, <1>3, <1>4, <1>6, <3>2 DEF IInv, Claims, ReadClaim
    <3>4. \A o \in Orders : orders[o].open /\ copy.session.id # 0 =>
                               orders[o].session # copy.session.id
      BY <1>16 DEF OpenOrders
    <3>5. Vacant(u, g.set)
      BY <2>7, <3>3, <3>4 DEF Vacant
    <3>6. QED
      BY <2>5, <3>3, <3>5 DEF Vacant, Orders
  <2>10. req'[a].op = "close" /\ req'[a].on = p.on /\ req'[a].todo = list
    BY <2>4 DEF GoesOn
  <2>11. CASE b = NoReservation
    <3>1. list = <<g>> /\ Head(<<g>>) = g /\ Tail(<<g>>) = <<>> /\ <<g>> # <<>>
      BY <1>11, <2>11, Tuples
    <3>2. RequestInv(n)'
      BY <1>5, <2>3, <2>4, <2>8, <3>1 DEF RequestInv, PlanInv
    <3>3. Write(a)' = g /\ Rest(a)' = <<>>
      BY <2>10, <3>1 DEF Write, Rest
    <3>4. Claims(a)'
      BY <1>7, <2>5, <2>7, <2>9, <2>10, <2>11, <3>3
         DEF Claims, TableClaim, BookClaim, HoldClaim, OrderClaim, ReadClaim
    <3>5. n.on = req[a].on
      BY <1>1, <2>4
    <3>6. QED
      BY <1>3, <1>14, <2>4, <2>5, <3>2, <3>4, <3>5, Looking
  <2>12. CASE b # NoReservation
    <3>1. /\ list = <<s, g>> /\ Head(<<s, g>>) = s /\ Tail(<<s, g>>) = <<g>>
          /\ Head(<<g>>) = g
      BY <1>11, <2>12, Tuples
    <3>2. b \in Books \cap p.on
      BY <1>5, <1>7, <2>12
    <3>3. s.w = "book" /\ s.r = b /\ DOMAIN s.set = {"status"} /\ s.set.status = "COMPLETED"
      BY <1>8 DEF SetBook
    <3>4. BookWrite("close", p.on, s)'
      <4>1. BookPatch("close", s.set)
        BY <3>3 DEF BookPatch, ReservationStatus
      <4>2. b \in Books'
        BY <2>5, <3>2 DEF Books, Exists
      <4>3. QED
        BY <3>2, <3>3, <4>1, <4>2 DEF BookWrite
    <3>5. RequestInv(n)'
      <4>1. PlanInv("close", p.on, s, <<g>>)'
        BY <2>8, <3>1, <3>4 DEF PlanInv
      <4>2. n = [op |-> n.op, on |-> n.on, todo |-> n.todo]
        BY <2>3, <2>4
      <4>3. QED
        BY <2>4, <3>1, <4>1, <4>2 DEF RequestInv
    <3>6. Write(a)' = s /\ Rest(a)' = <<g>>
      BY <2>10, <3>1 DEF Write, Rest
    <3>7. Claims(a)'
      BY <1>7, <2>5, <2>7, <2>9, <2>10, <3>1, <3>3, <3>6
         DEF Claims, TableClaim, BookClaim, HoldClaim, OrderClaim, ReadClaim
    <3>8. n.on = req[a].on
      BY <1>1, <2>4
    <3>9. QED
      BY <1>3, <1>14, <2>4, <2>5, <3>5, <3>7, <3>8, Looking
  <2>13. QED
    BY <2>11, <2>12
<1>17. QED
  BY <1>15, <1>16

-----------------------------------------------------------------------------
(* The last steps.                                                          *)

\* A request that has one step left is done after it.
LEMMA Ending ==
  ASSUME IInv, NEW a \in Actor, Busy(a), Rest(a) = <<>>, Done(a)
  PROVE  /\ GoesOn(a, Idle) /\ RequestInv(Idle)' /\ Claims(a)'
         /\ UNCHANGED <<sessions, rzp, started, faults>>
<1>1. PICK p : p = req[a]
  OBVIOUS
<1>2. PICK more : more = <<>>
  OBVIOUS
<1>3. Continue(a, more) /\ RequestsInv
  BY <1>2 DEF Done, Rest, IInv
<1>4. /\ GoesOn(a, IF more = <<>> THEN Idle ELSE [op |-> p.op, on |-> p.on, todo |-> more])
      /\ UNCHANGED <<sessions, rzp, started, faults>>
  BY <1>1, <1>3, Going
<1>5. GoesOn(a, Idle)
  BY <1>2, <1>4
<1>6. QED
  BY <1>4, <1>5, GivenUp

\* A table that is still reserved is freed.
LEMMA FreeStep ==
  ASSUME IInv, NEW a \in Actor, DoFree(a)
  PROVE  IInv'
<1>1. PICK p : p = req[a]
  OBVIOUS
<1>2. PICK h : h = Write(a)
  OBVIOUS
<1>3. /\ Busy(a) /\ h.w = "free" /\ p.op # "idle"
      /\ PlanInv(p.op, p.on, h, Rest(a))
  BY <1>1, <1>2, Opening DEF DoFree
<1>4. h.t \in Table \cap p.on /\ Rest(a) = <<>>
  BY <1>3 DEF PlanInv, TableWrite, BookWrite
<1>5. PICK u \in Table : u = h.t
  BY <1>4
<1>6. /\ tables' = [tables EXCEPT ![u].status = IF @ = "RESERVED" THEN "AVAILABLE" ELSE @]
      /\ Done(a) /\ UNCHANGED <<books, locked, orders, hist>>
  BY <1>2, <1>5 DEF DoFree
<1>7. /\ GoesOn(a, Idle) /\ RequestInv(Idle)' /\ Claims(a)'
      /\ UNCHANGED <<sessions, rzp, started, faults>>
  BY <1>3, <1>4, <1>6, Ending
<1>8. DataInv /\ TablesInv /\ ReservedInv
  BY DEF IInv
<1>9. PICK new : new = [tables[u] EXCEPT !.status = IF @ = "RESERVED" THEN "AVAILABLE" ELSE @]
  OBVIOUS
<1>10. /\ tables' = [t \in Table |-> IF t = u THEN new ELSE tables[t]]
       /\ \A t \in Table \ {u} : tables'[t] = tables[t]
       /\ tables'[u] = new /\ new \in TableDocs /\ new.session = tables[u].session
       /\ new.status # "RESERVED"
       /\ tables[u].status \in InUse <=> new.status \in InUse
       /\ tables[u].status \in InUse => new.status = tables[u].status
  <2>1. tables \in [Table -> TableDocs]
    BY <1>8 DEF DataInv
  <2>2. tables' = [t \in Table |-> IF t = u THEN new ELSE tables[t]]
    BY <1>6, <1>9, <2>1
  <2>3. tables[u] \in TableDocs
    BY <2>1
  <2>4. /\ tables[u].status \in TableStatus /\ tables[u].active \in BOOLEAN
        /\ tables[u].session \in Sittings
        /\ tables[u] = [status |-> tables[u].status, active |-> tables[u].active,
                        session |-> tables[u].session]
    BY <2>3 DEF TableDocs
  <2>5. new = [status |-> IF tables[u].status = "RESERVED" THEN "AVAILABLE" ELSE tables[u].status,
               active |-> tables[u].active, session |-> tables[u].session]
    BY <1>9, <2>4
  <2>6. QED
    BY <2>1, <2>2, <2>4, <2>5 DEF TableDocs, TableStatus, InUse
<1>11. /\ Books' = Books /\ Orders' = Orders /\ orders' = orders /\ books' = books
       /\ \A x : Holds(x)' <=> Holds(x)
  BY <1>6 DEF Books, Orders, Exists, Holds
<1>12. Grows
  BY <1>6, <1>7, <1>8, <1>11 DEF DataInv, Grows
<1>13. Keeps(a)
  <2>1. \A t \in Table \ p.on :
          tables'[t] = tables[t] /\ (t \notin hist'.disturbed => t \notin hist.disturbed)
    BY <1>4, <1>5, <1>6, <1>10
  <2>2. QED
    BY <1>1, <1>6, <1>7, <1>11, <1>12, <2>1 DEF Keeps, GoesOn
<1>14. DataInv'
  BY <1>6, <1>7, <1>8, <1>10, <1>11 DEF DataInv
<1>15. TablesInv'
  BY <1>6, <1>8, <1>10 DEF TablesInv
<1>16. ReservedInv'
  <2>1. ASSUME NEW t \in Table, t # u, Reserving(t) PROVE Reserving(t)'
    <3>1. \A c \in Actor : Releases(c, t) => Releases(c, t)'
      BY <1>2, <1>5, <1>7, <2>1 DEF Releases, GoesOn, Busy, Write
    <3>2. QED
      BY <1>11, <2>1, <3>1 DEF Reserving
  <2>2. \A t \in Table \ hist'.disturbed : tables'[t].status = "RESERVED" =>
             \/ Reserving(t)'
             \/ t \notin hist.disturbed /\ tables[t].status = "RESERVED"
                /\ (Reserving(t) => Reserving(t)')
    BY <1>6, <1>10, <2>1
  <2>3. QED
    BY <1>7, <1>8, <2>2, StaysReserved
<1>17. NoDoubleReservation'
  BY <1>6, <1>11 DEF IInv, NoDoubleReservation
<1>18. OrdersInTheirSession'
  <2>1. \A o \in Orders : orders[o].table \in Table
    BY <1>8 DEF DataInv, OrderDocs
  <2>2. QED
    BY <1>6, <1>10, <1>11, <2>1 DEF IInv, OrdersInTheirSession, InUse
<1>19. SeatedGuestsHaveTable'
  BY <1>6, <1>10, <1>11 DEF IInv, SeatedGuestsHaveTable, InUse
<1>20. QED
  BY <1>3, <1>7, <1>13, <1>14, <1>15, <1>16, <1>17, <1>18, <1>19, Written

\* A reservation is created.
LEMMA InsertStep ==
  ASSUME IInv, NEW a \in Actor, DoInsert(a)
  PROVE  IInv'
<1>1. PICK p : p = req[a]
  OBVIOUS
<1>2. PICK h : h = Write(a)
  OBVIOUS
<1>3. /\ Busy(a) /\ h.w = "insert" /\ p.op # "idle"
      /\ PlanInv(p.op, p.on, h, Rest(a))
  BY <1>1, <1>2, Opening DEF DoInsert
<1>4. h.t \in Table \cap p.on /\ h.slot \in Slots /\ Rest(a) = <<>>
  BY <1>3 DEF PlanInv, TableWrite, BookWrite
<1>5. PICK b \in Reservation :
        /\ books[b] = Free
        /\ books' = [books EXCEPT ![b] =
             [table |-> h.t, slot |-> h.slot,
              status |-> "PENDING_PAYMENT", pay |-> "PENDING", payment |-> "none"]]
        /\ locked' = locked \cup {b}
        /\ hist' = [hist EXCEPT !.unchecked =
                                  IF a \in hist.crossed THEN @ \cup {b} ELSE @]
  BY <1>2 DEF DoInsert
<1>6. PICK new : new = [table |-> h.t, slot |-> h.slot, status |-> "PENDING_PAYMENT",
                        pay |-> "PENDING", payment |-> "none"]
  OBVIOUS
<1>7. Done(a) /\ UNCHANGED <<tables, orders>>
  BY DEF DoInsert
<1>8. /\ GoesOn(a, Idle) /\ RequestInv(Idle)' /\ Claims(a)'
      /\ UNCHANGED <<sessions, rzp, started, faults>>
  BY <1>3, <1>4, <1>7, Ending
<1>9. DataInv /\ TablesInv /\ ReservedInv
  BY DEF IInv
<1>10. new \in BookDocs /\ new # Free
  <2>1. new \in BookDocs
    BY <1>4, <1>6 DEF BookDocs, ReservationStatus
  <2>2. QED
    BY <2>1, DiningAssumption
<1>11. /\ books' = [x \in Reservation |-> IF x = b THEN new ELSE books[x]]
       /\ books'[b] = new /\ \A x \in Reservation \ {b} : books'[x] = books[x]
  BY <1>5, <1>6, <1>9 DEF DataInv
<1>12. b \notin Books /\ Books' = Books \cup {b} /\ Orders' = Orders /\ orders' = orders
  BY <1>5, <1>7, <1>10, <1>11 DEF Books, Exists, Orders
<1>13. \A x \in Books : books'[x] = books[x] /\ (Holds(x)' <=> Holds(x))
  <2>1. \A x \in Books : x # b /\ x \in Reservation
    BY <1>12 DEF Books
  <2>2. QED
    BY <1>5, <1>11, <2>1 DEF Holds
<1>14. /\ hist' = [crossed |-> hist'.crossed, raced |-> hist'.raced,
                   unchecked |-> hist'.unchecked, edited |-> hist'.edited,
                   disturbed |-> hist'.disturbed, strayed |-> hist'.strayed]
       /\ UNCHANGED <<hist.crossed, hist.raced, hist.edited, hist.disturbed, hist.strayed>>
       /\ hist.unchecked \subseteq hist'.unchecked
       /\ a \in hist.crossed => b \in hist'.unchecked
  <2>1. hist = [crossed |-> hist.crossed, raced |-> hist.raced,
                unchecked |-> hist.unchecked, edited |-> hist.edited,
                disturbed |-> hist.disturbed, strayed |-> hist.strayed]
    BY <1>9 DEF DataInv
  <2>2. QED
    BY <1>5, <2>1
<1>15. Grows
  <2>1. \A x \in Books : /\ x \in Books' /\ books'[x].table = books[x].table
                          /\ books'[x].slot = books[x].slot
    BY <1>12, <1>13
  <2>2. sessions \in Nat /\ sessions' = sessions
    BY <1>8, <1>9 DEF DataInv
  <2>3. QED
    BY <1>14, <2>1, <2>2 DEF Grows
<1>16. Keeps(a)
  <2>1. \A x \in Books' \ hist'.unchecked :
           Holds(x)' => (x \in Books \ hist.unchecked /\ Holds(x)) \/ books'[x].table \in p.on
    BY <1>4, <1>6, <1>11, <1>12, <1>13, <1>14
  <2>2. (\A c \in Actor \ {a} : req'[c] = req[c]) /\ hist'.crossed = hist.crossed
    BY <1>8, <1>14 DEF GoesOn
  <2>3. QED
    BY <1>1, <1>7, <1>12, <1>13, <1>14, <1>15, <2>1, <2>2 DEF Keeps
<1>17. DataInv'
  <2>1. \A x \in Books' : books'[x] \in BookDocs
    BY <1>9, <1>10, <1>11, <1>12, <1>13 DEF DataInv
  <2>2. locked' \subseteq Books'
    BY <1>5, <1>9, <1>12 DEF DataInv
  <2>3. books' = [x \in Reservation |-> books'[x]]
    BY <1>11
  <2>4. QED
    BY <1>7, <1>8, <1>9, <1>12, <1>14, <2>1, <2>2, <2>3 DEF DataInv
<1>18. TablesInv'
  BY <1>7, <1>9, <1>14 DEF TablesInv
<1>19. ReservedInv'
  <2>1. \A t : ~Releases(a, t)
    BY <1>2, <1>3 DEF Releases
  <2>2. \A t : Reserving(t) => Reserving(t)'
    BY <1>3, <1>8, <1>12, <1>13, <2>1, KeepsHolders
  <2>3. QED
    BY <1>7, <1>8, <1>9, <1>14, <2>2, StaysReserved
<1>20. NoDoubleReservation'
  <2>1. SUFFICES ASSUME NEW x \in Books', NEW y \in Books', x # y, Holds(x)', Holds(y)',
                        books'[x].table = books'[y].table, books'[x].slot \cap books'[y].slot # {},
                        {x, y} \cap (hist'.raced \cup hist'.unchecked) = {}
                 PROVE  FALSE
    BY DEF NoDoubleReservation
  <2>2. CASE x \in Books /\ y \in Books
    BY <1>13, <1>14, <2>1, <2>2 DEF IInv, NoDoubleReservation
  <2>3. CASE x = b \/ y = b
    <3>1. a \notin hist.crossed
      BY <1>14, <2>1, <2>3
    <3>2. HoldClaim(h)
      BY <1>2, <1>3, <3>1 DEF IInv, Claims, Alone
    <3>3. PICK z \in Books : z \in {x, y} /\ b \in {x, y} /\ z # b
      BY <1>12, <2>1, <2>3
    <3>4. /\ books[z].table = h.t /\ books[z].slot \cap h.slot # {} /\ Holds(z)
          /\ z \notin hist.unchecked
      BY <1>6, <1>11, <1>13, <1>14, <2>1, <3>3
    <3>5. QED
      BY <1>3, <3>2, <3>4 DEF HoldClaim
  <2>4. QED
    BY <1>12, <2>1, <2>2, <2>3
<1>21. OrdersInTheirSession'
  BY <1>7, <1>12, <1>14 DEF IInv, OrdersInTheirSession
<1>22. SeatedGuestsHaveTable'
  BY <1>6, <1>7, <1>11, <1>12, <1>13, <1>14 DEF IInv, SeatedGuestsHaveTable
<1>23. QED
  BY <1>3, <1>8, <1>16, <1>17, <1>18, <1>19, <1>20, <1>21, <1>22, Written

\* An order is placed.
LEMMA OrderStep ==
  ASSUME IInv, NEW a \in Actor, DoOrder(a)
  PROVE  IInv'
<1>1. PICK p : p = req[a]
  OBVIOUS
<1>2. PICK h : h = Write(a)
  OBVIOUS
<1>3. /\ Busy(a) /\ h.w = "order" /\ p.op # "idle"
      /\ PlanInv(p.op, p.on, h, Rest(a))
  BY <1>1, <1>2, Opening DEF DoOrder
<1>4. h.t \in Table \cap p.on /\ h.session \in 0..MaxSessions /\ Rest(a) = <<>>
  BY <1>3 DEF PlanInv, TableWrite, BookWrite
<1>5. PICK new : new = [table |-> h.t, session |-> h.session, open |-> TRUE]
  OBVIOUS
<1>6. PICK o \in Order :
        /\ orders[o] = Free
        /\ orders' = [orders EXCEPT ![o] = new]
        /\ hist' = [hist EXCEPT !.strayed =
             IF a \in hist.crossed \/ h.t \in hist.disturbed THEN @ \cup {o} ELSE @]
  BY <1>2, <1>5 DEF DoOrder
<1>7. Done(a) /\ UNCHANGED <<tables, books, locked>>
  BY DEF DoOrder
<1>8. /\ GoesOn(a, Idle) /\ RequestInv(Idle)' /\ Claims(a)'
      /\ UNCHANGED <<sessions, rzp, started, faults>>
  BY <1>3, <1>4, <1>7, Ending
<1>9. DataInv /\ TablesInv /\ ReservedInv
  BY DEF IInv
<1>10. new \in OrderDocs /\ new # Free
  <2>1. new \in OrderDocs
    BY <1>4, <1>5 DEF OrderDocs
  <2>2. QED
    BY <2>1, DiningAssumption
<1>11. /\ orders' = [x \in Order |-> IF x = o THEN new ELSE orders[x]]
       /\ orders'[o] = new /\ \A x \in Order \ {o} : orders'[x] = orders[x]
  BY <1>6, <1>9 DEF DataInv
<1>12. o \notin Orders /\ Orders' = Orders \cup {o} /\ Books' = Books
  BY <1>6, <1>7, <1>10, <1>11 DEF Books, Exists, Orders
<1>13. /\ \A x \in Orders : orders'[x] = orders[x]
       /\ \A x : Holds(x)' <=> Holds(x)
  BY <1>7, <1>11, <1>12 DEF Holds, Orders
<1>14. /\ hist' = [crossed |-> hist'.crossed, raced |-> hist'.raced,
                   unchecked |-> hist'.unchecked, edited |-> hist'.edited,
                   disturbed |-> hist'.disturbed, strayed |-> hist'.strayed]
       /\ UNCHANGED <<hist.crossed, hist.raced, hist.edited, hist.disturbed, hist.unchecked>>
       /\ hist.strayed \subseteq hist'.strayed
       /\ a \in hist.crossed \/ h.t \in hist.disturbed => o \in hist'.strayed
  <2>1. hist = [crossed |-> hist.crossed, raced |-> hist.raced,
                unchecked |-> hist.unchecked, edited |-> hist.edited,
                disturbed |-> hist.disturbed, strayed |-> hist.strayed]
    BY <1>9 DEF DataInv
  <2>2. QED
    BY <1>6, <2>1
<1>15. Grows
  BY <1>7, <1>8, <1>9, <1>12, <1>14 DEF DataInv, Grows
<1>16. Keeps(a)
  <2>1. \A x \in Orders' :
           orders'[x].open => (x \in Orders /\ orders'[x] = orders[x])
                              \/ orders'[x].table \in p.on
    BY <1>4, <1>5, <1>11, <1>12, <1>13
  <2>2. (\A c \in Actor \ {a} : req'[c] = req[c]) /\ hist'.crossed = hist.crossed
    BY <1>8, <1>14 DEF GoesOn
  <2>3. \A t \in Table \ p.on :
          tables'[t] = tables[t] /\ (t \notin hist'.disturbed => t \notin hist.disturbed)
    BY <1>7, <1>14
  <2>4. \A x \in Books' \ hist'.unchecked : Holds(x)' => x \in Books \ hist.unchecked /\ Holds(x)
    BY <1>12, <1>13, <1>14
  <2>5. QED
    BY <1>1, <1>7, <1>15, <2>1, <2>2, <2>3, <2>4 DEF Keeps
<1>17. DataInv'
  <2>1. \A x \in Orders' : orders'[x] \in OrderDocs
    BY <1>9, <1>10, <1>11, <1>12, <1>13 DEF DataInv
  <2>2. orders' = [x \in Order |-> orders'[x]]
    BY <1>11
  <2>3. QED
    BY <1>7, <1>8, <1>9, <1>12, <1>14, <2>1, <2>2 DEF DataInv
<1>18. TablesInv'
  BY <1>7, <1>9, <1>14 DEF TablesInv
<1>19. ReservedInv'
  <2>1. \A t : ~Releases(a, t)
    BY <1>2, <1>3 DEF Releases
  <2>2. \A t : Reserving(t) => Reserving(t)'
    BY <1>3, <1>7, <1>8, <1>12, <2>1, KeepsHolders
  <2>3. QED
    BY <1>7, <1>8, <1>9, <1>14, <2>2, StaysReserved
<1>20. NoDoubleReservation'
  BY <1>7, <1>12, <1>13, <1>14 DEF IInv, NoDoubleReservation
<1>21. OrdersInTheirSession'
  <2>1. SUFFICES ASSUME NEW x \in Orders' \ hist'.strayed,
                        orders'[x].open, orders'[x].session # 0
                 PROVE  /\ tables[orders'[x].table].session.id = orders'[x].session
                        /\ tables[orders'[x].table].status \in InUse
    BY <1>7 DEF OrdersInTheirSession, InUse
  <2>2. CASE x = o
    <3>1. a \notin hist.crossed /\ h.t \notin hist.disturbed
      BY <1>14, <2>1, <2>2
    <3>2. OrderClaim(h)
      BY <1>2, <1>3, <3>1 DEF IInv, Claims, Alone
    <3>3. orders'[x].table = h.t /\ orders'[x].session = h.session
      BY <1>5, <1>11, <2>2
    <3>4. QED
      BY <1>3, <2>1, <3>1, <3>2, <3>3 DEF OrderClaim
  <2>3. CASE x \in Orders
    BY <1>13, <1>14, <2>1, <2>3 DEF IInv, OrdersInTheirSession, InUse
  <2>4. QED
    BY <1>12, <2>1, <2>2, <2>3
<1>22. SeatedGuestsHaveTable'
  BY <1>7, <1>12, <1>14 DEF IInv, SeatedGuestsHaveTable
<1>23. QED
  BY <1>3, <1>8, <1>16, <1>17, <1>18, <1>19, <1>20, <1>21, <1>22, Written

-----------------------------------------------------------------------------
(* Steps outside the requests, and requests that die.                       *)

\* A lock that ends and an order that is finished.
LEMMA QuietStep ==
  ASSUME IInv, UNCHANGED <<tables, books, req, hist, sessions, faults>>,
         locked' \subseteq locked, orders' = [o \in Order |-> orders'[o]], Orders' = Orders,
         \A o \in Orders : /\ orders'[o] \in OrderDocs
                           /\ orders'[o].open => orders'[o] = orders[o]
  PROVE  IInv'
<1>1. Books' = Books /\ \A r : Holds(r)' => Holds(r)
  BY DEF Books, Exists, Holds
<1>2. DataInv /\ RequestsInv /\ TablesInv /\ ReservedInv
  BY DEF IInv
<1>3. Grows
  BY <1>1, <1>2 DEF Grows, DataInv
<1>4. DataInv'
  BY <1>1, <1>2 DEF DataInv
<1>5. RequestsInv'
  <2>1. ASSUME NEW c \in Actor PROVE RequestInv(req[c])'
    <3>1. PICK q : q = req[c]
      OBVIOUS
    <3>2. RequestInv(q)'
      BY <1>2, <1>3, <3>1, RequestKept DEF RequestsInv
    <3>3. QED
      BY <3>1, <3>2
  <2>2. QED
    BY <1>2, <2>1 DEF RequestsInv
<1>6. Rivalry'
  BY DEF IInv, Rivalry, Busy
<1>7. \A c \in Actor : Claims(c)'
  <2>1. ASSUME NEW c \in Actor PROVE Undisturbed(c)
    BY <1>1, <1>3 DEF Undisturbed
  <2>2. QED
    BY <1>2, <2>1, ClaimsKept DEF IInv
<1>8. TablesInv' /\ ReservedInv'
  BY <1>1, <1>2 DEF TablesInv, ReservedInv, Releases, Busy, Write
<1>9. NoDoubleReservation'
  BY <1>1 DEF IInv, NoDoubleReservation
<1>10. OrdersInTheirSession'
  BY DEF IInv, OrdersInTheirSession
<1>11. SeatedGuestsHaveTable'
  BY <1>1 DEF IInv, SeatedGuestsHaveTable
<1>12. QED
  BY <1>4, <1>5, <1>6, <1>7, <1>8, <1>9, <1>10, <1>11 DEF IInv

\* An order is reopened by hand: only a closing table that found it closed minds.
LEMMA ReopenStep ==
  ASSUME IInv, NEW o \in Order, ForceStatus(o)
  PROVE  IInv'
<1>1. /\ UNCHANGED <<tables, books, locked, req, sessions, faults>>
      /\ DataInv /\ RequestsInv /\ TablesInv /\ ReservedInv /\ o \in Orders
  BY DEF ForceStatus, IInv
<1>2. PICK t : t = orders[o].table
  OBVIOUS
<1>3. PICK new : new = [orders[o] EXCEPT !.open = TRUE]
  OBVIOUS
<1>4. PICK d : d = orders[o]
  OBVIOUS
<1>5. /\ t \in Table /\ d \in OrderDocs /\ new = [d EXCEPT !.open = TRUE]
      /\ new.table = t /\ new.session = orders[o].session
  BY <1>1, <1>2, <1>3, <1>4 DEF DataInv, OrderDocs
<1>6. new \in OrderDocs /\ new # Free
  <2>1. new \in OrderDocs
    BY <1>5 DEF OrderDocs
  <2>2. QED
    BY <2>1, DiningAssumption
<1>7. /\ orders' = [x \in Order |-> IF x = o THEN new ELSE orders[x]]
      /\ Orders' = Orders
  <2>1. orders' = [x \in Order |-> IF x = o THEN new ELSE orders[x]]
    BY <1>1, <1>3 DEF ForceStatus, DataInv
  <2>2. QED
    BY <1>1, <1>6, <2>1 DEF Orders
<1>8. /\ hist' = [crossed |-> hist'.crossed, raced |-> hist'.raced,
                  unchecked |-> hist'.unchecked, edited |-> hist'.edited,
                  disturbed |-> hist'.disturbed, strayed |-> hist'.strayed]
      /\ UNCHANGED <<hist.crossed, hist.raced, hist.unchecked, hist.edited, hist.disturbed>>
      /\ hist.strayed \subseteq hist'.strayed
      /\ \/ o \in hist'.strayed
         \/ /\ tables[t].session.id = orders[o].session /\ t \notin hist.disturbed
            /\ \A c \in Actor : ~FreesTable(c, t)
  <2>1. hist = [crossed |-> hist.crossed, raced |-> hist.raced,
                unchecked |-> hist.unchecked, edited |-> hist.edited,
                disturbed |-> hist.disturbed, strayed |-> hist.strayed]
    BY <1>1 DEF DataInv
  <2>2. PICK left : left = \/ tables[t].session.id # orders[o].session \/ t \in hist.disturbed
                            \/ \E c \in Actor : FreesTable(c, t)
    OBVIOUS
  <2>3. hist' = [hist EXCEPT !.strayed = IF left THEN @ \cup {o} ELSE @]
    BY <1>2, <2>2 DEF ForceStatus
  <2>4. QED
    BY <2>1, <2>2, <2>3
<1>9. Books' = Books /\ \A r : Holds(r)' <=> Holds(r)
  BY <1>1 DEF Books, Exists, Holds
<1>10. Grows
  BY <1>1, <1>8, <1>9 DEF Grows, DataInv
<1>11. DataInv'
  <2>1. \A x \in Orders' : orders'[x] \in OrderDocs
    BY <1>1, <1>6, <1>7 DEF DataInv, Orders
  <2>2. QED
    BY <1>1, <1>7, <1>8, <1>9, <2>1 DEF DataInv
<1>12. RequestsInv'
  <2>1. ASSUME NEW c \in Actor PROVE RequestInv(req[c])'
    <3>1. PICK q : q = req[c]
      OBVIOUS
    <3>2. RequestInv(q)'
      BY <1>1, <1>10, <3>1, RequestKept DEF RequestsInv
    <3>3. QED
      BY <1>1, <3>1, <3>2
  <2>2. QED
    BY <1>1, <2>1 DEF RequestsInv
<1>13. Rivalry'
  BY <1>1, <1>8 DEF IInv, Rivalry, Busy
<1>14. ASSUME NEW c \in Actor PROVE Claims(c)'
  <2>1. SUFFICES ASSUME Alone(c)' PROVE Claims(c)'
    BY DEF Claims
  <2>2. PICK q : q = req[c]
    OBVIOUS
  <2>3. PICK h : h = Head(q.todo)
    OBVIOUS
  <2>4. PICK rest : rest = Tail(q.todo)
    OBVIOUS
  <2>5. req'[c] = q /\ Write(c) = h /\ Write(c)' = h /\ Rest(c) = rest /\ Rest(c)' = rest
    BY <1>1, <2>2, <2>3, <2>4 DEF Write, Rest
  <2>6. Alone(c)
    BY <1>1, <1>8, <2>1 DEF Alone, Busy
  <2>7. PlanInv(q.op, q.on, h, rest)
    BY <1>1, <2>2, <2>5, <2>6, ShapeOf DEF Alone
  <2>8. /\ TableClaim(c, q.op, h) /\ BookClaim(c, q.op, h, rest)
        /\ HoldClaim(h) /\ OrderClaim(h) /\ ReadClaim(c, h)
    BY <2>2, <2>5, <2>6 DEF IInv, Claims
  <2>9. ASSUME NEW u \in Table \cap q.on, q.op = "close", h.w # "close",
               NEW set, Vacant(u, set)
        PROVE  Vacant(u, set)'
    <3>1. FreesTable(c, u)
      BY <2>2, <2>3, <2>9 DEF FreesTable
    <3>2. u = t => o \in hist'.strayed
      BY <1>8, <3>1
    <3>3. \A x \in Orders \ hist'.strayed : orders'[x].table = u => orders'[x] = orders[x]
      BY <1>5, <1>7, <3>2 DEF Orders
    <3>4. QED
      BY <1>1, <1>7, <1>8, <2>9, <3>3 DEF Vacant
  <2>10. \A u \in Table : Expected(c, u) => Expected(c, u)'
    BY <1>1, <1>9 DEF Expected
  <2>11. TableClaim(c, q.op, h)'
    <3>1. SUFFICES ASSUME h.w = "table" PROVE TableClaim(c, q.op, h)'
      BY DEF TableClaim
    <3>2. h.t \in Table \cap q.on
      BY <2>7, <3>1, WorksOn
    <3>3. q.op = "close" => Vacant(h.t, h.set)'
      BY <2>8, <2>9, <3>1, <3>2 DEF TableClaim
    <3>4. QED
      BY <1>1, <2>8, <2>10, <3>1, <3>2, <3>3 DEF TableClaim
  <2>12. BookClaim(c, q.op, h, rest)'
    <3>1. SUFFICES ASSUME h.w = "book" PROVE BookClaim(c, q.op, h, rest)'
      BY DEF BookClaim
    <3>2. q.op = "close" => Head(rest).t \in Table \cap q.on
      BY <2>7, <3>1, WorksOn
    <3>3. q.op = "close" => Vacant(Head(rest).t, Head(rest).set)'
      BY <2>8, <2>9, <3>1, <3>2 DEF BookClaim
    <3>4. QED
      BY <1>1, <2>8, <3>1, <3>3 DEF BookClaim
  <2>13. HoldClaim(h)'
    BY <1>1, <1>8, <1>9, <2>8 DEF HoldClaim
  <2>14. OrderClaim(h)'
    BY <1>1, <1>8, <2>8 DEF OrderClaim
  <2>15. ReadClaim(c, h)'
    <3>1. h.w = "reserve" => h.t \in Table
      BY <2>7, WorksOn
    <3>2. QED
      BY <1>1, <2>8, <2>10, <3>1 DEF ReadClaim
  <2>16. QED
    BY <2>2, <2>5, <2>11, <2>12, <2>13, <2>14, <2>15 DEF Claims
<1>15. TablesInv' /\ ReservedInv'
  BY <1>1, <1>8, <1>9 DEF TablesInv, ReservedInv, Releases, Busy, Write
<1>16. NoDoubleReservation'
  BY <1>1, <1>8, <1>9 DEF IInv, NoDoubleReservation
<1>17. OrdersInTheirSession'
  <2>1. ASSUME o \notin hist'.strayed, orders[o].session # 0
        PROVE  tables[t].session.id = orders[o].session /\ tables[t].status \in InUse
    BY <1>1, <1>5, <1>8, <2>1 DEF TablesInv
  <2>2. SUFFICES ASSUME NEW x \in Orders \ hist'.strayed, orders'[x].open, orders'[x].session # 0
                 PROVE  /\ tables[orders'[x].table].session.id = orders'[x].session
                        /\ tables[orders'[x].table].status \in InUse
    BY <1>1, <1>7 DEF OrdersInTheirSession, InUse
  <2>3. CASE x = o
    BY <1>5, <1>7, <2>1, <2>2, <2>3
  <2>4. CASE x # o
    <3>1. orders'[x] = orders[x]
      BY <1>7, <2>2, <2>4 DEF Orders
    <3>2. QED
      BY <1>8, <2>2, <3>1 DEF IInv, OrdersInTheirSession, InUse
  <2>5. QED
    BY <2>3, <2>4
<1>18. SeatedGuestsHaveTable'
  BY <1>1, <1>8, <1>9 DEF IInv, SeatedGuestsHaveTable
<1>19. QED
  BY <1>11, <1>12, <1>13, <1>14, <1>15, <1>16, <1>17, <1>18 DEF IInv

\* The steps of the guest, the clock and the kitchen.
LEMMA OutsideStep ==
  ASSUME IInv,
         \/ \E r \in Reservation : GuestPays(r) \/ LockEnds(r)
         \/ \E o \in Order : KitchenFinishes(o) \/ ForceStatus(o)
  PROVE  IInv'
<1>1. DataInv
  BY DEF IInv
<1>2. \A o \in Orders : orders[o] \in OrderDocs
  BY <1>1 DEF DataInv
<1>3. ASSUME UNCHANGED orders
      PROVE  /\ orders' = [o \in Order |-> orders'[o]] /\ Orders' = Orders
             /\ \A o \in Orders : /\ orders'[o] \in OrderDocs
                                  /\ orders'[o].open => orders'[o] = orders[o]
  BY <1>1, <1>2, <1>3 DEF DataInv, Orders
<1>4. ASSUME NEW r \in Reservation, GuestPays(r) \/ LockEnds(r) PROVE IInv'
  <2>1. /\ UNCHANGED <<tables, books, req, hist, sessions, faults>> /\ UNCHANGED orders
        /\ locked' \subseteq locked
    BY <1>4 DEF GuestPays, LockEnds
  <2>2. QED
    BY <1>3, <2>1, QuietStep
<1>5. ASSUME NEW o \in Order, KitchenFinishes(o) PROVE IInv'
  <2>1. PICK new : new = [orders[o] EXCEPT !.open = FALSE]
    OBVIOUS
  <2>2. orders[o] = [table |-> orders[o].table, session |-> orders[o].session,
                     open |-> orders[o].open] /\ orders[o] \in OrderDocs /\ o \in Orders
    BY <1>2, <1>5 DEF KitchenFinishes, OrderDocs
  <2>3. new = [table |-> orders[o].table, session |-> orders[o].session, open |-> FALSE]
    BY <2>1, <2>2
  <2>4. new \in OrderDocs /\ ~new.open
    BY <2>2, <2>3 DEF OrderDocs
  <2>5. orders' = [x \in Order |-> IF x = o THEN new ELSE orders[x]]
    BY <1>1, <1>5, <2>1 DEF KitchenFinishes, DataInv
  <2>6. new # Free
    BY <2>4, DiningAssumption
  <2>7. Orders' = Orders
    BY <2>2, <2>5, <2>6 DEF Orders
  <2>8. \A x \in Orders : /\ orders'[x] \in OrderDocs
                          /\ orders'[x].open => orders'[x] = orders[x]
    BY <1>2, <2>4, <2>5 DEF Orders
  <2>9. UNCHANGED <<tables, books, req, hist, sessions, faults>> /\ locked' \subseteq locked
    BY <1>5 DEF KitchenFinishes
  <2>10. orders' = [x \in Order |-> orders'[x]]
    BY <2>5
  <2>11. QED
    BY <2>7, <2>8, <2>9, <2>10, QuietStep
<1>6. QED
  BY <1>4, <1>5, ReopenStep

\* A request dies.
LEMMA DeathStep ==
  ASSUME IInv, NEW a \in Actor, Dies(a)
  PROVE  IInv'
<1>1. DataInv /\ TablesInv /\ RequestsInv /\ Busy(a)
  BY DEF IInv, Dies, Busy
<1>2. UNCHANGED <<tables, books, locked, orders, hist, sessions>> /\ faults' = faults + 1
  BY DEF Dies, floorVars
<1>3. GoesOn(a, Idle)
  BY <1>1 DEF Dies, GoesOn, RequestsInv
<1>4. RequestInv(Idle)' /\ Claims(a)'
  BY <1>3, GivenUp
<1>5. Books' = Books /\ Orders' = Orders /\ \A b : Holds(b)' <=> Holds(b)
  BY <1>2 DEF Books, Orders, Exists, Holds
<1>6. Grows
  BY <1>1, <1>2, <1>5 DEF DataInv, Grows
<1>7. Keeps(a)
  BY <1>2, <1>3, <1>5, <1>6 DEF Keeps, GoesOn
<1>8. DataInv'
  BY <1>1, <1>2, <1>5 DEF DataInv
<1>9. TablesInv'
  BY <1>1, <1>2 DEF TablesInv
<1>10. ReservedInv'
  BY <1>1, <1>2 DEF ReservedInv, DataInv
<1>11. NoDoubleReservation'
  BY <1>2, <1>5 DEF IInv, NoDoubleReservation
<1>12. OrdersInTheirSession'
  BY <1>2, <1>5 DEF IInv, OrdersInTheirSession
<1>13. SeatedGuestsHaveTable'
  BY <1>2, <1>5 DEF IInv, SeatedGuestsHaveTable
<1>14. QED
  BY <1>1, <1>3, <1>4, <1>7, <1>8, <1>9, <1>10, <1>11, <1>12, <1>13, Written

-----------------------------------------------------------------------------
(* Requests that begin.                                                     *)

\* A new request.
LEMMA Begun ==
  ASSUME IInv, NEW a \in Actor, NEW op, NEW on, NEW todo, Begin(a, op, on, todo)
  PROVE  /\ GoesOn(a, IF todo = <<>> THEN Idle ELSE [op |-> op, on |-> on, todo |-> todo])
         /\ ~Busy(a) /\ faults' = faults
         /\ hist' = [crossed |-> hist'.crossed, raced |-> hist'.raced,
                     unchecked |-> hist'.unchecked, edited |-> hist'.edited,
                     disturbed |-> hist'.disturbed, strayed |-> hist'.strayed]
         /\ UNCHANGED <<hist.raced, hist.unchecked, hist.disturbed, hist.strayed>>
         /\ hist'.crossed = Joined(hist.crossed, a, Rivals(a, on))
         /\ hist.edited \subseteq hist'.edited
         /\ op = "update" => on \cap Reservation \subseteq hist'.edited
<1>1. hist = [crossed |-> hist.crossed, raced |-> hist.raced,
              unchecked |-> hist.unchecked, edited |-> hist.edited,
              disturbed |-> hist.disturbed, strayed |-> hist.strayed]
      /\ req = [c \in Actor |-> req[c]]
  BY DEF IInv, DataInv, RequestsInv
<1>2. PICK J : J = Joined(hist.crossed, a, Rivals(a, on))
  OBVIOUS
<1>3. /\ req[a] = Idle /\ UNCHANGED faults
      /\ req' = [req EXCEPT ![a] = IF todo = <<>> THEN Idle
                                   ELSE [op |-> op, on |-> on, todo |-> todo]]
      /\ hist' = [hist EXCEPT
                  !.crossed = J,
                  !.edited = IF op = "update" THEN @ \cup (on \cap Reservation) ELSE @]
  BY <1>2 DEF Begin
<1>4. GoesOn(a, IF todo = <<>> THEN Idle ELSE [op |-> op, on |-> on, todo |-> todo]) /\ ~Busy(a)
  BY <1>1, <1>3 DEF GoesOn, Busy
<1>5. QED
  BY <1>1, <1>2, <1>3, <1>4

\* A new request that knows what it needs keeps the invariant.
LEMMA BeginStep ==
  ASSUME IInv, NEW a \in Actor, NEW op, NEW on, NEW todo, Begin(a, op, on, todo),
         UNCHANGED <<tables, books, locked, orders>>,
         sessions' \in 0..MaxSessions, sessions <= sessions',
         todo # <<>> => RequestInv([op |-> op, on |-> on, todo |-> todo])' /\ Claims(a)'
  PROVE  IInv'
<1>1. DataInv /\ RequestsInv /\ TablesInv /\ ReservedInv
  BY DEF IInv
<1>2. PICK n : n = IF todo = <<>> THEN Idle ELSE [op |-> op, on |-> on, todo |-> todo]
  OBVIOUS
<1>3. /\ GoesOn(a, n) /\ ~Busy(a) /\ faults' = faults
      /\ hist' = [crossed |-> hist'.crossed, raced |-> hist'.raced,
                  unchecked |-> hist'.unchecked, edited |-> hist'.edited,
                  disturbed |-> hist'.disturbed, strayed |-> hist'.strayed]
      /\ UNCHANGED <<hist.raced, hist.unchecked, hist.disturbed, hist.strayed>>
      /\ hist'.crossed = Joined(hist.crossed, a, Rivals(a, on))
      /\ hist.edited \subseteq hist'.edited
  BY <1>2, Begun
<1>4. RequestInv(n)' /\ Claims(a)'
  BY <1>2, <1>3, GivenUp DEF RequestInv
<1>5. Books' = Books /\ Orders' = Orders /\ \A b : Holds(b)' <=> Holds(b)
  BY DEF Books, Orders, Exists, Holds
<1>6. Grows
  BY <1>1, <1>3, <1>5 DEF DataInv, Grows
<1>7. RequestsInv'
  <2>1. ASSUME NEW c \in Actor PROVE RequestInv(req[c])'
    <3>1. CASE c = a
      BY <1>3, <1>4, <3>1 DEF GoesOn
    <3>2. CASE c # a
      <4>1. PICK q : q = req[c]
        OBVIOUS
      <4>2. RequestInv(q)'
        BY <1>1, <1>6, <4>1, RequestKept DEF RequestsInv
      <4>3. req'[c] = q
        BY <1>3, <3>2, <4>1 DEF GoesOn
      <4>4. QED
        BY <4>2, <4>3
    <3>3. QED
      BY <3>1, <3>2
  <2>2. QED
    BY <1>3, <2>1 DEF RequestsInv, GoesOn
<1>8. \A c \in Actor \ {a} : c \in hist.crossed => c \in hist'.crossed
  BY <1>3 DEF Joined
<1>9. Rivalry'
  <2>1. SUFFICES ASSUME NEW c \in Actor, NEW d \in Actor, c # d, Busy(c)', Busy(d)',
                        req'[c].on \cap req'[d].on # {}
                 PROVE  c \in hist'.crossed
    BY DEF Rivalry
  <2>2. \A e \in Actor \ {a} : req'[e] = req[e] /\ (Busy(e)' => Busy(e))
    BY <1>3 DEF GoesOn, Busy
  <2>3. CASE c # a /\ d # a
    BY <1>8, <2>1, <2>2, <2>3 DEF IInv, Rivalry
  <2>4. CASE c = a \/ d = a
    <3>1. Busy(a)'
      BY <2>1, <2>4
    <3>2. req'[a].on = on
      BY <1>2, <1>3, <3>1 DEF GoesOn, Busy
    <3>3. PICK e \in Actor \ {a} : e \in {c, d} /\ req'[e].on \cap req'[a].on # {}
      BY <2>1, <2>4
    <3>4. e \in Rivals(a, on)
      BY <2>2, <3>2, <3>3 DEF Rivals
    <3>5. a \in hist'.crossed /\ e \in hist'.crossed
      BY <1>3, <3>4 DEF Joined
    <3>6. QED
      BY <2>1, <2>4, <3>3, <3>5
  <2>5. QED
    BY <2>3, <2>4
<1>10. \A c \in Actor : Claims(c)'
  <2>1. ASSUME NEW c \in Actor \ {a} PROVE Claims(c)'
    <3>1. Undisturbed(c)
      <4>1. req'[c] = req[c]
        BY <1>3, <2>1 DEF GoesOn
      <4>2. QED
        BY <1>3, <1>5, <1>6, <1>8, <2>1, <4>1 DEF Undisturbed
    <3>2. QED
      BY <1>1, <2>1, <3>1, ClaimsKept DEF IInv
  <2>2. QED
    BY <1>4, <2>1
<1>11. DataInv'
  <2>1. \A t \in Table : tables[t].session.id \in Nat /\ tables[t].session.id <= sessions
    BY <1>1 DEF DataInv, TableDocs, Sittings
  <2>2. sessions \in Nat /\ sessions' \in Nat
    BY <1>1 DEF DataInv
  <2>3. \A t \in Table : tables[t].session.id <= sessions'
    BY <2>1, <2>2
  <2>4. QED
    BY <1>1, <1>3, <1>5, <2>3 DEF DataInv
<1>12. TablesInv'
  BY <1>1, <1>3 DEF TablesInv
<1>13. ReservedInv'
  <2>1. \A t, c : c \in Actor /\ Releases(c, t) => Releases(c, t)'
    BY <1>3 DEF Releases, GoesOn, Busy, Write
  <2>2. \A t : Reserving(t) => Reserving(t)'
    BY <1>5, <2>1 DEF Reserving
  <2>3. QED
    BY <1>1, <1>3, <2>2, StaysReserved
<1>14. NoDoubleReservation'
  BY <1>3, <1>5 DEF IInv, NoDoubleReservation
<1>15. OrdersInTheirSession'
  BY <1>3, <1>5 DEF IInv, OrdersInTheirSession
<1>16. SeatedGuestsHaveTable'
  BY <1>3, <1>5 DEF IInv, SeatedGuestsHaveTable
<1>17. QED
  BY <1>7, <1>9, <1>10, <1>11, <1>12, <1>13, <1>14, <1>15, <1>16 DEF IInv

\* A new request with one step.
LEMMA BeginOne ==
  ASSUME IInv, NEW a \in Actor, NEW op, op # "idle", NEW on, NEW g, Begin(a, op, on, <<g>>),
         UNCHANGED <<tables, books, locked, orders>>,
         sessions' \in 0..MaxSessions, sessions <= sessions',
         PlanInv(op, on, g, <<>>)',
         Write(a)' = g /\ Rest(a)' = <<>> /\ req'[a].op = op /\ req'[a].on = on => Claims(a)'
  PROVE  IInv'
<1>1. PICK todo : todo = <<g>>
  OBVIOUS
<1>2. Head(todo) = g /\ Tail(todo) = <<>> /\ todo # <<>>
  BY <1>1, Tuples
<1>3. PICK n : n = [op |-> op, on |-> on, todo |-> todo]
  OBVIOUS
<1>4. n.op = op /\ n.on = on /\ n.todo = todo /\ n = [op |-> n.op, on |-> n.on, todo |-> n.todo]
  BY <1>3
<1>5. Begin(a, op, on, todo)
  BY <1>1
<1>6. GoesOn(a, IF todo = <<>> THEN Idle ELSE [op |-> op, on |-> on, todo |-> todo])
  BY <1>5, Begun
<1>7. req'[a] = n
  BY <1>2, <1>3, <1>6 DEF GoesOn
<1>8. Claims(a)'
  BY <1>2, <1>4, <1>7 DEF Write, Rest
<1>9. RequestInv(n)'
  BY <1>2, <1>4 DEF RequestInv
<1>10. QED
  BY <1>3, <1>5, <1>8, <1>9, BeginStep

\* A new request with two steps.
LEMMA BeginTwo ==
  ASSUME IInv, NEW a \in Actor, NEW op, op # "idle", NEW on, NEW g, NEW f,
         Begin(a, op, on, <<g, f>>),
         UNCHANGED <<tables, books, locked, orders>>,
         sessions' \in 0..MaxSessions, sessions <= sessions',
         PlanInv(op, on, g, <<f>>)',
         Write(a)' = g /\ Rest(a)' = <<f>> /\ req'[a].op = op /\ req'[a].on = on => Claims(a)'
  PROVE  IInv'
<1>1. PICK todo : todo = <<g, f>>
  OBVIOUS
<1>2. Head(todo) = g /\ Tail(todo) = <<f>> /\ todo # <<>>
  BY <1>1, Tuples
<1>3. PICK n : n = [op |-> op, on |-> on, todo |-> todo]
  OBVIOUS
<1>4. n.op = op /\ n.on = on /\ n.todo = todo /\ n = [op |-> n.op, on |-> n.on, todo |-> n.todo]
  BY <1>3
<1>5. Begin(a, op, on, todo)
  BY <1>1
<1>6. GoesOn(a, IF todo = <<>> THEN Idle ELSE [op |-> op, on |-> on, todo |-> todo])
  BY <1>5, Begun
<1>7. req'[a] = n
  BY <1>2, <1>3, <1>6 DEF GoesOn
<1>8. Claims(a)'
  BY <1>2, <1>4, <1>7 DEF Write, Rest
<1>9. RequestInv(n)'
  BY <1>2, <1>4 DEF RequestInv
<1>10. QED
  BY <1>3, <1>5, <1>8, <1>9, BeginStep

\* Where a table may move from.
LEMMA Moving ==
  ASSUME DataInv, NEW t \in Table
  PROVE  /\ CanMove(t, "OCCUPIED") => tables[t].status \in {"AVAILABLE", "RESERVED"}
         /\ CanMove(t, "BILLING") => tables[t].status = "OCCUPIED"
         /\ CanMove(t, "AVAILABLE") => tables[t].status # "AVAILABLE"
<1>1. tables[t].status \in TableStatus
  BY DEF DataInv, TableDocs
<1>2. QED
  BY <1>1 DEF CanMove, TABLE_TRANSITIONS, TableStatus

\* A table with a new session.
LEMMA Opens ==
  ASSUME DataInv, NEW t \in Table, NEW r \in {NoReservation} \cup Books, sessions < MaxSessions,
         tables[t].status \in {"AVAILABLE", "RESERVED"}, NEW op \in {"seat", "order"},
         NEW g, g = SaveTable(t, Opened(t, r))
  PROVE  /\ g.w = "table" /\ g.t = t /\ TablePatch(op, g.set)
         /\ g.set.session = [id |-> sessions + 1, book |-> r]
<1>1. tables[t] \in TableDocs /\ sessions \in Nat /\ MaxSessions \in Nat
      /\ tables[t].session.id <= sessions /\ tables[t].session.id \in Nat
  BY DiningAssumption DEF DataInv, TableDocs, Sittings
<1>2. PICK s : s = [id |-> sessions + 1, book |-> r]
  OBVIOUS
<1>3. s \in Sittings /\ s # tables[t].session /\ s.id # 0
  <2>1. r \in Reservation \cup {NoReservation} /\ sessions + 1 \in 0..MaxSessions
    BY <1>1 DEF Books
  <2>2. s.id = sessions + 1 /\ s \in Sittings
    BY <1>2, <2>1 DEF Sittings
  <2>3. QED
    BY <1>1, <2>2
<1>4. PICK to : to = Opened(t, r)
  OBVIOUS
<1>5. to = [status |-> "OCCUPIED", active |-> tables[t].active, session |-> s]
      /\ to.active = tables[t].active /\ to \in TableDocs
  <2>1. tables[t] = [status |-> tables[t].status, active |-> tables[t].active,
                     session |-> tables[t].session] /\ tables[t].active \in BOOLEAN
    BY <1>1 DEF TableDocs
  <2>2. to = [tables[t] EXCEPT !.status = "OCCUPIED", !.session = s]
    BY <1>2, <1>4 DEF Opened
  <2>3. QED
    BY <1>3, <2>1, <2>2 DEF TableDocs, TableStatus
<1>6. g.w = "table" /\ g.t = t /\ g.set = Changes(tables[t], to)
  BY <1>4 DEF SaveTable
<1>7. /\ DOMAIN g.set \subseteq {"status", "active", "session"}
      /\ "status" \in DOMAIN g.set /\ g.set.status = "OCCUPIED"
      /\ "session" \in DOMAIN g.set /\ g.set.session = s
      /\ "active" \notin DOMAIN g.set
  <2>1. to.status = "OCCUPIED" /\ to.session = s
    BY <1>5
  <2>2. QED
    BY <1>1, <1>3, <1>5, <1>6, <2>1, TableChanges
<1>8. TablePatch(op, g.set)
  BY <1>3, <1>7 DEF TablePatch, TableStatus
<1>9. QED
  BY <1>2, <1>6, <1>7, <1>8

-----------------------------------------------------------------------------
(* The handlers of the tables.                                              *)

\* SetActive and deactivateTable.
LEMMA EditBegins ==
  ASSUME IInv, NEW a \in Actor, NEW t \in Table, SetActive(a, t) \/ DeactivateTable(a, t)
  PROVE  IInv'
<1>1. DataInv
  BY DEF IInv
<1>2. /\ tables[t] \in TableDocs /\ tables[t].active \in BOOLEAN
      /\ tables[t] = [status |-> tables[t].status, active |-> tables[t].active,
                      session |-> tables[t].session]
  BY <1>1 DEF DataInv, TableDocs
<1>3. PICK to : /\ Begin(a, "edit", {t}, <<SaveTable(t, to)>>) /\ to \in TableDocs
                /\ to.session = tables[t].session
                /\ \/ to.status = tables[t].status
                   \/ to.status = "INACTIVE" /\ tables[t].status \notin InUse
  <2>1. CASE SetActive(a, t)
    <3>1. PICK to : to = [tables[t] EXCEPT !.active = ~@]
      OBVIOUS
    <3>2. to = [status |-> tables[t].status, active |-> ~tables[t].active,
                session |-> tables[t].session]
      BY <1>2, <3>1
    <3>3. /\ to \in TableDocs /\ to.session = tables[t].session
          /\ to.status = tables[t].status
      BY <1>2, <3>2 DEF TableDocs
    <3>4. QED
      BY <2>1, <3>1, <3>3 DEF SetActive
  <2>2. CASE DeactivateTable(a, t)
    <3>1. PICK to : to = [tables[t] EXCEPT !.active = FALSE, !.status = "INACTIVE"]
      OBVIOUS
    <3>2. to = [status |-> "INACTIVE", active |-> FALSE, session |-> tables[t].session]
      BY <1>2, <3>1
    <3>3. /\ to \in TableDocs /\ to.session = tables[t].session
          /\ to.status = "INACTIVE"
      BY <1>2, <3>2 DEF TableDocs, TableStatus
    <3>4. QED
      BY <2>2, <3>1, <3>3 DEF DeactivateTable, InUse
  <2>3. QED
    BY <2>1, <2>2
<1>4. UNCHANGED <<tables, books, locked, orders, sessions>>
  BY DEF SetActive, DeactivateTable, floorVars
<1>5. PICK g : g = SaveTable(t, to)
  OBVIOUS
<1>6. PICK on : on = {t}
  OBVIOUS
<1>7. g.w = "table" /\ g.t = t /\ g.set = Changes(tables[t], to)
  BY <1>5 DEF SaveTable
<1>8. /\ DOMAIN g.set \subseteq {"status", "active", "session"}
      /\ "session" \notin DOMAIN g.set
      /\ "status" \in DOMAIN g.set => g.set.status = "INACTIVE" /\ tables[t].status \notin InUse
      /\ "active" \in DOMAIN g.set => g.set.active = to.active
  BY <1>2, <1>3, <1>7, TableChanges
<1>9. PlanInv("edit", on, g, <<>>)'
  <2>1. to.active \in BOOLEAN
    BY <1>3 DEF TableDocs
  <2>2. TablePatch("edit", g.set)
    BY <1>8, <2>1 DEF TablePatch, TableStatus
  <2>3. TableWrite("edit", on, g)'
    BY <1>6, <1>7, <1>8, <2>2 DEF TableWrite
  <2>4. QED
    BY <2>3 DEF PlanInv
<1>10. ASSUME Write(a)' = g, Rest(a)' = <<>>, req'[a].op = "edit", req'[a].on = on
       PROVE  Claims(a)'
  BY <1>4, <1>7, <1>8, <1>10 DEF Claims, TableClaim, BookClaim, HoldClaim, OrderClaim, ReadClaim
<1>11. Begin(a, "edit", on, <<g>>)
  BY <1>3, <1>5, <1>6
<1>12. sessions' \in 0..MaxSessions /\ sessions <= sessions'
  BY <1>1, <1>4 DEF DataInv
<1>13. QED
  BY <1>4, <1>9, <1>10, <1>11, <1>12, BeginOne

\* requestBill.
LEMMA BillBegins ==
  ASSUME IInv, NEW a \in Actor, NEW t \in Table, RequestBill(a, t)
  PROVE  IInv'
<1>1. DataInv
  BY DEF IInv
<1>2. /\ tables[t] \in TableDocs
      /\ tables[t] = [status |-> tables[t].status, active |-> tables[t].active,
                      session |-> tables[t].session]
  BY <1>1 DEF DataInv, TableDocs
<1>3. PICK to : to = [tables[t] EXCEPT !.status = "BILLING"]
  OBVIOUS
<1>4. to = [status |-> "BILLING", active |-> tables[t].active, session |-> tables[t].session]
  BY <1>2, <1>3
<1>5. /\ to \in TableDocs /\ to.status = "BILLING" /\ to.active = tables[t].active
      /\ to.session = tables[t].session
  BY <1>2, <1>4 DEF TableDocs, TableStatus
<1>6. UNCHANGED <<tables, books, locked, orders, sessions>> /\ tables[t].status = "OCCUPIED"
  BY <1>1, Moving DEF RequestBill, floorVars
<1>7. PICK g : g = SaveTable(t, to)
  OBVIOUS
<1>8. PICK on : on = {t}
  OBVIOUS
<1>9. g.w = "table" /\ g.t = t /\ g.set = Changes(tables[t], to)
  BY <1>7 DEF SaveTable
<1>10. DOMAIN g.set = {"status"} /\ g.set.status = "BILLING"
  BY <1>2, <1>5, <1>6, <1>9, TableChanges
<1>11. PlanInv("bill", on, g, <<>>)'
  <2>1. TablePatch("bill", g.set)
    BY <1>10 DEF TablePatch, TableStatus
  <2>2. TableWrite("bill", on, g)'
    BY <1>8, <1>9, <1>10, <2>1 DEF TableWrite
  <2>3. QED
    BY <2>2 DEF PlanInv
<1>12. ASSUME Write(a)' = g, Rest(a)' = <<>>, req'[a].op = "bill", req'[a].on = on
       PROVE  Claims(a)'
  BY <1>6, <1>9, <1>12 DEF Claims, TableClaim, BookClaim, HoldClaim, OrderClaim, ReadClaim
<1>13. Begin(a, "bill", on, <<g>>)
  BY <1>3, <1>7, <1>8 DEF RequestBill
<1>14. sessions' \in 0..MaxSessions /\ sessions <= sessions'
  BY <1>1, <1>6 DEF DataInv
<1>15. QED
  BY <1>6, <1>11, <1>12, <1>13, <1>14, BeginOne

\* closeTable.
LEMMA CloseBegins ==
  ASSUME IInv, NEW a \in Actor, NEW t \in Table, CloseTable(a, t)
  PROVE  IInv'
<1>1. DataInv
  BY DEF IInv
<1>2. /\ tables[t] \in TableDocs /\ tables[t].status # "AVAILABLE"
      /\ tables[t].session.book \in {NoReservation} \cup Books
  BY <1>1, Moving DEF CloseTable, DataInv
<1>3. UNCHANGED <<tables, books, locked, orders, sessions>>
  BY DEF CloseTable, floorVars
<1>4. PICK g : g = CloseIfDone(t)
  OBVIOUS
<1>5. PICK on : on = {t, tables[t].session.book} \ {NoReservation}
  OBVIOUS
<1>6. g.w = "close" /\ g.t = t /\ g.copy = tables[t]
  BY <1>4 DEF CloseIfDone
<1>7. t # NoReservation
  BY DiningAssumption
<1>8. g.copy.session.book \in {NoReservation} \cup (Books' \cap on)
  BY <1>2, <1>3, <1>5, <1>6 DEF Books, Exists
<1>9. PlanInv("close", on, g, <<>>)'
  BY <1>2, <1>5, <1>6, <1>7, <1>8 DEF PlanInv
<1>10. ASSUME Write(a)' = g, Rest(a)' = <<>>, req'[a].op = "close", req'[a].on = on
       PROVE  Claims(a)'
  BY <1>3, <1>6, <1>10 DEF Claims, TableClaim, BookClaim, HoldClaim, OrderClaim, ReadClaim
<1>11. Begin(a, "close", on, <<g>>)
  BY <1>4, <1>5 DEF CloseTable
<1>12. sessions' \in 0..MaxSessions /\ sessions <= sessions'
  BY <1>1, <1>3 DEF DataInv
<1>13. QED
  BY <1>3, <1>9, <1>10, <1>11, <1>12, BeginOne

\* seatTable.
LEMMA SeatBegins ==
  ASSUME IInv, NEW a \in Actor, NEW t \in Table, NEW r \in {NoReservation} \cup Books,
         SeatTable(a, t, r)
  PROVE  IInv'
<1>1. DataInv /\ sessions \in Nat /\ MaxSessions \in Nat
  BY DiningAssumption DEF IInv, DataInv
<1>2. /\ tables[t].status \in {"AVAILABLE", "RESERVED"}
      /\ sessions < MaxSessions /\ sessions' = sessions + 1
      /\ UNCHANGED <<tables, books, locked, orders>>
  BY <1>1, Moving DEF SeatTable, NewSession
<1>3. sessions' \in 0..MaxSessions /\ sessions <= sessions'
  BY <1>1, <1>2
<1>4. PICK g : g = SaveTable(t, Opened(t, r))
  OBVIOUS
<1>5. PICK on : on = {t, r} \ {NoReservation}
  OBVIOUS
<1>6. /\ g.w = "table" /\ g.t = t /\ TablePatch("seat", g.set)
      /\ g.set.session = [id |-> sessions + 1, book |-> r]
  BY <1>1, <1>2, <1>4, Opens
<1>7. t \in on
  BY <1>5, DiningAssumption
<1>8. g.set.session.id = sessions + 1 /\ g.set.session.book = r
  BY <1>6
<1>9. TableWrite("seat", on, g)'
  BY <1>2, <1>3, <1>6, <1>7, <1>8 DEF TableWrite
<1>10. PICK f : f = SetBook(r, "SEATED")
  OBVIOUS
<1>11. <<g>> \o <<>> = <<g>> /\ <<g>> \o <<f>> = <<g, f>>
  BY Joins
<1>12. Begin(a, "seat", on, IF r = NoReservation THEN <<g>> ELSE <<g, f>>)
  BY <1>4, <1>5, <1>10, <1>11 DEF SeatTable
<1>13. ASSUME Write(a)' = g, req'[a].op = "seat", req'[a].on = on
       PROVE  Claims(a)'
  BY <1>2, <1>6, <1>13 DEF Claims, TableClaim, BookClaim, HoldClaim, OrderClaim, ReadClaim
<1>14. CASE r = NoReservation
  <2>1. PlanInv("seat", on, g, <<>>)'
    BY <1>8, <1>9, <1>14 DEF PlanInv
  <2>2. Begin(a, "seat", on, <<g>>)
    BY <1>12, <1>14
  <2>3. QED
    BY <1>2, <1>3, <1>13, <2>1, <2>2, BeginOne
<1>15. CASE r # NoReservation
  <2>1. r \in Books' \cap on
    BY <1>2, <1>5, <1>15 DEF Books, Exists
  <2>2. PlanInv("seat", on, g, <<f>>)'
    BY <1>8, <1>9, <1>10, <2>1 DEF PlanInv, SetBook
  <2>3. Begin(a, "seat", on, <<g, f>>)
    BY <1>12, <1>15
  <2>4. QED
    BY <1>2, <1>3, <1>13, <2>2, <2>3, BeginTwo
<1>16. QED
  BY <1>14, <1>15

\* An order at a table.
LEMMA OrderBegins ==
  ASSUME IInv, NEW a \in Actor, NEW t \in Table, PlaceOrder(a, t)
  PROVE  IInv'
<1>1. DataInv /\ TablesInv /\ sessions \in Nat /\ MaxSessions \in Nat
  BY DiningAssumption DEF IInv, DataInv
<1>2. PICK on : on = {t}
  OBVIOUS
<1>3. CASE tables[t].status = "AVAILABLE"
  <2>1. /\ sessions < MaxSessions /\ sessions' = sessions + 1
        /\ UNCHANGED <<tables, books, locked, orders>>
    BY <1>3 DEF PlaceOrder, NewSession
  <2>2. sessions' \in 0..MaxSessions /\ sessions <= sessions'
    BY <1>1, <2>1
  <2>3. PICK g : g = SaveTable(t, Opened(t, NoReservation))
    OBVIOUS
  <2>4. /\ g.w = "table" /\ g.t = t /\ TablePatch("order", g.set)
        /\ g.set.session = [id |-> sessions + 1, book |-> NoReservation]
    BY <1>1, <1>3, <2>1, <2>3, Opens
  <2>5. g.set.session.id = sessions + 1 /\ g.set.session.book = NoReservation
    BY <2>4
  <2>6. TableWrite("order", on, g)'
    BY <1>2, <2>1, <2>2, <2>4, <2>5 DEF TableWrite
  <2>7. PICK f : f = PlaceAt(t, sessions + 1)
    OBVIOUS
  <2>8. PlanInv("order", on, g, <<f>>)'
    BY <2>4, <2>5, <2>6, <2>7 DEF PlanInv, PlaceAt
  <2>9. Begin(a, "order", on, <<g, f>>)
    BY <1>2, <1>3, <2>3, <2>7 DEF PlaceOrder
  <2>10. ASSUME Write(a)' = g, req'[a].op = "order", req'[a].on = on
         PROVE  Claims(a)'
    BY <1>3, <2>1, <2>4, <2>10 DEF Claims, TableClaim, BookClaim, HoldClaim, OrderClaim, ReadClaim
  <2>11. QED
    BY <2>1, <2>2, <2>8, <2>9, <2>10, BeginTwo
<1>4. CASE tables[t].status # "AVAILABLE"
  <2>1. UNCHANGED <<tables, books, locked, orders, sessions>>
    BY <1>4 DEF PlaceOrder, floorVars
  <2>2. sessions' \in 0..MaxSessions /\ sessions <= sessions'
    BY <1>1, <2>1 DEF DataInv
  <2>3. PICK g : g = PlaceAt(t, tables[t].session.id)
    OBVIOUS
  <2>4. g.w = "order" /\ g.t = t /\ g.session = tables[t].session.id
    BY <2>3 DEF PlaceAt
  <2>5. g.session \in 0..MaxSessions
    BY <1>1, <2>4 DEF DataInv, TableDocs, Sittings
  <2>6. PlanInv("order", on, g, <<>>)'
    BY <1>2, <2>4, <2>5 DEF PlanInv
  <2>7. Begin(a, "order", on, <<g>>)
    BY <1>2, <1>4, <2>3 DEF PlaceOrder
  <2>8. UNCHANGED hist.disturbed
    BY <2>7, Begun
  <2>9. ASSUME Write(a)' = g, Rest(a)' = <<>>, req'[a].op = "order", req'[a].on = on
        PROVE  Claims(a)'
    BY <1>1, <2>1, <2>4, <2>8, <2>9
       DEF TablesInv, Claims, TableClaim, BookClaim, HoldClaim, OrderClaim, ReadClaim
  <2>10. QED
    BY <2>1, <2>2, <2>6, <2>7, <2>9, BeginOne
<1>5. QED
  BY <1>3, <1>4

-----------------------------------------------------------------------------
(* The handlers of the reservations.                                        *)

\* createReservation.
LEMMA ReserveBegins ==
  ASSUME IInv, NEW a \in Actor, NEW slot \in Slots, NEW party, CreateReservation(a, slot, party)
  PROVE  IInv'
<1>1. DataInv
  BY DEF IInv
<1>2. PICK found : found = AvailableTables(slot, party)
  OBVIOUS
<1>3. found # {} /\ found \subseteq Table
  BY <1>2 DEF CreateReservation, AvailableTables
<1>4. PICK t \in found : t = Smallest(found)
  BY <1>3, SmallestOf
<1>5. UNCHANGED <<tables, books, locked, orders, sessions>>
  BY DEF CreateReservation, floorVars
<1>6. PICK on : on = {t}
  OBVIOUS
<1>7. PICK g : g = Insert(t, slot)
  OBVIOUS
<1>8. Begin(a, "reserve", on, <<g>>)
  BY <1>2, <1>4, <1>6, <1>7 DEF CreateReservation
<1>9. g.w = "insert" /\ g.t = t /\ g.slot = slot
  BY <1>7 DEF Insert
<1>10. PlanInv("reserve", on, g, <<>>)'
  BY <1>3, <1>6, <1>9 DEF PlanInv
<1>11. \A r \in Books : books[r].table = t /\ books[r].slot \cap slot # {} => ~Holds(r)
  BY <1>2, <1>4 DEF AvailableTables
<1>12. Books' = Books /\ \A r : Holds(r)' <=> Holds(r)
  BY <1>5 DEF Books, Exists, Holds
<1>13. HoldClaim(g)'
  BY <1>5, <1>9, <1>11, <1>12 DEF HoldClaim
<1>14. ASSUME Write(a)' = g, Rest(a)' = <<>>, req'[a].op = "reserve", req'[a].on = on
       PROVE  Claims(a)'
  BY <1>9, <1>13, <1>14 DEF Claims, TableClaim, BookClaim, OrderClaim, ReadClaim
<1>15. sessions' \in 0..MaxSessions /\ sessions <= sessions'
  BY <1>1, <1>5 DEF DataInv
<1>16. QED
  BY <1>5, <1>8, <1>10, <1>14, <1>15, BeginOne

\* What a handler of a payment saves.
LEMMA PaySaves ==
  ASSUME DataInv, NEW r \in Books, NEW to \in BookDocs,
         to.table = books[r].table, to.slot = books[r].slot,
         to.status \in {books[r].status, "CONFIRMED"}, NEW g, g = SaveBook(r, to)
  PROVE  /\ g.w = "book" /\ g.r = r /\ BookPatch("pay", g.set)
         /\ to.status = "CONFIRMED" => books[r].status = "CONFIRMED" \/ "status" \in DOMAIN g.set
<1>1. g.w = "book" /\ g.r = r /\ g.set = Changes(books[r], to)
  BY DEF SaveBook
<1>2. books[r] \in BookDocs
  BY DEF DataInv
<1>3. /\ DOMAIN g.set \subseteq {"status", "pay", "payment"}
      /\ "status" \in DOMAIN g.set <=> books[r].status # to.status
      /\ "status" \in DOMAIN g.set => g.set.status = to.status
      /\ "pay" \in DOMAIN g.set => g.set.pay = to.pay
      /\ "payment" \in DOMAIN g.set => g.set.payment = to.payment
  BY <1>1, <1>2, BookChanges
<1>4. to.pay \in {"PENDING", "PAID", "FAILED"} /\ to.payment \in {"none", "order", "payment"}
  BY DEF BookDocs
<1>5. "status" \in DOMAIN g.set => g.set.status = "CONFIRMED"
  BY <1>3
<1>6. BookPatch("pay", g.set)
  BY <1>3, <1>4, <1>5 DEF BookPatch, ReservationStatus
<1>7. QED
  BY <1>1, <1>3, <1>6

\* The payment handlers but verifyTablePayment.
LEMMA PayBegins ==
  ASSUME IInv, NEW a \in Actor, NEW r \in Reservation,
         \/ CreateTableRazorpayOrder(a, r) \/ VerifyWrongSignature(a, r)
         \/ WebhookCaptured(a, r) \/ WebhookFailed(a, r)
  PROVE  IInv'
<1>1. DataInv
  BY DEF IInv
<1>2. r \in Books /\ UNCHANGED <<tables, books, locked, orders, sessions>>
  BY DEF CreateTableRazorpayOrder, VerifyWrongSignature, WebhookCaptured, WebhookFailed,
         Books, floorVars
<1>3. /\ books[r] \in BookDocs
      /\ books[r] = [table |-> books[r].table, slot |-> books[r].slot, status |-> books[r].status,
                     pay |-> books[r].pay, payment |-> books[r].payment]
  BY <1>1, <1>2 DEF DataInv, BookDocs
<1>4. PICK to : /\ Begin(a, "pay", {r}, <<SaveBook(r, to)>>) /\ to \in BookDocs
                /\ to.table = books[r].table /\ to.slot = books[r].slot
                /\ to.status \in {books[r].status, "CONFIRMED"}
  <2>1. CASE CreateTableRazorpayOrder(a, r)
    <3>1. PICK to : to = [books[r] EXCEPT !.payment = "order"]
      OBVIOUS
    <3>2. to = [table |-> books[r].table, slot |-> books[r].slot, status |-> books[r].status,
                pay |-> books[r].pay, payment |-> "order"]
      BY <1>3, <3>1
    <3>3. /\ to \in BookDocs /\ to.table = books[r].table /\ to.slot = books[r].slot
          /\ to.status = books[r].status
      BY <1>3, <3>2 DEF BookDocs
    <3>4. QED
      BY <2>1, <3>1, <3>3 DEF CreateTableRazorpayOrder
  <2>2. CASE VerifyWrongSignature(a, r) \/ WebhookFailed(a, r)
    <3>1. PICK to : to = [books[r] EXCEPT !.pay = "FAILED"]
      OBVIOUS
    <3>2. to = [table |-> books[r].table, slot |-> books[r].slot, status |-> books[r].status,
                pay |-> "FAILED", payment |-> books[r].payment]
      BY <1>3, <3>1
    <3>3. /\ to \in BookDocs /\ to.table = books[r].table /\ to.slot = books[r].slot
          /\ to.status = books[r].status
      BY <1>3, <3>2 DEF BookDocs
    <3>4. QED
      BY <2>2, <3>1, <3>3 DEF VerifyWrongSignature, WebhookFailed
  <2>3. CASE WebhookCaptured(a, r)
    <3>1. PICK to : to = [books[r] EXCEPT !.pay = "PAID", !.status = "CONFIRMED"]
      OBVIOUS
    <3>2. to = [table |-> books[r].table, slot |-> books[r].slot, status |-> "CONFIRMED",
                pay |-> "PAID", payment |-> books[r].payment]
      BY <1>3, <3>1
    <3>3. /\ to \in BookDocs /\ to.table = books[r].table /\ to.slot = books[r].slot
          /\ to.status = "CONFIRMED"
      BY <1>3, <3>2 DEF BookDocs, ReservationStatus
    <3>4. QED
      BY <2>3, <3>1, <3>3 DEF WebhookCaptured
  <2>4. QED
    BY <2>1, <2>2, <2>3
<1>5. PICK g : g = SaveBook(r, to)
  OBVIOUS
<1>6. PICK on : on = {r}
  OBVIOUS
<1>7. g.w = "book" /\ g.r = r /\ BookPatch("pay", g.set)
  BY <1>1, <1>2, <1>4, <1>5, PaySaves
<1>8. Books' = Books
  BY <1>2 DEF Books, Exists
<1>9. PlanInv("pay", on, g, <<>>)'
  <2>1. BookWrite("pay", on, g)'
    BY <1>2, <1>6, <1>7, <1>8 DEF BookWrite
  <2>2. QED
    BY <2>1 DEF PlanInv
<1>10. ASSUME Write(a)' = g, Rest(a)' = <<>>, req'[a].op = "pay", req'[a].on = on
       PROVE  Claims(a)'
  BY <1>7, <1>10 DEF Claims, TableClaim, BookClaim, HoldClaim, OrderClaim, ReadClaim
<1>11. Begin(a, "pay", on, <<g>>)
  BY <1>4, <1>5, <1>6
<1>12. sessions' \in 0..MaxSessions /\ sessions <= sessions'
  BY <1>1, <1>2 DEF DataInv
<1>13. QED
  BY <1>2, <1>9, <1>10, <1>11, <1>12, BeginOne

\* verifyTablePayment.
LEMMA VerifyBegins ==
  ASSUME IInv, NEW a \in Actor, NEW r \in Reservation, VerifyTablePayment(a, r)
  PROVE  IInv'
<1>1. DataInv
  BY DEF IInv
<1>2. r \in Books /\ UNCHANGED <<tables, books, locked, orders, sessions>>
  BY DEF VerifyTablePayment, Books, floorVars
<1>3. /\ books[r] \in BookDocs
      /\ books[r] = [table |-> books[r].table, slot |-> books[r].slot, status |-> books[r].status,
                     pay |-> books[r].pay, payment |-> books[r].payment]
  BY <1>1, <1>2 DEF DataInv, BookDocs
<1>4. PICK to : to = [books[r] EXCEPT !.pay = "PAID", !.status = "CONFIRMED",
                                      !.payment = "payment"]
  OBVIOUS
<1>5. to = [table |-> books[r].table, slot |-> books[r].slot, status |-> "CONFIRMED",
            pay |-> "PAID", payment |-> "payment"]
  BY <1>3, <1>4
<1>6. /\ to \in BookDocs /\ to.table = books[r].table /\ to.slot = books[r].slot
      /\ to.status = "CONFIRMED"
  BY <1>3, <1>5 DEF BookDocs, ReservationStatus
<1>7. PICK g : g = SaveBook(r, to)
  OBVIOUS
<1>8. PICK t : t = books[r].table
  OBVIOUS
<1>9. PICK f : f = ReserveIfFree(t)
  OBVIOUS
<1>10. PICK on : on = {r, t}
  OBVIOUS
<1>11. /\ g.w = "book" /\ g.r = r /\ BookPatch("pay", g.set)
       /\ books[r].status = "CONFIRMED" \/ "status" \in DOMAIN g.set
  BY <1>1, <1>2, <1>6, <1>7, PaySaves
<1>12. Books' = Books
  BY <1>2 DEF Books, Exists
<1>13. PlanInv("pay", on, g, <<f>>)'
  <2>1. BookWrite("pay", on, g)'
    BY <1>2, <1>10, <1>11, <1>12 DEF BookWrite
  <2>2. QED
    BY <1>2, <1>8, <1>9, <1>10, <1>11, <2>1 DEF PlanInv, ReserveIfFree
<1>14. ASSUME Write(a)' = g, Rest(a)' = <<f>>, req'[a].op = "pay", req'[a].on = on
       PROVE  Claims(a)'
  BY <1>2, <1>11, <1>14 DEF Claims, TableClaim, BookClaim, HoldClaim, OrderClaim, ReadClaim
<1>15. Begin(a, "pay", on, <<g, f>>)
  BY <1>4, <1>7, <1>8, <1>9, <1>10 DEF VerifyTablePayment
<1>16. sessions' \in 0..MaxSessions /\ sessions <= sessions'
  BY <1>1, <1>2 DEF DataInv
<1>17. QED
  BY <1>2, <1>13, <1>14, <1>15, <1>16, BeginTwo

\* updateReservation.
LEMMA UpdateBegins ==
  ASSUME IInv, NEW a \in Actor, NEW r \in Reservation, NEW s \in HandStatuses,
         UpdateReservation(a, r, s)
  PROVE  IInv'
<1>1. DataInv /\ s \in ReservationStatus
  BY DiningAssumption DEF IInv
<1>2. r \in Books /\ UNCHANGED <<tables, books, locked, orders, sessions>>
  BY DEF UpdateReservation, Books, floorVars
<1>3. /\ books[r] \in BookDocs
      /\ books[r] = [table |-> books[r].table, slot |-> books[r].slot, status |-> books[r].status,
                     pay |-> books[r].pay, payment |-> books[r].payment]
      /\ books[r].pay \in {"PENDING", "PAID", "FAILED"}
  BY <1>1, <1>2 DEF DataInv, BookDocs
<1>4. PICK to : to = [books[r] EXCEPT !.status = s,
                                      !.pay = IF s = "CONFIRMED" THEN "PAID" ELSE @]
  OBVIOUS
<1>5. to = [table |-> books[r].table, slot |-> books[r].slot, status |-> s,
            pay |-> IF s = "CONFIRMED" THEN "PAID" ELSE books[r].pay,
            payment |-> books[r].payment]
  BY <1>3, <1>4
<1>6. /\ to \in BookDocs /\ to.table = books[r].table /\ to.slot = books[r].slot
      /\ to.status = s
  BY <1>1, <1>3, <1>5 DEF BookDocs
<1>7. PICK g : g = SaveBook(r, to)
  OBVIOUS
<1>8. PICK t : t = books[r].table
  OBVIOUS
<1>9. PICK f : f = ReleaseIfLast(t, r)
  OBVIOUS
<1>10. PICK on : on = {r, t}
  OBVIOUS
<1>11. /\ g.w = "book" /\ g.r = r /\ BookPatch("update", g.set)
       /\ "status" \in DOMAIN g.set <=> books[r].status # s
       /\ "status" \in DOMAIN g.set => g.set.status = s
  <2>1. g.w = "book" /\ g.r = r /\ g.set = Changes(books[r], to)
    BY <1>7 DEF SaveBook
  <2>2. /\ DOMAIN g.set \subseteq {"status", "pay", "payment"}
        /\ "status" \in DOMAIN g.set <=> books[r].status # to.status
        /\ "status" \in DOMAIN g.set => g.set.status = to.status
        /\ "pay" \in DOMAIN g.set => g.set.pay = to.pay
        /\ "payment" \in DOMAIN g.set => g.set.payment = to.payment
    BY <1>3, <1>6, <2>1, BookChanges
  <2>3. to.pay \in {"PENDING", "PAID", "FAILED"} /\ to.payment \in {"none", "order", "payment"}
    BY <1>6 DEF BookDocs
  <2>4. BookPatch("update", g.set)
    BY <1>1, <1>6, <2>2, <2>3 DEF BookPatch
  <2>5. QED
    BY <1>6, <2>1, <2>2, <2>4
<1>12. <<g>> \o <<>> = <<g>> /\ <<g>> \o <<f>> = <<g, f>>
  BY Joins
<1>13. Begin(a, "update", on,
             IF s \in Terminal /\ books[r].status # s THEN <<g, f>> ELSE <<g>>)
  BY <1>4, <1>7, <1>8, <1>9, <1>10, <1>12 DEF UpdateReservation
<1>14. r \in hist'.edited /\ Books' = Books
  <2>1. on \cap Reservation \subseteq hist'.edited
    BY <1>13, Begun
  <2>2. QED
    BY <1>2, <1>10, <2>1 DEF Books, Exists
<1>15. BookWrite("update", on, g)'
  BY <1>2, <1>10, <1>11, <1>14 DEF BookWrite
<1>16. ASSUME Write(a)' = g, req'[a].op = "update", req'[a].on = on
       PROVE  Claims(a)'
  BY <1>11, <1>16 DEF Claims, TableClaim, BookClaim, HoldClaim, OrderClaim, ReadClaim
<1>17. sessions' \in 0..MaxSessions /\ sessions <= sessions'
  BY <1>1, <1>2 DEF DataInv
<1>18. CASE s \in Terminal /\ books[r].status # s
  <2>1. PlanInv("update", on, g, <<f>>)'
    BY <1>2, <1>8, <1>9, <1>10, <1>11, <1>14, <1>15 DEF PlanInv, ReleaseIfLast
  <2>2. Begin(a, "update", on, <<g, f>>)
    BY <1>13, <1>18
  <2>3. QED
    BY <1>2, <1>16, <1>17, <2>1, <2>2, BeginTwo
<1>19. CASE s \notin Terminal \/ books[r].status = s
  <2>1. PlanInv("update", on, g, <<>>)'
    BY <1>11, <1>14, <1>15, <1>19 DEF PlanInv
  <2>2. Begin(a, "update", on, <<g>>)
    BY <1>13, <1>19
  <2>3. QED
    BY <1>2, <1>16, <1>17, <2>1, <2>2, BeginOne
<1>20. QED
  BY <1>18, <1>19

-----------------------------------------------------------------------------
(* The theorems.                                                            *)

\* The invariant holds at the start.
LEMMA InitIInv == Init => IInv
<1>1. SUFFICES ASSUME Init PROVE IInv
  OBVIOUS
<1>2. Books = {} /\ Orders = {}
  BY <1>1 DEF Init, Books, Exists, Orders
<1>3. \A t \in Table : /\ tables[t].status = "AVAILABLE" /\ tables[t].session = NoSession
                       /\ tables[t] \in TableDocs
  <2>1. NoSession \in Sittings
    BY DiningAssumption DEF NoSession, Sittings
  <2>2. QED
    BY <1>1, <2>1 DEF Init, TableDocs, TableStatus
<1>4. NoSession.id = 0 /\ NoSession.book = NoReservation
  BY DEF NoSession
<1>5. DataInv
  <2>1. tables \in [Table -> TableDocs]
    <3>1. tables = [t \in Table |-> tables[t]]
      BY <1>1 DEF Init
    <3>2. QED
      BY <1>3, <3>1
  <2>2. sessions \in 0..MaxSessions /\ faults \in Nat /\ sessions = 0
    BY <1>1, DiningAssumption DEF Init
  <2>3. \A t \in Table : /\ tables[t].session.id <= sessions
                         /\ tables[t].session.book \in {NoReservation} \cup Books
    BY <1>3, <1>4, <2>2
  <2>4. hist = NoHistory
    BY <1>1 DEF Init
  <2>5. QED
    BY <1>1, <1>2, <2>1, <2>2, <2>3, <2>4 DEF Init, DataInv, NoHistory
<1>6. \A a \in Actor : req[a] = Idle
  BY <1>1 DEF Init
<1>7. RequestsInv /\ Rivalry /\ \A a \in Actor : Claims(a)
  BY <1>1, <1>6 DEF Init, RequestsInv, RequestInv, Rivalry, Claims, Alone, Busy
<1>8. TablesInv /\ ReservedInv
  BY <1>3, <1>4 DEF TablesInv, ReservedInv
<1>9. NoDoubleReservation /\ OrdersInTheirSession /\ SeatedGuestsHaveTable
  BY <1>2 DEF NoDoubleReservation, OrdersInTheirSession, SeatedGuestsHaveTable
<1>10. QED
  BY <1>5, <1>7, <1>8, <1>9 DEF IInv

\* Every step keeps it.
LEMMA NextIInv == IInv /\ [Next]_vars => IInv'
<1>1. SUFFICES ASSUME IInv, [Next]_vars PROVE IInv'
  OBVIOUS
<1>2. CASE UNCHANGED vars
  <2>1. UNCHANGED <<tables, books, locked, orders, sessions, req, faults, hist>>
    BY <1>2 DEF vars
  <2>2. Books' = Books /\ Orders' = Orders /\ DataInv
    BY <1>1, <2>1 DEF Books, Exists, Orders, IInv
  <2>3. \A o \in Orders : /\ orders'[o] \in OrderDocs
                          /\ orders'[o].open => orders'[o] = orders[o]
    BY <2>1, <2>2 DEF DataInv
  <2>4. orders' = [o \in Order |-> orders'[o]]
    BY <2>1, <2>2 DEF DataInv
  <2>5. QED
    BY <1>1, <2>1, <2>2, <2>3, <2>4, QuietStep
<1>3. ASSUME NEW a \in Actor, NEW t \in Table, TableRequests(a, t) PROVE IInv'
  <2>1. CASE SetActive(a, t) \/ DeactivateTable(a, t)
    BY <1>1, <2>1, EditBegins
  <2>2. CASE RequestBill(a, t)
    BY <1>1, <2>2, BillBegins
  <2>3. CASE CloseTable(a, t)
    BY <1>1, <2>3, CloseBegins
  <2>4. CASE PlaceOrder(a, t)
    BY <1>1, <2>4, OrderBegins
  <2>5. CASE \E r \in {NoReservation} \cup Books : SeatTable(a, t, r)
    BY <1>1, <2>5, SeatBegins
  <2>6. QED
    BY <1>3, <2>1, <2>2, <2>3, <2>4, <2>5 DEF TableRequests
<1>4. ASSUME NEW a \in Actor, NEW r \in Reservation, BookRequests(a, r) PROVE IInv'
  <2>1. CASE \/ CreateTableRazorpayOrder(a, r) \/ VerifyWrongSignature(a, r)
             \/ WebhookCaptured(a, r) \/ WebhookFailed(a, r)
    BY <1>1, <2>1, PayBegins
  <2>2. CASE VerifyTablePayment(a, r)
    BY <1>1, <2>2, VerifyBegins
  <2>3. CASE \E s \in HandStatuses : UpdateReservation(a, r, s)
    BY <1>1, <2>3, UpdateBegins
  <2>4. QED
    BY <1>4, <2>1, <2>2, <2>3 DEF BookRequests
<1>5. ASSUME NEW a \in Actor, NEW s \in Slots, NEW n \in Parties, CreateReservation(a, s, n)
      PROVE  IInv'
  BY <1>1, <1>5, ReserveBegins
<1>6. ASSUME NEW a \in Actor, Writes(a) PROVE IInv'
  <2>1. CASE DoInsert(a)
    BY <1>1, <2>1, InsertStep
  <2>2. CASE DoTable(a)
    BY <1>1, <2>2, TableStep
  <2>3. CASE DoBook(a)
    BY <1>1, <2>3, BookStep
  <2>4. CASE DoOrder(a)
    BY <1>1, <2>4, OrderStep
  <2>5. CASE OrderRefused(a)
    BY <1>1, <2>5, RefusedStep
  <2>6. CASE DoClose(a)
    BY <1>1, <2>6, CloseStep
  <2>7. CASE DoReserve(a)
    BY <1>1, <2>7, ReserveStep
  <2>8. CASE DoRelease(a)
    BY <1>1, <2>8, ReleaseStep
  <2>9. CASE DoFree(a)
    BY <1>1, <2>9, FreeStep
  <2>10. QED
    BY <1>6, <2>1, <2>2, <2>3, <2>4, <2>5, <2>6, <2>7, <2>8, <2>9 DEF Writes
<1>7. ASSUME NEW a \in Actor, Dies(a) PROVE IInv'
  BY <1>1, <1>7, DeathStep
<1>8. CASE \/ \E r \in Reservation : GuestPays(r) \/ LockEnds(r)
           \/ \E o \in Order : KitchenFinishes(o) \/ ForceStatus(o)
  BY <1>1, <1>8, OutsideStep
<1>9. QED
  BY <1>1, <1>2, <1>3, <1>4, <1>5, <1>6, <1>7, <1>8 DEF Next

\* What every request knows, and what it leaves behind, always holds.
THEOREM FloorInvariant == Spec => []IInv
<1>1. QED
  BY InitIInv, NextIInv, PTL DEF Spec

\* Tables, reservations and orders always have the shapes of their schemas, and
\* once all reservations of a table have ended and no request is under way the
\* table is not left reserved (updateReservation, closeTable), unless
\* overlapping requests saved it or one died half-way.
THEOREM FloorHolds == Spec => []FloorInv
<1>1. IInv => FloorInv
  <2>1. SUFFICES ASSUME IInv PROVE FloorInv
    OBVIOUS
  <2>2. TypeOK
    BY <2>1 DEF IInv, DataInv, TypeOK
  <2>3. ReleasedWithLastReservation
    BY <2>1 DEF IInv, ReservedInv, ReleasedWithLastReservation, Releases, Busy
  <2>4. QED
    BY <2>2, <2>3 DEF FloorInv
<1>2. QED
  BY <1>1, FloorInvariant, PTL

\* Two reservations never hold one table in the same hour, unless one was
\* created, confirmed late or saved while another request about it was under
\* way (getAvailableTables, createReservation, verifyTablePayment).
THEOREM TablesNotDoubleReserved == Spec => []NoDoubleReservation
<1>1. IInv => NoDoubleReservation
  BY DEF IInv
<1>2. QED
  BY <1>1, FloorInvariant, PTL

\* An open order belongs to the session its table shows, also one the staff
\* reopened by hand while the session lasted (checkout, guestCheckout, closeTable,
\* forceStatus).  Excepted are orders placed, and tables saved, by overlapping
\* requests, and orders reopened once their table was closed or being closed.
THEOREM OrdersStayInSession == Spec => []OrdersInTheirSession
<1>1. IInv => OrdersInTheirSession
  BY DEF IInv
<1>2. QED
  BY <1>1, FloorInvariant, PTL

\* A reservation marked seated has a table in use under its name, unless the
\* staff set its status by hand or overlapping requests saved it (seatTable,
\* closeTable).
THEOREM SeatedHaveTable == Spec => []SeatedGuestsHaveTable
<1>1. IInv => SeatedGuestsHaveTable
  BY DEF IInv
<1>2. QED
  BY <1>1, FloorInvariant, PTL

-----------------------------------------------------------------------------
(* The waitlist: its entries and what is left of its requests.              *)

\* The collections have the shapes of their schemas, and no two groups came at
\* the same time.
QueueShape ==
    /\ entries = [g \in Group |-> entries[g]]
    /\ arrivals \in Nat
    /\ \A g \in Guests : /\ entries[g] \in Entries
                         /\ entries[g].pos \in 0..arrivals /\ entries[g].at \in 1..arrivals
    /\ \A g, h \in Guests : entries[g].at = entries[h].at => g = h
    /\ IsFiniteSet(Guests) /\ Cardinality(Guests) = arrivals
    /\ tangled \in BOOLEAN
    /\ sitting \in [Table -> SUBSET Guests]
    /\ hist.disturbed \subseteq upset

FloorShape ==
    /\ faults \in Nat
    /\ tables = [t \in Table |-> tables[t]]
    /\ \A t \in Table : tables[t] = [status |-> tables[t].status, active |-> tables[t].active,
                                     session |-> tables[t].session]
    /\ hist = [crossed |-> hist.crossed, raced |-> hist.raced,
               unchecked |-> hist.unchecked, edited |-> hist.edited,
               disturbed |-> hist.disturbed, strayed |-> hist.strayed]

-----------------------------------------------------------------------------
(* What is left of a request.                                               *)

QueueOps == {"join", "list", "seatGroup", "cancelEntry", "auto"}
FloorWrites == {"table", "book", "order", "close", "insert", "reserve", "release", "free"}
TableWrites == {"table", "close", "reserve", "release", "free"}

\* A write of the floor's own handlers.
FloorWrite(on, h) == h.w \in FloorWrites /\ (h.w \in TableWrites => h.t \in on)

FloorPlan(q) ==
    /\ q.op \notin QueueOps
    /\ \/ \E h : q.todo = <<h>> /\ FloorWrite(q.on, h)
       \/ \E h, n : q.todo = <<h, n>> /\ FloorWrite(q.on, h) /\ FloorWrite(q.on, n)

\* A list of entries read from the waitlist: only places and tables have changed.
ListOfEntries(list) ==
    /\ list = [g \in DOMAIN list |-> list[g]]
    /\ DOMAIN list \subseteq Guests
    /\ \A g \in DOMAIN list :
         /\ list[g] \in Entries /\ list[g].status = "PENDING"
         /\ list[g].pos \in 0..arrivals /\ list[g].at = entries[g].at

NumberWrite(h) ==
    /\ h = [w |-> "number", left |-> h.left, n |-> h.n, stored |-> h.stored]
    /\ ListOfEntries(h.left) /\ DOMAIN h.left # {}
    /\ h.n \in Nat \ {0} /\ h.n + Cardinality(DOMAIN h.left) <= arrivals + 1
    /\ h.stored \in BOOLEAN

AssignWrite(h) ==
    /\ h = AssignNext(h.queue, h.pool)
    /\ ListOfEntries(h.queue) /\ h.pool \subseteq Table

\* What follows the seating of a group.
SeatingEnds(op, m) ==
    \/ op = "seatGroup" /\ m = Recalculate
    \/ op = "auto" /\ AssignWrite(m)

CancelWrite(h) ==
    /\ h.w = "entry" /\ h.g \in Guests
    /\ DOMAIN h.set \subseteq {"status", "pos"}
    /\ "status" \in DOMAIN h.set => h.set.status = "CANCELLED"
    /\ "pos" \in DOMAIN h.set => h.set.pos = 0

QueuePlan(q) ==
    /\ Queue \in q.on
    /\ q.op = "auto" => Table \subseteq q.on
    /\ \/ q.op = "join" /\ \E p \in 1..arrivals + 1 : q.todo = <<JoinAt(p)>>
       \/ q.op \in {"list", "seatGroup", "cancelEntry", "auto"}
            /\ \E h : q.todo = <<h>> /\ NumberWrite(h) /\ (q.op = "list" <=> h.stored)
       \/ q.op \in {"seatGroup", "cancelEntry", "auto"} /\ q.todo = <<Recalculate>>
       \/ q.op = "seatGroup"
            /\ \E g \in Guests, t \in Table \cap q.on : q.todo = <<SeatIfFree(g, t)>>
       \/ q.op = "cancelEntry" /\ \E h : q.todo = <<h, Recalculate>> /\ CancelWrite(h)
       \/ q.op = "auto" /\ \E list : q.todo = <<AssignPool(list)>> /\ ListOfEntries(list)
       \/ q.op = "auto" /\ \E h : q.todo = <<h>> /\ AssignWrite(h)
       \/ \E g \in Guests, t \in Table \cap q.on : \E m :
            /\ SeatingEnds(q.op, m)
            /\ \/ q.todo = <<SetTable(t, "OCCUPIED"), SaveSeated(g, t), m>>
               \/ q.todo = <<SaveSeated(g, t), m>>

QueueRequestInv(q) ==
    \/ q = Idle
    \/ q = [op |-> q.op, on |-> q.on, todo |-> q.todo] /\ (FloorPlan(q) \/ QueuePlan(q))

QueueRequestsInv ==
    /\ req = [a \in Actor |-> req[a]]
    /\ \A a \in Actor : QueueRequestInv(req[a])

-----------------------------------------------------------------------------
(* The places.                                                              *)

\* Everybody's stored position is where they stand.
Ranked(G) == \A g \in G : entries[g].pos = LivePosition(g)

\* A request that has begun to save, and has saves left.
Dirty(a) == Busy(a) /\ Write(a).w \in {"table", "entry", "assign", "recalculate", "number"}
                    /\ req[a].op \in QueueOps
PlacesInv == tangled \/ Ranked(Waiting) \/ \E a \in Actor : Dirty(a)

\* What a request nobody crossed knows of the queue.
JoinClaim(a) ==
    Write(a).w = "join" => Write(a).pos = Cardinality(Waiting) + 1

NumberClaim(a) ==
    Write(a).w = "number" /\ (Write(a).stored => ~tangled) =>
        LET L == DOMAIN Write(a).left
        IN  /\ L \subseteq Waiting
            /\ Write(a).left = [g \in L |-> entries[g]]
            /\ Write(a).n = Cardinality(Waiting \ L) + 1
            /\ \A g \in Waiting \ L, h \in L : entries[g].at < entries[h].at
            /\ Ranked(IF Write(a).stored THEN Waiting ELSE Waiting \ L)

-----------------------------------------------------------------------------
(* The automatic assignment.                                                *)

FreeTables == {t \in Table : tables[t].status = "AVAILABLE"}
Outgrown(g, pool) == \A t \in pool : Capacity[t] < Size[g]

SeatedNext(g, t, m, free) ==
    /\ m.pool = free /\ g \in Waiting
    /\ DOMAIN m.queue \subseteq Waiting \ {g}
    /\ \A h \in DOMAIN m.queue : entries[g].at < entries[h].at
    /\ \A h \in Waiting \ (DOMAIN m.queue \cup {g}) : Outgrown(h, free \cup {t})

AutoClaim(a) ==
    req[a].op = "auto" =>
        /\ Write(a).w = "pool" => DOMAIN Write(a).queue = Waiting
        /\ Write(a).w = "assign" =>
             /\ Write(a).pool = FreeTables
             /\ DOMAIN Write(a).queue \subseteq Waiting
             /\ \A h \in Waiting \ DOMAIN Write(a).queue : Outgrown(h, FreeTables)
        /\ Write(a).w = "table" =>
             LET t == Write(a).t
             IN  /\ t \in FreeTables
                 /\ SeatedNext(req[a].todo[2].g, t, req[a].todo[3], FreeTables \ {t})
        /\ Write(a).w = "entry" =>
             SeatedNext(Write(a).g, Write(a).set.table, req[a].todo[2], FreeTables)
        /\ Write(a).w = "recalculate" => \A h \in Waiting : Outgrown(h, FreeTables)

QueueClaims(a) == Alone(a) => JoinClaim(a) /\ NumberClaim(a) /\ AutoClaim(a)

QIInv == /\ QueueShape /\ FloorShape /\ QueueRequestsInv /\ Rivalry
         /\ PlacesInv /\ \A a \in Actor : QueueClaims(a)

-----------------------------------------------------------------------------
(* Lists of entries.                                                        *)

\* A set of numbers has a least one.
LEMMA LeastNumber ==
  ASSUME NEW T, T \subseteq Nat, T # {}
  PROVE  \E x \in T : \A y \in T : x <= y
<1> DEFINE R == OpToRel(<, Nat)
<1>1. IsWellFoundedOn(R, Nat)
  BY NatLessThanWellFounded
<1>2. \A y, x \in Nat : <<y, x>> \in R <=> y < x
  BY DEF OpToRel
<1> HIDE DEF R
<1>3. PICK x \in T : \A y \in T : <<y, x>> \notin R
  BY <1>1, WFMin
<1>4. \A y \in T : ~(y < x)
  BY <1>2, <1>3
<1>5. \A y \in T : y \in Int /\ x \in Int
  OBVIOUS
<1>6. \A y \in T : x <= y
  BY <1>4, <1>5
<1>7. QED
  BY <1>6

\* The first of a list by arrival came before all others of it.
LEMMA FirstByArrival ==
  ASSUME NEW list, DOMAIN list # {},
         \A g \in DOMAIN list : list[g].at \in Nat,
         \A g, h \in DOMAIN list : list[g].at = list[h].at => g = h
  PROVE  /\ ByArrival(list) \in DOMAIN list
         /\ \A h \in DOMAIN list \ {ByArrival(list)} : list[ByArrival(list)].at < list[h].at
<1> DEFINE T == {list[g].at : g \in DOMAIN list}
<1>1. T \subseteq Nat /\ T # {}
  OBVIOUS
<1>2. PICK x \in T : \A y \in T : x <= y
  BY <1>1, LeastNumber
<1>3. PICK g \in DOMAIN list : x = list[g].at
  OBVIOUS
<1>4. ASSUME NEW h \in DOMAIN list \ {g}
      PROVE  list[g].at < list[h].at
  <2>1. list[g].at <= list[h].at /\ list[g].at # list[h].at
    BY <1>2, <1>3
  <2>2. QED
    BY <2>1
<1>5. QED
  BY <1>4 DEF ByArrival

\* The first by stored position is one of the list; if the positions follow the
\* arrivals it came before all others.
LEMMA FirstByPosition ==
  ASSUME NEW list, DOMAIN list # {},
         \A g \in DOMAIN list : list[g].at \in Nat /\ list[g].pos \in Nat,
         \A g, h \in DOMAIN list : list[g].at = list[h].at => g = h
  PROVE  /\ ByPosition(list) \in DOMAIN list
         /\ (\A g, h \in DOMAIN list : list[g].at < list[h].at => list[g].pos < list[h].pos) =>
              \A h \in DOMAIN list \ {ByPosition(list)} : list[ByPosition(list)].at < list[h].at
<1> DEFINE P == {list[g].pos : g \in DOMAIN list}
<1>1. P \subseteq Nat /\ P # {}
  OBVIOUS
<1>2. PICK p \in P : \A y \in P : p <= y
  BY <1>1, LeastNumber
<1> DEFINE T == {list[g].at : g \in {h \in DOMAIN list : list[h].pos = p}}
<1>3. T \subseteq Nat /\ T # {}
  OBVIOUS
<1>4. PICK x \in T : \A y \in T : x <= y
  BY <1>3, LeastNumber
<1>5. PICK g \in DOMAIN list : list[g].pos = p /\ x = list[g].at
  OBVIOUS
<1>6. ASSUME NEW h \in DOMAIN list \ {g}
      PROVE  list[g].pos < list[h].pos \/ (list[g].pos = list[h].pos /\ list[g].at < list[h].at)
  <2>1. p <= list[h].pos /\ p \in Nat /\ list[h].pos \in Nat
    BY <1>1, <1>2
  <2>2. CASE list[h].pos = p
    <3>1. x <= list[h].at /\ x # list[h].at /\ x \in Nat /\ list[h].at \in Nat
      BY <1>3, <1>4, <1>5, <2>2
    <3>2. QED
      BY <1>5, <2>2, <3>1
  <2>3. QED
    BY <1>5, <2>1, <2>2
<1> DEFINE b == ByPosition(list)
<1>7. /\ b \in DOMAIN list
      /\ \A h \in DOMAIN list \ {b} : \/ list[b].pos < list[h].pos
                                      \/ list[b].pos = list[h].pos /\ list[b].at < list[h].at
  BY <1>6 DEF ByPosition
<1> HIDE DEF b
<1>8. ASSUME \A i, j \in DOMAIN list : list[i].at < list[j].at => list[i].pos < list[j].pos,
             NEW h \in DOMAIN list \ {b}
      PROVE  list[b].at < list[h].at
  <2>1. /\ list[b].at \in Nat /\ list[h].at \in Nat /\ list[b].pos \in Nat /\ list[h].pos \in Nat
        /\ list[b].at # list[h].at
    BY <1>7
  <2>2. ~(list[h].at < list[b].at)
    <3>1. ~(list[h].pos < list[b].pos)
      BY <1>7, <2>1
    <3>2. QED
      BY <1>7, <1>8, <3>1
  <2>3. QED
    BY <2>1, <2>2
<1>9. QED
  BY <1>7, <1>8 DEF b

-----------------------------------------------------------------------------
(* What the queue keeps.                                                    *)

\* Groups stay on the list and keep their arrival.
QueueGrows ==
    /\ Guests \subseteq Guests'
    /\ \A g \in Guests : entries'[g].at = entries[g].at
    /\ arrivals \in Nat /\ arrivals' \in Nat /\ arrivals <= arrivals'

LEMMA ListKept ==
  ASSUME QueueGrows, NEW list, ListOfEntries(list)
  PROVE  ListOfEntries(list)'
<1>1. DOMAIN list \subseteq Guests'
  BY DEF QueueGrows, ListOfEntries
<1>2. \A g \in DOMAIN list : list[g].at = entries'[g].at
  BY DEF QueueGrows, ListOfEntries
<1>3. \A g \in DOMAIN list : list[g].pos \in 0..arrivals'
  BY DEF QueueGrows, ListOfEntries
<1>4. QED
  BY <1>1, <1>2, <1>3 DEF ListOfEntries

\* The groups that wait are finitely many, and no more than came.
LEMMA FewWait ==
  ASSUME QueueShape, NEW S, S \subseteq Guests
  PROVE  IsFiniteSet(S) /\ Cardinality(S) \in Nat /\ Cardinality(S) <= arrivals
BY FS_Subset, FS_CardinalityType DEF QueueShape

LEMMA PendingList ==
  ASSUME QueueShape
  PROVE  ListOfEntries(Pending) /\ DOMAIN Pending = Waiting /\ Waiting \subseteq Guests
<1>1. DOMAIN Pending = Waiting /\ Waiting \subseteq Guests
  BY DEF Pending, Waiting
<1>2. \A g \in Waiting : entries[g].status = "PENDING" /\ Pending[g] = entries[g]
  BY DEF Pending, Waiting
<1>3. QED
  BY <1>1, <1>2 DEF ListOfEntries, QueueShape, Pending

LEMMA Wider == \A m, n \in Nat : m <= n => \A p \in 1..m + 1 : p \in 1..n + 1
OBVIOUS

\* A request keeps its plan.
LEMMA QueuePlanKept ==
  ASSUME QueueShape, QueueGrows, NEW q, QueueRequestInv(q)
  PROVE  QueueRequestInv(q)'
<1>1. ASSUME NEW list, ListOfEntries(list) PROVE ListOfEntries(list)'
  BY <1>1, ListKept
<1>2. ASSUME NEW h, NumberWrite(h) PROVE NumberWrite(h)'
  <2>1. ListOfEntries(h.left)'
    BY <1>1, <1>2 DEF NumberWrite
  <2>2. Cardinality(DOMAIN h.left) \in Nat
    BY <1>2, FewWait DEF NumberWrite, ListOfEntries
  <2>3. arrivals \in Nat /\ arrivals' \in Nat /\ arrivals <= arrivals'
    BY DEF QueueGrows
  <2>4. h.n \in Nat \ {0} /\ h.n + Cardinality(DOMAIN h.left) <= arrivals + 1
    BY <1>2 DEF NumberWrite
  <2>5. h.n + Cardinality(DOMAIN h.left) <= arrivals' + 1
    BY <2>2, <2>3, <2>4
  <2>6. QED
    BY <1>2, <2>1, <2>5 DEF NumberWrite
<1>3. ASSUME NEW h, AssignWrite(h) PROVE AssignWrite(h)'
  BY <1>1, <1>3 DEF AssignWrite
<1>4. \A g \in Guests : g \in Guests'
  BY DEF QueueGrows
<1>5. \A p \in 1..arrivals + 1 : p \in 1..arrivals' + 1
  <2>1. arrivals \in Nat /\ arrivals' \in Nat /\ arrivals <= arrivals'
    BY DEF QueueGrows
  <2>2. QED
    BY <2>1, Wider
<1>6. ASSUME NEW h, CancelWrite(h) PROVE CancelWrite(h)'
  BY <1>4, <1>6 DEF CancelWrite
<1>7. ASSUME NEW op, NEW m, SeatingEnds(op, m) PROVE SeatingEnds(op, m)'
  BY <1>3, <1>7 DEF SeatingEnds
<1>8. ASSUME QueuePlan(q) PROVE QueuePlan(q)'
  BY <1>1, <1>2, <1>3, <1>4, <1>5, <1>6, <1>7, <1>8 DEF QueuePlan
<1>9. QED
  BY <1>8 DEF QueueRequestInv, FloorPlan

-----------------------------------------------------------------------------
(* What a step leaves to the others.                                        *)

\* Nothing request c works on has changed.
Still(c) ==
    /\ req'[c] = req[c]
    /\ c \in hist.crossed => c \in hist'.crossed
    /\ Queue \in req[c].on => entries' = entries /\ (tangled => tangled')
    /\ \A t \in Table \cap req[c].on : tables'[t] = tables[t]

LEMMA Shape ==
  ASSUME QueueRequestsInv, NEW a \in Actor, Busy(a)
  PROVE  /\ req[a] = [op |-> req[a].op, on |-> req[a].on, todo |-> req[a].todo]
         /\ FloorPlan(req[a]) \/ QueuePlan(req[a])
BY DEF QueueRequestsInv, QueueRequestInv, Busy

\* The head of a plan.
LEMMA FloorHead ==
  ASSUME NEW a \in Actor, FloorPlan(req[a])
  PROVE  Write(a).w \in FloorWrites /\ req[a].op \notin QueueOps /\ FloorWrite(req[a].on, Write(a))
<1>1. PICK h, n : req[a].todo = <<h>> \/ req[a].todo = <<h, n>>
  BY DEF FloorPlan
<1>2. Write(a) = Head(req[a].todo)
  BY DEF Write
<1>3. QED
  BY <1>2, Tuples DEF FloorPlan, FloorWrite

LEMMA StillKnows ==
  ASSUME QueueRequestsInv, NEW c \in Actor, QueueClaims(c), Still(c)
  PROVE  QueueClaims(c)'
<1>1. SUFFICES ASSUME Alone(c)'
               PROVE  JoinClaim(c)' /\ NumberClaim(c)' /\ AutoClaim(c)'
  BY DEF QueueClaims
<1>2. Alone(c) /\ Busy(c)
  BY <1>1 DEF Alone, Busy, Still
<1>3. JoinClaim(c) /\ NumberClaim(c) /\ AutoClaim(c)
  BY <1>2 DEF QueueClaims
<1>4. req'[c] = req[c] /\ Write(c)' = Write(c)
  BY DEF Still, Write
<1>5. CASE FloorPlan(req[c])
  <2>1. Write(c).w \in FloorWrites /\ req[c].op \notin QueueOps
    BY <1>5, FloorHead
  <2>2. QED
    BY <1>4, <2>1 DEF JoinClaim, NumberClaim, AutoClaim, FloorWrites, QueueOps
<1>6. CASE QueuePlan(req[c])
  <2>1. Queue \in req[c].on
    BY <1>6 DEF QueuePlan
  <2>2. entries' = entries /\ (tangled => tangled')
    BY <2>1 DEF Still
  <2>3. Guests' = Guests /\ Waiting' = Waiting
    BY <2>2 DEF Guests, Waiting
  <2>4. \A G : Ranked(G)' <=> Ranked(G)
    BY <2>2, <2>3 DEF Ranked, LivePosition, Ahead
  <2>5. JoinClaim(c)'
    BY <1>3, <1>4, <2>3 DEF JoinClaim
  <2>6. NumberClaim(c)'
    BY <1>3, <1>4, <2>2, <2>3, <2>4 DEF NumberClaim
  <2>7. AutoClaim(c)'
    <3>1. CASE req[c].op # "auto"
      BY <1>4, <3>1 DEF AutoClaim
    <3>2. CASE req[c].op = "auto"
      <4>1. FreeTables' = FreeTables
        BY <1>6, <3>2 DEF QueuePlan, Still, FreeTables
      <4>2. QED
        BY <1>3, <1>4, <2>2, <2>3, <4>1 DEF AutoClaim, SeatedNext, Outgrown
    <3>3. QED
      BY <3>1, <3>2
  <2>8. QED
    BY <2>5, <2>6, <2>7
<1>7. QED
  BY <1>2, <1>5, <1>6, Shape

\* The requests keep their plans, and the one that changes has one.
LEMMA NewPlans ==
  ASSUME QueueShape, QueueRequestsInv, QueueGrows, NEW a \in Actor, NEW n, GoesOn(a, n),
         QueueRequestInv(n) \/ QueueRequestInv(n)'
  PROVE  QueueRequestsInv'
<1>1. ASSUME NEW c \in Actor PROVE QueueRequestInv(req[c])'
  <2>1. CASE c = a
    <3>1. QueueRequestInv(n)'
      BY QueuePlanKept
    <3>2. QED
      BY <2>1, <3>1 DEF GoesOn
  <2>2. CASE c # a
    <3>1. PICK q : q = req[c]
      OBVIOUS
    <3>2. QueueRequestInv(q)'
      BY <3>1, QueuePlanKept DEF QueueRequestsInv
    <3>3. req'[c] = q
      BY <2>2, <3>1 DEF GoesOn
    <3>4. QED
      BY <3>2, <3>3
  <2>3. QED
    BY <2>1, <2>2
<1>2. QED
  BY <1>1 DEF QueueRequestsInv, GoesOn

-----------------------------------------------------------------------------
(* The frame of a request that begins, and of a write.                      *)

LEMMA QueueBegun ==
  ASSUME QIInv, NEW a \in Actor, NEW op, NEW on, NEW todo, Begin(a, op, on, todo)
  PROVE  /\ GoesOn(a, IF todo = <<>> THEN Idle ELSE [op |-> op, on |-> on, todo |-> todo])
         /\ ~Busy(a) /\ faults' = faults
         /\ hist' = [crossed |-> hist'.crossed, raced |-> hist'.raced,
                     unchecked |-> hist'.unchecked, edited |-> hist'.edited,
                     disturbed |-> hist'.disturbed, strayed |-> hist'.strayed]
         /\ hist'.disturbed = hist.disturbed
         /\ hist'.crossed = Joined(hist.crossed, a, Rivals(a, on))
<1>1. hist = [crossed |-> hist.crossed, raced |-> hist.raced,
              unchecked |-> hist.unchecked, edited |-> hist.edited,
              disturbed |-> hist.disturbed, strayed |-> hist.strayed]
      /\ req = [c \in Actor |-> req[c]]
  BY DEF QIInv, FloorShape, QueueRequestsInv
<1>2. PICK J : J = Joined(hist.crossed, a, Rivals(a, on))
  OBVIOUS
<1>3. /\ req[a] = Idle /\ UNCHANGED faults
      /\ req' = [req EXCEPT ![a] = IF todo = <<>> THEN Idle
                                   ELSE [op |-> op, on |-> on, todo |-> todo]]
      /\ hist' = [hist EXCEPT
                  !.crossed = J,
                  !.edited = IF op = "update" THEN @ \cup (on \cap Reservation) ELSE @]
  BY <1>2 DEF Begin
<1>4. GoesOn(a, IF todo = <<>> THEN Idle ELSE [op |-> op, on |-> on, todo |-> todo]) /\ ~Busy(a)
  BY <1>1, <1>3 DEF GoesOn, Busy
<1>5. QED
  BY <1>1, <1>2, <1>3, <1>4

\* Overlapping requests are on record when one of them begins.
LEMMA RivalsMeet ==
  ASSUME Rivalry, NEW a \in Actor, NEW on, NEW n, GoesOn(a, n), n = Idle \/ n.on = on,
         hist'.crossed = Joined(hist.crossed, a, Rivals(a, on)), ~Busy(a)
  PROVE  /\ Rivalry'
         /\ Alone(a)' => \A c \in Actor : Busy(c) => req[c].on \cap on = {}
         /\ \A c \in Actor \ {a} : c \in hist.crossed => c \in hist'.crossed
<1>1. req'[a] = n /\ \A c \in Actor \ {a} : req'[c] = req[c]
  BY DEF GoesOn
<1>2. \A c \in Actor \ {a} : Busy(c)' <=> Busy(c)
  BY <1>1 DEF Busy
<1>3. \A c \in Actor \ {a} : c \in Rivals(a, on) <=> req[c].on \cap on # {}
  BY DEF Rivals
<1>4. Rivals(a, on) # {} => a \in hist'.crossed /\ Rivals(a, on) \subseteq hist'.crossed
  BY DEF Joined
<1>5. \A c \in Actor \ {a} : c \in hist.crossed => c \in hist'.crossed
  BY DEF Joined
<1>6. ASSUME NEW c \in Actor, NEW d \in Actor, c # d, Busy(c)', Busy(d)',
             req'[c].on \cap req'[d].on # {}
      PROVE  c \in hist'.crossed
  <2>1. CASE c # a /\ d # a
    <3>1. c \in hist.crossed
      BY <1>1, <1>2, <1>6, <2>1 DEF Rivalry
    <3>2. QED
      BY <1>5, <2>1, <3>1
  <2>2. CASE c = a
    <3>1. n # Idle /\ n.on = on /\ req'[c].on = on
      BY <1>1, <1>6, <2>2 DEF Busy
    <3>2. d \in Rivals(a, on)
      BY <1>1, <1>3, <1>6, <2>2, <3>1
    <3>3. QED
      BY <1>4, <2>2, <3>2
  <2>3. CASE d = a
    <3>1. n # Idle /\ n.on = on /\ req'[d].on = on
      BY <1>1, <1>6, <2>3 DEF Busy
    <3>2. c \in Rivals(a, on)
      BY <1>1, <1>3, <1>6, <2>3, <3>1
    <3>3. QED
      BY <1>4, <3>2
  <2>4. QED
    BY <2>1, <2>2, <2>3
<1>7. Rivalry'
  BY <1>6 DEF Rivalry
<1>8. ASSUME Alone(a)', NEW c \in Actor, Busy(c)
      PROVE  req[c].on \cap on = {}
  <2>1. Rivals(a, on) = {}
    BY <1>4, <1>8 DEF Alone
  <2>2. c # a
    BY <1>8
  <2>3. QED
    BY <1>3, <2>1, <2>2
<1>9. QED
  BY <1>5, <1>7, <1>8

\* Positions stay where they are if the entries do, and whoever has saves left
\* has some left.
LEMMA PlacesKept ==
  ASSUME PlacesInv, NEW a \in Actor, NEW n, GoesOn(a, n), entries' = entries,
         tangled => tangled', Dirty(a) => Dirty(a)' \/ PlacesInv'
  PROVE  PlacesInv'
<1>1. Guests' = Guests /\ Waiting' = Waiting
  BY DEF Guests, Waiting
<1>2. Ranked(Waiting) => Ranked(Waiting)'
  BY <1>1 DEF Ranked, LivePosition, Ahead
<1>3. \A c \in Actor \ {a} : Dirty(c) => Dirty(c)'
  BY DEF Dirty, GoesOn, Busy, Write
<1>4. QED
  BY <1>2, <1>3 DEF PlacesInv

\* A new request that knows what it needs keeps the invariant.
LEMMA QueueBeginStep ==
  ASSUME QIInv, NEW a \in Actor, NEW op, NEW on, NEW todo, Begin(a, op, on, todo),
         UNCHANGED <<tables, queueVars>>,
         todo # <<>> => QueueRequestInv([op |-> op, on |-> on, todo |-> todo]),
         todo # <<>> /\ Alone(a)'
           /\ (Queue \in on => tangled \/ Ranked(Waiting)) =>
               JoinClaim(a)' /\ NumberClaim(a)' /\ AutoClaim(a)'
  PROVE  QIInv'
<1>1. PICK n : n = IF todo = <<>> THEN Idle ELSE [op |-> op, on |-> on, todo |-> todo]
  OBVIOUS
<1>2. /\ GoesOn(a, n) /\ ~Busy(a) /\ faults' = faults
      /\ hist' = [crossed |-> hist'.crossed, raced |-> hist'.raced,
                  unchecked |-> hist'.unchecked, edited |-> hist'.edited,
                  disturbed |-> hist'.disturbed, strayed |-> hist'.strayed]
      /\ hist'.disturbed = hist.disturbed
      /\ hist'.crossed = Joined(hist.crossed, a, Rivals(a, on))
  BY <1>1, QueueBegun
<1>3. UNCHANGED <<tables, entries, arrivals, sitting, upset, tangled>>
  BY DEF queueVars
<1>4. QueueShape /\ FloorShape /\ QueueRequestsInv /\ Rivalry /\ PlacesInv
  BY DEF QIInv
<1>5. Guests' = Guests /\ Waiting' = Waiting
  BY <1>3 DEF Guests, Waiting
<1>6. QueueShape'
  BY <1>2, <1>3, <1>4, <1>5 DEF QueueShape
<1>7. FloorShape'
  BY <1>2, <1>3, <1>4 DEF FloorShape
<1>8. QueueGrows
  BY <1>3, <1>4, <1>5 DEF QueueGrows, QueueShape
<1>9. QueueRequestInv(n)
  BY <1>1 DEF QueueRequestInv
<1>10. QueueRequestsInv'
  BY <1>2, <1>4, <1>8, <1>9, NewPlans
<1>11. n = Idle \/ n.on = on
  BY <1>1
<1>12. /\ Rivalry'
       /\ Alone(a)' => \A c \in Actor : Busy(c) => req[c].on \cap on = {}
       /\ \A c \in Actor \ {a} : c \in hist.crossed => c \in hist'.crossed
  BY <1>2, <1>4, <1>11, RivalsMeet
<1>13. PlacesInv'
  <2>1. ~Dirty(a)
    BY <1>2 DEF Dirty
  <2>2. QED
    BY <1>2, <1>3, <1>4, <2>1, PlacesKept
<1>14. ASSUME NEW c \in Actor \ {a} PROVE QueueClaims(c)'
  <2>1. Still(c)
    BY <1>2, <1>3, <1>12 DEF Still, GoesOn
  <2>2. QED
    BY <1>4, <2>1, StillKnows DEF QIInv
<1>15. QueueClaims(a)'
  <2>1. SUFFICES ASSUME Alone(a)'
                 PROVE  JoinClaim(a)' /\ NumberClaim(a)' /\ AutoClaim(a)'
    BY DEF QueueClaims
  <2>2. todo # <<>>
    BY <1>1, <1>2, <2>1 DEF Alone, Busy, GoesOn
  <2>3. ASSUME Queue \in on, NEW c \in Actor, Dirty(c) PROVE FALSE
    <3>1. Busy(c) /\ req[c].op \in QueueOps
      BY <2>3 DEF Dirty
    <3>2. Queue \in req[c].on
      BY <1>4, <3>1, Shape DEF FloorPlan, QueuePlan
    <3>3. QED
      BY <1>12, <2>1, <2>3, <3>1, <3>2
  <2>4. Queue \in on => tangled \/ Ranked(Waiting)
    BY <1>4, <2>3 DEF PlacesInv
  <2>5. QED
    BY <2>1, <2>2, <2>4
<1>16. QED
  BY <1>6, <1>7, <1>10, <1>12, <1>13, <1>14, <1>15 DEF QIInv

\* What a write has to show.
LEMMA QueueWritten ==
  ASSUME QIInv, NEW a \in Actor, Busy(a), NEW n, GoesOn(a, n),
         n = Idle \/ n.on = req[a].on, QueueRequestInv(n)', QueueGrows,
         hist'.crossed = hist.crossed, QueueShape', FloorShape',
         Queue \notin req[a].on => entries' = entries /\ (tangled => tangled'),
         \A t \in Table \ req[a].on : tables'[t] = tables[t],
         PlacesInv', QueueClaims(a)'
  PROVE  QIInv'
<1>1. QueueShape /\ QueueRequestsInv /\ Rivalry
  BY DEF QIInv
<1>2. QueueRequestsInv'
  BY <1>1, NewPlans
<1>3. \A c \in Actor : Busy(c)' => Busy(c) /\ req'[c].on = req[c].on
  BY DEF GoesOn, Busy
<1>4. Rivalry'
  BY <1>1, <1>3 DEF Rivalry
<1>5. ASSUME NEW c \in Actor \ {a} PROVE QueueClaims(c)'
  <2>1. SUFFICES ASSUME Alone(c)' PROVE QueueClaims(c)'
    BY DEF QueueClaims
  <2>2. Busy(c) /\ c \notin hist.crossed /\ req'[c] = req[c]
    BY <2>1 DEF Alone, Busy, GoesOn
  <2>3. req[c].on \cap req[a].on = {}
    BY <1>1, <2>2 DEF Rivalry
  <2>4. Still(c)
    BY <2>2, <2>3 DEF Still
  <2>5. QED
    BY <1>1, <2>4, StillKnows DEF QIInv
<1>6. QED
  BY <1>2, <1>4, <1>5 DEF QIInv

-----------------------------------------------------------------------------
(* Steps of the floor.                                                      *)

\* A step of the floor leaves the list alone.
LEMMA FloorEffect ==
  ASSUME QueueShape, FloorStep
  PROVE  /\ QueueShape' /\ QueueGrows /\ entries' = entries /\ (tangled => tangled')
         /\ faults' = faults => tangled' = tangled
<1>1. entries' = entries /\ arrivals' = arrivals
  BY DEF FloorStep
<1>2. Guests' = Guests
  BY <1>1 DEF Guests
<1>3. sitting' \in [Table -> SUBSET Guests]
  BY DEF FloorStep, QueueShape
<1>4. hist'.disturbed \subseteq upset'
  BY DEF FloorStep
<1>5. tangled' \in BOOLEAN /\ (tangled => tangled')
  BY DEF FloorStep
<1>6. faults' = faults => tangled' = tangled
  <2>1. tangled' = (tangled \/ faults' # faults) /\ tangled \in BOOLEAN
    BY DEF FloorStep, QueueShape
  <2>2. QED
    BY <2>1
<1>7. QueueShape'
  BY <1>1, <1>2, <1>3, <1>4, <1>5 DEF QueueShape
<1>8. QueueGrows
  BY <1>1, <1>2 DEF QueueGrows, QueueShape
<1>9. QED
  BY <1>1, <1>5, <1>6, <1>7, <1>8

\* An order that is reopened by hand is none of the queue's business.
LEMMA Reopened ==
  ASSUME FloorShape, NEW o \in Order, ForceStatus(o)
  PROVE  FloorShape' /\ UNCHANGED <<tables, req, faults, hist.crossed, hist.disturbed>>
<1>1. PICK S : hist' = [hist EXCEPT !.strayed = S]
  <2>1. PICK S : S = IF \/ tables[orders[o].table].session.id # orders[o].session
                        \/ orders[o].table \in hist.disturbed
                        \/ \E a \in Actor : FreesTable(a, orders[o].table)
                     THEN hist.strayed \cup {o} ELSE hist.strayed
    OBVIOUS
  <2>2. hist' = [hist EXCEPT !.strayed = S]
    BY <2>1 DEF ForceStatus
  <2>3. QED
    BY <2>2
<1>2. UNCHANGED <<tables, req, faults>>
  BY DEF ForceStatus
<1>3. PICK h : h = hist
  OBVIOUS
<1>4. h = [crossed |-> h.crossed, raced |-> h.raced, unchecked |-> h.unchecked,
           edited |-> h.edited, disturbed |-> h.disturbed, strayed |-> h.strayed]
  BY <1>3 DEF FloorShape
<1>5. hist' = [crossed |-> h.crossed, raced |-> h.raced, unchecked |-> h.unchecked,
               edited |-> h.edited, disturbed |-> h.disturbed, strayed |-> S]
  BY <1>1, <1>3, <1>4
<1>6. FloorShape'
  BY <1>2, <1>5 DEF FloorShape
<1>7. QED
  BY <1>2, <1>3, <1>5, <1>6

\* Whatever happens to the rest of the floor.
LEMMA QueueQuiet ==
  ASSUME QIInv, UNCHANGED <<tables, req, faults, entries, arrivals, tangled>>, QueueShape',
         FloorShape', UNCHANGED <<hist.crossed, hist.disturbed>>
  PROVE  QIInv'
<1>1. QueueShape /\ FloorShape /\ QueueRequestsInv /\ Rivalry /\ PlacesInv
  BY DEF QIInv
<1>2. Guests' = Guests /\ Waiting' = Waiting
  BY DEF Guests, Waiting
<1>3. QueueGrows
  BY <1>1, <1>2 DEF QueueGrows, QueueShape
<1>4. ASSUME NEW c \in Actor PROVE QueueRequestInv(req[c])'
  <2>1. PICK q : q = req[c]
    OBVIOUS
  <2>2. QueueRequestInv(q)'
    BY <1>1, <1>3, <2>1, QueuePlanKept DEF QueueRequestsInv
  <2>3. req'[c] = q
    BY <2>1
  <2>4. QED
    BY <2>2, <2>3
<1>5. QueueRequestsInv'
  BY <1>1, <1>4 DEF QueueRequestsInv
<1>6. Rivalry'
  BY <1>1 DEF Rivalry, Busy
<1>7. PlacesInv'
  BY <1>1, <1>2 DEF PlacesInv, Ranked, LivePosition, Ahead, Dirty, Busy, Write
<1>8. ASSUME NEW c \in Actor PROVE QueueClaims(c)'
  <2>1. Still(c)
    BY DEF Still
  <2>2. QED
    BY <1>1, <2>1, StillKnows DEF QIInv
<1>9. QED
  BY <1>5, <1>6, <1>7, <1>8, QueueShape', FloorShape' DEF QIInv

\* A request of the floor makes no claim about the queue.
LEMMA FloorKnows ==
  ASSUME NEW a \in Actor, NEW n, GoesOn(a, n), n = Idle \/ FloorPlan(n)
  PROVE  QueueClaims(a)'
<1>1. req'[a] = n
  BY DEF GoesOn
<1>2. CASE n = Idle
  BY <1>1, <1>2 DEF QueueClaims, Alone, Busy
<1>3. CASE FloorPlan(n)
  <2>1. PICK h, m : n.todo = <<h>> \/ n.todo = <<h, m>>
    BY <1>3 DEF FloorPlan
  <2>2. Head(n.todo).w \in FloorWrites /\ n.op \notin QueueOps
    BY <1>3, Tuples DEF FloorPlan, FloorWrite
  <2>3. QED
    BY <1>1, <2>2 DEF QueueClaims, JoinClaim, NumberClaim, AutoClaim, FloorWrites, QueueOps, Write
<1>4. QED
  BY <1>2, <1>3

LEMMA OnePlan ==
  ASSUME NEW op, op \notin QueueOps, NEW on, NEW h, FloorWrite(on, h)
  PROVE  FloorPlan([op |-> op, on |-> on, todo |-> <<h>>])
BY DEF FloorPlan

LEMMA TwoPlan ==
  ASSUME NEW op, op \notin QueueOps, NEW on, NEW h, NEW m, FloorWrite(on, h), FloorWrite(on, m)
  PROVE  FloorPlan([op |-> op, on |-> on, todo |-> <<h, m>>])
BY DEF FloorPlan

\* A request of the floor begins.
LEMMA FloorBeginStep ==
  ASSUME QIInv, FloorStep, NEW a \in Actor, NEW op, NEW on, NEW todo, Begin(a, op, on, todo),
         tables' = tables, FloorPlan([op |-> op, on |-> on, todo |-> todo])
  PROVE  QIInv'
<1>1. PICK q : q = [op |-> op, on |-> on, todo |-> todo]
  OBVIOUS
<1>2. PICK n : n = IF todo = <<>> THEN Idle ELSE q
  OBVIOUS
<1>3. GoesOn(a, n) /\ faults' = faults /\ hist'.disturbed = hist.disturbed
  BY <1>1, <1>2, QueueBegun
<1>4. QueueShape
  BY DEF QIInv
<1>5. Turned = {}
  BY DEF Turned
<1>6. UNCHANGED <<entries, arrivals>> /\ tangled' = tangled
  BY <1>3, <1>4, FloorEffect DEF FloorStep
<1>7. sitting' = sitting
  BY <1>4, <1>5 DEF FloorStep, QueueShape
<1>8. upset' = upset
  BY <1>3, <1>4, <1>5 DEF FloorStep, QueueShape
<1>9. UNCHANGED <<tables, queueVars>>
  BY <1>6, <1>7, <1>8 DEF queueVars
<1>10. QueueRequestInv(q)
  BY <1>1 DEF QueueRequestInv
<1>11. QueueClaims(a)'
  BY <1>1, <1>2, <1>3, FloorKnows
<1>12. Alone(a)' => JoinClaim(a)' /\ NumberClaim(a)' /\ AutoClaim(a)'
  BY <1>11 DEF QueueClaims
<1>13. QED
  BY <1>1, <1>9, <1>10, <1>12, QueueBeginStep

\* The requests about a table.
LEMMA TableBegins ==
  ASSUME QIInv, FloorStep, NEW a \in Actor, NEW t \in Table, TableRequests(a, t)
  PROVE  QIInv'
<1>1. t # NoReservation
  BY DiningAssumption
<1>2. ASSUME NEW to, NEW on, t \in on PROVE FloorWrite(on, SaveTable(t, to))
  BY <1>2 DEF FloorWrite, SaveTable, FloorWrites, TableWrites
<1>3. ASSUME NEW op \in {"edit", "bill"}, NEW to, Begin(a, op, {t}, <<SaveTable(t, to)>>),
             UNCHANGED floorVars
      PROVE  QIInv'
  <2>1. op \notin QueueOps /\ tables' = tables
    BY <1>3 DEF QueueOps, floorVars
  <2>2. FloorPlan([op |-> op, on |-> {t}, todo |-> <<SaveTable(t, to)>>])
    BY <1>2, <2>1, OnePlan
  <2>3. QED
    BY <1>3, <2>1, <2>2, FloorBeginStep
<1>4. CASE SetActive(a, t)
  BY <1>3, <1>4 DEF SetActive
<1>5. CASE DeactivateTable(a, t)
  BY <1>3, <1>5 DEF DeactivateTable
<1>6. CASE RequestBill(a, t)
  BY <1>3, <1>6 DEF RequestBill
<1>7. CASE CloseTable(a, t)
  <2>1. PICK on : on = {t, tables[t].session.book} \ {NoReservation}
    OBVIOUS
  <2>2. Begin(a, "close", on, <<CloseIfDone(t)>>) /\ tables' = tables
    BY <1>7, <2>1 DEF CloseTable, floorVars
  <2>3. FloorWrite(on, CloseIfDone(t))
    BY <1>1, <2>1 DEF FloorWrite, CloseIfDone, FloorWrites, TableWrites
  <2>4. FloorPlan([op |-> "close", on |-> on, todo |-> <<CloseIfDone(t)>>])
    BY <2>3, OnePlan DEF QueueOps
  <2>5. QED
    BY <2>2, <2>4, FloorBeginStep
<1>8. CASE PlaceOrder(a, t)
  <2>1. ASSUME NEW id PROVE FloorWrite({t}, PlaceAt(t, id))
    BY DEF FloorWrite, PlaceAt, FloorWrites, TableWrites
  <2>2. tables' = tables
    BY <1>8 DEF PlaceOrder, NewSession, floorVars
  <2>3. PICK to, id : \/ Begin(a, "order", {t}, <<SaveTable(t, to), PlaceAt(t, id)>>)
                      \/ Begin(a, "order", {t}, <<PlaceAt(t, id)>>)
    BY <1>8 DEF PlaceOrder
  <2>4. /\ FloorPlan([op |-> "order", on |-> {t}, todo |-> <<SaveTable(t, to), PlaceAt(t, id)>>])
        /\ FloorPlan([op |-> "order", on |-> {t}, todo |-> <<PlaceAt(t, id)>>])
    BY <1>2, <2>1, OnePlan, TwoPlan DEF QueueOps
  <2>5. QED
    BY <2>2, <2>3, <2>4, FloorBeginStep
<1>9. ASSUME NEW r, SeatTable(a, t, r)
      PROVE  QIInv'
  <2>1. PICK on, g : on = {t, r} \ {NoReservation} /\ g = SaveTable(t, Opened(t, r))
    OBVIOUS
  <2>2. tables' = tables
    BY <1>9 DEF SeatTable, NewSession
  <2>3. \/ Begin(a, "seat", on, <<g>>)
        \/ Begin(a, "seat", on, <<g, SetBook(r, "SEATED")>>)
    <3>1. PICK more : /\ more = IF r = NoReservation THEN <<>> ELSE <<SetBook(r, "SEATED")>>
                      /\ Begin(a, "seat", on, <<g>> \o more)
      BY <1>9, <2>1 DEF SeatTable
    <3>2. <<g>> \o more \in {<<g>>, <<g, SetBook(r, "SEATED")>>}
      BY <3>1, Joins
    <3>3. QED
      BY <3>1, <3>2
  <2>4. FloorWrite(on, g)
    BY <1>1, <1>2, <2>1
  <2>5. FloorWrite(on, SetBook(r, "SEATED"))
    BY DEF FloorWrite, SetBook, FloorWrites, TableWrites
  <2>6. /\ FloorPlan([op |-> "seat", on |-> on, todo |-> <<g>>])
        /\ FloorPlan([op |-> "seat", on |-> on, todo |-> <<g, SetBook(r, "SEATED")>>])
    BY <2>4, <2>5, OnePlan, TwoPlan DEF QueueOps
  <2>7. QED
    BY <2>2, <2>3, <2>6, FloorBeginStep
<1>10. QED
  BY <1>4, <1>5, <1>6, <1>7, <1>8, <1>9 DEF TableRequests

\* The requests about a reservation.
LEMMA BookBegins ==
  ASSUME QIInv, FloorStep, NEW a \in Actor, NEW r \in Reservation, BookRequests(a, r)
  PROVE  QIInv'
<1>1. ASSUME NEW to, NEW on PROVE FloorWrite(on, SaveBook(r, to))
  BY DEF FloorWrite, SaveBook, FloorWrites, TableWrites
<1>2. ASSUME NEW op \in {"pay", "update"}, NEW on, NEW to, NEW g, FloorWrite(on, g), tables' = tables,
             Begin(a, op, on, <<SaveBook(r, to)>>) \/ Begin(a, op, on, <<SaveBook(r, to), g>>)
      PROVE  QIInv'
  <2>1. op \notin QueueOps
    BY DEF QueueOps
  <2>2. /\ FloorPlan([op |-> op, on |-> on, todo |-> <<SaveBook(r, to)>>])
        /\ FloorPlan([op |-> op, on |-> on, todo |-> <<SaveBook(r, to), g>>])
    BY <1>1, <1>2, <2>1, OnePlan, TwoPlan
  <2>3. QED
    BY <1>2, <2>2, FloorBeginStep
<1>3. ASSUME NEW to, Begin(a, "pay", {r}, <<SaveBook(r, to)>>), tables' = tables
      PROVE  QIInv'
  BY <1>1, <1>2, <1>3
<1>4. CASE CreateTableRazorpayOrder(a, r)
  BY <1>3, <1>4 DEF CreateTableRazorpayOrder
<1>5. CASE VerifyWrongSignature(a, r)
  BY <1>3, <1>5 DEF VerifyWrongSignature, floorVars
<1>6. CASE WebhookCaptured(a, r)
  BY <1>3, <1>6 DEF WebhookCaptured, floorVars
<1>7. CASE WebhookFailed(a, r)
  BY <1>3, <1>7 DEF WebhookFailed, floorVars
<1>8. CASE VerifyTablePayment(a, r)
  <2>1. PICK u, to : /\ u = books[r].table
                     /\ Begin(a, "pay", {r, u}, <<SaveBook(r, to), ReserveIfFree(u)>>)
    BY <1>8 DEF VerifyTablePayment
  <2>2. tables' = tables
    BY <1>8 DEF VerifyTablePayment, floorVars
  <2>3. FloorWrite({r, u}, ReserveIfFree(u))
    BY DEF FloorWrite, ReserveIfFree, FloorWrites, TableWrites
  <2>4. QED
    BY <1>2, <2>1, <2>2, <2>3
<1>9. ASSUME NEW s, UpdateReservation(a, r, s)
      PROVE  QIInv'
  <2>1. PICK u, to, more :
          /\ u = books[r].table /\ more \in {<<>>, <<ReleaseIfLast(u, r)>>}
          /\ Begin(a, "update", {r, u}, <<SaveBook(r, to)>> \o more)
    BY <1>9 DEF UpdateReservation
  <2>2. <<SaveBook(r, to)>> \o more \in {<<SaveBook(r, to)>>, <<SaveBook(r, to), ReleaseIfLast(u, r)>>}
    BY <2>1, Joins
  <2>3. tables' = tables
    BY <1>9 DEF UpdateReservation, floorVars
  <2>4. FloorWrite({r, u}, ReleaseIfLast(u, r))
    BY DEF FloorWrite, ReleaseIfLast, FloorWrites, TableWrites
  <2>5. QED
    BY <1>2, <2>1, <2>2, <2>3, <2>4
<1>10. QED
  BY <1>4, <1>5, <1>6, <1>7, <1>8, <1>9 DEF BookRequests

LEMMA HoldBegins ==
  ASSUME QIInv, FloorStep, NEW a \in Actor, NEW slot, NEW party, CreateReservation(a, slot, party)
  PROVE  QIInv'
<1>1. PICK u : Begin(a, "reserve", {u}, <<Insert(u, slot)>>) /\ tables' = tables
  BY DEF CreateReservation, floorVars
<1>2. FloorWrite({u}, Insert(u, slot))
  BY DEF FloorWrite, Insert, FloorWrites, TableWrites
<1>3. FloorPlan([op |-> "reserve", on |-> {u}, todo |-> <<Insert(u, slot)>>])
  BY <1>2, OnePlan DEF QueueOps
<1>4. QED
  BY <1>1, <1>3, FloorBeginStep

-----------------------------------------------------------------------------
(* The writes of the floor.                                                 *)

\* Continue is a step of a request.
LEMMA QueueGoing ==
  ASSUME QueueRequestsInv, NEW a \in Actor, Busy(a), NEW p, p = req[a], NEW more, Continue(a, more)
  PROVE  /\ GoesOn(a, IF more = <<>> THEN Idle ELSE [op |-> p.op, on |-> p.on, todo |-> more])
         /\ UNCHANGED <<sessions, rzp, started, faults>>
<1>1. p = [op |-> p.op, on |-> p.on, todo |-> p.todo]
  BY Shape
<1>2. [p EXCEPT !.todo = more] = [op |-> p.op, on |-> p.on, todo |-> more]
  BY <1>1
<1>3. PICK n : n = IF more = <<>> THEN Idle ELSE [op |-> p.op, on |-> p.on, todo |-> more]
  OBVIOUS
<1>4. req = [c \in Actor |-> req[c]]
  BY DEF QueueRequestsInv
<1>5. req' = [req EXCEPT ![a] = n]
  BY <1>2, <1>3 DEF Continue
<1>6. GoesOn(a, n)
  BY <1>4, <1>5 DEF GoesOn
<1>7. QED
  BY <1>3, <1>6 DEF Continue

\* A saved table has the fields of a table.
LEMMA SavedTable ==
  ASSUME FloorShape, NEW t, NEW new, NEW set, NEW s,
         new = Patched(tables[t], set) \/ new = [tables[t] EXCEPT !.status = s],
         tables' = [tables EXCEPT ![t] = new]
  PROVE  /\ tables' = [u \in Table |-> tables'[u]]
         /\ \A u \in Table : tables'[u] = [status |-> tables'[u].status, active |-> tables'[u].active,
                                           session |-> tables'[u].session]
         /\ \A u \in Table \ {t} : tables'[u] = tables[u]
         /\ t \in Table => tables'[t] = new
<1>1. tables = [u \in Table |-> tables[u]]
  BY DEF FloorShape
<1>2. /\ tables' = [u \in Table |-> IF u = t THEN new ELSE tables[u]]
  BY <1>1
<1>3. ASSUME t \in Table
      PROVE  new = [status |-> new.status, active |-> new.active, session |-> new.session]
  <2>1. PICK d : d = tables[t]
    OBVIOUS
  <2>2. d = [status |-> d.status, active |-> d.active, session |-> d.session]
    BY <1>3, <2>1 DEF FloorShape
  <2>3. CASE new = Patched(d, set)
    <3>1. DOMAIN d = {"status", "active", "session"}
      BY <2>2
    <3>2. new = [f \in {"status", "active", "session"} |-> IF f \in DOMAIN set THEN set[f] ELSE d[f]]
      BY <2>3, <3>1 DEF Patched
    <3>3. QED
      BY <3>2
  <2>4. CASE new = [d EXCEPT !.status = s]
    BY <2>2, <2>4
  <2>5. QED
    BY <2>1, <2>3, <2>4
<1>4. ASSUME NEW u \in Table
      PROVE  tables'[u] = [status |-> tables'[u].status, active |-> tables'[u].active,
                           session |-> tables'[u].session]
  <2>1. CASE u = t
    BY <1>2, <1>3, <2>1
  <2>2. CASE u # t
    BY <1>2, <2>2 DEF FloorShape
  <2>3. QED
    BY <2>1, <2>2
<1>5. QED
  BY <1>2, <1>4

\* A request of the floor goes on.
LEMMA FloorGoes ==
  ASSUME QIInv, FloorStep, NEW a \in Actor, Busy(a), FloorPlan(req[a]), NEW more, Continue(a, more),
         more = <<>> \/ FloorPlan([op |-> req[a].op, on |-> req[a].on, todo |-> more]),
         hist'.crossed = hist.crossed, FloorShape',
         \A t \in Table \ req[a].on : tables'[t] = tables[t]
  PROVE  QIInv'
<1>1. QueueShape /\ QueueRequestsInv /\ PlacesInv
  BY DEF QIInv
<1>2. PICK p, q : p = req[a] /\ q = [op |-> p.op, on |-> p.on, todo |-> more]
  OBVIOUS
<1>3. PICK n : n = IF more = <<>> THEN Idle ELSE q
  OBVIOUS
<1>4. GoesOn(a, n) /\ faults' = faults
  BY <1>1, <1>2, <1>3, QueueGoing
<1>5. n = Idle \/ FloorPlan(n)
  BY <1>2, <1>3
<1>6. n = Idle \/ (n = [op |-> n.op, on |-> n.on, todo |-> n.todo] /\ n.on = req[a].on)
  <2>1. q = [op |-> q.op, on |-> q.on, todo |-> q.todo] /\ q.on = req[a].on
    BY <1>2
  <2>2. n = Idle \/ n = q
    BY <1>3
  <2>3. QED
    BY <2>1, <2>2
<1>7. QueueRequestInv(n)'
  BY <1>5, <1>6 DEF QueueRequestInv, FloorPlan
<1>8. /\ QueueShape' /\ QueueGrows /\ entries' = entries /\ (tangled => tangled')
  BY <1>1, FloorEffect
<1>9. QueueClaims(a)'
  BY <1>4, <1>5, FloorKnows
<1>10. PlacesInv'
  <2>1. ~Dirty(a)
    BY DEF Dirty, FloorPlan
  <2>2. QED
    BY <1>1, <1>4, <1>8, <2>1, PlacesKept
<1>11. QED
  BY <1>4, <1>6, <1>7, <1>8, <1>9, <1>10, QueueWritten

\* What is left of the plan of a floor request.
LEMMA FloorRest ==
  ASSUME NEW q, FloorPlan(q)
  PROVE  /\ Tail(q.todo) = <<>> \/ FloorPlan([op |-> q.op, on |-> q.on, todo |-> Tail(q.todo)])
         /\ FloorWrite(q.on, Head(q.todo))
<1>1. CASE \E h : q.todo = <<h>> /\ FloorWrite(q.on, h)
  BY <1>1, Tuples
<1>2. CASE \E h, n : q.todo = <<h, n>> /\ FloorWrite(q.on, h) /\ FloorWrite(q.on, n)
  <2>1. PICK h, n : q.todo = <<h, n>> /\ FloorWrite(q.on, h) /\ FloorWrite(q.on, n)
    BY <1>2
  <2>2. Tail(q.todo) = <<n>> /\ Head(q.todo) = h
    BY <2>1, Tuples
  <2>3. FloorPlan([op |-> q.op, on |-> q.on, todo |-> <<n>>])
    BY <2>1, OnePlan DEF FloorPlan
  <2>4. QED
    BY <2>1, <2>2, <2>3
<1>3. QED
  BY <1>1, <1>2 DEF FloorPlan

\* Requests of the floor write.
LEMMA FloorWriteStep ==
  ASSUME QIInv, FloorStep, NEW a \in Actor, Busy(a), FloorPlan(req[a]), Writes(a)
  PROVE  QIInv'
<1>1. FloorShape /\ QueueRequestsInv
  BY DEF QIInv
<1>2. PICK p : p = req[a]
  OBVIOUS
<1>3. /\ Tail(p.todo) = <<>> \/ FloorPlan([op |-> p.op, on |-> p.on, todo |-> Tail(p.todo)])
      /\ FloorWrite(p.on, Write(a)) /\ p.op \notin QueueOps
  BY <1>2, FloorRest DEF Write, FloorPlan
<1>4. faults' = faults
  BY DEF Writes, DoInsert, DoTable, DoBook, DoOrder, OrderRefused, DoClose, DoReserve, DoRelease,
         DoFree, Done, Continue
<1>5. ASSUME NEW D, NEW S, NEW R, NEW U,
         \/ hist' = hist
         \/ hist' = [hist EXCEPT !.unchecked = U]
         \/ hist' = [hist EXCEPT !.disturbed = D]
         \/ hist' = [hist EXCEPT !.strayed = S]
         \/ hist' = [hist EXCEPT !.raced = R, !.unchecked = U]
         \/ hist' = [hist EXCEPT !.disturbed = D, !.strayed = S, !.raced = R],
         NEW more, Continue(a, more),
         more = <<>> \/ FloorPlan([op |-> p.op, on |-> p.on, todo |-> more]),
         \/ tables' = tables
         \/ \E t, new, set, s : /\ t \in p.on /\ tables' = [tables EXCEPT ![t] = new]
                                /\ new = Patched(tables[t], set) \/ new = [tables[t] EXCEPT !.status = s]
      PROVE  QIInv'
  <2>1. /\ hist'.crossed = hist.crossed
        /\ hist' = [crossed |-> hist'.crossed, raced |-> hist'.raced,
                    unchecked |-> hist'.unchecked, edited |-> hist'.edited,
                    disturbed |-> hist'.disturbed, strayed |-> hist'.strayed]
    <3>1. PICK h : h = hist
      OBVIOUS
    <3>2. h = [crossed |-> h.crossed, raced |-> h.raced, unchecked |-> h.unchecked,
               edited |-> h.edited, disturbed |-> h.disturbed, strayed |-> h.strayed]
      BY <1>1, <3>1 DEF FloorShape
    <3>3. QED
      BY <1>5, <3>1, <3>2
  <2>2. /\ tables' = [u \in Table |-> tables'[u]]
        /\ \A u \in Table : tables'[u] = [status |-> tables'[u].status, active |-> tables'[u].active,
                                          session |-> tables'[u].session]
        /\ \A u \in Table \ p.on : tables'[u] = tables[u]
    <3>1. CASE tables' = tables
      BY <1>1, <3>1 DEF FloorShape
    <3>2. ASSUME NEW t, NEW new, NEW set, NEW s, t \in p.on, tables' = [tables EXCEPT ![t] = new],
                 new = Patched(tables[t], set) \/ new = [tables[t] EXCEPT !.status = s]
          PROVE  <2>2!1 /\ <2>2!2 /\ <2>2!3
      BY <1>1, <3>2, SavedTable
    <3>3. QED
      BY <1>5, <3>1, <3>2
  <2>3. FloorShape'
    BY <1>1, <1>4, <2>1, <2>2 DEF FloorShape
  <2>4. QED
    BY <1>2, <1>5, <2>1, <2>2, <2>3, FloorGoes
<1>6. CASE DoInsert(a)
  BY <1>2, <1>3, <1>5, <1>6 DEF DoInsert, Done
<1>7. CASE DoTable(a)
  <2>1. Write(a).t \in p.on
    BY <1>3, <1>7 DEF DoTable, Next1, Write, FloorWrite, TableWrites
  <2>2. QED
    BY <1>2, <1>3, <1>5, <1>7, <2>1 DEF DoTable, Done
<1>8. CASE DoBook(a)
  BY <1>2, <1>3, <1>5, <1>8 DEF DoBook, Done
<1>9. CASE DoOrder(a)
  BY <1>2, <1>3, <1>5, <1>9 DEF DoOrder, Done
<1>10. CASE OrderRefused(a)
  BY <1>2, <1>3, <1>5, <1>10 DEF OrderRefused
<1>11. CASE DoClose(a)
  <2>1. PICK t : t = Write(a).t
    OBVIOUS
  <2>2. t \in p.on
    BY <1>3, <1>11, <2>1 DEF DoClose, Next1, Write, FloorWrite, TableWrites
  <2>3. PICK x, y, more :
          /\ more \in {<<>>, <<[w |-> "table", t |-> t, set |-> y]>>,
                       <<SetBook(x, "COMPLETED"), [w |-> "table", t |-> t, set |-> y]>>}
          /\ Continue(a, more)
    <3>1. PICK c : c = Write(a).copy
      OBVIOUS
    <3>2. PICK x, y, r : /\ r = IF x = NoReservation THEN <<>> ELSE <<SetBook(x, "COMPLETED")>>
                         /\ Closing(t, c) = r \o <<[w |-> "table", t |-> t, set |-> y]>>
      BY DEF Closing
    <3>3. Closing(t, c) \in {<<[w |-> "table", t |-> t, set |-> y]>>,
                            <<SetBook(x, "COMPLETED"), [w |-> "table", t |-> t, set |-> y]>>}
      BY <3>2, Joins
    <3>4. Continue(a, <<>>) \/ Continue(a, Closing(t, c))
      BY <1>11, <2>1, <3>1 DEF DoClose
    <3>5. QED
      BY <3>3, <3>4
  <2>4. FloorWrite(p.on, [w |-> "table", t |-> t, set |-> y])
    BY <2>2 DEF FloorWrite, FloorWrites, TableWrites
  <2>5. FloorWrite(p.on, SetBook(x, "COMPLETED"))
    BY DEF FloorWrite, SetBook, FloorWrites, TableWrites
  <2>6. more = <<>> \/ FloorPlan([op |-> p.op, on |-> p.on, todo |-> more])
    BY <1>3, <2>3, <2>4, <2>5, OnePlan, TwoPlan
  <2>7. UNCHANGED <<tables, hist>>
    BY <1>11 DEF DoClose
  <2>8. QED
    BY <1>5, <2>3, <2>6, <2>7
<1>12. CASE DoReserve(a)
  <2>1. PICK t : t = Write(a).t
    OBVIOUS
  <2>2. FloorWrite(p.on, SetTable(t, "RESERVED"))
    BY <1>3, <1>12, <2>1 DEF DoReserve, Next1, Write, FloorWrite, SetTable, TableWrites, FloorWrites
  <2>3. PICK more : more \in {<<>>, <<SetTable(t, "RESERVED")>>} /\ Continue(a, more)
    BY <1>12, <2>1 DEF DoReserve
  <2>4. more = <<>> \/ FloorPlan([op |-> p.op, on |-> p.on, todo |-> more])
    BY <1>3, <2>2, <2>3, OnePlan
  <2>5. UNCHANGED <<tables, hist>>
    BY <1>12 DEF DoReserve
  <2>6. QED
    BY <1>5, <2>3, <2>4, <2>5
<1>13. CASE DoRelease(a)
  <2>1. PICK t : t = Write(a).t
    OBVIOUS
  <2>2. FloorWrite(p.on, [w |-> "free", t |-> t])
    BY <1>3, <1>13, <2>1 DEF DoRelease, Next1, Write, FloorWrite, TableWrites, FloorWrites
  <2>3. PICK more : more \in {<<>>, <<[w |-> "free", t |-> t]>>} /\ Continue(a, more)
    BY <1>13, <2>1 DEF DoRelease
  <2>4. more = <<>> \/ FloorPlan([op |-> p.op, on |-> p.on, todo |-> more])
    BY <1>3, <2>2, <2>3, OnePlan
  <2>5. UNCHANGED <<tables, hist>>
    BY <1>13 DEF DoRelease
  <2>6. QED
    BY <1>5, <2>3, <2>4, <2>5
<1>14. CASE DoFree(a)
  <2>1. Write(a).t \in p.on
    BY <1>3, <1>14 DEF DoFree, Next1, Write, FloorWrite, TableWrites
  <2>2. QED
    BY <1>2, <1>3, <1>5, <1>14, <2>1 DEF DoFree, Done
<1>15. QED
  BY <1>6, <1>7, <1>8, <1>9, <1>10, <1>11, <1>12, <1>13, <1>14 DEF Writes

\* Requests die, guests pay, locks end, the kitchen finishes.
LEMMA OutsideQueueStep ==
  ASSUME QIInv, FloorStep,
         \/ \E a \in Actor : Dies(a)
         \/ \E r \in Reservation : GuestPays(r) \/ LockEnds(r)
         \/ \E o \in Order : KitchenFinishes(o) \/ ForceStatus(o)
  PROVE  QIInv'
<1>1. QueueShape /\ FloorShape /\ QueueRequestsInv
  BY DEF QIInv
<1>2. QueueShape' /\ QueueGrows /\ entries' = entries /\ (tangled => tangled')
      /\ (faults' = faults => tangled' = tangled) /\ arrivals' = arrivals
  BY <1>1, FloorEffect DEF FloorStep
<1>3. CASE /\ UNCHANGED <<tables, req, faults, hist.crossed, hist.disturbed>>
           /\ FloorShape'
  BY <1>2, <1>3, QueueQuiet
<1>4. ASSUME NEW a \in Actor, Dies(a) PROVE QIInv'
  <2>1. /\ Busy(a) /\ GoesOn(a, Idle) /\ faults' # faults /\ faults' \in Nat
        /\ UNCHANGED <<tables, hist>>
    BY <1>1, <1>4 DEF Dies, Busy, GoesOn, FloorShape, QueueRequestsInv, floorVars
  <2>2. tangled'
    BY <2>1 DEF FloorStep
  <2>3. PlacesInv'
    BY <2>2 DEF PlacesInv
  <2>4. FloorShape'
    BY <1>1, <2>1 DEF FloorShape
  <2>5. QueueClaims(a)'
    BY <2>1, FloorKnows
  <2>6. QueueRequestInv(Idle)'
    BY DEF QueueRequestInv
  <2>7. QED
    BY <1>2, <2>1, <2>3, <2>4, <2>5, <2>6, QueueWritten
<1>5. CASE UNCHANGED <<tables, req, faults, hist>>
  <2>1. FloorShape' /\ UNCHANGED <<hist.crossed, hist.disturbed>>
    BY <1>1, <1>5 DEF FloorShape
  <2>2. QED
    BY <1>3, <1>5, <2>1
<1>6. ASSUME NEW o \in Order, ForceStatus(o) PROVE QIInv'
  BY <1>1, <1>3, <1>6, Reopened
<1>7. QED
  BY <1>4, <1>5, <1>6 DEF GuestPays, LockEnds, KitchenFinishes

-----------------------------------------------------------------------------
(* The requests of the waitlist.                                            *)

LEMMA Triples ==
  \A x, y, z : /\ Head(<<x, y, z>>) = x /\ Tail(<<x, y, z>>) = <<y, z>> /\ <<x, y, z>> # <<>>
               /\ <<x, y, z>>[1] = x /\ <<x, y, z>>[2] = y /\ <<x, y, z>>[3] = z
OBVIOUS

LEMMA Pairs == \A x, y : <<x, y>>[1] = x /\ <<x, y>>[2] = y
OBVIOUS

\* A numbering of the waiting groups that begins.
LEMMA NumberBegins ==
  ASSUME QueueShape, NEW stored \in BOOLEAN, NEW todo, todo = Number(Pending, 1, stored)
  PROVE  \/ todo = <<>> /\ Waiting = {}
         \/ \E h : /\ todo = <<h>> /\ NumberWrite(h) /\ h.stored = stored
                   /\ h.left = Pending /\ h.n = 1 /\ h.w = "number"
<1>1. ListOfEntries(Pending) /\ DOMAIN Pending = Waiting /\ Waiting \subseteq Guests
  BY PendingList
<1>2. CASE Waiting = {}
  BY <1>1, <1>2 DEF Number
<1>3. CASE Waiting # {}
  <2>1. PICK h : h = [w |-> "number", left |-> Pending, n |-> 1, stored |-> stored]
    OBVIOUS
  <2>2. todo = <<h>>
    BY <1>1, <1>3, <2>1 DEF Number
  <2>3. Cardinality(Waiting) \in Nat /\ Cardinality(Waiting) <= arrivals /\ arrivals \in Nat
    BY <1>1, FewWait DEF QueueShape
  <2>4. 1 + Cardinality(Waiting) <= arrivals + 1
    BY <2>3
  <2>5. NumberWrite(h)
    BY <1>1, <1>3, <2>1, <2>4 DEF NumberWrite
  <2>6. QED
    BY <2>1, <2>2, <2>5
<1>4. QED
  BY <1>2, <1>3

\* What a request about to number the waiting groups knows.
LEMMA NumberKnows ==
  ASSUME QueueShape, NEW stored, stored => Ranked(Waiting)
  PROVE  LET L == DOMAIN Pending
         IN  /\ L \subseteq Waiting
             /\ Pending = [g \in L |-> entries[g]]
             /\ 1 = Cardinality(Waiting \ L) + 1
             /\ \A g \in Waiting \ L, h \in L : entries[g].at < entries[h].at
             /\ Ranked(IF stored THEN Waiting ELSE Waiting \ L)
<1>1. DOMAIN Pending = Waiting /\ Waiting \ Waiting = {}
  BY DEF Pending
<1>2. Cardinality({}) = 0
  BY FS_EmptySet
<1>3. Ranked({})
  BY DEF Ranked
<1>4. QED
  BY <1>1, <1>2, <1>3 DEF Pending

\* A request of the waitlist begins.
LEMMA QueueRequestStep ==
  ASSUME QIInv, NEW a \in Actor, QueueRequests(a)
  PROVE  QIInv'
<1>1. QueueShape /\ QueueRequestsInv
  BY DEF QIInv
<1>2. ASSUME NEW op, NEW on, NEW todo, Ask(a, op, on, todo)
      PROVE  /\ Begin(a, op, on, todo) /\ UNCHANGED <<tables, queueVars>>
             /\ UNCHANGED <<tables, entries, arrivals, tangled, Guests, Waiting, Pending>>
             /\ todo # <<>> => req'[a].op = op /\ Write(a)' = Head(todo) /\ req'[a].todo = todo
             /\ \A G : Ranked(G)' <=> Ranked(G)
  <2>1. /\ Begin(a, op, on, todo) /\ UNCHANGED <<tables, queueVars>>
        /\ UNCHANGED <<tables, entries, arrivals, tangled>>
    BY <1>2 DEF Ask, floorVars, queueVars
  <2>2. todo # <<>> => req'[a] = [op |-> op, on |-> on, todo |-> todo]
    BY <2>1, QueueBegun DEF GoesOn
  <2>3. UNCHANGED <<Guests, Waiting, Pending>>
    BY <2>1 DEF Guests, Waiting, Pending
  <2>4. \A G : Ranked(G)' <=> Ranked(G)
    BY <2>1, <2>3 DEF Ranked, LivePosition, Ahead
  <2>5. QED
    BY <2>1, <2>2, <2>3, <2>4 DEF Write
<1>3. CASE JoinWaitlist(a)
  <2>1. PICK p : p = Cardinality(Waiting) + 1
    OBVIOUS
  <2>2. Ask(a, "join", {Queue}, <<JoinAt(p)>>)
    BY <1>3, <2>1 DEF JoinWaitlist
  <2>3. p \in 1..arrivals + 1
    <3>1. Cardinality(Waiting) \in Nat /\ Cardinality(Waiting) <= arrivals /\ arrivals \in Nat
      BY <1>1, FewWait DEF QueueShape, Waiting
    <3>2. QED
      BY <2>1, <3>1
  <2>4. QueueRequestInv([op |-> "join", on |-> {Queue}, todo |-> <<JoinAt(p)>>])
    BY <2>3 DEF QueueRequestInv, QueuePlan
  <2>5. JoinClaim(a)' /\ NumberClaim(a)' /\ AutoClaim(a)'
    <3>1. Write(a)' = JoinAt(p) /\ req'[a].op = "join" /\ Waiting' = Waiting
      BY <1>2, <2>2, Tuples
    <3>2. QED
      BY <2>1, <3>1 DEF JoinAt, JoinClaim, NumberClaim, AutoClaim
  <2>6. QED
    BY <1>2, <2>2, <2>4, <2>5, QueueBeginStep
<1>4. CASE ListWaitlist(a)
  <2>1. PICK todo : todo = Number(Pending, 1, TRUE)
    OBVIOUS
  <2>2. Ask(a, "list", {Queue}, todo)
    BY <1>4, <2>1 DEF ListWaitlist
  <2>3. todo = <<>> \/ \E h : todo = <<h>> /\ NumberWrite(h) /\ h.stored = TRUE /\ h.left = Pending
                             /\ h.n = 1 /\ h.w = "number"
    BY <1>1, <2>1, NumberBegins
  <2>4. ASSUME todo # <<>>
        PROVE  /\ QueueRequestInv([op |-> "list", on |-> {Queue}, todo |-> todo])
               /\ (Queue \in {Queue} => tangled \/ Ranked(Waiting)) =>
                    JoinClaim(a)' /\ NumberClaim(a)' /\ AutoClaim(a)'
    <3>1. PICK h : /\ todo = <<h>> /\ NumberWrite(h) /\ h.stored = TRUE /\ h.left = Pending
                   /\ h.n = 1 /\ h.w = "number"
      BY <2>3, <2>4
    <3>2. QueueRequestInv([op |-> "list", on |-> {Queue}, todo |-> todo])
      BY <3>1 DEF QueueRequestInv, QueuePlan
    <3>3. /\ Write(a)' = h /\ req'[a].op = "list"
          /\ UNCHANGED <<Waiting, Pending, entries, tangled>> /\ \A G : Ranked(G)' <=> Ranked(G)
      BY <1>2, <2>2, <3>1, Tuples
    <3>4. JoinClaim(a)' /\ AutoClaim(a)'
      BY <3>1, <3>3 DEF JoinClaim, AutoClaim
    <3>5. ASSUME tangled \/ Ranked(Waiting) PROVE NumberClaim(a)'
      <4>1. SUFFICES ASSUME ~tangled PROVE NumberClaim(a)'
        BY <3>1, <3>3 DEF NumberClaim
      <4>2. Ranked(Waiting)
        BY <3>5, <4>1
      <4>3. LET L == DOMAIN Pending
            IN  /\ L \subseteq Waiting
                /\ Pending = [g \in L |-> entries[g]]
                /\ 1 = Cardinality(Waiting \ L) + 1
                /\ \A g \in Waiting \ L, k \in L : entries[g].at < entries[k].at
                /\ Ranked(IF TRUE THEN Waiting ELSE Waiting \ L)
        BY <1>1, <4>2, NumberKnows
      <4>4. QED
        BY <3>1, <3>3, <4>3 DEF NumberClaim
    <3>6. QED
      BY <3>2, <3>4, <3>5
  <2>5. QED
    BY <1>2, <2>2, <2>4, QueueBeginStep
<1>5. ASSUME NEW g \in Group, NEW t \in Table, SeatWaitlistGuest(a, g, t) PROVE QIInv'
  <2>1. g \in Guests /\ Ask(a, "seatGroup", {Queue, t}, <<SeatIfFree(g, t)>>)
    BY <1>5 DEF SeatWaitlistGuest, Waiting
  <2>2. QueueRequestInv([op |-> "seatGroup", on |-> {Queue, t}, todo |-> <<SeatIfFree(g, t)>>])
    BY <2>1 DEF QueueRequestInv, QueuePlan
  <2>3. Write(a)' = SeatIfFree(g, t) /\ req'[a].op = "seatGroup"
    BY <1>2, <2>1, Tuples
  <2>4. JoinClaim(a)' /\ NumberClaim(a)' /\ AutoClaim(a)'
    BY <2>3 DEF SeatIfFree, JoinClaim, NumberClaim, AutoClaim
  <2>5. QED
    BY <1>2, <2>1, <2>2, <2>4, QueueBeginStep
<1>6. ASSUME NEW g \in Group, CancelWaitlistEntry(a, g) PROVE QIInv'
  <2>1. PICK h : h = SaveEntry(g, [entries[g] EXCEPT !.status = "CANCELLED", !.pos = 0])
    OBVIOUS
  <2>2. g \in Guests /\ Ask(a, "cancelEntry", {Queue}, <<h, Recalculate>>)
    BY <1>6, <2>1 DEF CancelWaitlistEntry, Guests
  <2>3. CancelWrite(h) /\ h.w = "entry"
    <3>1. PICK d, set : d = entries[g] /\ set = Changes(d, [d EXCEPT !.status = "CANCELLED", !.pos = 0])
      OBVIOUS
    <3>2. d \in Entries
      BY <1>1, <2>2, <3>1 DEF QueueShape
    <3>3. /\ DOMAIN set \subseteq {"status", "pos"}
          /\ "status" \in DOMAIN set => set.status = "CANCELLED"
          /\ "pos" \in DOMAIN set => set.pos = 0
      BY <3>1, <3>2 DEF Changes, Entries
    <3>4. h = [w |-> "entry", g |-> g, set |-> set]
      BY <2>1, <3>1 DEF SaveEntry
    <3>5. QED
      BY <2>2, <3>3, <3>4 DEF CancelWrite
  <2>4. QueueRequestInv([op |-> "cancelEntry", on |-> {Queue}, todo |-> <<h, Recalculate>>])
    BY <2>3 DEF QueueRequestInv, QueuePlan
  <2>5. Write(a)' = h /\ req'[a].op = "cancelEntry"
    BY <1>2, <2>2, Tuples
  <2>6. JoinClaim(a)' /\ NumberClaim(a)' /\ AutoClaim(a)'
    BY <2>3, <2>5 DEF JoinClaim, NumberClaim, AutoClaim
  <2>7. QED
    BY <1>2, <2>2, <2>4, <2>6, QueueBeginStep
<1>7. CASE AutoAssignTables(a)
  <2>1. PICK list : list = Pending
    OBVIOUS
  <2>2. Ask(a, "auto", {Queue} \cup Table, <<AssignPool(list)>>)
    BY <1>7, <2>1 DEF AutoAssignTables
  <2>3. ListOfEntries(list) /\ DOMAIN list = Waiting
    BY <1>1, <2>1, PendingList
  <2>4. QueueRequestInv([op |-> "auto", on |-> {Queue} \cup Table, todo |-> <<AssignPool(list)>>])
    BY <2>3 DEF QueueRequestInv, QueuePlan
  <2>5. Write(a)' = AssignPool(list) /\ req'[a].op = "auto" /\ Waiting' = Waiting
    BY <1>2, <2>2, Tuples
  <2>6. JoinClaim(a)' /\ NumberClaim(a)' /\ AutoClaim(a)'
    BY <2>3, <2>5 DEF AssignPool, JoinClaim, NumberClaim, AutoClaim
  <2>7. QED
    BY <1>2, <2>2, <2>4, <2>6, QueueBeginStep
<1>8. QED
  BY <1>3, <1>4, <1>5, <1>6, <1>7 DEF QueueRequests

-----------------------------------------------------------------------------
(* The writes of the waitlist.                                              *)

\* The plan of a request, by the step that comes next.
LEMMA QueuePlanAt ==
  ASSUME NEW q, QueuePlan(q), NEW h, h = Head(q.todo)
  PROVE  /\ Queue \in q.on /\ q.op \in QueueOps /\ (q.op = "auto" => Table \subseteq q.on)
         /\ h.w \in {"join", "number", "recalculate", "seat", "entry", "pool", "assign", "table"}
         /\ h.w = "join" => q.op = "join" /\ \E p \in 1..arrivals + 1 : q.todo = <<h>> /\ h = JoinAt(p)
         /\ h.w = "number" => /\ q.op \in {"list", "seatGroup", "cancelEntry", "auto"}
                              /\ q.todo = <<h>> /\ NumberWrite(h) /\ (q.op = "list" <=> h.stored)
         /\ h.w = "recalculate" => /\ q.op \in {"seatGroup", "cancelEntry", "auto"}
                                   /\ q.todo = <<h>> /\ h = Recalculate
         /\ h.w = "seat" => /\ q.op = "seatGroup"
                            /\ \E g \in Guests, t \in Table \cap q.on : q.todo = <<h>> /\ h = SeatIfFree(g, t)
         /\ h.w = "entry" =>
              \/ q.op = "cancelEntry" /\ q.todo = <<h, Recalculate>> /\ CancelWrite(h)
              \/ \E g \in Guests, t \in Table \cap q.on : \E m :
                   SeatingEnds(q.op, m) /\ q.todo = <<h, m>> /\ h = SaveSeated(g, t)
         /\ h.w = "pool" => /\ q.op = "auto"
                            /\ \E list : q.todo = <<h>> /\ h = AssignPool(list) /\ ListOfEntries(list)
         /\ h.w = "assign" => q.op = "auto" /\ q.todo = <<h>> /\ AssignWrite(h)
         /\ h.w = "table" =>
              \E g \in Guests, t \in Table \cap q.on : \E m :
                /\ SeatingEnds(q.op, m)
                /\ q.todo = <<h, SaveSeated(g, t), m>> /\ h = SetTable(t, "OCCUPIED")
<1>1. Queue \in q.on /\ (q.op = "auto" => Table \subseteq q.on)
  BY DEF QueuePlan
<1>2. CASE q.op = "join" /\ \E p \in 1..arrivals + 1 : q.todo = <<JoinAt(p)>>
  BY <1>1, <1>2, Tuples DEF JoinAt, QueueOps
<1>3. CASE q.op \in {"list", "seatGroup", "cancelEntry", "auto"}
             /\ \E n : q.todo = <<n>> /\ NumberWrite(n) /\ (q.op = "list" <=> n.stored)
  <2>1. PICK n : q.todo = <<n>> /\ NumberWrite(n) /\ (q.op = "list" <=> n.stored)
    BY <1>3
  <2>2. h = n /\ h.w = "number"
    BY <2>1, Tuples DEF NumberWrite
  <2>3. QED
    BY <1>1, <1>3, <2>1, <2>2 DEF QueueOps
<1>4. CASE q.op \in {"seatGroup", "cancelEntry", "auto"} /\ q.todo = <<Recalculate>>
  BY <1>1, <1>4, Tuples DEF Recalculate, QueueOps
<1>5. CASE q.op = "seatGroup"
            /\ \E g \in Guests, t \in Table \cap q.on : q.todo = <<SeatIfFree(g, t)>>
  BY <1>1, <1>5, Tuples DEF SeatIfFree, QueueOps
<1>6. CASE q.op = "cancelEntry" /\ \E n : q.todo = <<n, Recalculate>> /\ CancelWrite(n)
  <2>1. PICK n : q.todo = <<n, Recalculate>> /\ CancelWrite(n)
    BY <1>6
  <2>2. h = n /\ h.w = "entry"
    BY <2>1, Tuples DEF CancelWrite
  <2>3. QED
    BY <1>1, <1>6, <2>1, <2>2 DEF QueueOps
<1>7. CASE q.op = "auto" /\ \E list : q.todo = <<AssignPool(list)>> /\ ListOfEntries(list)
  BY <1>1, <1>7, Tuples DEF AssignPool, QueueOps
<1>8. CASE q.op = "auto" /\ \E n : q.todo = <<n>> /\ AssignWrite(n)
  <2>1. PICK n : q.todo = <<n>> /\ AssignWrite(n)
    BY <1>8
  <2>2. h = n /\ h.w = "assign"
    BY <2>1, Tuples DEF AssignWrite, AssignNext
  <2>3. QED
    BY <1>1, <1>8, <2>1, <2>2 DEF QueueOps
<1>9. ASSUME NEW g \in Guests, NEW t \in Table \cap q.on, NEW m, SeatingEnds(q.op, m),
             q.todo = <<SetTable(t, "OCCUPIED"), SaveSeated(g, t), m>>
      PROVE  /\ h.w = "table" /\ h = SetTable(t, "OCCUPIED") /\ q.op \in QueueOps
  BY <1>9, Triples DEF SetTable, SeatingEnds, QueueOps
<1>10. ASSUME NEW g \in Guests, NEW t \in Table \cap q.on, NEW m, SeatingEnds(q.op, m),
              q.todo = <<SaveSeated(g, t), m>>
       PROVE  /\ h.w = "entry" /\ h = SaveSeated(g, t) /\ q.op \in QueueOps
  BY <1>10, Tuples DEF SaveSeated, SeatingEnds, QueueOps
<1>11. CASE \E g \in Guests, t \in Table \cap q.on : \E m :
              /\ SeatingEnds(q.op, m)
              /\ q.todo = <<SetTable(t, "OCCUPIED"), SaveSeated(g, t), m>>
  BY <1>1, <1>9, <1>11
<1>12. CASE \E g \in Guests, t \in Table \cap q.on : \E m :
              SeatingEnds(q.op, m) /\ q.todo = <<SaveSeated(g, t), m>>
  BY <1>1, <1>10, <1>12
<1>13. QED
  BY <1>2, <1>3, <1>4, <1>5, <1>6, <1>7, <1>8, <1>11, <1>12 DEF QueuePlan

\* What a request is after a write.
LEMMA Onward ==
  ASSUME QIInv, NEW a \in Actor, Busy(a), QueuePlan(req[a]), NEW p, p = req[a],
         NEW more, Continue(a, more), NEW n,
         n = IF more = <<>> THEN Idle ELSE [op |-> p.op, on |-> p.on, todo |-> more]
  PROVE  /\ GoesOn(a, n) /\ faults' = faults /\ p.op \in QueueOps
         /\ (more = <<>> => ~Busy(a)')
         /\ (more # <<>> => Busy(a)' /\ Write(a)' = Head(more)
                            /\ req'[a].op = p.op /\ req'[a].on = p.on /\ req'[a].todo = more)
<1>1. QueueRequestsInv
  BY DEF QIInv
<1>2. GoesOn(a, n) /\ faults' = faults
  BY <1>1, QueueGoing
<1>3. more = <<>> => ~Busy(a)'
  BY <1>2 DEF GoesOn, Busy
<1>4. p.op \in QueueOps
  BY QueuePlanAt
<1>5. ASSUME more # <<>>
      PROVE  Busy(a)' /\ Write(a)' = Head(more)
             /\ req'[a].op = p.op /\ req'[a].on = p.on /\ req'[a].todo = more
  <2>1. req'[a] = [op |-> p.op, on |-> p.on, todo |-> more]
    BY <1>2, <1>5 DEF GoesOn
  <2>2. req'[a].op = p.op /\ req'[a].on = p.on /\ req'[a].todo = more
    BY <2>1
  <2>3. Busy(a)'
    BY <1>4, <2>2 DEF Busy, Idle, QueueOps
  <2>4. QED
    BY <2>2, <2>3 DEF Write
<1>6. QED
  BY <1>2, <1>3, <1>4, <1>5

\* A request of the waitlist goes on.
LEMMA QueueGoes ==
  ASSUME QIInv, NEW a \in Actor, Busy(a), QueuePlan(req[a]), NEW p, p = req[a],
         NEW more, Continue(a, more), hist' = hist,
         more = <<>> \/ QueuePlan([op |-> p.op, on |-> p.on, todo |-> more])',
         QueueGrows, QueueShape', FloorShape',
         \A t \in Table \ p.on : tables'[t] = tables[t], PlacesInv',
         more # <<>> /\ Alone(a) => JoinClaim(a)' /\ NumberClaim(a)' /\ AutoClaim(a)'
  PROVE  QIInv'
<1>1. PICK q, n : /\ q = [op |-> p.op, on |-> p.on, todo |-> more]
                  /\ n = IF more = <<>> THEN Idle ELSE q
  OBVIOUS
<1>2. GoesOn(a, n) /\ (more = <<>> => ~Busy(a)')
  BY <1>1, Onward
<1>3. n = Idle \/ n.on = req[a].on
  BY <1>1
<1>4. QueueRequestInv(n)'
  <2>1. CASE more = <<>>
    BY <1>1, <2>1 DEF QueueRequestInv
  <2>2. CASE more # <<>>
    <3>1. n = q /\ q = [op |-> q.op, on |-> q.on, todo |-> q.todo]
      BY <1>1, <2>2
    <3>2. QueuePlan(q)'
      BY <1>1, <2>2
    <3>3. QED
      BY <3>1, <3>2 DEF QueueRequestInv
  <2>3. QED
    BY <2>1, <2>2
<1>5. QueueClaims(a)'
  BY <1>2 DEF QueueClaims, Alone
<1>6. Queue \in req[a].on
  BY DEF QueuePlan
<1>7. QED
  BY <1>2, <1>3, <1>4, <1>5, <1>6, QueueWritten

\* A request with saves left keeps the places unsettled.
LEMMA Unsettled ==
  ASSUME NEW a \in Actor, Busy(a)', NEW op, op \in QueueOps, req'[a].op = op,
         Write(a)'.w \in {"table", "entry", "assign", "recalculate", "number"}
  PROVE  PlacesInv'
BY DEF PlacesInv, Dirty

\* A step that leaves the collections alone.
LEMMA Aside ==
  ASSUME QIInv, UNCHANGED <<tables, entries, arrivals, sitting, upset, hist, faults>>,
         tangled' \in BOOLEAN
  PROVE  /\ QueueShape' /\ FloorShape' /\ QueueGrows
         /\ UNCHANGED <<Guests, Waiting, Pending, FreeTables>>
         /\ \A G : Ranked(G)' <=> Ranked(G)
         /\ \A list : ListOfEntries(list)' <=> ListOfEntries(list)
         /\ \A h : NumberWrite(h)' <=> NumberWrite(h)
<1>1. QueueShape /\ FloorShape
  BY DEF QIInv
<1>2. UNCHANGED <<Guests, Waiting, Pending, FreeTables>>
  BY DEF Guests, Waiting, Pending, FreeTables
<1>3. QueueShape'
  BY <1>1, <1>2 DEF QueueShape
<1>4. FloorShape'
  BY <1>1 DEF FloorShape
<1>5. QueueGrows
  BY <1>1, <1>2 DEF QueueGrows, QueueShape
<1>6. \A G : Ranked(G)' <=> Ranked(G)
  BY <1>2 DEF Ranked, LivePosition, Ahead
<1>7. \A list : ListOfEntries(list)' <=> ListOfEntries(list)
  BY <1>2 DEF ListOfEntries
<1>8. \A h : NumberWrite(h)' <=> NumberWrite(h)
  BY <1>7 DEF NumberWrite
<1>9. QED
  BY <1>2, <1>3, <1>4, <1>5, <1>6, <1>7, <1>8

-----------------------------------------------------------------------------
(* Joining, seating, cancelling.                                            *)

\* A group joins with the place that follows the others.
LEMMA JoinStep ==
  ASSUME QIInv, NEW a \in Actor, Busy(a), QueuePlan(req[a]), DoJoin(a)
  PROVE  QIInv'
<1>1. QueueShape /\ FloorShape /\ QueueRequestsInv /\ PlacesInv /\ QueueClaims(a)
  BY DEF QIInv
<1>2. PICK p : p = req[a]
  OBVIOUS
<1>3. PICK pos \in 1..arrivals + 1 : p.todo = <<JoinAt(pos)>>
  BY <1>2, QueuePlanAt DEF DoJoin, Next1, Write
<1>4. Write(a) = JoinAt(pos) /\ Tail(p.todo) = <<>>
  BY <1>2, <1>3, Tuples DEF Write
<1>5. GoesOn(a, Idle) /\ faults' = faults /\ ~Busy(a)'
  <2>1. Continue(a, <<>>)
    BY <1>2, <1>4 DEF DoJoin, Done
  <2>2. QED
    BY <1>2, <2>1, Onward
<1>6. PICK g \in Group : /\ entries[g] = Free
         /\ entries' = [entries EXCEPT ![g] =
              [status |-> "PENDING", pos |-> pos, table |-> Free, at |-> arrivals + 1]]
  <2>1. Write(a).pos = pos
    BY <1>4 DEF JoinAt
  <2>2. QED
    BY <2>1 DEF DoJoin
<1>7. /\ arrivals' = arrivals + 1 /\ arrivals \in Nat
      /\ tangled' = (tangled \/ Crossed(a)) /\ hist' = hist
      /\ UNCHANGED <<tables, sitting, upset>>
  BY <1>1 DEF DoJoin, Floor, QueueShape
<1>8. PICK d : d = [status |-> "PENDING", pos |-> pos, table |-> Free, at |-> arrivals + 1]
  OBVIOUS
<1>9. /\ entries' = [h \in Group |-> IF h = g THEN d ELSE entries[h]]
      /\ entries'[g] = d /\ \A h \in Group \ {g} : entries'[h] = entries[h]
  BY <1>1, <1>6, <1>8 DEF QueueShape
<1>10. d \in Entries /\ d # Free /\ d.status = "PENDING" /\ d.pos = pos /\ d.at = arrivals + 1
  <2>1. d \in Entries
    BY <1>3, <1>7, <1>8 DEF Entries
  <2>2. QED
    BY <1>8, <2>1, WaitlistAssumption
<1>11. /\ Guests' = Guests \cup {g} /\ g \notin Guests /\ Guests \subseteq Group
       /\ \A h \in Guests : entries'[h] = entries[h]
  BY <1>6, <1>9, <1>10 DEF Guests
<1>12. Waiting' = Waiting \cup {g} /\ Waiting \subseteq Guests
  BY <1>9, <1>10, <1>11 DEF Waiting
<1>13. QueueGrows
  BY <1>7, <1>11 DEF QueueGrows
<1>14. QueueShape'
  <2>1. IsFiniteSet(Guests') /\ Cardinality(Guests') = arrivals'
    BY <1>1, <1>7, <1>11, FS_AddElement DEF QueueShape
  <2>2. arrivals' \in Nat /\ \A x \in 0..arrivals : x \in 0..arrivals'
    BY <1>7
  <2>3. \A x \in 1..arrivals : x \in 1..arrivals' /\ x # arrivals + 1
    BY <1>7
  <2>4. pos \in 0..arrivals' /\ arrivals + 1 \in 1..arrivals'
    BY <1>3, <1>7
  <2>5. ASSUME NEW h \in Guests'
        PROVE  /\ entries'[h] \in Entries
               /\ entries'[h].pos \in 0..arrivals' /\ entries'[h].at \in 1..arrivals'
    <3>1. CASE h = g
      BY <1>9, <1>10, <2>4, <3>1
    <3>2. CASE h \in Guests
      BY <1>1, <1>11, <2>2, <2>3, <3>2 DEF QueueShape
    <3>3. QED
      BY <1>11, <3>1, <3>2
  <2>6. \A h \in Guests : entries'[h].at # entries'[g].at
    BY <1>1, <1>9, <1>10, <1>11, <2>3 DEF QueueShape
  <2>7. \A h, k \in Guests' : entries'[h].at = entries'[k].at => h = k
    <3>1. \A h, k \in Guests : entries'[h].at = entries'[k].at => h = k
      BY <1>1, <1>11 DEF QueueShape
    <3>2. \A h \in Guests' : h = g \/ h \in Guests
      BY <1>11
    <3>3. QED
      BY <2>6, <3>1, <3>2
  <2>8. tangled' \in BOOLEAN
    BY <1>1, <1>7 DEF QueueShape
  <2>9. sitting' \in [Table -> SUBSET Guests']
    BY <1>1, <1>7, <1>11 DEF QueueShape
  <2>10. entries' = [h \in Group |-> entries'[h]]
    BY <1>9
  <2>11. hist'.disturbed \subseteq upset'
    BY <1>1, <1>7 DEF QueueShape
  <2>12. QED
    BY <2>1, <2>2, <2>5, <2>7, <2>8, <2>9, <2>10, <2>11 DEF QueueShape
<1>15. FloorShape'
  BY <1>1, <1>5, <1>7 DEF FloorShape
<1>16. PlacesInv'
  <2>1. SUFFICES ASSUME ~tangled, ~Crossed(a) PROVE PlacesInv'
    BY <1>7 DEF PlacesInv
  <2>2. pos = Cardinality(Waiting) + 1
    <3>1. JoinClaim(a)
      BY <1>1, <2>1 DEF QueueClaims, Alone, Crossed
    <3>2. QED
      BY <1>4, <3>1 DEF JoinClaim, JoinAt
  <2>3. CASE Ranked(Waiting)
    <3>1. \A h \in Waiting : entries'[h].at < arrivals + 1
      BY <1>1, <1>7, <1>11, <1>12 DEF QueueShape
    <3>2. \A h \in Waiting : ~(entries'[h].at > arrivals + 1) /\ entries[h].at \in Nat
      BY <1>1, <1>7, <1>11, <1>12 DEF QueueShape
    <3>3. Ahead(g)' = Waiting
      BY <1>7, <1>9, <1>10, <1>12, <3>1 DEF Ahead
    <3>4. ASSUME NEW h \in Waiting PROVE Ahead(h)' = Ahead(h)
      <4>1. ~(arrivals + 1 < entries[h].at)
        BY <1>7, <1>11, <1>12, <3>2
      <4>2. QED
        BY <1>9, <1>10, <1>11, <1>12, <4>1 DEF Ahead
    <3>5. ASSUME NEW h \in Waiting' PROVE entries'[h].pos = LivePosition(h)'
      <4>1. CASE h = g
        BY <1>9, <1>10, <2>2, <3>3, <4>1 DEF LivePosition
      <4>2. CASE h \in Waiting
        BY <1>11, <1>12, <2>3, <3>4, <4>2 DEF LivePosition, Ranked
      <4>3. QED
        BY <1>12, <4>1, <4>2
    <3>6. QED
      BY <3>5 DEF PlacesInv, Ranked
  <2>4. ASSUME NEW c \in Actor, Dirty(c) PROVE PlacesInv'
    <3>1. c # a
      BY <1>4, <2>4 DEF Dirty, JoinAt
    <3>2. Dirty(c)'
      BY <1>5, <2>4, <3>1 DEF Dirty, GoesOn, Busy, Write
    <3>3. QED
      BY <3>2 DEF PlacesInv
  <2>5. QED
    BY <1>1, <2>1, <2>3, <2>4 DEF PlacesInv
<1>17. Continue(a, <<>>)
  BY <1>2, <1>4 DEF DoJoin, Done
<1>18. QED
  BY <1>2, <1>7, <1>13, <1>14, <1>15, <1>16, <1>17, QueueGoes

\* A group is seated if the table is still free.
LEMMA SeatGroupStep ==
  ASSUME QIInv, NEW a \in Actor, Busy(a), QueuePlan(req[a]), DoSeat(a)
  PROVE  QIInv'
<1>1. QueueShape /\ PlacesInv
  BY DEF QIInv
<1>2. PICK p : p = req[a]
  OBVIOUS
<1>3. PICK g \in Guests, t \in Table \cap p.on : Write(a) = SeatIfFree(g, t) /\ p.op = "seatGroup"
  BY <1>2, QueuePlanAt DEF DoSeat, Next1, Write
<1>4. PICK more : /\ Continue(a, more)
                  /\ more \in {<<>>, <<SetTable(t, "OCCUPIED"), SaveSeated(g, t), Recalculate>>}
  BY <1>3 DEF DoSeat, SeatIfFree
<1>5. UNCHANGED <<tables, entries, arrivals, sitting, upset, hist, tangled>>
  BY DEF DoSeat, Floor
<1>6. PICK n : n = IF more = <<>> THEN Idle ELSE [op |-> p.op, on |-> p.on, todo |-> more]
  OBVIOUS
<1>7. /\ GoesOn(a, n) /\ faults' = faults
      /\ (more # <<>> => Busy(a)' /\ Write(a)' = Head(more) /\ req'[a].op = p.op)
  BY <1>2, <1>4, <1>6, Onward
<1>8. QueueShape' /\ FloorShape' /\ QueueGrows /\ UNCHANGED Guests
  BY <1>1, <1>5, <1>7, Aside DEF QueueShape
<1>9. PlacesInv'
  <2>1. ~Dirty(a)
    BY <1>3 DEF Dirty, SeatIfFree
  <2>2. QED
    BY <1>1, <1>5, <1>7, <2>1, PlacesKept
<1>10. ASSUME more # <<>>
       PROVE  /\ QueuePlan([op |-> p.op, on |-> p.on, todo |-> more])'
              /\ JoinClaim(a)' /\ NumberClaim(a)' /\ AutoClaim(a)'
  <2>1. more = <<SetTable(t, "OCCUPIED"), SaveSeated(g, t), Recalculate>>
    BY <1>4, <1>10
  <2>2. Queue \in p.on
    BY <1>2 DEF QueuePlan
  <2>3. g \in Guests'
    BY <1>8
  <2>4. QueuePlan([op |-> p.op, on |-> p.on, todo |-> more])'
    BY <1>3, <2>1, <2>2, <2>3 DEF QueuePlan, SeatingEnds
  <2>5. Write(a)' = SetTable(t, "OCCUPIED") /\ req'[a].op = "seatGroup"
    BY <1>3, <1>7, <1>10, <2>1, Triples
  <2>6. QED
    BY <2>4, <2>5 DEF SetTable, JoinClaim, NumberClaim, AutoClaim
<1>11. QED
  BY <1>2, <1>4, <1>5, <1>8, <1>9, <1>10, QueueGoes

\* What the save of one entry does to the list.
LEMMA EntrySaved ==
  ASSUME QueueShape, NEW g \in Guests, NEW set, NEW new, new = Patched(entries[g], set),
         "at" \notin DOMAIN set,
         "status" \in DOMAIN set => set.status \in {"PENDING", "SEATED", "CANCELLED"},
         "pos" \in DOMAIN set => set.pos \in 0..arrivals,
         "table" \in DOMAIN set => set.table \in Table \cup {Free},
         entries' = [h \in Group |-> entries'[h]], entries'[g] = new,
         \A h \in Group \ {g} : entries'[h] = entries[h], arrivals' = arrivals, tangled' \in BOOLEAN,
         sitting' \in [Table -> SUBSET Guests], UNCHANGED <<hist, upset>>
  PROVE  /\ QueueShape' /\ QueueGrows /\ Guests' = Guests
         /\ new.at = entries[g].at
         /\ new.status = (IF "status" \in DOMAIN set THEN set.status ELSE entries[g].status)
         /\ new.pos = (IF "pos" \in DOMAIN set THEN set.pos ELSE entries[g].pos)
<1>1. PICK d : d = entries[g]
  OBVIOUS
<1>2. d \in Entries /\ d.pos \in 0..arrivals /\ d.at \in 1..arrivals
  BY <1>1 DEF QueueShape
<1>3. new = [status |-> IF "status" \in DOMAIN set THEN set.status ELSE d.status,
             pos |-> IF "pos" \in DOMAIN set THEN set.pos ELSE d.pos,
             table |-> IF "table" \in DOMAIN set THEN set.table ELSE d.table,
             at |-> d.at]
  <2>1. DOMAIN d = {"status", "pos", "table", "at"}
    BY <1>2 DEF Entries
  <2>2. QED
    BY <1>1, <2>1 DEF Patched
<1>4. new \in Entries /\ new # Free /\ new.pos \in 0..arrivals /\ new.at = d.at
  <2>1. new.at = d.at /\ new.pos = IF "pos" \in DOMAIN set THEN set.pos ELSE d.pos
    BY <1>3
  <2>2. new.pos \in 0..arrivals
    BY <1>2, <2>1
  <2>3. new \in Entries
    <3>1. arrivals \in Nat
      BY DEF QueueShape
    <3>2. \A x \in 0..arrivals : x \in Nat
      BY <3>1
    <3>3. QED
      BY <1>2, <1>3, <3>2 DEF Entries
  <2>4. QED
    BY <2>1, <2>2, <2>3, WaitlistAssumption
<1>5. g \in Group
  BY DEF Guests
<1>6. /\ entries' = [h \in Group |-> entries'[h]]
      /\ entries'[g] = new /\ \A h \in Group \ {g} : entries'[h] = entries[h]
  OBVIOUS
<1>7. Guests' = Guests
  BY <1>4, <1>6 DEF Guests
<1>8. \A h \in Guests : entries'[h].at = entries[h].at
  BY <1>1, <1>4, <1>6 DEF Guests
<1>9. QueueShape'
  <2>1. ASSUME NEW h \in Guests
        PROVE  /\ entries'[h] \in Entries
               /\ entries'[h].pos \in 0..arrivals /\ entries'[h].at \in 1..arrivals
    <3>1. CASE h = g
      BY <1>2, <1>4, <1>6, <3>1
    <3>2. CASE h # g
      BY <1>6, <3>2 DEF QueueShape, Guests
    <3>3. QED
      BY <3>1, <3>2
  <2>2. \A h, k \in Guests : entries'[h].at = entries'[k].at => h = k
    BY <1>8 DEF QueueShape
  <2>3. arrivals \in Nat /\ IsFiniteSet(Guests) /\ Cardinality(Guests) = arrivals
        /\ hist.disturbed \subseteq upset
    BY DEF QueueShape
  <2>4. QED
    BY <1>6, <1>7, <2>1, <2>2, <2>3 DEF QueueShape
<1>10. QueueGrows
  BY <1>7, <1>8 DEF QueueGrows, QueueShape
<1>11. QED
  BY <1>1, <1>3, <1>6, <1>7, <1>9, <1>10

\* A group is marked as seated, or its entry as cancelled.
LEMMA EntryStep ==
  ASSUME QIInv, NEW a \in Actor, Busy(a), QueuePlan(req[a]), DoEntry(a)
  PROVE  QIInv'
<1>1. QueueShape /\ FloorShape /\ QueueClaims(a)
  BY DEF QIInv
<1>2. PICK p, h : p = req[a] /\ h = Write(a)
  OBVIOUS
<1>3. h = Head(p.todo) /\ h.w = "entry" /\ Queue \in p.on /\ (p.op = "auto" => Table \subseteq p.on)
  BY <1>2 DEF DoEntry, Next1, Write, QueuePlan
<1>4. PICK g, set, new : /\ g = h.g /\ set = h.set /\ new = Patched(entries[g], set)
  OBVIOUS
<1>5. /\ entries' = [entries EXCEPT ![g] = new]
      /\ sitting' = IF entries[g].status # "SEATED" /\ new.status = "SEATED"
                    THEN [sitting EXCEPT ![new.table] = @ \cup {g}] ELSE sitting
      /\ UNCHANGED <<tables, hist, upset, arrivals>> /\ tangled' \in BOOLEAN
  BY <1>1, <1>2, <1>4 DEF DoEntry, Floor, QueueShape, Crossed
<1>6. ASSUME NEW m, p.todo = <<h, m>>, g \in Guests, "at" \notin DOMAIN set,
             "status" \in DOMAIN set => set.status \in {"PENDING", "SEATED", "CANCELLED"},
             "pos" \in DOMAIN set => set.pos \in 0..arrivals,
             "table" \in DOMAIN set => set.table \in Table \cup {Free},
             sitting' \in [Table -> SUBSET Guests],
             m.w \in {"recalculate", "assign"},
             QueueGrows /\ Guests' = Guests /\ entries'[g] = new /\ new.at = entries[g].at
               /\ (\A k \in Group \ {g} : entries'[k] = entries[k])
               /\ new.status = (IF "status" \in DOMAIN set THEN set.status ELSE entries[g].status)
               => /\ QueuePlan([op |-> p.op, on |-> p.on, todo |-> <<m>>])'
                  /\ p.op = "auto" /\ Write(a)' = m /\ req'[a].op = p.op /\ Alone(a) => AutoClaim(a)'
      PROVE  QIInv'
  <2>1. Continue(a, <<m>>)
    BY <1>2, <1>6, Tuples DEF DoEntry, Done
  <2>2. PICK n : n = IF <<m>> = <<>> THEN Idle ELSE [op |-> p.op, on |-> p.on, todo |-> <<m>>]
    OBVIOUS
  <2>3. /\ GoesOn(a, n) /\ faults' = faults /\ p.op \in QueueOps
        /\ Busy(a)' /\ Write(a)' = m /\ req'[a].op = p.op
    BY <1>2, <2>1, <2>2, Onward, Tuples
  <2>4. /\ QueueShape' /\ QueueGrows /\ Guests' = Guests
        /\ new.at = entries[g].at
        /\ new.status = (IF "status" \in DOMAIN set THEN set.status ELSE entries[g].status)
        /\ entries'[g] = new /\ \A k \in Group \ {g} : entries'[k] = entries[k]
    <3>1. /\ UNCHANGED <<hist, upset>> /\ tangled' \in BOOLEAN /\ arrivals' = arrivals
      BY <1>5
    <3>2. new = Patched(entries[g], set) /\ QueueShape
      BY <1>1, <1>4
    <3>3. /\ g \in Guests /\ "at" \notin DOMAIN set
          /\ "status" \in DOMAIN set => set.status \in {"PENDING", "SEATED", "CANCELLED"}
          /\ "pos" \in DOMAIN set => set.pos \in 0..arrivals
          /\ "table" \in DOMAIN set => set.table \in Table \cup {Free}
          /\ sitting' \in [Table -> SUBSET Guests]
      BY <1>6
    <3>4. entries = [k \in Group |-> entries[k]] /\ g \in Group
      BY <1>1, <3>3 DEF QueueShape, Guests
    <3>5. /\ entries' = [k \in Group |-> entries'[k]]
          /\ entries'[g] = new /\ \A k \in Group \ {g} : entries'[k] = entries[k]
      BY <1>5, <3>4
    <3>6. /\ QueueShape' /\ QueueGrows /\ Guests' = Guests /\ new.at = entries[g].at
          /\ new.status = (IF "status" \in DOMAIN set THEN set.status ELSE entries[g].status)
      BY <3>1, <3>2, <3>3, <3>5, EntrySaved
    <3>7. QED
      BY <3>5, <3>6
  <2>5. FloorShape'
    BY <1>1, <1>5, <2>3 DEF FloorShape
  <2>6. PlacesInv'
    BY <1>6, <2>3, Unsettled
  <2>7. /\ QueuePlan([op |-> p.op, on |-> p.on, todo |-> <<m>>])'
        /\ p.op = "auto" /\ Alone(a) => AutoClaim(a)'
    BY <1>6, <2>3, <2>4
  <2>8. JoinClaim(a)' /\ NumberClaim(a)' /\ (Alone(a) => AutoClaim(a)')
    BY <1>6, <2>3, <2>7 DEF JoinClaim, NumberClaim, AutoClaim
  <2>9. QED
    BY <1>2, <1>5, <2>1, <2>4, <2>5, <2>6, <2>7, <2>8, QueueGoes
<1>7. CASE p.op = "cancelEntry" /\ p.todo = <<h, Recalculate>> /\ CancelWrite(h)
  <2>1. /\ g \in Guests /\ DOMAIN set \subseteq {"status", "pos"}
        /\ "status" \in DOMAIN set => set.status = "CANCELLED"
        /\ "pos" \in DOMAIN set => set.pos = 0
    BY <1>4, <1>7 DEF CancelWrite
  <2>2. entries[g] \in Entries /\ arrivals \in Nat
    BY <1>1, <2>1 DEF QueueShape
  <2>3. 0 \in 0..arrivals
    BY <2>2
  <2>4. sitting' = sitting
    <3>1. entries[g].status # "SEATED" => new.status # "SEATED"
      <4>1. "status" \in DOMAIN entries[g]
        BY <2>2 DEF Entries
      <4>2. new.status = IF "status" \in DOMAIN set THEN set.status ELSE entries[g].status
        BY <1>4, <4>1 DEF Patched
      <4>3. QED
        BY <2>1, <4>2
    <3>2. QED
      BY <1>5, <3>1
  <2>5. sitting' \in [Table -> SUBSET Guests]
    BY <1>1, <2>4 DEF QueueShape
  <2>6. Recalculate.w = "recalculate"
    BY DEF Recalculate
  <2>7. QueuePlan([op |-> p.op, on |-> p.on, todo |-> <<Recalculate>>])'
    BY <1>3, <1>7 DEF QueuePlan
  <2>8. QED
    BY <1>6, <1>7, <2>1, <2>3, <2>5, <2>6, <2>7
<1>8. ASSUME NEW x \in Guests, NEW t \in Table \cap p.on, NEW m, SeatingEnds(p.op, m),
             p.todo = <<h, m>>, h = SaveSeated(x, t)
      PROVE  QIInv'
  <2>1. g = x /\ set = [status |-> "SEATED", table |-> t, pos |-> 0]
    BY <1>4, <1>8 DEF SaveSeated, Seated
  <2>2. /\ DOMAIN set = {"status", "table", "pos"} /\ set.status = "SEATED" /\ set.table = t
        /\ set.pos = 0
    BY <2>1
  <2>3. entries[g] \in Entries /\ arrivals \in Nat
    BY <1>1, <1>8, <2>1 DEF QueueShape
  <2>4. 0 \in 0..arrivals
    BY <2>3
  <2>5. new.table = t
    <3>1. "table" \in DOMAIN entries[g]
      BY <2>3 DEF Entries
    <3>2. QED
      BY <1>4, <2>2, <3>1 DEF Patched
  <2>6. sitting' \in [Table -> SUBSET Guests]
    <3>1. sitting \in [Table -> SUBSET Guests] /\ t \in Table
      BY <1>1 DEF QueueShape
    <3>2. [sitting EXCEPT ![t] = @ \cup {g}] \in [Table -> SUBSET Guests]
      BY <1>8, <2>1, <3>1
    <3>3. QED
      BY <1>5, <2>5, <3>1, <3>2
  <2>7. m.w \in {"recalculate", "assign"}
    BY <1>8 DEF SeatingEnds, Recalculate, AssignWrite, AssignNext
  <2>8. ASSUME QueueGrows, Guests' = Guests, entries'[g] = new, new.at = entries[g].at,
               \A k \in Group \ {g} : entries'[k] = entries[k], new.status = "SEATED"
        PROVE  /\ QueuePlan([op |-> p.op, on |-> p.on, todo |-> <<m>>])'
               /\ p.op = "auto" /\ Write(a)' = m /\ req'[a].op = p.op /\ Alone(a) => AutoClaim(a)'
    <3>1. CASE p.op = "seatGroup" /\ m = Recalculate
      <4>1. QueuePlan([op |-> p.op, on |-> p.on, todo |-> <<m>>])'
        BY <1>3, <3>1 DEF QueuePlan
      <4>2. QED
        BY <3>1, <4>1
    <3>2. CASE p.op = "auto" /\ AssignWrite(m)
      <4>1. AssignWrite(m)'
        BY <2>8, <3>2, ListKept DEF AssignWrite
      <4>2. QueuePlan([op |-> p.op, on |-> p.on, todo |-> <<m>>])'
        BY <1>3, <3>2, <4>1 DEF QueuePlan
      <4>3. ASSUME Write(a)' = m, req'[a].op = p.op, Alone(a) PROVE AutoClaim(a)'
        <5>1. /\ p.todo[2] = m /\ h.g = g /\ h.set.table = t
          BY <1>4, <1>8, <2>1, Pairs
        <5>2. SeatedNext(g, t, m, FreeTables)
          BY <1>1, <1>2, <1>3, <3>2, <4>3, <5>1 DEF QueueClaims, AutoClaim
        <5>3. FreeTables' = FreeTables
          BY <1>5 DEF FreeTables
        <5>4. Waiting' = Waiting \ {g}
          BY <1>8, <2>1, <2>8 DEF Waiting, Guests
        <5>5. ASSUME NEW k \in Waiting' \ DOMAIN m.queue PROVE Outgrown(k, FreeTables)
          BY <5>2, <5>4, <5>5 DEF SeatedNext, Outgrown
        <5>6. m.w = "assign"
          BY <3>2 DEF AssignWrite, AssignNext
        <5>7. m.pool = FreeTables' /\ DOMAIN m.queue \subseteq Waiting'
          BY <5>2, <5>3, <5>4 DEF SeatedNext
        <5>8. \A k \in Waiting' \ DOMAIN m.queue : Outgrown(k, FreeTables)'
          BY <5>3, <5>5 DEF Outgrown
        <5>9. QED
          BY <4>3, <5>6, <5>7, <5>8 DEF AutoClaim
      <4>4. QED
        BY <4>2, <4>3
    <3>3. QED
      BY <1>8, <3>1, <3>2 DEF SeatingEnds
  <2>9. QED
    BY <1>6, <1>8, <2>1, <2>2, <2>4, <2>6, <2>7, <2>8
<1>9. QED
  BY <1>2, <1>3, <1>7, <1>8, QueuePlanAt

-----------------------------------------------------------------------------
(* Numbering.                                                               *)

\* A renumbering by arrival begins.
LEMMA RecalculateStep ==
  ASSUME QIInv, NEW a \in Actor, Busy(a), QueuePlan(req[a]), DoRecalculate(a)
  PROVE  QIInv'
<1>1. QueueShape
  BY DEF QIInv
<1>2. PICK p : p = req[a]
  OBVIOUS
<1>3. Queue \in p.on /\ (p.op = "auto" => Table \subseteq p.on)
      /\ p.op \in {"seatGroup", "cancelEntry", "auto"}
  BY <1>2, QueuePlanAt DEF DoRecalculate, Next1, Write
<1>4. PICK more : more = Number(Pending, 1, FALSE)
  OBVIOUS
<1>5. Continue(a, more)
  BY <1>4 DEF DoRecalculate
<1>6. UNCHANGED <<tables, entries, arrivals, sitting, upset, hist>> /\ tangled' \in BOOLEAN
  BY DEF DoRecalculate, Floor, Crossed
<1>7. PICK n : n = IF more = <<>> THEN Idle ELSE [op |-> p.op, on |-> p.on, todo |-> more]
  OBVIOUS
<1>8. /\ faults' = faults /\ p.op \in QueueOps
      /\ (more # <<>> => Busy(a)' /\ Write(a)' = Head(more) /\ req'[a].op = p.op)
  BY <1>2, <1>5, <1>7, Onward
<1>9. /\ QueueShape' /\ FloorShape' /\ QueueGrows
      /\ UNCHANGED <<Guests, Waiting, Pending, FreeTables>>
      /\ \A G : Ranked(G)' <=> Ranked(G)
      /\ \A h : NumberWrite(h)' <=> NumberWrite(h)
  BY <1>6, <1>8, Aside
<1>10. CASE more = <<>> /\ Waiting = {}
  <2>1. PlacesInv'
    BY <1>9, <1>10 DEF PlacesInv, Ranked
  <2>2. QED
    BY <1>2, <1>5, <1>6, <1>9, <1>10, <2>1, QueueGoes
<1>11. ASSUME NEW h, more = <<h>>, NumberWrite(h), h.stored = FALSE,
              h.left = Pending, h.n = 1, h.w = "number"
       PROVE  QIInv'
  <2>1. more # <<>> /\ Head(more) = h
    BY <1>11, Tuples
  <2>2. Busy(a)' /\ Write(a)' = h /\ req'[a].op = p.op
    BY <1>8, <2>1
  <2>3. QueuePlan([op |-> p.op, on |-> p.on, todo |-> more])'
    BY <1>3, <1>9, <1>11 DEF QueuePlan
  <2>4. PlacesInv'
    BY <1>8, <1>11, <2>2, Unsettled
  <2>5. NumberClaim(a)'
    <3>1. LET L == DOMAIN Pending
          IN  /\ L \subseteq Waiting
              /\ Pending = [g \in L |-> entries[g]]
              /\ 1 = Cardinality(Waiting \ L) + 1
              /\ \A g \in Waiting \ L, k \in L : entries[g].at < entries[k].at
              /\ Ranked(IF FALSE THEN Waiting ELSE Waiting \ L)
      BY <1>1, NumberKnows
    <3>2. QED
      BY <1>6, <1>9, <1>11, <2>2, <3>1 DEF NumberClaim
  <2>6. JoinClaim(a)' /\ AutoClaim(a)'
    BY <1>11, <2>2 DEF JoinClaim, AutoClaim
  <2>7. QED
    BY <1>2, <1>5, <1>6, <1>9, <2>3, <2>4, <2>5, <2>6, QueueGoes
<1>12. QED
  BY <1>1, <1>4, <1>10, <1>11, NumberBegins

\* Whoever came first has the smaller place.
LEMMA PlacesFollowArrivals ==
  ASSUME QueueShape, Ranked(Waiting), NEW g \in Waiting, NEW h \in Waiting,
         entries[g].at < entries[h].at
  PROVE  entries[g].pos < entries[h].pos
<1>1. /\ entries[g].at \in Nat /\ entries[h].at \in Nat
      /\ \A k \in Waiting : entries[k].at \in Nat
  <2>1. arrivals \in Nat /\ \A k \in Waiting : entries[k].at \in 1..arrivals
    BY DEF QueueShape, Waiting
  <2>2. QED
    BY <2>1
<1>2. g \in Ahead(h) /\ g \notin Ahead(g) /\ Ahead(g) \subseteq Ahead(h)
  BY <1>1 DEF Ahead
<1>3. IsFiniteSet(Ahead(g)) /\ IsFiniteSet(Ahead(h))
  BY FewWait DEF Ahead, Waiting
<1>4. Ahead(g) \subseteq Ahead(h) \ {g}
  BY <1>2
<1>5. Cardinality(Ahead(h) \ {g}) = Cardinality(Ahead(h)) - 1 /\ IsFiniteSet(Ahead(h) \ {g})
  BY <1>2, <1>3, FS_RemoveElement
<1>6. Cardinality(Ahead(g)) <= Cardinality(Ahead(h) \ {g})
  BY <1>4, <1>5, FS_Subset
<1>7. Cardinality(Ahead(g)) \in Nat /\ Cardinality(Ahead(h)) \in Nat
  BY <1>3, FS_CardinalityType
<1>8. Cardinality(Ahead(g)) < Cardinality(Ahead(h))
  BY <1>5, <1>6, <1>7
<1>9. entries[g].pos = Cardinality(Ahead(g)) + 1 /\ entries[h].pos = Cardinality(Ahead(h)) + 1
  BY DEF Ranked, LivePosition
<1>10. QED
  BY <1>7, <1>8, <1>9

\* The next of a list of waiting groups to be numbered is the first to come.
LEMMA NextToNumber ==
  ASSUME QueueShape, NEW list, ListOfEntries(list), DOMAIN list # {}, NEW stored \in BOOLEAN,
         NEW g, g = IF stored THEN ByPosition(list) ELSE ByArrival(list)
  PROVE  /\ g \in DOMAIN list
         /\ (stored => /\ DOMAIN list \subseteq Waiting /\ Ranked(Waiting)
                       /\ list = [h \in DOMAIN list |-> entries[h]]) =>
               \A h \in DOMAIN list \ {g} : entries[g].at < entries[h].at
<1>1. DOMAIN list \subseteq Guests /\ \A h \in DOMAIN list : list[h].at = entries[h].at
  BY DEF ListOfEntries
<1>2. \A h \in Guests : entries[h].at \in Nat
  <2>1. arrivals \in Nat /\ \A h \in Guests : entries[h].at \in 1..arrivals
    BY DEF QueueShape
  <2>2. QED
    BY <2>1
<1>3. \A h \in DOMAIN list : list[h].at \in Nat /\ list[h].pos \in Nat
  BY <1>1, <1>2 DEF ListOfEntries, Entries
<1>4. \A h, k \in DOMAIN list : list[h].at = list[k].at => h = k
  BY <1>1 DEF QueueShape
<1>5. CASE stored
  <2>1. /\ g \in DOMAIN list
        /\ (\A h, k \in DOMAIN list : list[h].at < list[k].at => list[h].pos < list[k].pos) =>
              \A h \in DOMAIN list \ {g} : list[g].at < list[h].at
    BY <1>3, <1>4, <1>5, FirstByPosition
  <2>2. ASSUME DOMAIN list \subseteq Waiting, Ranked(Waiting),
               list = [h \in DOMAIN list |-> entries[h]],
               NEW h \in DOMAIN list, NEW k \in DOMAIN list, list[h].at < list[k].at
        PROVE  list[h].pos < list[k].pos
    <3>1. list[h] = entries[h] /\ list[k] = entries[k] /\ h \in Waiting /\ k \in Waiting
      BY <2>2
    <3>2. QED
      BY <2>2, <3>1, PlacesFollowArrivals
  <2>3. QED
    BY <1>1, <1>5, <2>1, <2>2
<1>6. CASE ~stored
  BY <1>1, <1>3, <1>4, <1>6, FirstByArrival
<1>7. QED
  BY <1>5, <1>6

\* The next group gets its place.
LEMMA NumberStep ==
  ASSUME QIInv, NEW a \in Actor, Busy(a), QueuePlan(req[a]), DoNumber(a)
  PROVE  QIInv'
<1>1. QueueShape /\ FloorShape /\ QueueClaims(a)
  BY DEF QIInv
<1>2. PICK p, h : p = req[a] /\ h = Write(a)
  OBVIOUS
<1>3. /\ Queue \in p.on /\ (p.op = "auto" => Table \subseteq p.on) /\ h.w = "number"
      /\ p.op \in {"list", "seatGroup", "cancelEntry", "auto"}
      /\ NumberWrite(h) /\ (p.op = "list" <=> h.stored)
  BY <1>2, QueuePlanAt DEF DoNumber, Next1, Write
<1>4. PICK list, m, stored, g :
        /\ list = h.left /\ m = h.n /\ stored = h.stored
        /\ g = IF stored THEN ByPosition(list) ELSE ByArrival(list)
  OBVIOUS
<1>5. /\ ListOfEntries(list) /\ DOMAIN list # {} /\ stored \in BOOLEAN
      /\ m \in Nat \ {0} /\ m + Cardinality(DOMAIN list) <= arrivals + 1
  BY <1>3, <1>4 DEF NumberWrite
<1>6. g \in DOMAIN list
  BY <1>1, <1>4, <1>5, NextToNumber
<1>7. PICK set, new, more, rest :
        /\ set = Changes(list[g], [list[g] EXCEPT !.pos = m])
        /\ new = Patched(entries[g], set) /\ rest = After(list, g)
        /\ more = Number(rest, m + 1, stored)
  OBVIOUS
<1>8. entries' = [entries EXCEPT ![g] = new] /\ Continue(a, more)
  BY <1>2, <1>4, <1>7 DEF DoNumber
<1>9. /\ UNCHANGED <<tables, arrivals, sitting, upset, hist>>
      /\ tangled' = (tangled \/ Crossed(a)) /\ tangled \in BOOLEAN /\ tangled' \in BOOLEAN
  BY <1>1 DEF DoNumber, Floor, Crossed, QueueShape
<1>10. DOMAIN list \subseteq Guests /\ g \in Guests /\ g \in Group
  BY <1>5, <1>6 DEF ListOfEntries, Guests
<1>11. DOMAIN set \subseteq {"pos"} /\ ("pos" \in DOMAIN set => set.pos = m)
       /\ ("pos" \notin DOMAIN set => list[g].pos = m)
  <2>1. list[g] \in Entries
    BY <1>5, <1>6 DEF ListOfEntries
  <2>2. DOMAIN list[g] = {"status", "pos", "table", "at"}
    BY <2>1 DEF Entries
  <2>3. set = [f \in {x \in DOMAIN list[g] : list[g][x] # [list[g] EXCEPT !.pos = m][x]} |->
                  [list[g] EXCEPT !.pos = m][f]]
    BY <1>7 DEF Changes
  <2>4. QED
    BY <2>2, <2>3
<1>12. PICK N : N = Cardinality(DOMAIN list)
  OBVIOUS
<1>13. IsFiniteSet(DOMAIN list) /\ N \in Nat /\ N # 0 /\ arrivals \in Nat
  BY <1>1, <1>5, <1>10, <1>12, FewWait, FS_EmptySet DEF QueueShape
<1>14. Cardinality(DOMAIN list \ {g}) = N - 1 /\ IsFiniteSet(DOMAIN list \ {g})
  BY <1>6, <1>12, <1>13, FS_RemoveElement
<1>15. m \in 0..arrivals /\ m + 1 \in Nat \ {0} /\ m + 1 + (N - 1) <= arrivals + 1
  BY <1>5, <1>12, <1>13
<1>16. /\ entries' = [k \in Group |-> entries'[k]]
       /\ entries'[g] = new /\ \A k \in Group \ {g} : entries'[k] = entries[k]
  BY <1>1, <1>8, <1>10 DEF QueueShape
<1>17. /\ QueueShape' /\ QueueGrows /\ Guests' = Guests
       /\ new.at = entries[g].at /\ new.status = entries[g].status
       /\ new.pos = (IF "pos" \in DOMAIN set THEN set.pos ELSE entries[g].pos)
  <2>1. /\ UNCHANGED <<hist, upset>> /\ arrivals' = arrivals
        /\ sitting' \in [Table -> SUBSET Guests]
    BY <1>1, <1>9 DEF QueueShape
  <2>2. /\ "at" \notin DOMAIN set /\ "status" \notin DOMAIN set /\ "table" \notin DOMAIN set
        /\ "pos" \in DOMAIN set => set.pos \in 0..arrivals
    BY <1>11, <1>15
  <2>3. QED
    BY <1>1, <1>7, <1>9, <1>10, <1>16, <2>1, <2>2, EntrySaved
<1>18. /\ Waiting' = Waiting /\ \A k \in Guests : entries'[k].at = entries[k].at
       /\ Waiting \subseteq Guests /\ Guests \subseteq Group
  BY <1>16, <1>17 DEF Waiting, Guests
<1>19. \A k \in Waiting : Ahead(k)' = Ahead(k) /\ LivePosition(k)' = LivePosition(k)
  BY <1>18 DEF Ahead, LivePosition
<1>20. DOMAIN rest = DOMAIN list \ {g} /\ rest = [k \in DOMAIN list \ {g} |-> list[k]]
  BY <1>7 DEF After
<1>21. PICK n : n = IF more = <<>> THEN Idle ELSE [op |-> p.op, on |-> p.on, todo |-> more]
  OBVIOUS
<1>22. /\ faults' = faults /\ p.op \in QueueOps
       /\ (more # <<>> => Busy(a)' /\ Write(a)' = Head(more) /\ req'[a].op = p.op)
  BY <1>2, <1>8, <1>21, Onward
<1>23. FloorShape'
  BY <1>1, <1>9, <1>22 DEF FloorShape
\* What an uncrossed request knows.
<1>24. ASSUME Alone(a), stored => ~tangled
       PROVE  /\ DOMAIN list \subseteq Waiting /\ list = [k \in DOMAIN list |-> entries[k]]
              /\ m = Cardinality(Waiting \ DOMAIN list) + 1
              /\ \A k \in Waiting \ DOMAIN list, l \in DOMAIN list : entries[k].at < entries[l].at
              /\ Ranked(IF stored THEN Waiting ELSE Waiting \ DOMAIN list)
              /\ \A k \in DOMAIN list \ {g} : entries[g].at < entries[k].at
              /\ Ahead(g) = Waiting \ DOMAIN list
              /\ new.pos = LivePosition(g)
              /\ Ranked((IF stored THEN Waiting ELSE Waiting \ (DOMAIN list \ {g})))'
  <2>1. NumberClaim(a)
    BY <1>1, <1>24 DEF QueueClaims
  <2>2. /\ DOMAIN list \subseteq Waiting /\ list = [k \in DOMAIN list |-> entries[k]]
        /\ m = Cardinality(Waiting \ DOMAIN list) + 1
        /\ \A k \in Waiting \ DOMAIN list, l \in DOMAIN list : entries[k].at < entries[l].at
        /\ Ranked(IF stored THEN Waiting ELSE Waiting \ DOMAIN list)
    BY <1>2, <1>3, <1>4, <1>24, <2>1 DEF NumberClaim
  <2>3. \A k \in DOMAIN list \ {g} : entries[g].at < entries[k].at
    <3>1. stored => /\ DOMAIN list \subseteq Waiting /\ Ranked(Waiting)
                    /\ list = [k \in DOMAIN list |-> entries[k]]
      BY <2>2
    <3>2. QED
      BY <1>1, <1>4, <1>5, <3>1, NextToNumber
  <2>4. \A k \in Waiting : entries[k].at \in Nat
    <3>1. \A k \in Guests : entries[k].at \in 1..arrivals
      BY <1>1 DEF QueueShape
    <3>2. QED
      BY <1>13, <1>18, <3>1
  <2>5. Ahead(g) = Waiting \ DOMAIN list
    BY <1>6, <2>2, <2>3, <2>4 DEF Ahead
  <2>6. m = LivePosition(g)
    BY <2>2, <2>5 DEF LivePosition
  <2>7. new.pos = LivePosition(g)
    BY <1>6, <1>11, <1>17, <2>2, <2>6
  <2>8. Ranked((IF stored THEN Waiting ELSE Waiting \ (DOMAIN list \ {g})))'
    <3>1. PICK G : G = IF stored THEN Waiting ELSE Waiting \ (DOMAIN list \ {g})
      OBVIOUS
    <3>2. G \subseteq Waiting
      BY <3>1
    <3>3. ASSUME NEW k \in G PROVE entries'[k].pos = LivePosition(k)'
      <4>1. CASE k = g
        BY <1>6, <1>16, <1>19, <2>2, <2>7, <4>1
      <4>2. CASE k # g
        <5>1. k \in IF stored THEN Waiting ELSE Waiting \ DOMAIN list
          BY <3>1, <3>3, <4>2
        <5>2. entries[k].pos = LivePosition(k)
          BY <2>2, <5>1 DEF Ranked
        <5>3. QED
          BY <1>16, <1>18, <1>19, <3>2, <3>3, <4>2, <5>2
      <4>3. QED
        BY <4>1, <4>2
    <3>4. Ranked(G)'
      BY <3>3 DEF Ranked
    <3>5. (IF stored THEN Waiting ELSE Waiting \ (DOMAIN list \ {g}))' = G
      BY <1>18, <3>1
    <3>6. QED
      BY <3>4, <3>5
  <2>9. QED
    BY <2>2, <2>3, <2>5, <2>7, <2>8
<1>25. CASE DOMAIN list = {g}
  <2>1. DOMAIN rest = {} /\ DOMAIN list \ {g} = {}
    BY <1>20, <1>25
  <2>2. more = <<>>
    BY <1>7, <2>1 DEF Number
  <2>3. PlacesInv'
    <3>1. SUFFICES ASSUME ~tangled, ~Crossed(a) PROVE PlacesInv'
      BY <1>9 DEF PlacesInv
    <3>2. Alone(a)
      BY <3>1 DEF Alone, Crossed
    <3>3. Ranked((IF stored THEN Waiting ELSE Waiting \ (DOMAIN list \ {g})))'
      BY <1>24, <3>1, <3>2
    <3>4. (IF stored THEN Waiting ELSE Waiting \ (DOMAIN list \ {g}))' = Waiting'
      BY <2>1
    <3>5. QED
      BY <3>3, <3>4 DEF PlacesInv
  <2>4. QED
    BY <1>2, <1>8, <1>9, <1>17, <1>23, <2>2, <2>3, QueueGoes
<1>26. CASE DOMAIN list # {g}
  <2>1. DOMAIN rest # {}
    BY <1>6, <1>20, <1>26
  <2>2. PICK w : w = [w |-> "number", left |-> rest, n |-> m + 1, stored |-> stored]
    OBVIOUS
  <2>3. more = <<w>> /\ w.w = "number" /\ w.left = rest /\ w.n = m + 1 /\ w.stored = stored
    BY <1>7, <2>1, <2>2 DEF Number
  <2>4. Busy(a)' /\ Write(a)' = w /\ req'[a].op = p.op
    BY <1>22, <2>3, Tuples
  <2>5. ListOfEntries(rest)'
    <3>1. ListOfEntries(rest)
      BY <1>5, <1>20 DEF ListOfEntries
    <3>2. QED
      BY <1>17, <3>1, ListKept
  <2>6. NumberWrite(w)'
    <3>1. m + 1 + Cardinality(DOMAIN rest) <= arrivals' + 1
      BY <1>9, <1>14, <1>15, <1>20
    <3>2. w = [w |-> "number", left |-> w.left, n |-> w.n, stored |-> w.stored]
      BY <2>2
    <3>3. QED
      BY <1>5, <1>15, <2>1, <2>3, <2>5, <3>1, <3>2 DEF NumberWrite
  <2>7. QueuePlan([op |-> p.op, on |-> p.on, todo |-> more])'
    BY <1>3, <1>4, <2>3, <2>6 DEF QueuePlan
  <2>8. PlacesInv'
    BY <1>22, <2>3, <2>4, Unsettled
  <2>9. ASSUME Alone(a) PROVE NumberClaim(a)'
    <3>1. SUFFICES ASSUME stored => ~tangled' PROVE NumberClaim(a)'
      BY <2>3, <2>4 DEF NumberClaim
    <3>2. stored => ~tangled
      BY <1>9, <3>1
    <3>3. PICK L : L = DOMAIN list \ {g}
      OBVIOUS
    <3>4. L \subseteq Waiting' /\ DOMAIN rest = L
      BY <1>18, <1>20, <1>24, <2>9, <3>2, <3>3
    <3>5. rest = [k \in L |-> entries'[k]]
      BY <1>16, <1>18, <1>20, <1>24, <2>9, <3>2, <3>3, <3>4
    <3>6. m + 1 = Cardinality(Waiting' \ L) + 1
      <4>1. PICK W : W = Waiting \ DOMAIN list
        OBVIOUS
      <4>2. Waiting' \ L = W \cup {g} /\ g \notin W
        BY <1>6, <1>18, <1>24, <2>9, <3>2, <3>3, <4>1
      <4>3. IsFiniteSet(W)
        BY <1>1, <1>18, <4>1, FewWait
      <4>4. Cardinality(W \cup {g}) = Cardinality(W) + 1
        BY <4>2, <4>3, FS_AddElement
      <4>5. m = Cardinality(W) + 1
        BY <1>24, <2>9, <3>2, <4>1
      <4>6. QED
        BY <4>2, <4>4, <4>5
    <3>7. ASSUME NEW k \in Waiting' \ L, NEW l \in L PROVE entries'[k].at < entries'[l].at
      <4>1. k = g \/ k \in Waiting \ DOMAIN list
        BY <1>18, <3>3, <3>7
      <4>2. entries[k].at < entries[l].at
        BY <1>24, <2>9, <3>2, <3>3, <3>7, <4>1
      <4>3. k \in Guests /\ l \in Guests
        BY <1>10, <1>18, <3>3, <3>7
      <4>4. QED
        BY <1>18, <4>2, <4>3
    <3>8. Ranked((IF stored THEN Waiting ELSE Waiting \ L))'
      BY <1>24, <2>9, <3>2, <3>3
    <3>9. QED
      BY <2>3, <2>4, <3>4, <3>5, <3>6, <3>7, <3>8 DEF NumberClaim
  <2>10. JoinClaim(a)' /\ AutoClaim(a)'
    BY <2>3, <2>4 DEF JoinClaim, AutoClaim
  <2>11. QED
    BY <1>2, <1>8, <1>9, <1>17, <1>23, <2>7, <2>8, <2>9, <2>10, QueueGoes
<1>27. QED
  BY <1>25, <1>26

-----------------------------------------------------------------------------
(* The automatic assignment.                                                *)

\* A turn of the assignment: group g is to get table t; m follows.
Turn(queue, pool, more, g, t, m) ==
    /\ more = <<SetTable(t, "OCCUPIED"), SaveSeated(g, t), m>>
    /\ m = AssignNext(Later(queue, g), pool \ {t})
    /\ \A h \in DOMAIN queue \ {g} : entries[g].at < entries[h].at \/ Outgrown(h, pool)

\* The groups that lost their turn are too many for every table of the pool.
LEMMA AssignTurn ==
  ASSUME QueueShape, NEW queue, ListOfEntries(queue), NEW pool, pool \subseteq Table,
         NEW end, NEW more, more = Assign(queue, pool, end)
  PROVE  \/ more = end /\ \A g \in DOMAIN queue : Outgrown(g, pool)
         \/ \E g \in DOMAIN queue, t \in pool : \E m : Turn(queue, pool, more, g, t, m)
<1> DEFINE fitting(g) == {t \in pool : Capacity[t] >= Size[g]}
<1>1. PICK lucky : lucky = {g \in DOMAIN queue : fitting(g) # {}}
  OBVIOUS
<1>2. PICK list : list = [h \in lucky |-> queue[h]]
  OBVIOUS
<1>3. PICK g : g = NextInTurn(list)
  OBVIOUS
<1>4. PICK t : t = Smallest(fitting(g))
  OBVIOUS
<1>5. more = IF lucky = {} THEN end
             ELSE <<SetTable(t, "OCCUPIED"), SaveSeated(g, t),
                    AssignNext(Later(queue, g), pool \ {t})>>
  BY <1>1, <1>2, <1>3, <1>4 DEF Assign
<1>6. /\ DOMAIN queue \subseteq Guests /\ DOMAIN queue \subseteq Group
      /\ \A h \in DOMAIN queue : queue[h].at = entries[h].at
  BY DEF ListOfEntries, Guests
<1>7. \A h \in Guests : entries[h].at \in Nat
  <2>1. arrivals \in Nat /\ \A h \in Guests : entries[h].at \in 1..arrivals
    BY DEF QueueShape
  <2>2. QED
    BY <2>1
<1>8. ASSUME NEW h \in DOMAIN queue, h \notin lucky PROVE Outgrown(h, pool)
  <2>1. ASSUME NEW s \in pool PROVE Capacity[s] < Size[h]
    <3>1. Capacity[s] \in Nat /\ Size[h] \in Nat
      BY <1>6, DiningAssumption, WaitlistAssumption
    <3>2. ~(Capacity[s] >= Size[h])
      BY <1>1, <1>8
    <3>3. QED
      BY <3>1, <3>2
  <2>2. QED
    BY <2>1 DEF Outgrown
<1>9. CASE lucky = {}
  BY <1>5, <1>8, <1>9
<1>10. CASE lucky # {}
  <2>1. DOMAIN list = lucky /\ lucky \subseteq DOMAIN queue
        /\ \A h \in lucky : list[h].at = entries[h].at
    BY <1>1, <1>2, <1>6
  <2>2. \A h \in DOMAIN list : list[h].at \in Nat
    BY <1>6, <1>7, <2>1
  <2>3. \A h, k \in DOMAIN list : list[h].at = list[k].at => h = k
    <3>1. \A h, k \in Guests : entries[h].at = entries[k].at => h = k
      BY DEF QueueShape
    <3>2. QED
      BY <1>6, <2>1, <3>1
  <2>4. g \in lucky /\ \A h \in lucky \ {g} : entries[g].at < entries[h].at
    <3>1. g = ByArrival(list)
      BY <1>3 DEF NextInTurn
    <3>2. QED
      BY <1>10, <2>1, <2>2, <2>3, <3>1, FirstByArrival
  <2>5. t \in pool
    <3>1. fitting(g) # {} /\ fitting(g) \subseteq Table
      BY <1>1, <2>4
    <3>2. QED
      BY <1>4, <3>1, SmallestOf
  <2>6. \A h \in DOMAIN queue \ {g} : entries[g].at < entries[h].at \/ Outgrown(h, pool)
    BY <1>8, <2>4
  <2>7. QED
    BY <1>5, <1>10, <2>1, <2>4, <2>5, <2>6 DEF Turn
<1>11. QED
  BY <1>9, <1>10

\* What is left of the queue after a turn.
LEMMA LaterList ==
  ASSUME QueueShape, NEW queue, ListOfEntries(queue), NEW g \in DOMAIN queue
  PROVE  /\ ListOfEntries(Later(queue, g))
         /\ DOMAIN Later(queue, g) = {h \in DOMAIN queue : entries[h].at > entries[g].at}
<1>1. PICK rest : rest = Later(queue, g)
  OBVIOUS
<1>2. /\ DOMAIN rest = {k \in DOMAIN queue : queue[k].at > queue[g].at}
      /\ rest = [h \in DOMAIN rest |-> rest[h]]
      /\ \A h \in DOMAIN rest : rest[h] = queue[h]
  BY <1>1 DEF Later
<1>3. \A h \in DOMAIN queue : queue[h].at = entries[h].at
  BY DEF ListOfEntries
<1>4. DOMAIN rest = {h \in DOMAIN queue : entries[h].at > entries[g].at}
  BY <1>2, <1>3
<1>5. ListOfEntries(rest)
  BY <1>2 DEF ListOfEntries
<1>6. QED
  BY <1>1, <1>4, <1>5

\* A turn of the automatic assignment.
LEMMA TurnStep ==
  ASSUME QIInv, NEW a \in Actor, Busy(a), QueuePlan(req[a]), req[a].op = "auto",
         NEW queue, ListOfEntries(queue), NEW pool, pool \subseteq Table,
         NEW end \in {<<>>, <<Recalculate>>},
         NEW more, more = Assign(queue, pool, end), Continue(a, more),
         Dirty(a) => end # <<>>,
         UNCHANGED <<tables, entries, arrivals, sitting, upset, hist, tangled>>,
         Alone(a) => /\ pool = FreeTables /\ DOMAIN queue \subseteq Waiting
                     /\ \A h \in Waiting \ DOMAIN queue : Outgrown(h, FreeTables)
  PROVE  QIInv'
<1>1. QueueShape /\ FloorShape /\ PlacesInv
  BY DEF QIInv
<1>2. PICK p : p = req[a]
  OBVIOUS
<1>3. Queue \in p.on /\ Table \subseteq p.on /\ p.op = "auto"
  BY <1>2 DEF QueuePlan
<1>4. PICK n : n = IF more = <<>> THEN Idle ELSE [op |-> p.op, on |-> p.on, todo |-> more]
  OBVIOUS
<1>5. /\ GoesOn(a, n) /\ faults' = faults /\ p.op \in QueueOps
      /\ (more # <<>> => Busy(a)' /\ Write(a)' = Head(more) /\ req'[a].op = p.op
                         /\ req'[a].todo = more)
  BY <1>2, <1>4, Onward
<1>6. tangled' \in BOOLEAN
  BY <1>1 DEF QueueShape
<1>7. /\ QueueShape' /\ FloorShape' /\ QueueGrows
      /\ UNCHANGED <<Guests, Waiting, FreeTables>>
      /\ \A list : ListOfEntries(list)' <=> ListOfEntries(list)
  BY <1>5, <1>6, Aside
<1>8. PlacesInv' \/ (Dirty(a) /\ ~Dirty(a)')
  BY <1>1, <1>5, PlacesKept
<1>9. CASE more = end /\ \A g \in DOMAIN queue : Outgrown(g, pool)
  <2>1. CASE end = <<>>
    BY <1>2, <1>7, <1>8, <1>9, <2>1, QueueGoes
  <2>2. CASE end = <<Recalculate>>
    <3>1. more # <<>> /\ Head(more) = Recalculate
      BY <1>9, <2>2, Tuples
    <3>2. Write(a)' = Recalculate /\ Write(a)'.w = "recalculate"
      <4>1. Write(a)' = Recalculate
        BY <1>5, <3>1
      <4>2. Recalculate.w = "recalculate"
        BY DEF Recalculate
      <4>3. QED
        BY <4>1, <4>2
    <3>3. PlacesInv'
      BY <1>5, <3>1, <3>2, Unsettled
    <3>4. QueuePlan([op |-> p.op, on |-> p.on, todo |-> more])'
      BY <1>3, <1>9, <2>2 DEF QueuePlan
    <3>5. JoinClaim(a)' /\ NumberClaim(a)'
      BY <3>2 DEF JoinClaim, NumberClaim
    <3>6. ASSUME Alone(a) PROVE AutoClaim(a)'
      <4>1. \A h \in Waiting : Outgrown(h, FreeTables)
        BY <1>9, <3>6
      <4>2. \A h \in Waiting' : Outgrown(h, FreeTables)'
        BY <1>7, <4>1 DEF Outgrown
      <4>3. QED
        BY <3>2, <4>2 DEF AutoClaim
    <3>7. QED
      BY <1>2, <1>7, <3>3, <3>4, <3>5, <3>6, QueueGoes
  <2>3. QED
    BY <2>1, <2>2
<1>10. ASSUME NEW g \in DOMAIN queue, NEW t \in pool, NEW m,
              more = <<SetTable(t, "OCCUPIED"), SaveSeated(g, t), m>>,
              m = AssignNext(Later(queue, g), pool \ {t}),
              \A h \in DOMAIN queue \ {g} : entries[g].at < entries[h].at \/ Outgrown(h, pool)
       PROVE  QIInv'
  <2>1. /\ more # <<>> /\ Head(more) = SetTable(t, "OCCUPIED")
        /\ more[2] = SaveSeated(g, t) /\ more[3] = m
    BY <1>10, Triples
  <2>2. /\ Busy(a)' /\ Write(a)' = SetTable(t, "OCCUPIED") /\ req'[a].op = "auto"
        /\ req'[a].todo[2] = SaveSeated(g, t) /\ req'[a].todo[3] = m
    BY <1>3, <1>5, <2>1
  <2>3. Write(a)'.w = "table" /\ Write(a)'.t = t
    BY <2>2 DEF SetTable
  <2>4. PlacesInv'
    BY <1>3, <1>5, <2>2, <2>3, Unsettled
  <2>5. /\ ListOfEntries(Later(queue, g))
        /\ DOMAIN Later(queue, g) = {h \in DOMAIN queue : entries[h].at > entries[g].at}
    BY <1>1, LaterList
  <2>6. m.queue = Later(queue, g) /\ m.pool = pool \ {t} /\ m = AssignNext(m.queue, m.pool)
    BY <1>10 DEF AssignNext
  <2>7. AssignWrite(m)'
    BY <1>7, <2>5, <2>6 DEF AssignWrite
  <2>8. QueuePlan([op |-> p.op, on |-> p.on, todo |-> more])'
    <3>1. g \in Guests' /\ t \in Table \cap p.on
      BY <1>3, <1>7 DEF ListOfEntries
    <3>2. SeatingEnds("auto", m)'
      BY <2>7 DEF SeatingEnds
    <3>3. QED
      BY <1>3, <1>10, <3>1, <3>2 DEF QueuePlan
  <2>9. JoinClaim(a)' /\ NumberClaim(a)'
    BY <2>3 DEF JoinClaim, NumberClaim
  <2>10. ASSUME Alone(a) PROVE AutoClaim(a)'
    <3>1. /\ pool = FreeTables /\ DOMAIN queue \subseteq Waiting
          /\ \A h \in Waiting \ DOMAIN queue : Outgrown(h, FreeTables)
      BY <2>10
    <3>2. PICK free : free = FreeTables \ {t}
      OBVIOUS
    <3>3. free \cup {t} = FreeTables
      BY <3>1, <3>2
    <3>4. \A h \in Waiting : entries[h].at \in Nat
      <4>1. arrivals \in Nat /\ \A h \in Guests : entries[h].at \in 1..arrivals
        BY <1>1 DEF QueueShape
      <4>2. QED
        BY <4>1 DEF Waiting
    <3>5. DOMAIN m.queue \subseteq Waiting \ {g} /\ \A h \in DOMAIN m.queue : entries[g].at < entries[h].at
      BY <2>5, <2>6, <3>1, <3>4
    <3>6. ASSUME NEW h \in Waiting \ (DOMAIN m.queue \cup {g}) PROVE Outgrown(h, FreeTables)
      <4>1. CASE h \notin DOMAIN queue
        BY <3>1, <3>6, <4>1
      <4>2. CASE h \in DOMAIN queue
        <5>1. ~(entries[g].at < entries[h].at)
          BY <2>5, <2>6, <3>1, <3>4, <3>6, <4>2
        <5>2. QED
          BY <1>10, <3>1, <3>6, <4>2, <5>1
      <4>3. QED
        BY <4>1, <4>2
    <3>7. SeatedNext(g, t, m, free)
      BY <2>6, <3>1, <3>2, <3>3, <3>5, <3>6 DEF SeatedNext
    <3>8. SeatedNext(g, t, m, free)'
      BY <1>7, <3>7 DEF SeatedNext, Outgrown
    <3>9. t \in FreeTables' /\ free = FreeTables' \ {t}
      BY <1>7, <3>1, <3>2
    <3>10. SaveSeated(g, t).g = g
      BY DEF SaveSeated
    <3>11. QED
      BY <2>2, <2>3, <3>8, <3>9, <3>10 DEF AutoClaim
  <2>11. QED
    BY <1>2, <1>7, <2>4, <2>8, <2>9, <2>10, QueueGoes
<1>11. \/ more = end /\ \A g \in DOMAIN queue : Outgrown(g, pool)
       \/ \E g \in DOMAIN queue, t \in pool : \E m : Turn(queue, pool, more, g, t, m)
  BY <1>1, AssignTurn
<1>12. QED
  BY <1>9, <1>10, <1>11 DEF Turn

LEMMA PoolStep ==
  ASSUME QIInv, NEW a \in Actor, Busy(a), QueuePlan(req[a]), DoPool(a)
  PROVE  QIInv'
<1>1. PICK list : /\ Write(a) = AssignPool(list) /\ ListOfEntries(list) /\ req[a].op = "auto"
  BY QueuePlanAt DEF DoPool, Next1, Write
<1>2. Write(a).queue = list /\ Write(a).w = "pool"
  BY <1>1 DEF AssignPool
<1>3. PICK more : more = Assign(list, FreeTables, <<>>)
  OBVIOUS
<1>4. Continue(a, more)
  BY <1>2, <1>3 DEF DoPool, FreeTables
<1>5. UNCHANGED <<tables, entries, arrivals, sitting, upset, hist, tangled>>
  BY DEF DoPool, Floor
<1>6. ~Dirty(a)
  BY <1>2 DEF Dirty
<1>7. Alone(a) => DOMAIN list = Waiting
  BY <1>1, <1>2 DEF QIInv, QueueClaims, AutoClaim
<1>8. FreeTables \subseteq Table
  BY DEF FreeTables
<1>9. QED
  BY <1>1, <1>3, <1>4, <1>5, <1>6, <1>7, <1>8, TurnStep

LEMMA AssignStep ==
  ASSUME QIInv, NEW a \in Actor, Busy(a), QueuePlan(req[a]), DoAssign(a)
  PROVE  QIInv'
<1>1. AssignWrite(Write(a)) /\ req[a].op = "auto" /\ Write(a).w = "assign"
  BY QueuePlanAt DEF DoAssign, Next1, Write
<1>2. PICK queue, pool : queue = Write(a).queue /\ pool = Write(a).pool
  OBVIOUS
<1>3. ListOfEntries(queue) /\ pool \subseteq Table
  BY <1>1, <1>2 DEF AssignWrite
<1>4. PICK more : more = Assign(queue, pool, <<Recalculate>>)
  OBVIOUS
<1>5. Continue(a, more)
  BY <1>2, <1>4 DEF DoAssign
<1>6. UNCHANGED <<tables, entries, arrivals, sitting, upset, hist, tangled>>
  BY DEF DoAssign, Floor
<1>7. Alone(a) => /\ pool = FreeTables /\ DOMAIN queue \subseteq Waiting
                  /\ \A h \in Waiting \ DOMAIN queue : Outgrown(h, FreeTables)
  BY <1>1, <1>2 DEF QIInv, QueueClaims, AutoClaim
<1>8. <<Recalculate>> # <<>>
  BY Tuples
<1>9. QED
  BY <1>1, <1>3, <1>4, <1>5, <1>6, <1>7, <1>8, TurnStep

\* The table of the group that is seated.
LEMMA OccupyStep ==
  ASSUME QIInv, FloorStep, NEW a \in Actor, Busy(a), QueuePlan(req[a]), DoTable(a)
  PROVE  QIInv'
<1>1. QueueShape /\ FloorShape /\ PlacesInv /\ QueueClaims(a)
  BY DEF QIInv
<1>2. PICK p, h : p = req[a] /\ h = Write(a)
  OBVIOUS
<1>3. PICK g, t, m :
        /\ g \in Guests /\ t \in Table \cap p.on /\ SeatingEnds(p.op, m)
        /\ p.todo = <<h, SaveSeated(g, t), m>> /\ h = SetTable(t, "OCCUPIED")
  BY <1>2, QueuePlanAt DEF DoTable, Next1, Write
<1>4. Queue \in p.on /\ (p.op = "auto" => Table \subseteq p.on) /\ p.op \in QueueOps
  BY <1>2, QueuePlanAt
<1>5. h.t = t /\ h.set = [status |-> "OCCUPIED"] /\ h.w = "table"
  BY <1>3 DEF SetTable
<1>6. PICK more : more = <<SaveSeated(g, t), m>>
  OBVIOUS
<1>7. Continue(a, more)
  BY <1>2, <1>3, <1>6, Triples DEF DoTable, Done
<1>8. PICK n : n = IF more = <<>> THEN Idle ELSE [op |-> p.op, on |-> p.on, todo |-> more]
  OBVIOUS
<1>9. /\ GoesOn(a, n) /\ faults' = faults /\ more # <<>>
      /\ Busy(a)' /\ Write(a)' = SaveSeated(g, t) /\ req'[a].op = p.op /\ req'[a].on = p.on
      /\ req'[a].todo = more
  BY <1>2, <1>6, <1>7, <1>8, Onward, Tuples
<1>10. PICK new : new = Patched(tables[t], h.set) /\ tables' = [tables EXCEPT ![t] = new]
  BY <1>2, <1>5 DEF DoTable
<1>11. /\ tables' = [u \in Table |-> tables'[u]]
       /\ \A u \in Table : tables'[u] = [status |-> tables'[u].status, active |-> tables'[u].active,
                                         session |-> tables'[u].session]
       /\ \A u \in Table \ {t} : tables'[u] = tables[u]
       /\ t \in Table => tables'[t] = new
  BY <1>1, <1>10, SavedTable
<1>12. new.status = "OCCUPIED"
  <2>1. "status" \in DOMAIN tables[t] /\ "status" \in DOMAIN h.set /\ h.set.status = "OCCUPIED"
    BY <1>1, <1>3, <1>5 DEF FloorShape
  <2>2. QED
    BY <1>10, <2>1 DEF Patched
<1>13. FreeTables' = FreeTables \ {t}
  BY <1>11, <1>12 DEF FreeTables
<1>14. /\ hist'.crossed = hist.crossed
       /\ hist' = [crossed |-> hist'.crossed, raced |-> hist'.raced,
                   unchecked |-> hist'.unchecked, edited |-> hist'.edited,
                   disturbed |-> hist'.disturbed, strayed |-> hist'.strayed]
  <2>1. PICK D, S, R :
          \/ hist' = [hist EXCEPT !.disturbed = D]
          \/ hist' = [hist EXCEPT !.disturbed = D, !.strayed = S, !.raced = R]
    BY DEF DoTable
  <2>2. PICK k : k = hist
    OBVIOUS
  <2>3. k = [crossed |-> k.crossed, raced |-> k.raced, unchecked |-> k.unchecked,
             edited |-> k.edited, disturbed |-> k.disturbed, strayed |-> k.strayed]
    BY <1>1, <2>2 DEF FloorShape
  <2>4. QED
    BY <2>1, <2>2, <2>3
<1>15. FloorShape'
  BY <1>1, <1>9, <1>11, <1>14 DEF FloorShape
<1>16. /\ QueueShape' /\ QueueGrows /\ entries' = entries /\ (tangled => tangled')
  BY <1>1, FloorEffect
<1>17. Guests' = Guests /\ Waiting' = Waiting
  BY <1>16 DEF Guests, Waiting
<1>18. PICK w : w = [op |-> p.op, on |-> p.on, todo |-> more]
  OBVIOUS
<1>19. n = w /\ w = [op |-> w.op, on |-> w.on, todo |-> w.todo] /\ n.on = p.on
  BY <1>8, <1>9, <1>18
<1>20. QueueRequestInv(n)'
  <2>1. SeatingEnds(p.op, m)'
    BY <1>3, <1>16, ListKept DEF SeatingEnds, AssignWrite
  <2>2. QueuePlan(w)'
    BY <1>3, <1>4, <1>6, <1>17, <1>18, <2>1 DEF QueuePlan
  <2>3. QED
    BY <1>19, <2>2 DEF QueueRequestInv
<1>21. PlacesInv'
  <2>1. Write(a)'.w = "entry"
    BY <1>9 DEF SaveSeated
  <2>2. QED
    BY <1>4, <1>9, <2>1, Unsettled
<1>22. QueueClaims(a)'
  <2>1. SUFFICES ASSUME Alone(a)' PROVE JoinClaim(a)' /\ NumberClaim(a)' /\ AutoClaim(a)'
    BY DEF QueueClaims
  <2>2. Alone(a)
    BY <1>14, <2>1 DEF Alone
  <2>3. Write(a)'.w = "entry" /\ Write(a)'.g = g /\ Write(a)'.set.table = t /\ req'[a].todo[2] = m
    BY <1>6, <1>9, Pairs DEF SaveSeated, Seated
  <2>4. JoinClaim(a)' /\ NumberClaim(a)'
    BY <2>3 DEF JoinClaim, NumberClaim
  <2>5. ASSUME p.op = "auto" PROVE SeatedNext(g, t, m, FreeTables)'
    <3>1. p.todo[2].g = g /\ p.todo[3] = m
      BY <1>3, Triples DEF SaveSeated
    <3>2. t \in FreeTables /\ SeatedNext(g, t, m, FreeTables \ {t})
      BY <1>1, <1>2, <1>5, <2>2, <2>5, <3>1 DEF QueueClaims, AutoClaim
    <3>3. PICK free : free = FreeTables \ {t}
      OBVIOUS
    <3>4. SeatedNext(g, t, m, free)'
      BY <1>16, <1>17, <3>2, <3>3 DEF SeatedNext, Outgrown
    <3>5. free = FreeTables'
      BY <1>13, <3>3
    <3>6. QED
      BY <3>4, <3>5 DEF SeatedNext
  <2>6. AutoClaim(a)'
    BY <1>9, <2>3, <2>5 DEF AutoClaim
  <2>7. QED
    BY <2>4, <2>6
<1>23. QED
  BY <1>2, <1>3, <1>4, <1>9, <1>11, <1>14, <1>15, <1>16, <1>19, <1>20, <1>21, <1>22, QueueWritten

-----------------------------------------------------------------------------
(* The theorems about the queue.                                            *)

LEMMA InitQIInv == QueueInit => QIInv
<1> SUFFICES ASSUME QueueInit PROVE QIInv
  OBVIOUS
<1>1. Init
  BY DEF QueueInit
<1>2. Guests = {} /\ Waiting = {}
  BY DEF QueueInit, Guests, Waiting
<1>3. QueueShape
  <2>1. hist.disturbed = {}
    BY <1>1 DEF Init, NoHistory
  <2>2. \A g \in Group : entries[g] = Free
    BY DEF QueueInit
  <2>3. QED
    BY <1>2, <2>1, <2>2, FS_EmptySet DEF QueueInit, QueueShape
<1>4. FloorShape
  BY <1>1 DEF Init, NoHistory, FloorShape
<1>5. \A a \in Actor : req[a] = Idle
  BY <1>1 DEF Init
<1>6. QueueRequestsInv
  BY <1>1 DEF Init, QueueRequestsInv, QueueRequestInv
<1>7. Rivalry
  BY <1>5 DEF Rivalry, Busy
<1>8. PlacesInv
  BY <1>2 DEF PlacesInv, Ranked
<1>9. \A a \in Actor : QueueClaims(a)
  BY <1>5 DEF QueueClaims, Alone, Busy
<1>10. QED
  BY <1>3, <1>4, <1>6, <1>7, <1>8, <1>9 DEF QIInv

\* A step of the floor.
LEMMA FloorQIInv ==
  ASSUME QIInv, FloorStep
  PROVE  QIInv'
<1>1. Next
  BY DEF FloorStep
<1>2. ASSUME NEW a \in Actor, Writes(a) PROVE QIInv'
  <2>1. Busy(a)
    BY <1>2 DEF Writes, DoInsert, DoTable, DoBook, DoOrder, OrderRefused, DoClose, DoReserve,
                DoRelease, DoFree, Next1, Busy
  <2>2. CASE FloorPlan(req[a])
    BY <1>2, <2>1, <2>2, FloorWriteStep
  <2>3. CASE QueuePlan(req[a])
    <3>1. Write(a).w \notin {"insert", "book", "order", "close", "reserve", "release", "free"}
      BY <2>3, QueuePlanAt DEF Write
    <3>2. DoTable(a)
      BY <1>2, <3>1 DEF Writes, DoInsert, DoBook, DoOrder, OrderRefused, DoClose, DoReserve,
                        DoRelease, DoFree, Next1, Write
    <3>3. QED
      BY <2>1, <2>3, <3>2, OccupyStep
  <2>4. QED
    BY <2>1, <2>2, <2>3, Shape DEF QIInv
<1>3. QED
  BY <1>1, <1>2, TableBegins, BookBegins, HoldBegins, OutsideQueueStep DEF Next

LEMMA NextQIInv == QIInv /\ [QueueNext]_allVars => QIInv'
<1> SUFFICES ASSUME QIInv, [QueueNext]_allVars PROVE QIInv'
  OBVIOUS
<1>1. ASSUME NEW a \in Actor, QueueWrites(a) PROVE QIInv'
  <2>1. Busy(a) /\ Write(a).w \in {"join", "entry", "seat", "recalculate", "number", "pool", "assign"}
    BY <1>1 DEF QueueWrites, DoJoin, DoEntry, DoSeat, DoRecalculate, DoNumber, DoPool, DoAssign,
                Next1, Busy, Write
  <2>2. ~FloorPlan(req[a])
    BY <2>1, FloorHead DEF FloorWrites
  <2>3. QueuePlan(req[a])
    BY <2>1, <2>2, Shape DEF QIInv
  <2>4. QED
    BY <1>1, <2>1, <2>3, JoinStep, EntryStep, SeatGroupStep, RecalculateStep, NumberStep, PoolStep,
       AssignStep DEF QueueWrites
<1>2. CASE UNCHANGED allVars
  <2>1. UNCHANGED <<tables, req, hist, faults, entries, arrivals, tangled, sitting, upset>>
    BY <1>2 DEF allVars, vars, queueVars
  <2>2. QueueShape' /\ FloorShape'
    BY <2>1 DEF QIInv, QueueShape, Guests, FloorShape
  <2>3. QED
    BY <2>1, <2>2, QueueQuiet
<1>3. QED
  BY <1>1, <1>2, FloorQIInv, QueueRequestStep DEF QueueNext

\* The waitlist and the requests that work on it always make sense together:
\* the lists requests carry, the claims of those nobody crossed, and a stored
\* position for every waiting group that is right or about to be put right.
THEOREM QueueInvariant == QueueSpec => []QIInv
<1>1. QueueInit => QIInv
  BY InitQIInv
<1>2. QIInv /\ [QueueNext]_allVars => QIInv'
  BY NextQIInv
<1>3. QED
  BY <1>1, <1>2, PTL DEF QueueSpec

\* Entries have the shape of their schema, and when nobody is at work and no
\* requests overlapped or died since the last renumbering, the stored position
\* of every waiting group is the place checkWaitlistStatus tells it.
THEOREM QueueHolds == QueueSpec => []QueueInv
<1>1. QIInv => QueueInv
  <2> SUFFICES ASSUME QIInv PROVE QueueInv
    OBVIOUS
  <2>1. QueueTypeOK
    BY DEF QIInv, QueueShape, QueueTypeOK
  <2>2. ASSUME ~tangled, \A a \in Actor : Queue \notin req[a].on, NEW g \in Waiting
        PROVE  entries[g].pos = LivePosition(g)
    <3>1. ASSUME NEW a \in Actor, Dirty(a) PROVE FALSE
      <4>1. QueuePlan(req[a])
        BY <3>1, Shape DEF QIInv, Dirty, FloorPlan
      <4>2. QED
        BY <2>2, <4>1 DEF QueuePlan
    <3>2. QED
      BY <2>2, <3>1 DEF QIInv, PlacesInv, Ranked
  <2>3. QED
    BY <2>1, <2>2 DEF QueueInv, PositionsInOrder
<1>2. QED
  BY <1>1, QueueInvariant, PTL

\* Once autoAssignTables has given out the tables, no waiting group would fit
\* at a free one, unless another request was in its way.
THEOREM NoFreeTableForAnyone == QueueSpec => []NobodyWaitsInVain
<1>1. QIInv => NobodyWaitsInVain
  <2> SUFFICES ASSUME QIInv, NEW a \in Actor, req[a].op = "auto", ~Crossed(a),
                      Next1(a, "recalculate"), NEW g \in Waiting, NEW t \in Table,
                      tables[t].status = "AVAILABLE"
               PROVE  Capacity[t] < Size[g]
    BY DEF NobodyWaitsInVain
  <2>1. AutoClaim(a) /\ Write(a).w = "recalculate"
    BY DEF QIInv, QueueClaims, Alone, Busy, Crossed, Next1, Write
  <2>2. Outgrown(g, FreeTables) /\ t \in FreeTables
    BY <2>1 DEF AutoClaim, FreeTables
  <2>3. QED
    BY <2>2 DEF Outgrown
<1>2. QED
  BY <1>1, QueueInvariant, PTL

\* autoAssignTables passes a group over only if the table was too small for it.
THEOREM NobodyJumpsTheQueue == QueueSpec => NoQueueJumping
<1> DEFINE Fair == \A a \in Actor, g \in Group :
         /\ req[a].op = "auto" /\ ~Crossed(a) /\ Next1(a, "entry") /\ Write(a).g = g
         /\ g \in Waiting /\ g \notin Waiting'
         => \A h \in Ahead(g) : Size[h] > Capacity[entries'[g].table]
<1>1. QIInv /\ [QueueNext]_allVars => [Fair]_allVars
  <2> SUFFICES ASSUME QIInv, QueueNext, NEW a \in Actor, NEW g \in Group,
                      req[a].op = "auto", ~Crossed(a), Next1(a, "entry"), Write(a).g = g,
                      g \in Waiting, g \notin Waiting', NEW h \in Ahead(g)
               PROVE  Size[h] > Capacity[entries'[g].table]
    OBVIOUS
  <2>1. /\ QueueShape /\ QueueRequestsInv /\ Rivalry /\ QueueClaims(a)
        /\ Busy(a) /\ Alone(a) /\ Write(a).w = "entry"
    BY DEF QIInv, Next1, Busy, Alone, Crossed, Write
  <2>2. QueuePlan(req[a])
    BY <2>1, Shape DEF FloorPlan, QueueOps
  <2>3. PICK t, m : /\ req[a].todo = <<Write(a), m>> /\ Write(a) = SaveSeated(g, t)
                   /\ Queue \in req[a].on /\ t \in Table
    <3>1. PICK x, t, m : /\ req[a].todo = <<Write(a), m>> /\ Write(a) = SaveSeated(x, t)
                         /\ Queue \in req[a].on /\ t \in Table
      <4>1. PICK q, w : q = req[a] /\ w = Write(a)
        OBVIOUS
      <4>2. QueuePlan(q) /\ w = Head(q.todo) /\ w.w = "entry" /\ q.op = "auto"
        BY <2>1, <2>2, <4>1 DEF Write
      <4>3. \E x \in Guests, t \in Table \cap q.on : \E m :
              SeatingEnds(q.op, m) /\ q.todo = <<w, m>> /\ w = SaveSeated(x, t)
        BY <4>2, QueuePlanAt
      <4>4. Queue \in q.on
        BY <4>2 DEF QueuePlan
      <4>5. QED
        BY <4>1, <4>3, <4>4
    <3>2. x = g
      BY <3>1 DEF SaveSeated
    <3>3. QED
      BY <3>1, <3>2
  <2>4. SeatedNext(g, t, m, FreeTables)
    <3>1. Write(a).set.table = t /\ req[a].todo[2] = m
      BY <2>3, Pairs DEF SaveSeated, Seated
    <3>2. QED
      BY <2>1, <3>1 DEF QueueClaims, AutoClaim
  <2>5. Capacity[t] < Size[h]
    <3>1. h \in Waiting /\ entries[h].at < entries[g].at
      BY DEF Ahead
    <3>2. entries[h].at \in Nat /\ entries[g].at \in Nat
      <4>1. arrivals \in Nat /\ entries[h].at \in 1..arrivals /\ entries[g].at \in 1..arrivals
        BY <2>1, <3>1 DEF QueueShape, Waiting
      <4>2. QED
        BY <4>1
    <3>3. h \notin DOMAIN m.queue \cup {g}
      BY <2>4, <3>1, <3>2 DEF SeatedNext
    <3>4. Outgrown(h, FreeTables \cup {t})
      BY <2>4, <3>1, <3>3 DEF SeatedNext
    <3>5. QED
      BY <3>4 DEF Outgrown
  <2>6. entries' # entries
    BY DEF Waiting, Guests
  <2>7. PICK b \in Actor : DoJoin(b) \/ DoEntry(b) \/ DoNumber(b)
    BY <2>6 DEF QueueNext, FloorStep, QueueRequests, JoinWaitlist, ListWaitlist, SeatWaitlistGuest,
       CancelWaitlistEntry, AutoAssignTables, Ask, queueVars, QueueWrites, DoSeat, DoRecalculate,
       DoPool, DoAssign
  <2>8. b = a
    <3>1. Busy(b) /\ Write(b).w \in {"join", "entry", "number"}
      BY <2>7 DEF DoJoin, DoEntry, DoNumber, Next1, Busy, Write
    <3>2. QueuePlan(req[b])
      BY <2>1, <3>1, FloorHead, Shape DEF FloorWrites
    <3>3. Queue \in req[b].on
      BY <3>2 DEF QueuePlan
    <3>4. QED
      BY <2>1, <2>3, <3>1, <3>3 DEF Rivalry, Alone
  <2>9. DoEntry(a)
    BY <2>1, <2>7, <2>8 DEF DoJoin, DoNumber, Next1, Write
  <2>10. entries'[g].table = t
    <3>1. entries'[g] = Patched(entries[g], Seated(t))
      <4>1. Write(a).g = g /\ Write(a).set = Seated(t)
        BY <2>3 DEF SaveSeated
      <4>2. entries' = [entries EXCEPT ![g] = Patched(entries[g], Seated(t))]
        BY <2>9, <4>1 DEF DoEntry
      <4>3. entries = [k \in Group |-> entries[k]]
        BY <2>1 DEF QueueShape
      <4>4. QED
        BY <4>2, <4>3
    <3>2. "table" \in DOMAIN entries[g]
      BY <2>1 DEF QueueShape, Waiting, Entries
    <3>3. QED
      BY <3>1, <3>2 DEF Patched, Seated
  <2>11. Size[h] \in Nat /\ Capacity[t] \in Nat
    BY <2>3, DiningAssumption, WaitlistAssumption DEF Ahead, Waiting, Guests
  <2>12. QED
    BY <2>5, <2>10, <2>11
<1>2. QED
  BY <1>1, QueueInvariant, PTL DEF QueueSpec, NoQueueJumping

-----------------------------------------------------------------------------
(* The tables and the parties at them.                                      *)

\* The steps of a plan that save a table are among its first two.
StepOf(q, h) == h = Head(q.todo) \/ (Tail(q.todo) # <<>> /\ h = Head(Tail(q.todo)))

\* What a save of a table writes, by the handler it is for.
TableSet(op, set) ==
    /\ op \in {"edit", "bill", "seat", "order", "close", "pay", "seatGroup", "auto"}
    /\ op # "edit" => "status" \in DOMAIN set
    /\ "status" \in DOMAIN set =>
         set.status = CASE op = "edit" -> "INACTIVE" [] op = "bill" -> "BILLING"
                        [] op = "close" -> "AVAILABLE" [] op = "pay" -> "RESERVED"
                        [] OTHER -> "OCCUPIED"
    /\ op \notin {"seat", "order", "close"} => "session" \notin DOMAIN set
    /\ op = "close" /\ "session" \in DOMAIN set => set.session = NoSession

TablePart(op, h) ==
    /\ h.w = "table" => TableSet(op, h.set)
    /\ h.w = "close" => /\ op = "close" /\ h.copy.status # "AVAILABLE"
                        /\ h.copy = [status |-> h.copy.status, active |-> h.copy.active,
                                     session |-> h.copy.session]
    /\ h.w = "reserve" => op = "pay"

\* A plan saves one table, first or after a reservation.
PlanOfTables(q) ==
    /\ \A h : StepOf(q, h) => TablePart(q.op, h)
    /\ Tail(q.todo) # <<>> /\ Head(Tail(q.todo)).w \in {"table", "close"} => Head(q.todo).w = "book"
PlansOfTables == \A a \in Actor : Busy(a) => PlanOfTables(req[a])

\* What a request nobody crossed knows of the table it will save.
ReadyFor(op, t, set) ==
    /\ op \in {"order", "pay", "seatGroup", "auto"} => tables[t].status = "AVAILABLE"
    /\ op = "seat" => tables[t].status \in {"AVAILABLE", "RESERVED"}
    /\ op = "bill" => tables[t].status = "OCCUPIED"
    /\ op = "edit" /\ "status" \in DOMAIN set => tables[t].status \notin InUse
    /\ op = "close" => /\ tables[t].status # "AVAILABLE"
                       /\ "session" \in DOMAIN set \/ tables[t].session = NoSession

KnowsTable(a, h) ==
    /\ h.w = "table" /\ h.t \in Table => ReadyFor(req[a].op, h.t, h.set)
    /\ h.w = "close" /\ h.t \in Table => tables[h.t] = h.copy
KnowsTables(a) == Alone(a) => \A h : StepOf(req[a], h) => KnowsTable(a, h)

\* A request has taken table t for a group it is about to mark as seated.
Seating(a, t) == /\ Busy(a) /\ req[a].op \in {"seatGroup", "auto"}
               /\ Write(a).w = "entry" /\ Write(a).set.table = t

\* Nobody sits at a table that was taken, and one request takes it.
TakenInv ==
    \A a \in Actor, t \in Table \ hist.disturbed : Seating(a, t) =>
        /\ tables[t].status \in InUse /\ tables[t].session.id = 0 /\ sitting[t] = {}
        /\ \A b \in Actor \ {a} : ~Seating(b, t)

StatusesInv == \A t \in Table : tables[t].status \in TableStatus

SessionsInUse ==
    \A t \in Table \ hist.disturbed : tables[t].session.id # 0 => tables[t].status \in InUse

OneParty ==
    \A t \in Table \ upset : sitting[t] # {} =>
        /\ tables[t].status \in InUse /\ tables[t].session.id = 0
        /\ \A g, h \in sitting[t] : g = h

PartyInv == /\ PlansOfTables /\ \A a \in Actor : KnowsTables(a)
            /\ TakenInv /\ StatusesInv /\ SessionsInUse /\ OneParty

-----------------------------------------------------------------------------
(* What the steps of a request keep of the tables.                          *)

\* A step that saves a table, or will, works on that table.
LEMMA StepInReach ==
  ASSUME QueueRequestsInv, NEW a \in Actor, Busy(a), NEW h, StepOf(req[a], h),
         h.w \in {"table", "close"}
  PROVE  h.t \in req[a].on
<1>1. PICK q : q = req[a]
  OBVIOUS
<1>2. CASE FloorPlan(q)
  <2>1. CASE \E x : q.todo = <<x>> /\ FloorWrite(q.on, x)
    BY <1>1, <2>1, Tuples DEF StepOf, FloorWrite, TableWrites
  <2>2. CASE \E x, y : q.todo = <<x, y>> /\ FloorWrite(q.on, x) /\ FloorWrite(q.on, y)
    <3>1. PICK x, y : q.todo = <<x, y>> /\ FloorWrite(q.on, x) /\ FloorWrite(q.on, y)
      BY <2>2
    <3>2. h = x \/ h = y
      BY <1>1, <3>1, Tuples DEF StepOf
    <3>3. QED
      BY <1>1, <3>1, <3>2 DEF FloorWrite, TableWrites
  <2>3. QED
    BY <1>2, <2>1, <2>2 DEF FloorPlan
<1>3. CASE QueuePlan(q)
  <2>1. PICK x : x = Head(q.todo)
    OBVIOUS
  <2>2. h = x \/ (Tail(q.todo) # <<>> /\ h = Head(Tail(q.todo)))
    BY <1>1, <2>1 DEF StepOf
  <2>3. CASE x.w = "table"
    <3>1. PICK g, t, m : /\ t \in Table \cap q.on /\ q.todo = <<x, SaveSeated(g, t), m>>
                         /\ x = SetTable(t, "OCCUPIED")
      BY <1>3, <2>1, <2>3, QueuePlanAt
    <3>2. h = x \/ h = SaveSeated(g, t)
      BY <2>2, <3>1, Triples, Tuples
    <3>3. QED
      BY <1>1, <3>1, <3>2 DEF SaveSeated, SetTable
  <2>4. CASE x.w = "entry"
    <3>1. PICK m : q.todo = <<x, m>> /\ m.w \in {"recalculate", "assign"}
      <4>1. CASE q.todo = <<x, Recalculate>>
        BY <4>1 DEF Recalculate
      <4>2. CASE \E m : SeatingEnds(q.op, m) /\ q.todo = <<x, m>>
        BY <4>2 DEF SeatingEnds, Recalculate, AssignWrite, AssignNext
      <4>3. QED
        BY <1>3, <2>1, <2>4, <4>1, <4>2, QueuePlanAt
    <3>2. h = x \/ h = m
      BY <2>2, <3>1, Tuples
    <3>3. QED
      BY <2>4, <3>1, <3>2
  <2>5. CASE x.w \notin {"table", "entry"}
    <3>1. q.todo = <<x>> /\ x.w # "close"
      BY <1>3, <2>1, <2>5, QueuePlanAt
    <3>2. h = x
      BY <2>2, <3>1, Tuples
    <3>3. QED
      BY <2>5, <3>1, <3>2
  <2>6. QED
    BY <2>3, <2>4, <2>5
<1>4. QED
  BY <1>1, <1>2, <1>3, Shape

\* What a step has to show.
LEMMA PartyMoves ==
  ASSUME QIInv, PartyInv, NEW a \in Actor, NEW n, GoesOn(a, n),
         \A c \in Actor \ {a} : c \in hist.crossed => c \in hist'.crossed,
         n # Idle => PlanOfTables(n),
         KnowsTables(a)',
         \A c \in Actor \ {a} : Alone(c)' => \A t \in Table \cap req[c].on : tables'[t] = tables[t],
         TakenInv', StatusesInv', SessionsInUse', OneParty'
  PROVE  PartyInv'
<1>1. PlansOfTables'
  <2>1. SUFFICES ASSUME NEW c \in Actor, Busy(c)' PROVE PlanOfTables(req'[c])
    BY DEF PlansOfTables, PlanOfTables, StepOf
  <2>2. CASE c = a
    BY <2>1, <2>2 DEF GoesOn, Busy
  <2>3. CASE c # a
    BY <2>1, <2>3 DEF GoesOn, Busy, PartyInv, PlansOfTables
  <2>4. QED
    BY <2>2, <2>3
<1>2. ASSUME NEW c \in Actor \ {a} PROVE KnowsTables(c)'
  <2>1. SUFFICES ASSUME Alone(c)', NEW h, StepOf(req'[c], h) PROVE KnowsTable(c, h)'
    BY DEF KnowsTables
  <2>2. Alone(c) /\ Busy(c) /\ req'[c] = req[c]
    BY <2>1 DEF Alone, Busy, GoesOn
  <2>3. KnowsTable(c, h)
    BY <2>1, <2>2 DEF PartyInv, KnowsTables
  <2>4. h.w \in {"table", "close"} => h.t \in req[c].on
    BY <2>1, <2>2, StepInReach DEF QIInv
  <2>5. h.w \in {"table", "close"} /\ h.t \in Table => tables'[h.t] = tables[h.t]
    BY <2>1, <2>4
  <2>6. QED
    BY <2>2, <2>3, <2>5 DEF KnowsTable, ReadyFor
<1>3. QED
  BY <1>1, <1>2 DEF PartyInv

\* Seating stays as it is while nobody touches the tables.
LEMMA TakenStays ==
  ASSUME TakenInv, NEW a \in Actor, NEW n, GoesOn(a, n),
         UNCHANGED <<tables, sitting>>, hist'.disturbed = hist.disturbed,
         \A t \in Table : Seating(a, t)' => Seating(a, t)
  PROVE  TakenInv'
<1>1. \A c \in Actor, t \in Table : Seating(c, t)' => Seating(c, t)
  <2>1. ASSUME NEW c \in Actor \ {a}, NEW t \in Table, Seating(c, t)' PROVE Seating(c, t)
    BY <2>1 DEF Seating, GoesOn, Busy, Write
  <2>2. QED
    BY <2>1
<1>2. QED
  BY <1>1 DEF TakenInv

\* A step that leaves the tables alone.
LEMMA PartyQuiet ==
  ASSUME QIInv, PartyInv, NEW a \in Actor, NEW n, GoesOn(a, n),
         \A c \in Actor \ {a} : c \in hist.crossed => c \in hist'.crossed,
         n # Idle => PlanOfTables(n),
         KnowsTables(a)',
         UNCHANGED <<tables, sitting, upset>>, hist'.disturbed = hist.disturbed,
         \A t \in Table : Seating(a, t)' => Seating(a, t)
  PROVE  PartyInv'
<1>1. TakenInv'
  BY TakenStays DEF PartyInv
<1>2. StatusesInv' /\ SessionsInUse' /\ OneParty'
  BY DEF PartyInv, StatusesInv, SessionsInUse, OneParty
<1>3. QED
  BY <1>1, <1>2, PartyMoves

LEMMA PartyRests ==
  ASSUME PartyInv, UNCHANGED <<tables, sitting, upset, req, hist.crossed, hist.disturbed>>
  PROVE  PartyInv'
<1>1. \A c \in Actor : KnowsTables(c)'
  BY DEF PartyInv, KnowsTables, KnowsTable, ReadyFor, Alone, Busy
<1>2. PlansOfTables'
  BY DEF PartyInv, PlansOfTables, Busy
<1>3. TakenInv'
  BY DEF PartyInv, TakenInv, Seating, Busy, Write
<1>4. StatusesInv' /\ SessionsInUse' /\ OneParty'
  BY DEF PartyInv, StatusesInv, SessionsInUse, OneParty
<1>5. QED
  BY <1>1, <1>2, <1>3, <1>4 DEF PartyInv

\* A step of the floor that saves no table moves nobody.
LEMMA FloorCalm ==
  ASSUME QueueShape, FloorStep, tables' = tables, hist'.disturbed = hist.disturbed
  PROVE  UNCHANGED <<sitting, upset>>
<1>1. Turned = {}
  BY DEF Turned
<1>2. sitting' = sitting
  BY <1>1 DEF FloorStep, QueueShape
<1>3. upset' = upset
  BY <1>1 DEF FloorStep, QueueShape
<1>4. QED
  BY <1>2, <1>3

\* A request whose plan is one or two steps.
LEMMA PartyBegin ==
  ASSUME QIInv, PartyInv, NEW a \in Actor, NEW op, NEW on, NEW h, NEW m,
         NEW todo, todo = <<>> \/ todo = <<h>> \/ todo = <<h, m>>, Begin(a, op, on, todo),
         UNCHANGED <<tables, sitting, upset>>,
         h.w # "entry" \/ op \notin {"seatGroup", "auto"},
         TablePart(op, h),
         h.w = "table" /\ h.t \in Table => ReadyFor(op, h.t, h.set),
         h.w = "close" /\ h.t \in Table => tables[h.t] = h.copy,
         m.w \notin {"table", "close"}, m.w = "reserve" => op = "pay"
  PROVE  PartyInv'
<1>1. PICK q : q = [op |-> op, on |-> on, todo |-> todo]
  OBVIOUS
<1>2. PICK n : n = IF todo = <<>> THEN Idle ELSE q
  OBVIOUS
<1>3. /\ GoesOn(a, n) /\ hist'.disturbed = hist.disturbed
      /\ hist'.crossed = Joined(hist.crossed, a, Rivals(a, on))
  BY <1>1, <1>2, QueueBegun
<1>4. \A c \in Actor \ {a} : c \in hist.crossed => c \in hist'.crossed
  BY <1>3 DEF Joined
<1>5. CASE todo = <<>>
  <2>1. n = Idle /\ ~Busy(a)'
    BY <1>2, <1>3, <1>5 DEF GoesOn, Busy
  <2>2. KnowsTables(a)' /\ \A t \in Table : ~Seating(a, t)'
    BY <2>1 DEF KnowsTables, Alone, Seating
  <2>3. QED
    BY <1>3, <1>4, <2>1, <2>2, PartyQuiet
<1>6. CASE todo # <<>>
  <2>1. n = q /\ q.todo = todo /\ q.op = op
    BY <1>1, <1>2, <1>6
  <2>2. req'[a] = q /\ Write(a)' = h
    BY <1>3, <1>6, <2>1, Tuples DEF GoesOn, Write
  <2>3. ASSUME NEW k, StepOf(q, k) PROVE k = h \/ k = m
    BY <1>6, <2>1, <2>3, Tuples DEF StepOf
  <2>4. TablePart(op, m)
    BY DEF TablePart
  <2>5. PlanOfTables(n)
    <3>1. \A k : StepOf(n, k) => TablePart(n.op, k)
      BY <2>1, <2>3, <2>4
    <3>2. Tail(n.todo) # <<>> => Head(Tail(n.todo)) = m
      BY <1>6, <2>1, Tuples
    <3>3. QED
      BY <3>1, <3>2 DEF PlanOfTables
  <2>6. ASSUME NEW k, StepOf(q, k) PROVE KnowsTable(a, k)'
    <3>1. k = h \/ k = m
      BY <2>3, <2>6
    <3>2. req'[a].op = op
      BY <2>1, <2>2
    <3>3. CASE k = h
      BY <3>2, <3>3 DEF KnowsTable, ReadyFor
    <3>4. CASE k = m
      BY <3>4 DEF KnowsTable
    <3>5. QED
      BY <3>1, <3>3, <3>4
  <2>7. KnowsTables(a)'
    BY <2>2, <2>6 DEF KnowsTables
  <2>8. \A t \in Table : ~Seating(a, t)'
    BY <2>1, <2>2 DEF Seating
  <2>9. QED
    BY <1>3, <1>4, <2>5, <2>7, <2>8, PartyQuiet
<1>7. QED
  BY <1>5, <1>6

-----------------------------------------------------------------------------
(* The requests, and the tables.                                            *)

LEMMA Moves ==
  ASSUME StatusesInv, NEW t \in Table
  PROVE  /\ CanMove(t, "BILLING") => tables[t].status = "OCCUPIED"
         /\ CanMove(t, "OCCUPIED") => tables[t].status \in {"AVAILABLE", "RESERVED"}
         /\ CanMove(t, "AVAILABLE") => tables[t].status # "AVAILABLE"
BY DEF StatusesInv, TableStatus, CanMove, TABLE_TRANSITIONS

\* What a save of a table writes of it.
LEMMA ChangedFields ==
  ASSUME NEW d, {"status", "session"} \subseteq DOMAIN d, NEW to, NEW set, set = Changes(d, to)
  PROVE  /\ "status" \in DOMAIN set <=> d.status # to.status
         /\ "status" \in DOMAIN set => set.status = to.status
         /\ "session" \in DOMAIN set <=> d.session # to.session
         /\ "session" \in DOMAIN set => set.session = to.session
BY DEF Changes

\* A request of the floor whose plan is one or two steps.
LEMMA PartyFloorBegin ==
  ASSUME QIInv, PartyInv, FloorStep, NEW a \in Actor, NEW op, NEW on, NEW h, NEW m,
         NEW todo, todo = <<>> \/ todo = <<h>> \/ todo = <<h, m>>, Begin(a, op, on, todo),
         tables' = tables, h.w # "entry", TablePart(op, h),
         h.w = "table" /\ h.t \in Table => ReadyFor(op, h.t, h.set),
         h.w = "close" /\ h.t \in Table => tables[h.t] = h.copy,
         m.w \notin {"table", "close"}, m.w = "reserve" => op = "pay"
  PROVE  PartyInv'
<1>1. hist'.disturbed = hist.disturbed
  BY QueueBegun
<1>2. UNCHANGED <<sitting, upset>>
  BY <1>1, FloorCalm DEF QIInv
<1>3. QED
  BY <1>2, PartyBegin

\* The requests about a table.
LEMMA PartyTableBegins ==
  ASSUME QIInv, PartyInv, FloorStep, NEW a \in Actor, NEW t \in Table, TableRequests(a, t)
  PROVE  PartyInv'
<1>1. PICK d : d = tables[t]
  OBVIOUS
<1>2. d = [status |-> d.status, active |-> d.active, session |-> d.session]
  BY <1>1 DEF QIInv, FloorShape
<1>3. StatusesInv
  BY DEF PartyInv
<1>4. ASSUME NEW op \in {"edit", "bill", "seat", "order"}, NEW on, NEW to, NEW m, NEW todo,
             todo = <<SaveTable(t, to)>> \/ todo = <<SaveTable(t, to), m>>,
             Begin(a, op, on, todo), tables' = tables, m.w \in {"book", "order"},
             op = "edit" => /\ to.session = d.session
                            /\ to.status = d.status \/ (to.status = "INACTIVE" /\ d.status \notin InUse),
             op = "bill" => d.status = "OCCUPIED" /\ to.status = "BILLING" /\ to.session = d.session,
             op = "seat" => d.status \in {"AVAILABLE", "RESERVED"} /\ to.status = "OCCUPIED",
             op = "order" => d.status = "AVAILABLE" /\ to.status = "OCCUPIED"
      PROVE  PartyInv'
  <2>1. PICK set, h : set = Changes(d, to) /\ h = [w |-> "table", t |-> t, set |-> set]
    OBVIOUS
  <2>2. /\ "status" \in DOMAIN set <=> d.status # to.status
        /\ "status" \in DOMAIN set => set.status = to.status
        /\ "session" \in DOMAIN set <=> d.session # to.session
    <3>1. {"status", "session"} \subseteq DOMAIN d
      BY <1>2
    <3>2. QED
      BY <2>1, <3>1, ChangedFields
  <2>3. h = SaveTable(t, to)
    BY <1>1, <2>1 DEF SaveTable
  <2>4. TableSet(op, set)
    BY <1>4, <2>2 DEF TableSet
  <2>5. ReadyFor(op, t, set)
    BY <1>1, <1>4, <2>2 DEF ReadyFor
  <2>6. h.w = "table" /\ h.t = t /\ h.set = set
    BY <2>1
  <2>7. TablePart(op, h)
    BY <2>4, <2>6 DEF TablePart
  <2>8. h.w = "table" /\ h.t \in Table => ReadyFor(op, h.t, h.set)
    BY <2>5, <2>6
  <2>9. m.w \notin {"table", "close"} /\ m.w # "reserve"
    BY <1>4
  <2>10. todo = <<h>> \/ todo = <<h, m>>
    BY <1>4, <2>3
  <2>11. h.w # "entry" /\ h.w # "close"
    BY <2>6
  <2>12. QED
    BY <1>4, <2>7, <2>8, <2>9, <2>10, <2>11, PartyFloorBegin
<1>5. PlaceAt(t, 0).w = "order"
  BY DEF PlaceAt
<1>6. CASE SetActive(a, t)
  <2>1. PICK to : to = [d EXCEPT !.active = ~@]
    OBVIOUS
  <2>2. to.status = d.status /\ to.session = d.session
    BY <1>2, <2>1
  <2>3. Begin(a, "edit", {t}, <<SaveTable(t, to)>>) /\ tables' = tables
    BY <1>1, <1>6, <2>1 DEF SetActive, floorVars
  <2>4. QED
    BY <1>4, <1>5, <2>2, <2>3
<1>7. CASE DeactivateTable(a, t)
  <2>1. PICK to : to = [d EXCEPT !.active = FALSE, !.status = "INACTIVE"]
    OBVIOUS
  <2>2. to.status = "INACTIVE" /\ to.session = d.session
    BY <1>2, <2>1
  <2>3. Begin(a, "edit", {t}, <<SaveTable(t, to)>>) /\ tables' = tables /\ d.status \notin InUse
    BY <1>1, <1>7, <2>1 DEF DeactivateTable, floorVars, InUse
  <2>4. QED
    BY <1>4, <1>5, <2>2, <2>3
<1>8. CASE RequestBill(a, t)
  <2>1. PICK to : to = [d EXCEPT !.status = "BILLING"]
    OBVIOUS
  <2>2. to.status = "BILLING" /\ to.session = d.session
    BY <1>2, <2>1
  <2>3. /\ Begin(a, "bill", {t}, <<SaveTable(t, to)>>) /\ tables' = tables
        /\ d.status = "OCCUPIED"
    BY <1>1, <1>3, <1>8, <2>1, Moves DEF RequestBill, floorVars
  <2>4. QED
    BY <1>4, <1>5, <2>2, <2>3
<1>9. ASSUME NEW r, NEW to, to = Opened(t, r) PROVE to.status = "OCCUPIED"
  BY <1>1, <1>2, <1>9 DEF Opened
<1>10. CASE CloseTable(a, t)
  <2>1. PICK on, h : on = {t, tables[t].session.book} \ {NoReservation} /\ h = CloseIfDone(t)
    OBVIOUS
  <2>2. Begin(a, "close", on, <<h>>) /\ tables' = tables /\ d.status # "AVAILABLE"
    BY <1>1, <1>3, <1>10, <2>1, Moves DEF CloseTable, floorVars
  <2>3. h.w = "close" /\ h.t = t /\ h.copy = d
    BY <1>1, <2>1 DEF CloseIfDone
  <2>4. TablePart("close", h)
    BY <1>2, <2>2, <2>3 DEF TablePart
  <2>5. QED
    BY <1>1, <1>5, <2>2, <2>3, <2>4, PartyFloorBegin
<1>11. CASE PlaceOrder(a, t)
  <2>1. tables' = tables
    BY <1>11 DEF PlaceOrder, NewSession, floorVars
  <2>2. CASE d.status = "AVAILABLE"
    <3>1. PICK to, m : /\ to = Opened(t, NoReservation) /\ m = PlaceAt(t, sessions + 1)
                       /\ Begin(a, "order", {t}, <<SaveTable(t, to), m>>)
      BY <1>1, <1>11, <2>2 DEF PlaceOrder
    <3>2. m.w = "order"
      BY <3>1 DEF PlaceAt
    <3>3. QED
      BY <1>4, <1>9, <2>1, <2>2, <3>1, <3>2
  <2>3. CASE d.status # "AVAILABLE"
    <3>1. PICK m : m = PlaceAt(t, tables[t].session.id) /\ Begin(a, "order", {t}, <<m>>)
      BY <1>1, <1>11, <2>3 DEF PlaceOrder
    <3>2. m.w = "order"
      BY <3>1 DEF PlaceAt
    <3>3. TablePart("order", m)
      BY <3>2 DEF TablePart
    <3>4. QED
      BY <2>1, <3>1, <3>2, <3>3, PartyFloorBegin
  <2>4. QED
    BY <2>2, <2>3
<1>12. ASSUME NEW r, SeatTable(a, t, r)
       PROVE  PartyInv'
  <2>1. PICK on, to, m : /\ on = {t, r} \ {NoReservation} /\ to = Opened(t, r)
                         /\ m = SetBook(r, "SEATED")
    OBVIOUS
  <2>2. tables' = tables /\ d.status \in {"AVAILABLE", "RESERVED"}
    BY <1>1, <1>3, <1>12, Moves DEF SeatTable, NewSession
  <2>3. PICK todo : /\ todo \in {<<SaveTable(t, to)>>, <<SaveTable(t, to), m>>}
                    /\ Begin(a, "seat", on, todo)
    <3>1. PICK more : /\ more = IF r = NoReservation THEN <<>> ELSE <<m>>
                      /\ Begin(a, "seat", on, <<SaveTable(t, to)>> \o more)
      BY <1>12, <2>1 DEF SeatTable
    <3>2. <<SaveTable(t, to)>> \o more \in {<<SaveTable(t, to)>>, <<SaveTable(t, to), m>>}
      BY <3>1, Joins
    <3>3. QED
      BY <3>1, <3>2
  <2>4. m.w = "book" /\ to.status = "OCCUPIED"
    BY <1>9, <2>1 DEF SetBook
  <2>5. QED
    BY <1>4, <2>2, <2>3, <2>4
<1>13. QED
  BY <1>6, <1>7, <1>8, <1>10, <1>11, <1>12 DEF TableRequests

\* The requests about a reservation.
LEMMA PartyBookBegins ==
  ASSUME QIInv, PartyInv, FloorStep, NEW a \in Actor, NEW r \in Reservation, BookRequests(a, r)
  PROVE  PartyInv'
<1>1. ASSUME NEW op, NEW on, NEW to, NEW m, NEW todo, tables' = tables, Begin(a, op, on, todo),
             todo = <<SaveBook(r, to)>> \/ todo = <<SaveBook(r, to), m>>,
             m.w \in {"reserve", "release"}, m.w = "reserve" => op = "pay"
      PROVE  PartyInv'
  <2>1. PICK h : h = SaveBook(r, to)
    OBVIOUS
  <2>2. h.w = "book"
    BY <2>1 DEF SaveBook
  <2>3. TablePart(op, h)
    BY <2>2 DEF TablePart
  <2>4. QED
    BY <1>1, <2>1, <2>2, <2>3, PartyFloorBegin
<1>2. ASSUME NEW to, Begin(a, "pay", {r}, <<SaveBook(r, to)>>), tables' = tables
      PROVE  PartyInv'
  <2>1. ReleaseIfLast(r, r).w = "release"
    BY DEF ReleaseIfLast
  <2>2. QED
    BY <1>1, <1>2, <2>1
<1>3. CASE CreateTableRazorpayOrder(a, r)
  BY <1>2, <1>3 DEF CreateTableRazorpayOrder
<1>4. CASE VerifyWrongSignature(a, r)
  BY <1>2, <1>4 DEF VerifyWrongSignature, floorVars
<1>5. CASE WebhookCaptured(a, r)
  BY <1>2, <1>5 DEF WebhookCaptured, floorVars
<1>6. CASE WebhookFailed(a, r)
  BY <1>2, <1>6 DEF WebhookFailed, floorVars
<1>7. CASE VerifyTablePayment(a, r)
  <2>1. PICK on, to, m : /\ m = ReserveIfFree(books[r].table)
                         /\ Begin(a, "pay", on, <<SaveBook(r, to), m>>)
    BY <1>7 DEF VerifyTablePayment
  <2>2. tables' = tables /\ m.w = "reserve"
    BY <1>7, <2>1 DEF VerifyTablePayment, floorVars, ReserveIfFree
  <2>3. QED
    BY <1>1, <2>1, <2>2
<1>8. ASSUME NEW s, UpdateReservation(a, r, s)
      PROVE  PartyInv'
  <2>1. PICK on, to, m, more :
          /\ m = ReleaseIfLast(books[r].table, r) /\ more \in {<<>>, <<m>>}
          /\ Begin(a, "update", on, <<SaveBook(r, to)>> \o more)
    BY <1>8 DEF UpdateReservation
  <2>2. <<SaveBook(r, to)>> \o more \in {<<SaveBook(r, to)>>, <<SaveBook(r, to), m>>}
    BY <2>1, Joins
  <2>3. tables' = tables /\ m.w = "release"
    BY <1>8, <2>1 DEF UpdateReservation, floorVars, ReleaseIfLast
  <2>4. QED
    BY <1>1, <2>1, <2>2, <2>3
<1>9. QED
  BY <1>3, <1>4, <1>5, <1>6, <1>7, <1>8 DEF BookRequests

LEMMA PartyHoldBegins ==
  ASSUME QIInv, PartyInv, FloorStep, NEW a \in Actor, NEW slot, NEW party,
         CreateReservation(a, slot, party)
  PROVE  PartyInv'
<1>1. PICK u, h : /\ h = Insert(u, slot) /\ Begin(a, "reserve", {u}, <<h>>) /\ tables' = tables
  BY DEF CreateReservation, floorVars
<1>2. h.w = "insert"
  BY <1>1 DEF Insert
<1>3. TablePart("reserve", h)
  BY <1>2 DEF TablePart
<1>4. QED
  BY <1>1, <1>2, <1>3, PartyFloorBegin

\* The requests of the waitlist.
LEMMA PartyQueueBegins ==
  ASSUME QIInv, PartyInv, NEW a \in Actor, QueueRequests(a)
  PROVE  PartyInv'
<1>1. ASSUME NEW op, NEW on, NEW h, NEW m, NEW todo,
             todo = <<>> \/ todo = <<h>> \/ todo = <<h, m>>, Ask(a, op, on, todo),
             h.w \in {"join", "number", "seat", "pool", "entry"}, h.w = "entry" => op = "cancelEntry",
             m.w = "recalculate"
      PROVE  PartyInv'
  <2>1. Begin(a, op, on, todo) /\ UNCHANGED <<tables, sitting, upset>>
    BY <1>1 DEF Ask, floorVars, queueVars
  <2>2. TablePart(op, h)
    BY <1>1 DEF TablePart
  <2>3. h.w # "entry" \/ op \notin {"seatGroup", "auto"}
    BY <1>1
  <2>4. h.w # "table" /\ h.w # "close" /\ m.w \notin {"table", "close"} /\ m.w # "reserve"
    BY <1>1
  <2>5. QED
    BY <1>1, <2>1, <2>2, <2>3, <2>4, PartyBegin
<1>2. Recalculate.w = "recalculate"
  BY DEF Recalculate
<1>3. CASE JoinWaitlist(a)
  <2>1. PICK h : h = JoinAt(Cardinality(Waiting) + 1) /\ Ask(a, "join", {Queue}, <<h>>)
    BY <1>3 DEF JoinWaitlist
  <2>2. h.w = "join"
    BY <2>1 DEF JoinAt
  <2>3. QED
    BY <1>1, <1>2, <2>1, <2>2
<1>4. CASE ListWaitlist(a)
  <2>1. PICK h : h = [w |-> "number", left |-> Pending, n |-> 1, stored |-> TRUE]
    OBVIOUS
  <2>2. PICK more : /\ more = Number(Pending, 1, TRUE)
                    /\ more = <<>> \/ more = <<h>>
    BY <2>1 DEF Number
  <2>3. Ask(a, "list", {Queue}, more)
    BY <1>4, <2>2 DEF ListWaitlist
  <2>4. h.w = "number"
    BY <2>1
  <2>5. QED
    BY <1>1, <1>2, <2>2, <2>3, <2>4
<1>5. ASSUME NEW g \in Group, NEW t \in Table, SeatWaitlistGuest(a, g, t) PROVE PartyInv'
  <2>1. PICK h : h = SeatIfFree(g, t) /\ Ask(a, "seatGroup", {Queue, t}, <<h>>)
    BY <1>5 DEF SeatWaitlistGuest
  <2>2. h.w = "seat"
    BY <2>1 DEF SeatIfFree
  <2>3. QED
    BY <1>1, <1>2, <2>1, <2>2
<1>6. ASSUME NEW g \in Group, CancelWaitlistEntry(a, g) PROVE PartyInv'
  <2>1. PICK h : /\ h = SaveEntry(g, [entries[g] EXCEPT !.status = "CANCELLED", !.pos = 0])
                 /\ Ask(a, "cancelEntry", {Queue}, <<h, Recalculate>>)
    BY <1>6 DEF CancelWaitlistEntry
  <2>2. h.w = "entry"
    BY <2>1 DEF SaveEntry
  <2>3. QED
    BY <1>1, <1>2, <2>1, <2>2
<1>7. CASE AutoAssignTables(a)
  <2>1. PICK h : h = AssignPool(Pending) /\ Ask(a, "auto", {Queue} \cup Table, <<h>>)
    BY <1>7 DEF AutoAssignTables
  <2>2. h.w = "pool"
    BY <2>1 DEF AssignPool
  <2>3. QED
    BY <1>1, <1>2, <2>1, <2>2
<1>8. QED
  BY <1>3, <1>4, <1>5, <1>6, <1>7 DEF QueueRequests

-----------------------------------------------------------------------------
(* The writes of the floor, and the tables.                                 *)

\* A request works on the table it has taken.
LEMMA SeatingInReach ==
  ASSUME QIInv, NEW c \in Actor, NEW u, Seating(c, u)
  PROVE  u \in req[c].on
<1>1. PICK q, h : q = req[c] /\ h = Head(q.todo)
  OBVIOUS
<1>2. Busy(c) /\ q.op \in {"seatGroup", "auto"} /\ h.w = "entry" /\ h.set.table = u
  BY <1>1 DEF Seating, Write
<1>3. QueuePlan(q)
  BY <1>1, <1>2, Shape DEF QIInv, FloorPlan, QueueOps
<1>4. PICK g, t : t \in Table \cap q.on /\ h = SaveSeated(g, t)
  BY <1>1, <1>2, <1>3, QueuePlanAt
<1>5. h.set.table = t
  BY <1>4 DEF SaveSeated, Seated
<1>6. QED
  BY <1>1, <1>2, <1>4, <1>5

\* What the rest of a floor request's plan is.
LEMMA FloorTail ==
  ASSUME NEW p, FloorPlan(p), PlanOfTables(p), NEW more, more = Tail(p.todo), NEW n,
         n = IF more = <<>> THEN Idle ELSE [op |-> p.op, on |-> p.on, todo |-> more]
  PROVE  /\ n # Idle => PlanOfTables(n)
         /\ \A h : n # Idle /\ StepOf(n, h) => StepOf(p, h)
         /\ Head(p.todo).w # "book" => \A h : n # Idle /\ StepOf(n, h) => h.w \notin {"table", "close"}
         /\ n # Idle => Head(n.todo).w # "entry"
<1>1. CASE more = <<>>
  BY <1>1
<1>2. CASE more # <<>>
  <2>1. PICK x, y : p.todo = <<x, y>> /\ FloorWrite(p.on, y)
    BY <1>2, Tuples DEF FloorPlan
  <2>2. more = <<y>> /\ Head(p.todo) = x /\ Head(Tail(p.todo)) = y
    BY <2>1, Tuples
  <2>3. n.todo = <<y>> /\ n.op = p.op
    BY <1>2, <2>2
  <2>4. Head(n.todo) = y /\ Tail(n.todo) = <<>>
    BY <2>3, Tuples
  <2>5. \A h : StepOf(n, h) => h = y
    BY <2>4 DEF StepOf
  <2>6. StepOf(p, y)
    BY <1>2, <2>2 DEF StepOf
  <2>7. y.w # "entry"
    BY <2>1 DEF FloorWrite, FloorWrites
  <2>8. PlanOfTables(n)
    BY <2>3, <2>4, <2>5, <2>6 DEF PlanOfTables
  <2>9. x.w # "book" => y.w \notin {"table", "close"}
    BY <1>2, <2>2 DEF PlanOfTables
  <2>10. QED
    BY <2>2, <2>4, <2>5, <2>6, <2>7, <2>8, <2>9
<1>3. QED
  BY <1>1, <1>2

\* The fields of a saved table.
LEMMA PatchedFields ==
  ASSUME NEW d, {"status", "session"} \subseteq DOMAIN d, NEW set, NEW new, new = Patched(d, set)
  PROVE  /\ new.status = IF "status" \in DOMAIN set THEN set.status ELSE d.status
         /\ new.session = IF "session" \in DOMAIN set THEN set.session ELSE d.session
BY DEF Patched

\* What a save of a table does to the one party at it.
LEMMA PartyTableSaved ==
  ASSUME NEW op, NEW set, TableSet(op, set), NEW t \in Table, ReadyFor(op, t, set),
         NEW new, new.status = (IF "status" \in DOMAIN set THEN set.status ELSE tables[t].status),
         new.session = (IF "session" \in DOMAIN set THEN set.session ELSE tables[t].session)
  PROVE  /\ \/ new.status = tables[t].status /\ new.session = tables[t].session
            \/ new.status = "BILLING" /\ tables[t].status = "OCCUPIED" /\ new.session = tables[t].session
            \/ tables[t].status \notin InUse
            \/ tables[t].status # "AVAILABLE" /\ new.status = "AVAILABLE"
         /\ \/ new.session.id = 0 \/ new.status \in InUse
            \/ new.session = tables[t].session /\ tables[t].status \notin InUse
            \/ new.status = tables[t].status /\ new.session = tables[t].session
         /\ op \in {"seat", "order"} => new.status \in InUse
         /\ op = "close" => new.session.id = 0
         /\ op \in {"seatGroup", "auto"} =>
              /\ tables[t].status = "AVAILABLE" /\ new.status = "OCCUPIED"
              /\ new.session = tables[t].session
<1>1. NoSession.id = 0
  BY DEF NoSession
<1>2. CASE op = "edit"
  BY <1>2 DEF TableSet, ReadyFor, InUse
<1>3. CASE op = "bill"
  BY <1>3 DEF TableSet, ReadyFor, InUse
<1>4. CASE op \in {"seat", "order"}
  BY <1>4 DEF TableSet, ReadyFor, InUse
<1>5. CASE op = "close"
  BY <1>1, <1>5 DEF TableSet, ReadyFor, InUse
<1>6. CASE op \in {"pay", "seatGroup", "auto"}
  BY <1>6 DEF TableSet, ReadyFor, InUse
<1>7. QED
  BY <1>2, <1>3, <1>4, <1>5, <1>6 DEF TableSet

\* A table is saved.
LEMMA PartyTable ==
  ASSUME QIInv, PartyInv, FloorStep, NEW a \in Actor, Busy(a), DoTable(a), NEW n, GoesOn(a, n),
         n # Idle => PlanOfTables(n),
         \A h : n # Idle /\ StepOf(n, h) => h.w \notin {"table", "close"},
         \A u \in Table : Seating(a, u)' => u = Write(a).t /\ req[a].op \in {"seatGroup", "auto"}
  PROVE  PartyInv'
<1>1. FloorShape /\ Rivalry /\ QueueShape /\ QueueRequestsInv
  BY DEF QIInv
<1>2. PICK p, h, t, set : p = req[a] /\ h = Write(a) /\ t = h.t /\ set = h.set
  OBVIOUS
<1>3. h.w = "table" /\ StepOf(p, h)
  BY <1>2 DEF DoTable, Next1, Write, StepOf
<1>4. t \in p.on /\ TableSet(p.op, set)
  BY <1>1, <1>2, <1>3, StepInReach DEF PartyInv, PlansOfTables, PlanOfTables, TablePart
<1>5. PICK new : new = Patched(tables[t], set) /\ tables' = [tables EXCEPT ![t] = new]
  BY <1>2 DEF DoTable
<1>6. /\ \A u \in Table \ {t} : tables'[u] = tables[u]
      /\ t \in Table => tables'[t] = new
  BY <1>1, <1>5, SavedTable
<1>7. t \in Table => /\ new.status = (IF "status" \in DOMAIN set THEN set.status ELSE tables[t].status)
                     /\ new.session = (IF "session" \in DOMAIN set THEN set.session ELSE tables[t].session)
  <2>1. t \in Table => {"status", "session"} \subseteq DOMAIN tables[t]
    BY <1>1 DEF FloorShape
  <2>2. QED
    BY <1>5, <2>1, PatchedFields
<1>8. /\ hist'.crossed = hist.crossed
      /\ \A u \in Table \ {t} : u \in hist'.disturbed <=> u \in hist.disturbed
      /\ a \in hist.crossed => t \in hist'.disturbed
      /\ a \notin hist.crossed /\ p.op \notin {"seat", "order", "close"} => hist'.disturbed = hist.disturbed
  <2>1. PICK k : k = hist
    OBVIOUS
  <2>2. k = [crossed |-> k.crossed, raced |-> k.raced, unchecked |-> k.unchecked,
             edited |-> k.edited, disturbed |-> k.disturbed, strayed |-> k.strayed]
    BY <1>1, <2>1 DEF FloorShape
  <2>3. PICK S, R :
          hist' = IF a \in k.crossed
                  THEN [k EXCEPT !.disturbed = @ \cup {t}, !.strayed = S, !.raced = R]
                  ELSE [k EXCEPT !.disturbed = IF p.op \in {"seat", "order", "close"}
                                               THEN @ \ {t} ELSE @]
    <3>1. PICK S, R :
            /\ S = hist.strayed \cup {o \in Orders : orders[o].table = t}
            /\ R = hist.raced \cup ({new.session.book, tables[t].session.book} \ {NoReservation})
      OBVIOUS
    <3>2. hist' = IF a \in hist.crossed
                  THEN [hist EXCEPT !.disturbed = @ \cup {t}, !.strayed = S, !.raced = R]
                  ELSE [hist EXCEPT !.disturbed = IF p.op \in {"seat", "order", "close"}
                                                  THEN @ \ {t} ELSE @]
      BY <1>2, <1>5, <3>1 DEF DoTable
    <3>3. QED
      BY <2>1, <3>2
  <2>4. QED
    BY <2>1, <2>2, <2>3
<1>9. /\ \A u \in Table \ {t} : sitting'[u] = sitting[u] /\ (u \notin upset' => u \notin upset)
      /\ hist'.disturbed \subseteq upset'
  BY <1>6 DEF FloorStep, Turned
<1>10. ASSUME NEW c \in Actor \ {a}, Busy(c), t \in req[c].on PROVE a \in hist.crossed /\ c \in hist.crossed
  BY <1>1, <1>2, <1>4, <1>10 DEF Rivalry
<1>11. ASSUME a \notin hist.crossed, t \in Table
       PROVE  ReadyFor(p.op, t, set)
  BY <1>2, <1>3, <1>11 DEF PartyInv, KnowsTables, KnowsTable, Alone
<1>12. StatusesInv'
  <2>1. t \in Table => new.status \in TableStatus
    BY <1>4, <1>7 DEF PartyInv, StatusesInv, TableSet, TableStatus
  <2>2. QED
    BY <1>6, <2>1 DEF PartyInv, StatusesInv
<1>13. ASSUME t \in Table \ hist'.disturbed
       PROVE  tables'[t].session.id # 0 => tables'[t].status \in InUse
  <2>1. a \notin hist.crossed
    BY <1>8, <1>13
  <2>2. ReadyFor(p.op, t, set)
    BY <1>11, <1>13, <2>1
  <2>3. CASE p.op \in {"seat", "order", "close"}
    BY <1>4, <1>6, <1>7, <1>13, <2>2, <2>3, PartyTableSaved
  <2>4. CASE p.op \notin {"seat", "order", "close"}
    <3>1. tables[t].session.id # 0 => tables[t].status \in InUse
      BY <1>8, <1>13, <2>1, <2>4 DEF PartyInv, SessionsInUse
    <3>2. QED
      BY <1>4, <1>6, <1>7, <1>13, <2>2, <3>1, PartyTableSaved
  <2>5. QED
    BY <2>3, <2>4
<1>14. SessionsInUse'
  <2>1. \A u \in Table \ hist'.disturbed : u # t =>
          (tables'[u].session.id # 0 => tables'[u].status \in InUse)
    BY <1>6, <1>8 DEF PartyInv, SessionsInUse
  <2>2. QED
    BY <1>13, <2>1 DEF SessionsInUse
<1>15. ASSUME t \in Table \ upset', sitting'[t] # {}
       PROVE  /\ tables'[t].status \in InUse /\ tables'[t].session.id = 0
              /\ \A g, k \in sitting'[t] : g = k
  <2>1. t \notin Turned /\ sitting'[t] = sitting[t] /\ t \notin upset
    BY <1>15 DEF FloorStep
  <2>2. /\ tables[t].status \in InUse /\ tables[t].session.id = 0
        /\ \A g, k \in sitting[t] : g = k
    BY <1>15, <2>1 DEF PartyInv, OneParty
  <2>3. a \notin hist.crossed
    BY <1>8, <1>9, <1>15
  <2>4. ReadyFor(p.op, t, set)
    BY <1>11, <1>15, <2>3
  <2>5. ~(tables[t].status # "AVAILABLE" /\ tables'[t].status = "AVAILABLE")
    BY <1>15, <2>1 DEF Turned
  <2>6. \/ tables'[t].status = tables[t].status /\ tables'[t].session = tables[t].session
        \/ tables'[t].status = "BILLING" /\ tables'[t].session = tables[t].session
    BY <1>4, <1>6, <1>7, <1>15, <2>2, <2>4, <2>5, PartyTableSaved
  <2>7. QED
    BY <2>1, <2>2, <2>6 DEF InUse
<1>16. OneParty'
  <2>1. ASSUME NEW u \in Table \ upset', u # t, sitting'[u] # {}
        PROVE  /\ tables'[u].status \in InUse /\ tables'[u].session.id = 0
               /\ \A g, k \in sitting'[u] : g = k
    BY <1>6, <1>9, <2>1 DEF PartyInv, OneParty
  <2>2. QED
    BY <1>15, <2>1 DEF OneParty
<1>17. ASSUME NEW c \in Actor \ {a}, NEW u \in Table, Seating(c, u)'
       PROVE  Seating(c, u) /\ Busy(c) /\ u \in req[c].on
  <2>1. Seating(c, u)
    BY <1>17 DEF Seating, GoesOn, Busy, Write
  <2>2. QED
    BY <2>1, SeatingInReach DEF Seating
<1>18. TakenInv'
  <2>1. SUFFICES ASSUME NEW c \in Actor, NEW u \in Table \ hist'.disturbed, Seating(c, u)'
                 PROVE  /\ tables'[u].status \in InUse /\ tables'[u].session.id = 0 /\ sitting'[u] = {}
                        /\ \A b \in Actor \ {c} : ~Seating(b, u)'
    BY DEF TakenInv
  <2>2. CASE c = a
    <3>1. u = t /\ p.op \in {"seatGroup", "auto"}
      BY <1>2, <2>1, <2>2
    <3>2. a \notin hist.crossed /\ hist'.disturbed = hist.disturbed
      BY <1>8, <2>1, <3>1
    <3>3. ReadyFor(p.op, t, set)
      BY <1>11, <3>1, <3>2
    <3>4. /\ tables[t].status = "AVAILABLE" /\ tables'[t].status = "OCCUPIED"
          /\ tables'[t].session = tables[t].session
      BY <1>4, <1>6, <1>7, <3>1, <3>3, PartyTableSaved
    <3>5. tables[t].session.id = 0
      BY <2>1, <3>1, <3>2, <3>4 DEF PartyInv, SessionsInUse, InUse
    <3>6. t \in Turned
      BY <3>1, <3>4 DEF Turned
    <3>7. sitting'[t] = {}
      BY <3>1, <3>6 DEF FloorStep
    <3>8. \A b \in Actor \ {a} : ~Seating(b, t)'
      BY <1>10, <1>17, <3>1, <3>2
    <3>9. QED
      BY <2>2, <3>1, <3>4, <3>5, <3>7, <3>8 DEF InUse
  <2>3. CASE c # a
    <3>1. Seating(c, u) /\ u \in req[c].on /\ Busy(c)
      BY <1>17, <2>1, <2>3
    <3>2. u # t
      BY <1>8, <1>10, <2>1, <2>3, <3>1
    <3>3. /\ tables[u].status \in InUse /\ tables[u].session.id = 0 /\ sitting[u] = {}
          /\ \A b \in Actor \ {c} : ~Seating(b, u)
      BY <1>8, <2>1, <3>1, <3>2 DEF PartyInv, TakenInv
    <3>4. \A b \in Actor \ {c} : ~Seating(b, u)'
      BY <1>2, <1>17, <3>2, <3>3
    <3>5. QED
      BY <1>6, <1>9, <3>2, <3>3, <3>4
  <2>4. QED
    BY <2>2, <2>3
<1>19. KnowsTables(a)'
  BY DEF KnowsTables, KnowsTable, GoesOn, Alone, Busy
<1>20. \A c \in Actor \ {a} : Alone(c)' => \A u \in Table \cap req[c].on : tables'[u] = tables[u]
  <2>1. SUFFICES ASSUME NEW c \in Actor \ {a}, Alone(c)', NEW u \in Table \cap req[c].on
                 PROVE  tables'[u] = tables[u]
    OBVIOUS
  <2>2. Busy(c) /\ c \notin hist.crossed
    BY <1>8, <2>1 DEF Alone, Busy, GoesOn
  <2>3. u # t
    BY <1>10, <2>1, <2>2
  <2>4. QED
    BY <1>6, <2>3
<1>21. QED
  BY <1>8, <1>12, <1>14, <1>16, <1>18, <1>19, <1>20, PartyMoves

\* A write of the floor that saves no table.
LEMMA PartyGoes ==
  ASSUME QIInv, PartyInv, FloorStep, NEW a \in Actor, Busy(a), FloorPlan(req[a]),
         NEW more, Continue(a, more), UNCHANGED tables,
         hist'.crossed = hist.crossed, hist'.disturbed = hist.disturbed,
         \/ more = Tail(req[a].todo)
         \/ more = <<>>
         \/ \E h : /\ more = <<h>> /\ TablePart(req[a].op, h) /\ h.w # "entry" /\ h.w # "close"
                   /\ Alone(a) /\ h.w = "table" /\ h.t \in Table => ReadyFor(req[a].op, h.t, h.set)
         \/ \E h, m : /\ more = <<m, h>> /\ TablePart(req[a].op, h) /\ m.w = "book" /\ h.w = "table"
                      /\ Alone(a) /\ h.t \in Table => ReadyFor(req[a].op, h.t, h.set)
  PROVE  PartyInv'
<1>1. QueueShape /\ QueueRequestsInv
  BY DEF QIInv
<1>2. PICK p, q : p = req[a] /\ q = [op |-> p.op, on |-> p.on, todo |-> more]
  OBVIOUS
<1>3. PICK n : n = IF more = <<>> THEN Idle ELSE q
  OBVIOUS
<1>4. GoesOn(a, n)
  BY <1>1, <1>2, <1>3, QueueGoing
<1>5. UNCHANGED <<sitting, upset>>
  BY <1>1, FloorCalm
<1>6. PlanOfTables(p) /\ (Alone(a) => \A h : StepOf(p, h) => KnowsTable(a, h))
  BY <1>2 DEF PartyInv, PlansOfTables, KnowsTables
<1>7. Alone(a)' => Alone(a)
  BY DEF Alone
<1>8. p.op \notin QueueOps
  BY <1>2 DEF FloorPlan
<1>9. \A t \in Table : ~Seating(a, t)'
  BY <1>2, <1>3, <1>4, <1>8 DEF Seating, GoesOn, Busy, QueueOps
<1>10. ASSUME n # Idle => PlanOfTables(n),
              n # Idle => \A h : StepOf(n, h) /\ Alone(a) =>
                /\ h.w = "table" /\ h.t \in Table => ReadyFor(p.op, h.t, h.set)
                /\ h.w = "close" /\ h.t \in Table => tables[h.t] = h.copy
       PROVE  PartyInv'
  <2>1. KnowsTables(a)'
    <3>1. SUFFICES ASSUME Alone(a)', NEW h, StepOf(req'[a], h) PROVE KnowsTable(a, h)'
      BY DEF KnowsTables
    <3>2. n # Idle /\ req'[a] = q /\ n = q
      BY <1>3, <1>4, <3>1 DEF Alone, Busy, GoesOn
    <3>3. /\ h.w = "table" /\ h.t \in Table => ReadyFor(p.op, h.t, h.set)
          /\ h.w = "close" /\ h.t \in Table => tables[h.t] = h.copy
      BY <1>7, <1>10, <3>1, <3>2
    <3>4. req'[a].op = p.op
      BY <1>2, <3>2
    <3>5. QED
      BY <3>3, <3>4 DEF KnowsTable, ReadyFor
  <2>2. QED
    BY <1>4, <1>5, <1>9, <1>10, <2>1, PartyQuiet
<1>11. CASE more = <<>>
  BY <1>3, <1>10, <1>11
<1>12. CASE more = Tail(p.todo)
  <2>1. /\ n # Idle => PlanOfTables(n)
        /\ \A h : n # Idle /\ StepOf(n, h) => StepOf(p, h)
    BY <1>2, <1>3, <1>6, <1>12, FloorTail
  <2>2. \A h : StepOf(p, h) /\ Alone(a) =>
          /\ h.w = "table" /\ h.t \in Table => ReadyFor(p.op, h.t, h.set)
          /\ h.w = "close" /\ h.t \in Table => tables[h.t] = h.copy
    BY <1>2, <1>6 DEF KnowsTable
  <2>3. QED
    BY <1>10, <2>1, <2>2
<1>13. ASSUME NEW h, more = <<h>>, TablePart(p.op, h), h.w # "entry", h.w # "close",
              Alone(a) /\ h.w = "table" /\ h.t \in Table => ReadyFor(p.op, h.t, h.set)
       PROVE  PartyInv'
  <2>1. n = q /\ q.todo = <<h>> /\ q.op = p.op
    BY <1>2, <1>3, <1>13, Tuples
  <2>2. Head(q.todo) = h /\ Tail(q.todo) = <<>>
    BY <2>1, Tuples
  <2>3. \A k : StepOf(q, k) => k = h
    BY <2>2 DEF StepOf
  <2>4. PlanOfTables(q)
    BY <1>13, <2>1, <2>2, <2>3 DEF PlanOfTables
  <2>5. QED
    BY <1>10, <1>13, <2>1, <2>3, <2>4
<1>14. ASSUME NEW h, NEW m, more = <<m, h>>, TablePart(p.op, h), m.w = "book", h.w = "table",
              Alone(a) /\ h.t \in Table => ReadyFor(p.op, h.t, h.set)
       PROVE  PartyInv'
  <2>1. n = q /\ q.todo = <<m, h>> /\ q.op = p.op
    BY <1>2, <1>3, <1>14, Tuples
  <2>2. Head(q.todo) = m /\ Tail(q.todo) = <<h>> /\ Head(<<h>>) = h
    BY <2>1, Tuples
  <2>3. \A k : StepOf(q, k) => k = h \/ k = m
    BY <2>2 DEF StepOf
  <2>4. TablePart(p.op, m)
    BY <1>14 DEF TablePart
  <2>5. PlanOfTables(q)
    BY <1>14, <2>1, <2>2, <2>3, <2>4 DEF PlanOfTables
  <2>6. QED
    BY <1>10, <1>14, <2>1, <2>3, <2>5
<1>15. QED
  BY <1>2, <1>11, <1>12, <1>13, <1>14

\* What closeTable will save.
LEMMA ClosingParts ==
  ASSUME NEW t, NEW c, c = [status |-> c.status, active |-> c.active, session |-> c.session],
         c.status # "AVAILABLE", NEW more, more = Closing(t, c)
  PROVE  \E h, m : /\ more = <<h>> \/ more = <<m, h>>
                   /\ m.w = "book" /\ h.w = "table" /\ h.t = t /\ TableSet("close", h.set)
                   /\ "session" \in DOMAIN h.set \/ c.session = NoSession
<1>1. PICK to, set, h, m : /\ to = [c EXCEPT !.status = "AVAILABLE", !.session = NoSession]
                           /\ set = Changes(c, to)
                           /\ h = [w |-> "table", t |-> t, set |-> set]
                           /\ m = SetBook(c.session.book, "COMPLETED")
  OBVIOUS
<1>2. to.status = "AVAILABLE" /\ to.session = NoSession /\ {"status", "session"} \subseteq DOMAIN c
  BY <1>1
<1>3. /\ "status" \in DOMAIN set /\ set.status = "AVAILABLE"
      /\ "session" \in DOMAIN set <=> c.session # NoSession
      /\ "session" \in DOMAIN set => set.session = NoSession
  <2>1. set = Changes(c, to)
    BY <1>1
  <2>2. QED
    BY <1>2, <2>1, ChangedFields
<1>4. TableSet("close", set)
  BY <1>3 DEF TableSet
<1>5. PICK r : /\ r = IF c.session.book = NoReservation THEN <<>> ELSE <<m>>
               /\ more = r \o <<h>>
  BY <1>1 DEF Closing
<1>6. more = <<h>> \/ more = <<m, h>>
  BY <1>5, Joins
<1>7. m.w = "book"
  BY <1>1 DEF SetBook
<1>8. h.w = "table" /\ h.t = t /\ h.set = set
  BY <1>1
<1>9. QED
  BY <1>3, <1>4, <1>6, <1>7, <1>8

\* A reserved table becomes free: nobody sat at it.
LEMMA PartyFrees ==
  ASSUME QIInv, PartyInv, FloorStep, NEW a \in Actor, Busy(a), FloorPlan(req[a]), DoFree(a)
  PROVE  PartyInv'
<1>1. FloorShape /\ Rivalry /\ QueueShape /\ QueueRequestsInv
  BY DEF QIInv
<1>2. PICK p, t, more : p = req[a] /\ t = Write(a).t /\ more = Tail(p.todo)
  OBVIOUS
<1>3. PICK n : n = IF more = <<>> THEN Idle ELSE [op |-> p.op, on |-> p.on, todo |-> more]
  OBVIOUS
<1>4. GoesOn(a, n) /\ hist' = hist
  BY <1>1, <1>2, <1>3, QueueGoing DEF DoFree, Done
<1>5. t \in p.on /\ Head(p.todo).w = "free"
  BY <1>2, FloorHead DEF DoFree, Next1, Write, FloorWrite, TableWrites
<1>6. /\ n # Idle => PlanOfTables(n)
      /\ \A h : n # Idle /\ StepOf(n, h) => h.w \notin {"table", "close"}
  BY <1>2, <1>3, <1>5, FloorTail DEF PartyInv, PlansOfTables
<1>7. p.op \notin QueueOps
  BY <1>2 DEF FloorPlan
<1>8. \A u \in Table : ~Seating(a, u)'
  BY <1>2, <1>3, <1>4, <1>7 DEF Seating, GoesOn, Busy, QueueOps
<1>9. PICK new : /\ new = [tables[t] EXCEPT !.status = IF @ = "RESERVED" THEN "AVAILABLE" ELSE @]
                 /\ tables' = [tables EXCEPT ![t] = new]
  BY <1>2 DEF DoFree
<1>10. PICK s : new = [tables[t] EXCEPT !.status = s]
  BY <1>9
<1>11. /\ \A u \in Table \ {t} : tables'[u] = tables[u]
       /\ t \in Table => tables'[t] = new
  BY <1>1, <1>9, <1>10, SavedTable
<1>12. t \in Table =>
         /\ new.session = tables[t].session
         /\ new.status = IF tables[t].status = "RESERVED" THEN "AVAILABLE" ELSE tables[t].status
  <2>1. PICK d : d = tables[t]
    OBVIOUS
  <2>2. t \in Table => d = [status |-> d.status, active |-> d.active, session |-> d.session]
    BY <1>1, <2>1 DEF FloorShape
  <2>3. QED
    BY <1>9, <2>1, <2>2
<1>13. \A u \in Table :
         /\ tables'[u].session = tables[u].session
         /\ tables'[u].status = tables[u].status
              \/ (tables[u].status = "RESERVED" /\ tables'[u].status = "AVAILABLE")
  BY <1>11, <1>12
<1>14. \A u \in Table : /\ tables[u].status \in InUse => sitting'[u] = sitting[u] /\ tables'[u] = tables[u]
                        /\ sitting'[u] = sitting[u] \/ sitting'[u] = {}
                        /\ u \notin upset' => u \notin upset \/ sitting'[u] = {}
  <2>1. \A u \in Table : tables[u].status \in InUse => u \notin Turned /\ tables'[u] = tables[u]
    <3>1. t \in Table /\ tables[t].status \in InUse => new = tables[t]
      <4>1. PICK d : d = tables[t]
        OBVIOUS
      <4>2. t \in Table => d = [status |-> d.status, active |-> d.active, session |-> d.session]
        BY <1>1, <4>1 DEF FloorShape
      <4>3. t \in Table /\ d.status \in InUse => new = [d EXCEPT !.status = d.status]
        BY <1>9, <4>1 DEF InUse
      <4>4. QED
        BY <4>1, <4>2, <4>3
    <3>2. \A u \in Table : tables[u].status \in InUse => tables'[u] = tables[u]
      BY <1>11, <3>1
    <3>3. QED
      BY <3>2 DEF Turned
  <2>2. QED
    BY <2>1 DEF FloorStep
<1>15. StatusesInv'
  BY <1>13 DEF PartyInv, StatusesInv, TableStatus
<1>16. SessionsInUse'
  BY <1>4, <1>13, <1>14 DEF PartyInv, SessionsInUse
<1>17. OneParty'
  <2>1. SUFFICES ASSUME NEW u \in Table \ upset', sitting'[u] # {}
                 PROVE  /\ tables'[u].status \in InUse /\ tables'[u].session.id = 0
                        /\ \A g, h \in sitting'[u] : g = h
    BY DEF OneParty
  <2>2. u \notin upset /\ sitting'[u] = sitting[u]
    BY <1>14, <2>1
  <2>3. /\ tables[u].status \in InUse /\ tables[u].session.id = 0
        /\ \A g, h \in sitting[u] : g = h
    BY <2>1, <2>2 DEF PartyInv, OneParty
  <2>4. QED
    BY <1>14, <2>2, <2>3
<1>18. ASSUME NEW c \in Actor, NEW u \in Table, Seating(c, u)' PROVE Seating(c, u)
  <2>1. c # a
    BY <1>8, <1>18
  <2>2. QED
    BY <1>4, <1>18, <2>1 DEF Seating, GoesOn, Busy, Write
<1>19. TakenInv'
  <2>1. SUFFICES ASSUME NEW c \in Actor, NEW u \in Table \ hist'.disturbed, Seating(c, u)'
                 PROVE  /\ tables'[u].status \in InUse /\ tables'[u].session.id = 0 /\ sitting'[u] = {}
                        /\ \A b \in Actor \ {c} : ~Seating(b, u)'
    BY DEF TakenInv
  <2>2. /\ tables[u].status \in InUse /\ tables[u].session.id = 0 /\ sitting[u] = {}
        /\ \A b \in Actor \ {c} : ~Seating(b, u)
    BY <1>4, <1>18, <2>1 DEF PartyInv, TakenInv
  <2>3. QED
    BY <1>14, <1>18, <2>2
<1>20. KnowsTables(a)'
  BY <1>4, <1>6 DEF KnowsTables, KnowsTable, GoesOn, Alone, Busy
<1>21. \A c \in Actor \ {a} : Alone(c)' => \A u \in Table \cap req[c].on : tables'[u] = tables[u]
  <2>1. SUFFICES ASSUME NEW c \in Actor \ {a}, Alone(c)', NEW u \in Table \cap req[c].on
                 PROVE  tables'[u] = tables[u]
    OBVIOUS
  <2>2. Busy(c) /\ c \notin hist.crossed
    BY <1>4, <2>1 DEF Alone, Busy, GoesOn
  <2>3. u # t
    BY <1>1, <1>2, <1>5, <2>1, <2>2 DEF Rivalry
  <2>4. QED
    BY <1>11, <2>1, <2>3
<1>22. QED
  BY <1>4, <1>6, <1>15, <1>16, <1>17, <1>19, <1>20, <1>21, PartyMoves

\* The floor writes.
LEMMA PartyFloorWrites ==
  ASSUME QIInv, PartyInv, FloorStep, NEW a \in Actor, Busy(a), FloorPlan(req[a]), Writes(a)
  PROVE  PartyInv'
<1>1. FloorShape /\ QueueRequestsInv
  BY DEF QIInv
<1>2. PICK p, h : p = req[a] /\ h = Write(a)
  OBVIOUS
<1>3. StepOf(p, h) /\ TablePart(p.op, h) /\ (Alone(a) => KnowsTable(a, h))
  <2>1. StepOf(p, h)
    BY <1>2 DEF StepOf, Write
  <2>2. QED
    BY <1>2, <2>1 DEF PartyInv, PlansOfTables, PlanOfTables, KnowsTables
<1>4. ASSUME NEW S, NEW R, NEW U,
         \/ hist' = hist
         \/ hist' = [hist EXCEPT !.unchecked = U]
         \/ hist' = [hist EXCEPT !.strayed = S]
         \/ hist' = [hist EXCEPT !.raced = R, !.unchecked = U]
      PROVE  hist'.crossed = hist.crossed /\ hist'.disturbed = hist.disturbed
  <2>1. PICK k : k = hist
    OBVIOUS
  <2>2. k = [crossed |-> k.crossed, raced |-> k.raced, unchecked |-> k.unchecked,
             edited |-> k.edited, disturbed |-> k.disturbed, strayed |-> k.strayed]
    BY <1>1, <2>1 DEF FloorShape
  <2>3. QED
    BY <1>4, <2>1, <2>2
<1>5. ASSUME UNCHANGED tables, Done(a) \/ Continue(a, <<>>),
             hist'.crossed = hist.crossed /\ hist'.disturbed = hist.disturbed
      PROVE  PartyInv'
  <2>1. PICK more : Continue(a, more) /\ more \in {Tail(req[a].todo), <<>>}
    BY <1>5 DEF Done
  <2>2. QED
    BY <1>5, <2>1, PartyGoes
<1>6. CASE DoInsert(a)
  BY <1>4, <1>5, <1>6 DEF DoInsert
<1>7. CASE DoBook(a)
  BY <1>4, <1>5, <1>7 DEF DoBook
<1>8. CASE DoOrder(a)
  BY <1>4, <1>5, <1>8 DEF DoOrder
<1>9. CASE OrderRefused(a)
  BY <1>5, <1>9 DEF OrderRefused
<1>10. CASE DoClose(a)
  <2>1. UNCHANGED <<tables, hist>> /\ h.w = "close"
    BY <1>2, <1>10 DEF DoClose, Next1, Write
  <2>2. PICK t, c : t = h.t /\ c = h.copy
    OBVIOUS
  <2>3. PICK more : more = Closing(t, c)
    OBVIOUS
  <2>4. Continue(a, <<>>) \/ Continue(a, more)
    BY <1>2, <1>10, <2>2, <2>3 DEF DoClose
  <2>5. /\ p.op = "close" /\ c.status # "AVAILABLE"
        /\ c = [status |-> c.status, active |-> c.active, session |-> c.session]
    BY <1>3, <2>1, <2>2 DEF TablePart
  <2>6. PICK k, m : /\ more = <<k>> \/ more = <<m, k>>
                    /\ m.w = "book" /\ k.w = "table" /\ k.t = t /\ TableSet("close", k.set)
                    /\ "session" \in DOMAIN k.set \/ c.session = NoSession
    BY <2>3, <2>5, ClosingParts
  <2>7. TablePart(p.op, k)
    BY <2>5, <2>6 DEF TablePart
  <2>8. Alone(a) /\ k.t \in Table => ReadyFor(p.op, k.t, k.set)
    BY <1>3, <2>1, <2>2, <2>5, <2>6 DEF KnowsTable, ReadyFor
  <2>9. CASE Continue(a, <<>>)
    BY <1>5, <2>1, <2>9
  <2>10. CASE Continue(a, more)
    BY <1>2, <2>1, <2>6, <2>7, <2>8, <2>10, PartyGoes
  <2>11. QED
    BY <2>4, <2>9, <2>10
<1>11. CASE DoReserve(a)
  <2>1. UNCHANGED <<tables, hist>> /\ h.w = "reserve"
    BY <1>2, <1>11 DEF DoReserve, Next1, Write
  <2>2. PICK k : k = SetTable(h.t, "RESERVED")
    OBVIOUS
  <2>3. k.w = "table" /\ k.t = h.t /\ k.set = [status |-> "RESERVED"]
    BY <2>2 DEF SetTable
  <2>4. p.op = "pay"
    BY <1>3, <2>1 DEF TablePart
  <2>5. TablePart(p.op, k)
    BY <2>3, <2>4 DEF TablePart, TableSet
  <2>6. CASE Continue(a, <<>>)
    BY <1>5, <2>1, <2>6
  <2>7. CASE Continue(a, <<k>>) /\ tables[h.t].status = "AVAILABLE"
    <3>1. k.t \in Table => ReadyFor(p.op, k.t, k.set)
      BY <2>3, <2>4, <2>7 DEF ReadyFor
    <3>2. QED
      BY <1>2, <2>1, <2>3, <2>5, <2>7, <3>1, PartyGoes
  <2>8. QED
    BY <1>2, <1>11, <2>2, <2>6, <2>7 DEF DoReserve
<1>12. CASE DoRelease(a)
  <2>1. UNCHANGED <<tables, hist>>
    BY <1>12 DEF DoRelease
  <2>2. PICK k : k = [w |-> "free", t |-> h.t]
    OBVIOUS
  <2>3. k.w = "free" /\ TablePart(p.op, k)
    BY <2>2 DEF TablePart
  <2>4. Continue(a, <<>>) \/ Continue(a, <<k>>)
    BY <1>2, <1>12, <2>2 DEF DoRelease
  <2>5. CASE Continue(a, <<>>)
    BY <1>5, <2>1, <2>5
  <2>6. CASE Continue(a, <<k>>)
    BY <1>2, <2>1, <2>3, <2>6, PartyGoes
  <2>7. QED
    BY <2>4, <2>5, <2>6
<1>13. CASE DoTable(a)
  <2>1. PICK more : more = Tail(p.todo)
    OBVIOUS
  <2>2. PICK n : n = IF more = <<>> THEN Idle ELSE [op |-> p.op, on |-> p.on, todo |-> more]
    OBVIOUS
  <2>3. GoesOn(a, n)
    BY <1>1, <1>2, <1>13, <2>1, <2>2, QueueGoing DEF DoTable, Done
  <2>4. Head(p.todo).w = "table" /\ p.op \notin QueueOps
    BY <1>2, <1>13 DEF DoTable, Next1, FloorPlan
  <2>5. /\ n # Idle => PlanOfTables(n)
        /\ \A k : n # Idle /\ StepOf(n, k) => k.w \notin {"table", "close"}
    BY <1>2, <2>1, <2>2, <2>4, FloorTail DEF PartyInv, PlansOfTables
  <2>6. \A u \in Table : ~Seating(a, u)'
    BY <2>2, <2>3, <2>4 DEF Seating, GoesOn, Busy, QueueOps
  <2>7. QED
    BY <1>13, <2>3, <2>5, <2>6, PartyTable
<1>14. CASE DoFree(a)
  BY <1>14, PartyFrees
<1>15. QED
  BY <1>6, <1>7, <1>8, <1>9, <1>10, <1>11, <1>12, <1>13, <1>14 DEF Writes

-----------------------------------------------------------------------------
(* The writes of the waitlist, and the tables.                              *)

\* A write of the waitlist that leaves the tables and the parties alone.
LEMMA PartyQueueGoes ==
  ASSUME QIInv, PartyInv, NEW a \in Actor, Busy(a), QueuePlan(req[a]),
         NEW more, Continue(a, more), UNCHANGED <<tables, sitting, upset, hist>>,
         \/ more = <<>>
         \/ \E k : more = <<k>> /\ k.w \in {"number", "recalculate", "assign"}
         \/ \E g, t, m : /\ more = <<SetTable(t, "OCCUPIED"), SaveSeated(g, t), m>>
                         /\ req[a].op \in {"seatGroup", "auto"}
                         /\ Alone(a) /\ t \in Table => tables[t].status = "AVAILABLE"
  PROVE  PartyInv'
<1>1. PICK p, n : /\ p = req[a]
                  /\ n = IF more = <<>> THEN Idle ELSE [op |-> p.op, on |-> p.on, todo |-> more]
  OBVIOUS
<1>2. /\ GoesOn(a, n) /\ (more = <<>> => ~Busy(a)')
      /\ (more # <<>> => Busy(a)' /\ Write(a)' = Head(more) /\ req'[a].op = p.op
                         /\ req'[a].todo = more)
  BY <1>1, Onward
<1>3. Alone(a)' => Alone(a)
  BY DEF Alone
<1>4. ASSUME more # <<>>, Head(more).w # "entry",
             \A h : StepOf(n, h) => TablePart(p.op, h),
             Tail(more) # <<>> => Head(Tail(more)).w \notin {"table", "close"},
             \A h : StepOf(n, h) => h.w # "close",
             \A h : StepOf(n, h) /\ h.w = "table" /\ h.t \in Table /\ Alone(a) =>
               ReadyFor(p.op, h.t, h.set)
      PROVE  PartyInv'
  <2>1. n = req'[a] /\ n.op = p.op /\ n.todo = more
    BY <1>1, <1>2, <1>4 DEF GoesOn
  <2>2. PlanOfTables(n)
    BY <1>4, <2>1 DEF PlanOfTables
  <2>3. \A t \in Table : ~Seating(a, t)'
    BY <1>2, <1>4 DEF Seating
  <2>4. KnowsTables(a)'
    <3>1. SUFFICES ASSUME Alone(a), NEW h, StepOf(n, h) PROVE KnowsTable(a, h)'
      BY <1>3, <2>1 DEF KnowsTables
    <3>2. h.w # "close" /\ (h.w = "table" /\ h.t \in Table => ReadyFor(p.op, h.t, h.set))
      BY <1>4, <3>1
    <3>3. QED
      BY <2>1, <3>2 DEF KnowsTable, ReadyFor
  <2>5. QED
    BY <1>2, <2>2, <2>3, <2>4, PartyQuiet
<1>5. CASE more = <<>>
  <2>1. n = Idle /\ ~Busy(a)'
    BY <1>1, <1>2, <1>5
  <2>2. KnowsTables(a)' /\ \A t \in Table : ~Seating(a, t)'
    BY <2>1 DEF KnowsTables, Alone, Seating
  <2>3. QED
    BY <1>2, <2>1, <2>2, PartyQuiet
<1>6. ASSUME NEW k, more = <<k>>, k.w \in {"number", "recalculate", "assign"}
      PROVE  PartyInv'
  <2>1. more # <<>> /\ Head(more) = k /\ Tail(more) = <<>>
    BY <1>6, Tuples
  <2>2. n.todo = more
    BY <1>1, <2>1
  <2>3. \A h : StepOf(n, h) => h = k
    BY <2>1, <2>2 DEF StepOf
  <2>4. TablePart(p.op, k) /\ k.w # "close" /\ k.w # "table" /\ k.w # "entry"
    BY <1>6 DEF TablePart
  <2>5. QED
    BY <1>4, <2>1, <2>3, <2>4
<1>7. ASSUME NEW g, NEW t, NEW m, more = <<SetTable(t, "OCCUPIED"), SaveSeated(g, t), m>>,
             p.op \in {"seatGroup", "auto"},
             Alone(a) /\ t \in Table => tables[t].status = "AVAILABLE"
      PROVE  PartyInv'
  <2>1. PICK x, y : x = SetTable(t, "OCCUPIED") /\ y = SaveSeated(g, t)
    OBVIOUS
  <2>2. more # <<>> /\ Head(more) = x /\ Tail(more) = <<y, m>> /\ Head(<<y, m>>) = y
    BY <1>7, <2>1, Triples, Tuples
  <2>3. x.w = "table" /\ x.t = t /\ x.set = [status |-> "OCCUPIED"] /\ y.w = "entry"
    BY <2>1 DEF SetTable, SaveSeated
  <2>4. n.todo = more
    BY <1>1, <2>2
  <2>5. \A h : StepOf(n, h) => h = x \/ h = y
    BY <2>2, <2>4 DEF StepOf
  <2>6. TablePart(p.op, x) /\ TablePart(p.op, y)
    BY <1>7, <2>3 DEF TablePart, TableSet
  <2>7. Alone(a) /\ t \in Table => ReadyFor(p.op, t, x.set)
    BY <1>7 DEF ReadyFor
  <2>8. \A h : StepOf(n, h) /\ h.w = "table" => h = x
    BY <2>3, <2>5
  <2>9. QED
    BY <1>4, <2>2, <2>3, <2>5, <2>6, <2>7, <2>8
<1>8. QED
  BY <1>1, <1>5, <1>6, <1>7

\* A group's table is saved.
LEMMA PartyOccupies ==
  ASSUME QIInv, PartyInv, FloorStep, NEW a \in Actor, Busy(a), QueuePlan(req[a]), DoTable(a)
  PROVE  PartyInv'
<1>1. PICK p, h : p = req[a] /\ h = Write(a)
  OBVIOUS
<1>2. PICK g, t, m :
        /\ g \in Guests /\ t \in Table \cap p.on /\ SeatingEnds(p.op, m)
        /\ p.todo = <<h, SaveSeated(g, t), m>> /\ h = SetTable(t, "OCCUPIED")
  BY <1>1, QueuePlanAt DEF DoTable, Next1, Write
<1>3. PICK y, more : y = SaveSeated(g, t) /\ more = <<y, m>>
  OBVIOUS
<1>4. Continue(a, more)
  BY <1>1, <1>2, <1>3, Triples DEF DoTable, Done
<1>5. PICK n : n = IF more = <<>> THEN Idle ELSE [op |-> p.op, on |-> p.on, todo |-> more]
  OBVIOUS
<1>6. more # <<>> /\ Head(more) = y /\ Tail(more) = <<m>> /\ Head(<<m>>) = m
  BY <1>3, Tuples
<1>7. GoesOn(a, n) /\ Write(a)' = y /\ req'[a].op = p.op
  BY <1>1, <1>4, <1>5, <1>6, Onward
<1>8. n.todo = more
  BY <1>5, <1>6
<1>9. /\ y.w = "entry" /\ y.set.table = t /\ m.w \in {"recalculate", "assign"} /\ h.t = t
      /\ p.op \in {"seatGroup", "auto"}
  BY <1>2, <1>3 DEF SaveSeated, Seated, SetTable, SeatingEnds, Recalculate, AssignWrite, AssignNext
<1>10. \A k : StepOf(n, k) => k = y \/ k = m
  BY <1>6, <1>8 DEF StepOf
<1>11. \A k : StepOf(n, k) => k.w \notin {"table", "close", "reserve"}
  BY <1>9, <1>10
<1>12. PlanOfTables(n)
  BY <1>6, <1>8, <1>9, <1>11 DEF PlanOfTables, TablePart
<1>13. \A u \in Table : Seating(a, u)' => u = t
  BY <1>7, <1>9 DEF Seating
<1>14. QED
  BY <1>1, <1>7, <1>9, <1>11, <1>12, <1>13, PartyTable

\* A group sits down at the table that was taken for it, or an entry is
\* cancelled.
LEMMA PartySits ==
  ASSUME QIInv, PartyInv, NEW a \in Actor, Busy(a), QueuePlan(req[a]), DoEntry(a)
  PROVE  PartyInv'
<1>1. QueueShape /\ QueueRequestsInv
  BY DEF QIInv
<1>2. PICK p, h : p = req[a] /\ h = Write(a)
  OBVIOUS
<1>3. h = Head(p.todo) /\ h.w = "entry"
  BY <1>2 DEF DoEntry, Next1, Write
<1>4. PICK g, set, new : /\ g = h.g /\ set = h.set /\ new = Patched(entries[g], set)
  OBVIOUS
<1>5. /\ sitting' = IF entries[g].status # "SEATED" /\ new.status = "SEATED"
                    THEN [sitting EXCEPT ![new.table] = @ \cup {g}] ELSE sitting
      /\ UNCHANGED <<tables, hist, upset>>
  BY <1>2, <1>4 DEF DoEntry, Floor
<1>6. CASE p.op = "cancelEntry" /\ p.todo = <<h, Recalculate>> /\ CancelWrite(h)
  <2>1. g \in Guests /\ ("status" \in DOMAIN set => set.status = "CANCELLED")
    BY <1>4, <1>6 DEF CancelWrite
  <2>2. entries[g] \in Entries
    BY <1>1, <2>1 DEF QueueShape
  <2>3. sitting' = sitting
    <3>1. entries[g].status # "SEATED" => new.status # "SEATED"
      <4>1. "status" \in DOMAIN entries[g]
        BY <2>2 DEF Entries
      <4>2. new.status = IF "status" \in DOMAIN set THEN set.status ELSE entries[g].status
        BY <1>4, <4>1 DEF Patched
      <4>3. QED
        BY <2>1, <4>2
    <3>2. QED
      BY <1>5, <3>1
  <2>4. Continue(a, <<Recalculate>>)
    BY <1>2, <1>6, Tuples DEF DoEntry, Done
  <2>5. Recalculate.w = "recalculate"
    BY DEF Recalculate
  <2>6. QED
    BY <1>5, <2>3, <2>4, <2>5, PartyQueueGoes
<1>7. ASSUME NEW x \in Guests, NEW t \in Table \cap p.on, NEW m, SeatingEnds(p.op, m),
             p.todo = <<h, m>>, h = SaveSeated(x, t)
      PROVE  PartyInv'
  <2>1. g = x /\ set = [status |-> "SEATED", table |-> t, pos |-> 0]
    BY <1>4, <1>7 DEF SaveSeated, Seated
  <2>2. new.table = t
    <3>1. entries[g] \in Entries
      BY <1>1, <1>7, <2>1 DEF QueueShape
    <3>2. "table" \in DOMAIN entries[g]
      BY <3>1 DEF Entries
    <3>3. QED
      BY <1>4, <2>1, <3>2 DEF Patched
  <2>3. /\ \A u \in Table \ {t} : sitting'[u] = sitting[u]
        /\ sitting'[t] = sitting[t] \/ sitting'[t] = sitting[t] \cup {g}
    BY <1>1, <1>5, <2>2 DEF QueueShape
  <2>4. /\ m.w \in {"recalculate", "assign"} /\ h.set.table = t /\ p.op \in {"seatGroup", "auto"}
    BY <1>4, <1>7, <2>1 DEF SeatingEnds, Recalculate, AssignWrite, AssignNext
  <2>5. Seating(a, t)
    BY <1>2, <1>3, <2>4 DEF Seating
  <2>6. Continue(a, <<m>>) /\ Head(<<m>>) = m /\ Tail(<<m>>) = <<>> /\ <<m>> # <<>>
    BY <1>2, <1>7, Tuples DEF DoEntry, Done
  <2>7. PICK n : n = IF <<m>> = <<>> THEN Idle ELSE [op |-> p.op, on |-> p.on, todo |-> <<m>>]
    OBVIOUS
  <2>8. GoesOn(a, n) /\ Write(a)' = m /\ n.todo = <<m>>
    BY <1>2, <2>6, <2>7, Onward
  <2>9. \A k : StepOf(n, k) => k = m
    BY <2>6, <2>8 DEF StepOf
  <2>10. PlanOfTables(n)
    BY <2>4, <2>6, <2>8, <2>9 DEF PlanOfTables, TablePart
  <2>11. KnowsTables(a)'
    <3>1. req'[a] = n
      BY <2>8 DEF GoesOn
    <3>2. QED
      BY <2>4, <2>9, <3>1 DEF KnowsTables, KnowsTable
  <2>12. \A u \in Table : ~Seating(a, u)'
    BY <2>4, <2>8 DEF Seating
  <2>13. ASSUME NEW c \in Actor \ {a}, NEW u \in Table, Seating(c, u)' PROVE Seating(c, u)
    BY <2>8, <2>13 DEF Seating, GoesOn, Busy, Write
  <2>14. TakenInv'
    <3>1. SUFFICES ASSUME NEW c \in Actor, NEW u \in Table \ hist.disturbed, Seating(c, u)'
                   PROVE  /\ tables[u].status \in InUse /\ tables[u].session.id = 0 /\ sitting'[u] = {}
                          /\ \A b \in Actor \ {c} : ~Seating(b, u)'
      BY <1>5 DEF TakenInv
    <3>2. c # a /\ Seating(c, u)
      BY <2>12, <2>13, <3>1
    <3>3. /\ tables[u].status \in InUse /\ tables[u].session.id = 0 /\ sitting[u] = {}
          /\ \A b \in Actor \ {c} : ~Seating(b, u)
      BY <3>1, <3>2 DEF PartyInv, TakenInv
    <3>4. u # t
      BY <2>5, <3>2, <3>3
    <3>5. \A b \in Actor \ {c} : ~Seating(b, u)'
      BY <2>12, <2>13, <3>3
    <3>6. QED
      BY <2>3, <3>3, <3>4, <3>5
  <2>15. StatusesInv' /\ SessionsInUse'
    BY <1>5 DEF PartyInv, StatusesInv, SessionsInUse
  <2>16. OneParty'
    <3>1. SUFFICES ASSUME NEW u \in Table \ upset, sitting'[u] # {}
                   PROVE  /\ tables[u].status \in InUse /\ tables[u].session.id = 0
                          /\ \A i, j \in sitting'[u] : i = j
      BY <1>5 DEF OneParty
    <3>2. CASE u # t \/ sitting'[u] = sitting[u]
      BY <2>3, <3>1, <3>2 DEF PartyInv, OneParty
    <3>3. CASE u = t /\ sitting'[t] = sitting[t] \cup {g}
      <4>1. t \notin hist.disturbed
        BY <1>1, <3>1, <3>3 DEF QueueShape
      <4>2. tables[t].status \in InUse /\ tables[t].session.id = 0 /\ sitting[t] = {}
        BY <2>5, <4>1 DEF PartyInv, TakenInv
      <4>3. QED
        BY <3>3, <4>2
    <3>4. QED
      BY <2>3, <3>2, <3>3
  <2>17. QED
    BY <1>5, <2>8, <2>10, <2>11, <2>14, <2>15, <2>16, PartyMoves
<1>8. QED
  BY <1>2, <1>3, <1>6, <1>7, QueuePlanAt

\* The writes of the waitlist.
LEMMA PartyQueueWrites ==
  ASSUME QIInv, PartyInv, NEW a \in Actor, Busy(a), QueuePlan(req[a]), QueueWrites(a)
  PROVE  PartyInv'
<1>1. QueueShape /\ QueueClaims(a)
  BY DEF QIInv
<1>2. PICK p, h : p = req[a] /\ h = Write(a)
  OBVIOUS
<1>3. h = Head(p.todo)
  BY <1>2 DEF Write
<1>4. ASSUME NEW list, NEW n, NEW stored, Continue(a, Number(list, n, stored)),
             UNCHANGED <<tables, sitting, upset, hist>>
      PROVE  PartyInv'
  <2>1. PICK k, more : /\ k = [w |-> "number", left |-> list, n |-> n, stored |-> stored]
                       /\ more = Number(list, n, stored)
    OBVIOUS
  <2>2. more = <<>> \/ more = <<k>>
    BY <2>1 DEF Number
  <2>3. k.w = "number"
    BY <2>1
  <2>4. QED
    BY <1>4, <2>1, <2>2, <2>3, PartyQueueGoes
<1>5. ASSUME NEW queue, ListOfEntries(queue), NEW pool, pool \subseteq Table, p.op = "auto",
             Alone(a) => pool = FreeTables,
             NEW end \in {<<>>, <<Recalculate>>}, Continue(a, Assign(queue, pool, end)),
             UNCHANGED <<tables, sitting, upset, hist>>
      PROVE  PartyInv'
  <2>1. PICK more : more = Assign(queue, pool, end)
    OBVIOUS
  <2>2. CASE more = end
    <3>1. Recalculate.w = "recalculate"
      BY DEF Recalculate
    <3>2. QED
      BY <1>5, <2>1, <2>2, <3>1, PartyQueueGoes
  <2>3. ASSUME NEW g, NEW t \in pool, NEW m, Turn(queue, pool, more, g, t, m)
        PROVE  PartyInv'
    <3>1. more = <<SetTable(t, "OCCUPIED"), SaveSeated(g, t), m>>
      BY <2>3 DEF Turn
    <3>2. Alone(a) => tables[t].status = "AVAILABLE"
      BY <1>5, <2>3 DEF FreeTables
    <3>3. QED
      BY <1>2, <1>5, <2>1, <3>1, <3>2, PartyQueueGoes
  <2>4. \/ more = end
        \/ \E g \in DOMAIN queue, t \in pool : \E m : Turn(queue, pool, more, g, t, m)
    BY <1>1, <1>5, <2>1, AssignTurn
  <2>5. QED
    BY <2>2, <2>3, <2>4
<1>6. CASE DoJoin(a)
  <2>1. PICK k : p.todo = <<k>>
    BY <1>2, <1>3, <1>6, QueuePlanAt DEF DoJoin, Next1, Write
  <2>2. Continue(a, <<>>) /\ UNCHANGED <<tables, sitting, upset, hist>>
    BY <1>2, <1>6, <2>1, Tuples DEF DoJoin, Done, Floor
  <2>3. QED
    BY <2>2, PartyQueueGoes
<1>7. CASE DoEntry(a)
  BY <1>7, PartySits
<1>8. CASE DoSeat(a)
  <2>1. h.w = "seat" /\ p.op = "seatGroup"
    BY <1>2, <1>3, <1>8, QueuePlanAt DEF DoSeat, Next1, Write
  <2>2. PICK g, t, more :
          /\ g = h.g /\ t = h.t /\ more = <<SetTable(t, "OCCUPIED"), SaveSeated(g, t), Recalculate>>
    OBVIOUS
  <2>3. UNCHANGED <<tables, sitting, upset, hist>>
    BY <1>8 DEF DoSeat, Floor
  <2>4. Continue(a, <<>>) \/ (tables[t].status = "AVAILABLE" /\ Continue(a, more))
    BY <1>2, <1>8, <2>2 DEF DoSeat
  <2>5. CASE Continue(a, <<>>)
    BY <2>3, <2>5, PartyQueueGoes
  <2>6. CASE tables[t].status = "AVAILABLE" /\ Continue(a, more)
    BY <1>2, <2>1, <2>2, <2>3, <2>6, PartyQueueGoes
  <2>7. QED
    BY <2>4, <2>5, <2>6
<1>9. CASE DoRecalculate(a)
  BY <1>4, <1>9 DEF DoRecalculate, Floor
<1>10. CASE DoNumber(a)
  BY <1>4, <1>10 DEF DoNumber, Floor
<1>11. CASE DoPool(a)
  <2>1. PICK list : h = AssignPool(list) /\ ListOfEntries(list) /\ p.op = "auto"
    BY <1>2, <1>3, <1>11, QueuePlanAt DEF DoPool, Next1, Write
  <2>2. h.queue = list /\ FreeTables \subseteq Table
    BY <2>1 DEF AssignPool, FreeTables
  <2>3. Continue(a, Assign(list, FreeTables, <<>>)) /\ UNCHANGED <<tables, sitting, upset, hist>>
    BY <1>2, <1>11, <2>2 DEF DoPool, FreeTables, Floor
  <2>4. QED
    BY <1>5, <2>1, <2>2, <2>3
<1>12. CASE DoAssign(a)
  <2>1. AssignWrite(h) /\ p.op = "auto" /\ h.w = "assign"
    BY <1>2, <1>3, <1>12, QueuePlanAt DEF DoAssign, Next1, Write
  <2>2. ListOfEntries(h.queue) /\ h.pool \subseteq Table
    BY <2>1 DEF AssignWrite
  <2>3. Alone(a) => h.pool = FreeTables
    BY <1>1, <1>2, <2>1 DEF QueueClaims, AutoClaim
  <2>4. /\ Continue(a, Assign(h.queue, h.pool, <<Recalculate>>))
        /\ UNCHANGED <<tables, sitting, upset, hist>>
    BY <1>2, <1>12 DEF DoAssign, Floor
  <2>5. QED
    BY <1>5, <2>1, <2>2, <2>3, <2>4
<1>13. QED
  BY <1>6, <1>7, <1>8, <1>9, <1>10, <1>11, <1>12 DEF QueueWrites

-----------------------------------------------------------------------------
(* The theorem about the parties.                                           *)

LEMMA InitPartyInv == QueueInit => PartyInv
<1> SUFFICES ASSUME QueueInit PROVE PartyInv
  OBVIOUS
<1>1. /\ \A a \in Actor : ~Busy(a)
      /\ \A t \in Table : /\ tables[t] = [status |-> "AVAILABLE", active |-> TRUE, session |-> NoSession]
                          /\ sitting[t] = {}
  BY DEF QueueInit, Init, Busy
<1>2. \A t \in Table : tables[t].status = "AVAILABLE" /\ tables[t].session.id = 0
  BY <1>1 DEF NoSession
<1>3. PlansOfTables /\ TakenInv /\ \A a \in Actor : KnowsTables(a)
  BY <1>1 DEF PlansOfTables, TakenInv, Seating, KnowsTables, Alone
<1>4. StatusesInv /\ SessionsInUse /\ OneParty
  BY <1>1, <1>2 DEF StatusesInv, SessionsInUse, OneParty, TableStatus
<1>5. QED
  BY <1>3, <1>4 DEF PartyInv

\* A step of the floor.
LEMMA FloorPartyInv ==
  ASSUME QIInv, PartyInv, FloorStep
  PROVE  PartyInv'
<1>1. Next
  BY DEF FloorStep
<1>2. ASSUME NEW a \in Actor, Writes(a) PROVE PartyInv'
  <2>1. Busy(a)
    BY <1>2 DEF Writes, DoInsert, DoTable, DoBook, DoOrder, OrderRefused, DoClose, DoReserve,
                DoRelease, DoFree, Next1, Busy
  <2>2. CASE FloorPlan(req[a])
    BY <1>2, <2>1, <2>2, PartyFloorWrites
  <2>3. CASE QueuePlan(req[a])
    <3>1. Write(a).w \notin {"insert", "book", "order", "close", "reserve", "release", "free"}
      BY <2>3, QueuePlanAt DEF Write
    <3>2. DoTable(a)
      BY <1>2, <3>1 DEF Writes, DoInsert, DoBook, DoOrder, OrderRefused, DoClose, DoReserve,
                        DoRelease, DoFree, Next1, Write
    <3>3. QED
      BY <2>1, <2>3, <3>2, PartyOccupies
  <2>4. QED
    BY <2>1, <2>2, <2>3, Shape DEF QIInv
<1>3. ASSUME NEW a \in Actor, Dies(a) PROVE PartyInv'
  <2>1. GoesOn(a, Idle) /\ UNCHANGED <<tables, hist>>
    BY <1>3 DEF QIInv, QueueRequestsInv, Dies, GoesOn, floorVars
  <2>2. UNCHANGED <<sitting, upset>>
    BY <2>1, FloorCalm DEF QIInv
  <2>3. ~Busy(a)'
    BY <2>1 DEF GoesOn, Busy
  <2>4. KnowsTables(a)' /\ \A t \in Table : ~Seating(a, t)'
    BY <2>3 DEF KnowsTables, Alone, Seating
  <2>5. QED
    BY <2>1, <2>2, <2>4, PartyQuiet
<1>4. CASE UNCHANGED <<tables, req, hist.crossed, hist.disturbed>>
  <2>1. UNCHANGED <<sitting, upset>>
    BY <1>4, FloorCalm DEF QIInv
  <2>2. QED
    BY <1>4, <2>1, PartyRests
<1>5. ASSUME NEW o \in Order, ForceStatus(o) PROVE PartyInv'
  BY <1>4, <1>5, Reopened DEF QIInv
<1>6. QED
  BY <1>1, <1>2, <1>3, <1>4, <1>5, PartyTableBegins, PartyBookBegins, PartyHoldBegins
     DEF Next, GuestPays, LockEnds, KitchenFinishes

LEMMA NextPartyInv == QIInv /\ PartyInv /\ [QueueNext]_allVars => PartyInv'
<1> SUFFICES ASSUME QIInv, PartyInv, [QueueNext]_allVars PROVE PartyInv'
  OBVIOUS
<1>1. ASSUME NEW a \in Actor, QueueWrites(a) PROVE PartyInv'
  <2>1. Busy(a) /\ Write(a).w \in {"join", "entry", "seat", "recalculate", "number", "pool", "assign"}
    BY <1>1 DEF QueueWrites, DoJoin, DoEntry, DoSeat, DoRecalculate, DoNumber, DoPool, DoAssign,
                Next1, Busy, Write
  <2>2. ~FloorPlan(req[a])
    BY <2>1, FloorHead DEF FloorWrites
  <2>3. QueuePlan(req[a])
    BY <2>1, <2>2, Shape DEF QIInv
  <2>4. QED
    BY <1>1, <2>1, <2>3, PartyQueueWrites
<1>2. CASE UNCHANGED allVars
  <2>1. UNCHANGED <<tables, req, hist, sitting, upset>>
    BY <1>2 DEF allVars, vars, queueVars
  <2>2. QED
    BY <2>1, PartyRests
<1>3. QED
  BY <1>1, <1>2, FloorPartyInv, PartyQueueBegins DEF QueueNext

\* A table has one party at a time, from the waitlist or by a session, unless
\* overlapping requests saved it since it was last free.
THEOREM OnePartyAtATable == QueueSpec => []OnePartyPerTable
<1>1. QueueInit => PartyInv
  BY InitPartyInv
<1>2. QIInv /\ PartyInv /\ [QueueNext]_allVars => PartyInv'
  BY NextPartyInv
<1>3. PartyInv => OnePartyPerTable
  BY DEF PartyInv, OneParty, OnePartyPerTable
<1>4. QED
  BY <1>1, <1>2, <1>3, QueueInvariant, PTL DEF QueueSpec
=============================================================================
