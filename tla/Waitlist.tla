------------------------------ MODULE Waitlist ------------------------------
(***************************************************************************)
(* The waitlist of the restaurant, modules/restaurant/waitlist.service.ts, *)
(* together with the tables it seats its groups at.                        *)
(*                                                                         *)
(* Positions are stored in the entries and renumbered by saving one entry  *)
(* after the other; every request reads the queue as it finds it.          *)
(***************************************************************************)
EXTENDS Dining

CONSTANTS Group, Size,  \* the groups that may join, and how many they are
          Queue         \* the waitlist as a whole, for requests that overlap

Entries == [status : {"PENDING", "SEATED", "CANCELLED"}, pos : Nat,
            table : Table \cup {Free}, at : Nat]

ASSUME WaitlistAssumption ==
    /\ \A g \in Group : Size[g] \in Nat \ {0}
    /\ Free \notin Entries

VARIABLES
    entries,  \* the waitlist: Free, or status, position, assigned table, arrival
    arrivals, \* groups that joined: the order of createdAt
    sitting,  \* history: groups seated at a table since it was last free
    upset,    \* history: tables saved by overlapping requests since then
    tangled   \* history: positions were saved by overlapping or dying requests
queueVars == <<entries, arrivals, sitting, upset, tangled>>
allVars == <<vars, queueVars>>

Guests == {g \in Group : entries[g] # Free}
Waiting == {g \in Guests : entries[g].status = "PENDING"}

\* The waiting groups that came before g, and the place checkWaitlistStatus
\* tells g.
Ahead(g) == {h \in Waiting : entries[h].at < entries[g].at}
LivePosition(g) == Cardinality(Ahead(g)) + 1

-----------------------------------------------------------------------------
(* Lists of entries as a request read them.                                 *)

Pending == [g \in Waiting |-> entries[g]]
After(list, g) == [h \in DOMAIN list \ {g} |-> list[h]]

\* The first of a list by arrival, and by stored position, then by arrival.
ByArrival(list) ==
    CHOOSE g \in DOMAIN list : \A h \in DOMAIN list \ {g} : list[g].at < list[h].at
ByPosition(list) ==
    CHOOSE g \in DOMAIN list : \A h \in DOMAIN list \ {g} :
        \/ list[g].pos < list[h].pos
        \/ list[g].pos = list[h].pos /\ list[g].at < list[h].at

-----------------------------------------------------------------------------
(* Writes of the waitlist.                                                  *)

JoinAt(pos) == [w |-> "join", pos |-> pos]
SaveEntry(g, to) == [w |-> "entry", g |-> g, set |-> Changes(entries[g], to)]
Seated(t) == [status |-> "SEATED", table |-> t, pos |-> 0]
SaveSeated(g, t) == [w |-> "entry", g |-> g, set |-> Seated(t)]
SeatIfFree(g, t) == [w |-> "seat", g |-> g, t |-> t]
Recalculate == [w |-> "recalculate"]
AssignPool(queue) == [w |-> "pool", queue |-> queue]
AssignNext(queue, pool) == [w |-> "assign", queue |-> queue, pool |-> pool]

\* The loop that saves position n, n + 1, ... in the entries of a list, by
\* stored position or else by arrival.
Number(list, n, stored) ==
    IF DOMAIN list = {} THEN <<>>
    ELSE <<[w |-> "number", left |-> list, n |-> n, stored |-> stored]>>

\* Mutants: the biggest party comes first; only the first of the queue is seated.
BiggestFirst(queue) == CHOOSE g \in DOMAIN queue : \A h \in DOMAIN queue : Size[g] >= Size[h]
FirstOnly(queue, g) == [h \in {} |-> queue[h]]

NextInTurn(queue) == ByArrival(queue)

Later(queue, g) ==
    [h \in {k \in DOMAIN queue : queue[k].at > queue[g].at} |-> queue[h]]

\* The loop that seats the groups of a queue in turn, each at the smallest table
\* of the pool that fits; `end' is left when there is none for any of them.
Assign(queue, pool, end) ==
    LET fitting(g) == {t \in pool : Capacity[t] >= Size[g]}
        lucky == {g \in DOMAIN queue : fitting(g) # {}}
        g == NextInTurn([h \in lucky |-> queue[h]])
        t == Smallest(fitting(g))
    IN  IF lucky = {} THEN end
        ELSE <<SetTable(t, "OCCUPIED"), SaveSeated(g, t),
               AssignNext(Later(queue, g), pool \ {t})>>

-----------------------------------------------------------------------------
(* The handlers.                                                            *)

Ask(a, op, on, todo) == Begin(a, op, on, todo) /\ UNCHANGED <<floorVars, queueVars>>

\* joinWaitlist: the position is one more than the groups counted.
JoinWaitlist(a) == Ask(a, "join", {Queue}, <<JoinAt(Cardinality(Waiting) + 1)>>)

\* listWaitlist renumbers what it lists.
ListWaitlist(a) == Ask(a, "list", {Queue}, Number(Pending, 1, TRUE))

SeatWaitlistGuest(a, g, t) ==
    /\ g \in Waiting
    /\ Ask(a, "seatGroup", {Queue, t}, <<SeatIfFree(g, t)>>)

\* cancelWaitlistEntry: an entry of any status.
CancelWaitlistEntry(a, g) ==
    /\ entries[g] # Free
    /\ Ask(a, "cancelEntry", {Queue},
           <<SaveEntry(g, [entries[g] EXCEPT !.status = "CANCELLED", !.pos = 0]),
             Recalculate>>)

AutoAssignTables(a) == Ask(a, "auto", {Queue} \cup Table, <<AssignPool(Pending)>>)

-----------------------------------------------------------------------------
(* Their writes.                                                            *)

Crossed(a) == a \in hist.crossed
Floor == <<tables, books, locked, orders, hist, upset>>

DoJoin(a) ==
    /\ Next1(a, "join")
    /\ \E g \in Group :
         /\ entries[g] = Free
         /\ entries' = [entries EXCEPT ![g] =
              [status |-> "PENDING", pos |-> Write(a).pos, table |-> Free, at |-> arrivals + 1]]
    /\ arrivals' = arrivals + 1
    /\ tangled' = (tangled \/ Crossed(a))
    /\ Done(a)
    /\ UNCHANGED <<Floor, sitting>>

DoEntry(a) ==
    /\ Next1(a, "entry")
    /\ LET g == Write(a).g
           new == Patched(entries[g], Write(a).set)
       IN  /\ entries' = [entries EXCEPT ![g] = new]
           /\ sitting' = IF entries[g].status # "SEATED" /\ new.status = "SEATED"
                         THEN [sitting EXCEPT ![new.table] = @ \cup {g}] ELSE sitting
    /\ tangled' = (tangled \/ Crossed(a))
    /\ Done(a)
    /\ UNCHANGED <<Floor, arrivals>>

\* Mutant: any table that is not closed will do.
DoSeatAnywhere(a) ==
    /\ Next1(a, "seat")
    /\ LET w == Write(a)
       IN  Continue(a, <<SetTable(w.t, "OCCUPIED"), SaveSeated(w.g, w.t), Recalculate>>)
    /\ UNCHANGED <<Floor, entries, arrivals, sitting, tangled>>

\* seatWaitlistGuest: no session is opened at the table.
DoSeat(a) ==
    /\ Next1(a, "seat")
    /\ LET w == Write(a)
       IN  Continue(a, IF tables[w.t].status # "AVAILABLE" THEN <<>>
                       ELSE <<SetTable(w.t, "OCCUPIED"), SaveSeated(w.g, w.t), Recalculate>>)
    /\ UNCHANGED <<Floor, entries, arrivals, sitting, tangled>>

\* Mutant: the list as it was numbered last.
DoRecalculateStored(a) ==
    /\ Next1(a, "recalculate")
    /\ Continue(a, Number(Pending, 1, TRUE))
    /\ tangled' = (tangled /\ Crossed(a))
    /\ UNCHANGED <<Floor, entries, arrivals, sitting>>

\* recalculateQueuePositions.
DoRecalculate(a) ==
    /\ Next1(a, "recalculate")
    /\ Continue(a, Number(Pending, 1, FALSE))
    /\ tangled' = (tangled /\ Crossed(a))
    /\ UNCHANGED <<Floor, entries, arrivals, sitting>>

\* A save writes the position only if it is not the one that was read.
DoNumber(a) ==
    /\ Next1(a, "number")
    /\ LET w == Write(a)
           g == IF w.stored THEN ByPosition(w.left) ELSE ByArrival(w.left)
           set == Changes(w.left[g], [w.left[g] EXCEPT !.pos = w.n])
       IN  /\ entries' = [entries EXCEPT ![g] = Patched(entries[g], set)]
           /\ Continue(a, Number(After(w.left, g), w.n + 1, w.stored))
    /\ tangled' = (tangled \/ Crossed(a))
    /\ UNCHANGED <<Floor, arrivals, sitting>>

\* autoAssignTables reads the free tables once, whether active or not.
DoPool(a) ==
    /\ Next1(a, "pool")
    /\ Continue(a, Assign(Write(a).queue, {t \in Table : tables[t].status = "AVAILABLE"}, <<>>))
    /\ UNCHANGED <<Floor, entries, arrivals, sitting, tangled>>

\* The next turn of its loop.
DoAssign(a) ==
    /\ Next1(a, "assign")
    /\ Continue(a, Assign(Write(a).queue, Write(a).pool, <<Recalculate>>))
    /\ UNCHANGED <<Floor, entries, arrivals, sitting, tangled>>

-----------------------------------------------------------------------------
\* The tables that become free or cease to be.
Turned == {t \in Table : /\ tables'[t].status # tables[t].status
                         /\ "AVAILABLE" \in {tables[t].status, tables'[t].status}}

\* A step of the floor: a table that was or becomes free has nobody at it.
FloorStep ==
    /\ Next
    /\ sitting' = [t \in Table |-> IF t \in Turned THEN {} ELSE sitting[t]]
    /\ upset' = hist'.disturbed \cup (upset \ Turned)
    /\ tangled' = (tangled \/ faults' # faults)
    /\ UNCHANGED <<entries, arrivals>>

QueueRequests(a) ==
    \/ JoinWaitlist(a)
    \/ \E g \in Group : \/ CancelWaitlistEntry(a, g)
                        \/ \E t \in Table : SeatWaitlistGuest(a, g, t)
    \/ ListWaitlist(a)
    \/ AutoAssignTables(a)

QueueWrites(a) == DoJoin(a) \/ DoEntry(a) \/ DoSeat(a) \/ DoRecalculate(a) \/ DoNumber(a)
                  \/ DoPool(a) \/ DoAssign(a)

QueueInit == /\ Init
             /\ entries = [g \in Group |-> Free]
             /\ arrivals = 0
             /\ sitting = [t \in Table |-> {}]
             /\ upset = {}
             /\ tangled = FALSE

QueueNext == FloorStep \/ \E a \in Actor : QueueRequests(a) \/ QueueWrites(a)

QueueSpec == QueueInit /\ [][QueueNext]_allVars

-----------------------------------------------------------------------------
(* Properties.                                                              *)

\* Every entry has the shape its schema gives it.
QueueTypeOK ==
    /\ \A g \in Guests : /\ entries[g] \in Entries
                         /\ entries[g].pos \in 0..arrivals /\ entries[g].at \in 1..arrivals
    /\ sitting \in [Table -> SUBSET Guests]

\* The stored position of every waiting group is the one checkWaitlistStatus
\* works out whenever no request is at work, unless requests overlapped or died
\* since the last renumbering: what the staff see is what the guests are told.
PositionsInOrder ==
    (~tangled /\ \A a \in Actor : Queue \notin req[a].on) =>
        \A g \in Waiting : entries[g].pos = LivePosition(g)

\* A table has one party at a time, from the waitlist or by a session, unless
\* overlapping requests saved it since it was last free.
OnePartyPerTable ==
    \A t \in Table \ upset :
        /\ \A g, h \in sitting[t] : g = h
        /\ tables[t].session.id = 0 \/ sitting[t] = {}

\* The automatic assignment passes a waiting group over only if the table was
\* too small for it.
NoQueueJumping ==
    [][\A a \in Actor, g \in Group :
         /\ req[a].op = "auto" /\ ~Crossed(a) /\ Next1(a, "entry") /\ Write(a).g = g
         /\ g \in Waiting /\ g \notin Waiting'
         => \A h \in Ahead(g) : Size[h] > Capacity[entries'[g].table]]_allVars

\* When it has seated its groups, nobody waits for a free table that would do.
NobodyWaitsInVain ==
    \A a \in Actor :
        req[a].op = "auto" /\ ~Crossed(a) /\ Next1(a, "recalculate") =>
            \A g \in Waiting, t \in Table :
                tables[t].status = "AVAILABLE" => Capacity[t] < Size[g]

\* The queue has the shape of its schema and tells the guests their place.
QueueInv == QueueTypeOK /\ PositionsInOrder
=============================================================================
