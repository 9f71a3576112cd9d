--------------------------- MODULE ConsoleTables ---------------------------
(* The tables of the interface and of the screens, joined by call.          *)
EXTENDS ApiStay, ApiFood, ApiHouse, ScreensStay, ScreensFood, ScreensHouse, SequencesExt

Routes == StayRoutes \cup FoodRoutes \cup HouseRoutes
Controllers == StayControllers \cup FoodControllers \cup HouseControllers
Operations == StayOperations \cup FoodOperations \cup HouseOperations
Lives == StayLives \cup FoodLives \cup HouseLives
Screens == StayScreens \cup FoodScreens \cup HouseScreens

-----------------------------------------------------------------------------
NoQuery == Part("ask", <<"nothing">>, "none")
Asking == {"ask", "poll", "byHand", "load"}

QueriesOn(page) ==
    LET q == {p \in page.parts : p.do \in Asking} IN IF q = {} THEN {NoQuery} ELSE q

Routed == {r.call : r \in Routes}
Called == {p.call : p \in {q \in UNION {s.parts : s \in Screens} : q.do # "hear"}}
Calls == Routed \cup Called \cup {"none"}

\* By call: who may make it, what its handler does.
Admitted == [c \in Calls |-> UNION {r.by : r \in {x \in Routes : x.call = c}}]
HandledBy == [c \in Calls |->
    {h \in Controllers : \E r \in Routes : r.call = c /\ r.runs = h.runs}]
Does == [c \in Calls |-> UNION {h.does : h \in HandledBy[c]}]
OpsOf == [c \in Calls |-> {o \in Operations : o.op \in Does[c]}]

ReadBy == [c \in Calls |-> UNION {o.reads : o \in OpsOf[c]}]
WrittenBy == [c \in Calls |-> UNION {o.writes : o \in OpsOf[c]}]
ToldBy == [c \in Calls |-> UNION {o.tells : o \in OpsOf[c]}]

\* Calls whose handler leaves the request open when it throws.
Unanswering == {c \in Calls : \E h \in HandledBy[c] : ~h.caught}

\* The operations that outdate what a call read.
WritersOf == [c \in Calls |-> {o \in Operations : o.writes \cap ReadBy[c] # {}}]

NoLife == "any"
StatusesOf(of) ==
    IF of = NoLife THEN {"any"}
    ELSE UNION ({l.from : l \in {x \in Lives : x.of = of}}
                \cup {{l.to} \ {"same", "asked"} : l \in {x \in Lives : x.of = of}})

\* The collections whose statuses a button is about.
LivesAt(p) == {l.of : l \in {x \in Lives : x.op \in Does[p.call]}}

\* The collections that a query shows and whose statuses matter to a button
\* of the screen.
LifesShown(page, q) ==
    LET c == UNION {LivesAt(p) : p \in {x \in page.parts : x.do = "act"}} \cap ReadBy[q.call]
    IN IF c = {} THEN {NoLife} ELSE c

\* What a role finds on a screen.
PartsAt == [at \in {s.at : s \in Screens} |->
    [role \in Everyone |->
        UNION {s.parts : s \in {x \in Screens : x.at = at /\ role \in x.opens}}]]

\* The rooms of the server's sockets that a connection of this role joins.
SocketRoomsOf(role) ==
    {"all"} \cup
    CASE role = Nobody -> {}
      [] role = "SUPER_ADMIN" -> {"user", "admins"}
      [] role = "KITCHEN_OWNER" -> {"user", "kitchen"}
      [] role = "VALET_MANAGER" -> {"user", "valets"}
      [] OTHER -> {"user"}

\* Roles that find the same on a screen, may make the same of its calls and
\* hear the same: one of them stands for all.
Means(at, role) ==
    [parts |-> PartsAt[at][role],
     may |-> {p.call : p \in {x \in PartsAt[at][role] : x.do # "hear" /\ role \in Admitted[x.call]}},
     hears |-> IF \E p \in PartsAt[at][role] : p.do = "hear" THEN SocketRoomsOf(role) ELSE {}]
Representatives(s) ==
    {CHOOSE r \in s.opens : Means(s.at, r) = m : m \in {Means(s.at, r) : r \in s.opens}}

Places ==
    UNION {UNION {{[at |-> s.at, role |-> r, query |-> q, of |-> c] :
                     r \in Representatives(s), c \in LifesShown(s, q)} : q \in QueriesOn(s)} :
           s \in Screens}

-----------------------------------------------------------------------------
(* What the tables say of a place: a screen, a role, a query, a collection. *)

PartsOf(place) == PartsAt[place.at][place.role]
ButtonsOf(place) == {p \in PartsOf(place) : p.do = "act"}

\* Whether the renewal of these keys reaches the query.
RenewsAt(place, keys) == \E k \in keys : IsPrefix(k, place.query.key)
OutdatesAt(place, call) == WrittenBy[call] \cap ReadBy[place.query.call] # {}

GrantedAt(place, call) == call \in Routed /\ place.role \in Admitted[call]

\* What the screen listens for and no operation sends to this user.
AwaitedAt(place) ==
    {p \in PartsOf(place) :
       p.do = "hear" /\ ~\E op \in Operations : \E t \in op.tells :
         t.event = p.call /\ t.to \in SocketRoomsOf(place.role)}

\* Whether a button is offered by the status that the query shows.
ShownBy(place, p) == place.of \in LivesAt(p) /\ p.when \cap StatusesOf(place.of) # {}

\* The statuses that `op' may leave a record of `of' in when it finds it in
\* `status' and is asked for `to'; none when it does not accept the status.
LivesOf(of, op) == {l \in Lives : l.of = of /\ l.op = op}
EndsFrom(of, op, status, to) ==
    IF LivesOf(of, op) = {} THEN {status}
    ELSE UNION {CASE l.to = "same" -> {status}
                  [] l.to = "asked" -> {IF to = "same" THEN status ELSE to}
                  [] OTHER -> IF to \in {"same", l.to} THEN {l.to} ELSE {} :
                l \in {x \in LivesOf(of, op) : status \in x.from}}
AcceptedIn(of, call, status, to) == \A op \in Does[call] : EndsFrom(of, op, status, to) # {}
=============================================================================
