------------------------------ MODULE Console ------------------------------
(***************************************************************************)
(* What a user of the web application sees of the server's data.           *)
(*                                                                         *)
(* One screen of the application, held open by one user, shows the result  *)
(* of one of its queries while the user presses its buttons, other users   *)
(* change the same collections, the socket announces some changes, and     *)
(* answers are slow, lost or refused.  The screens, routes, controllers    *)
(* and services are tables of the modules below; every behaviour fixes a   *)
(* screen, a role that may open it and a query, so that checking all       *)
(* initial states checks every screen against the whole interface.         *)
(*                                                                         *)
(* The query cache is @tanstack/react-query as providers.tsx sets it up:   *)
(* an invalidation restarts a fetch in flight unless nothing is shown yet  *)
(* or nobody watches, the reply of a fetch clears the mark, and a screen   *)
(* that is opened again within staleTime shows the cached data as it is.   *)
(***************************************************************************)
EXTENDS ConsoleTables, Naturals, Sequences, FiniteSets

CONSTANTS MaxTrouble    \* bounds a behaviour: a change costs 2, a mishap 1

VARIABLES
    place,     \* the screen, the role, the watched query and the record's collection
    past,      \* the record's status in each of its versions
    seen,      \* the version on display; 0: nothing yet
    late,      \* the display is from a fetch that was overtaken, or was patched when outdated
    invalid,   \* the query is marked invalidated
    old,       \* the data is older than staleTime
    mounted,   \* the screen is open
    fetch,     \* fetches in flight
    press,     \* the press that is under way
    told,      \* the version the user's last answered change made, if it shows here
    wire,      \* announcements on their way to this client: [version, copies]
    socket,    \* "joined" | "stranger": connected without a valid token | "down"
    mishaps    \* fetches that failed, connections that dropped, times the screen was left

vars == <<place, past, seen, late, invalid, old, mounted, fetch, press, told, wire, socket, mishaps>>
server == <<past, wire>>
cache == <<seen, late, invalid, old, fetch>>

-----------------------------------------------------------------------------
(* Reading the tables.                                                      *)

Query == place.query
Parts == PartsOf(place)
Buttons == ButtonsOf(place)
Cached == Query.do # "load"

\* The rooms of the server's sockets this client's connection is in.
SocketRooms == IF socket = "joined" THEN SocketRoomsOf(place.role) ELSE SocketRoomsOf(Nobody)

Renews(keys) == RenewsAt(place, keys)

\* The listeners of the screen that one of these events reaches and that
\* renew the query or copy the event into it.
Listeners(tells) ==
    {p \in Parts :
       /\ p.do = "hear" /\ Renews(p.renews)
       /\ \E t \in tells : p.call = t.event /\ t.to \in SocketRooms}

\* Whether anything that is announced can reach the query.
Hearing == \E p \in Parts : p.do = "hear" /\ Renews(p.renews)

Granted(call) == GrantedAt(place, call)

Version == Len(past)
Status == past[Version]

\* Whether the bound allows this much more; a press may still cost a change.
Affordable(cost) ==
    2 * (Version - 1) + mishaps + (IF press.at = "sent" THEN 2 ELSE 0) + cost <= MaxTrouble

Outdates(call) == OutdatesAt(place, call)

\* These queries and these calls that outdate them.
Pairs(keys, calls) == keys \X calls

QrCalls == {"PATCH /rooms/:id/qr/disable", "POST /rooms/:id/qr/generate",
            "POST /rooms/:id/qr/reassign"}
RoomCalls == {"PATCH /rooms/:id/activate", "PATCH /rooms/:id/deactivate",
              "PATCH /rooms/:id/status", "POST /rooms"}
Gateway == "POST /rooms/bookings/:id/razorpay"
Verify == "POST /rooms/bookings/:id/verify"
Moves == {"POST /rooms/bookings/:id/transfer",
          "POST /rooms/bookings/:id/transfer/confirm-payment"}
CancelMove == "POST /rooms/bookings/:id/transfer/cancel"
RepayMove == "POST /rooms/bookings/:id/transfer/refund-processed"
Reseats == {"PATCH /restaurant/waitlist/:id/seat", "POST /restaurant/waitlist/auto-assign"}

\* The press shows on the query's screen and the button renews the query under
\* no key or, for the floor plan, under a mistyped one: the screen goes on
\* showing what was true before, until a poll, an event or a new visit.
Forgotten ==
    \* The number of a room, the name of a hall or of a valet, in another list.
    Pairs({"admin-room-bookings", "booking-invoice", "booking-transfer-options"},
          {"PATCH /rooms/:id"})
    \cup Pairs({"banquet-bookings"}, {"PATCH /banquets/halls/:id"})
    \cup Pairs({"active-valet-managers"},
               {"POST /valet/admin/managers", "PATCH /valet/admin/managers/:id"})
    \* The gateway's checkout: the way of paying, and the payment, which the
    \* dialog records, and so renews, with a second call that may fail.
    \cup Pairs({"admin-room-bookings"}, {Gateway, Verify})
    \cup Pairs({"order"}, {"POST /payments/orders/:orderId/razorpay"})
    \cup Pairs({"guest-order"}, {"POST /payments/guest/razorpay"})
    \* The dialogs of a booking and what follows from its status elsewhere.
    \cup Pairs({"booking-invoice"}, Moves \cup {Verify, "PATCH /rooms/bookings/:id/payment"})
    \cup Pairs({"booking-transfer-options"},
               RoomCalls \cup Moves \cup {CancelMove, Verify, "PATCH /rooms/bookings/:id/status"})
    \cup Pairs({"service-eligibility"}, {"POST /rooms/bookings/:id/cancel"})
    \* The tables: the floor plan, the bill, the day's reservations.
    \cup Pairs({"restaurant-tables"}, Reseats)
    \cup Pairs({"table-bill"},
               {"PATCH /restaurant/waitlist/:id/seat", "POST /restaurant/tables/:id/seat",
                "POST /restaurant/tables/:id/request-bill", "POST /restaurant/tables/:id/close"})
    \cup Pairs({"restaurant-reservations-today"},
               {"POST /restaurant/tables/:id/seat", "POST /restaurant/tables/:id/close"})
    \cup Pairs({"tables"}, {"POST /restaurant/reservations", "POST /restaurant/reservations/:id/verify"})
    \cup Pairs({"guest-waitlist-status"}, {"POST /restaurant/waitlist"})
    \* The valets' counts of slots and history.
    \cup Pairs({"valet-admin-stats"}, {"POST /valet/admin/slots", "DELETE /valet/admin/slots/:id"})
    \cup Pairs({"valet-history"}, {"PATCH /valet/vehicles/:id/status"})

\* The press writes a collection that the query reads, but nothing that its
\* screen shows of it: a record that the query leaves out or has no field of,
\* a deletion that is refused where the record is named, a code that is part
\* of the query's key.
Untouched ==
    Pairs({"admin-room-bookings", "booking-invoice"}, RoomCalls \cup QrCalls)
    \cup Pairs({"booking-invoice"}, {CancelMove, RepayMove, Gateway, "PATCH /rooms/bookings/:id/status"})
    \cup Pairs({"booking-transfer-options"},
               QrCalls \cup {RepayMove, Gateway, "PATCH /rooms/bookings/:id/payment"})
    \cup Pairs({"qr-preview"},
               RoomCalls \cup QrCalls \cup Moves
               \cup {"PATCH /rooms/:id", CancelMove, "PATCH /rooms/bookings/:id/status"})
    \cup Pairs({"my-service-tickets"}, {"POST /rooms/bookings/:id/cancel"})
    \cup Pairs({"banquet-bookings"}, {"POST /banquets/halls", "DELETE /banquets/halls/:id"})
    \cup Pairs({"staff-members"}, {"POST /staff/roles", "DELETE /staff/roles/:id"})
    \cup Pairs({"admin-kitchens"}, {"POST /staff", "PATCH /staff/:id"})
    \cup Pairs({"refund-orders-history", "kitchen-refund-history"},
               {"POST /orders/:id/refund-request", "POST /orders/:id/refund-reject"})
    \cup Pairs({"table-bill", "restaurant-reservations-today"},
               {"POST /restaurant/tables", "POST /restaurant/tables/:id/qr",
                "POST /restaurant/waitlist/auto-assign"})
    \cup Pairs({"restaurant-reservations-today"},
               {"PATCH /restaurant/waitlist/:id/seat", "POST /restaurant/tables/:id/request-bill"})
    \cup Pairs({"restaurant-tables-all"}, {"PATCH /restaurant/reservations/:id"})
    \cup Pairs({"tables"}, {"POST /restaurant/reservations/:id/razorpay"})
    \cup Pairs({"valet-admin-stats", "valet-managers", "active-valet-managers"},
               {"POST /valet/admin/managers/:id/reset-password"})
    \cup Pairs({"valet-admin-stats"}, {"PATCH /valet/admin/managers/:id"})
    \cup Pairs({"active-valet-managers"}, {"POST /valet/check-in", "PATCH /valet/vehicles/:id/status"})
    \cup Pairs({"valet-history"}, {"POST /valet/check-in"})

\* Whether the query of a place is to show what the call changed.
Owes(pl, call) == <<pl.query.key[1], call>> \notin Forgotten \cup Untouched
Ends(op, to) == EndsFrom(place.of, op, Status, to)
Accepted(call, to) == AcceptedIn(place.of, call, Status, to)

-----------------------------------------------------------------------------
(* The query cache and the loads of the screens' own state.                 *)

Begin == [at |-> "sent", version |-> 0, over |-> FALSE]
Idle == [at |-> "idle", call |-> "none", to |-> "same", then |-> "nothing", saw |-> 0, made |-> 0]

\* A fetch that the cache may start: at most one is in flight.
Refetch == IF fetch = {} THEN {Begin} ELSE fetch
\* Mutant: an invalidation does not cancel the fetch in flight.
RestartKeeping == fetch \cup {Begin}
\* Mutant: an invalidation waits for the fetch in flight.
RestartWaiting == Refetch
Restart == IF seen = 0 /\ fetch # {} THEN {[f EXCEPT !.over = TRUE] : f \in fetch} ELSE {Begin}
Overrun == {[f EXCEPT !.over = TRUE] : f \in fetch}
Reload == Overrun \cup {Begin}

\* Mutant: an invalidation marks the query and fetches nothing.
InvalidateQuietly == invalid' = TRUE /\ fetch' = Overrun

\* invalidateQueries, or a call of the function that loads the screen's state.
Invalidate ==
    IF Cached
    THEN /\ invalid' = TRUE
         /\ fetch' = IF mounted /\ Query.do # "byHand" THEN Restart ELSE Overrun
    ELSE /\ invalid' = mounted
         /\ fetch' = IF mounted THEN Reload ELSE fetch

\* setQueryData, which does nothing before the first load: the fetches in
\* flight go on and will replace it.
Copy(version) ==
    IF seen = 0 THEN fetch' = Overrun /\ UNCHANGED <<seen, late, invalid, old>>
    ELSE /\ seen' = version /\ late' = (late \/ invalid \/ version < seen)
         /\ invalid' = FALSE /\ old' = FALSE
         /\ fetch' = Overrun

-----------------------------------------------------------------------------
Init ==
    /\ place \in Places
    /\ \E s \in StatusesOf(place.of) : past = <<s>>
    /\ seen = 0 /\ late = FALSE /\ invalid = FALSE /\ old = FALSE
    /\ mounted = TRUE
    /\ fetch = IF Query.do = "byHand" THEN {} ELSE {Begin}
    /\ press = Idle /\ told = 0
    /\ wire = <<>>
    /\ socket = "joined"
    /\ mishaps = 0

-----------------------------------------------------------------------------
(* Fetches.                                                                 *)

\* refetchInterval, or the button of a query with enabled: false.
Again ==
    /\ mounted /\ Query.do \in {"poll", "byHand"}
    /\ fetch = {}
    /\ fetch' = {Begin}
    /\ UNCHANGED <<server, place, seen, late, invalid, old, mounted, press, told, socket, mishaps>>

\* The server reads the collections and answers.
Read(f) ==
    /\ f.at = "sent" /\ Granted(Query.call)
    /\ fetch' = (fetch \ {f}) \cup {[f EXCEPT !.at = "read", !.version = Version]}
    /\ UNCHANGED <<server, place, seen, late, invalid, old, mounted, press, told, socket, mishaps>>

Reply(f) ==
    /\ f.at = "read"
    /\ fetch' = fetch \ {f}
    /\ IF Cached \/ mounted
       THEN seen' = f.version /\ late' = f.over /\ invalid' = FALSE /\ old' = FALSE
       ELSE UNCHANGED <<seen, late, invalid, old>>
    /\ UNCHANGED <<server, place, mounted, press, told, socket, mishaps>>

\* A query that the server does not serve, or not to this role.
Deny(f) ==
    /\ f.at = "sent" /\ ~Granted(Query.call)
    /\ fetch' = fetch \ {f}
    /\ UNCHANGED <<server, place, seen, late, invalid, old, mounted, press, told, socket, mishaps>>

\* Both tries failed: what was shown stays, and so does the mark.
Fail(f) ==
    /\ Affordable(1) /\ mishaps' = mishaps + 1
    /\ fetch' = fetch \ {f}
    /\ invalid' = TRUE
    /\ UNCHANGED <<server, place, seen, late, old, mounted, press, told, socket>>

-----------------------------------------------------------------------------
(* Presses.                                                                 *)

\* What onSuccess does to the query: it renews it, or displays the answer.
Then(p) == IF ~Renews(p.renews) THEN "nothing" ELSE IF p.copies THEN "copy" ELSE "invalidate"

\* A button whose statuses are those of the displayed collection is offered
\* by the status on display; what another query of the screen shows decides
\* about the others.  One press at a time.
Shows(p) == ShownBy(place, p)
\* Mutant: a button is offered whatever the status on display.
PressAnything(p) ==
    /\ mounted /\ press = Idle
    /\ Affordable(2)
    /\ press' = [at |-> "sent", call |-> p.call, to |-> p.to, then |-> Then(p),
                 saw |-> seen, made |-> 0]
    /\ UNCHANGED <<server, cache, place, mounted, told, socket, mishaps>>
Press(p) ==
    /\ mounted /\ press = Idle
    /\ Shows(p) => seen > 0 /\ past[seen] \in p.when
    /\ Affordable(2)
    /\ press' = [at |-> "sent", call |-> p.call, to |-> p.to, then |-> Then(p),
                 saw |-> seen, made |-> 0]
    /\ UNCHANGED <<server, cache, place, mounted, told, socket, mishaps>>

Answered(outcome) == press' = [Idle EXCEPT !.at = outcome, !.call = press.call]

\* authenticate and authorize.
TurnAway ==
    /\ press.at = "sent"
    /\ \/ press.call \notin Routed /\ Answered("missing")
       \/ press.call \in Routed /\ place.role \notin Admitted[press.call]
          /\ Answered("forbidden")
    /\ UNCHANGED <<server, cache, place, mounted, told, socket, mishaps>>

Reached == press.at = "sent" /\ Granted(press.call)

\* The service finds the record in a status it does not accept.
Conflict ==
    /\ Reached
    /\ ~Accepted(press.call, press.to)
    /\ press' = [press EXCEPT !.at = "conflict", !.then = "nothing"]
    /\ UNCHANGED <<server, cache, place, mounted, told, socket, mishaps>>

\* What was typed, or a record that is not displayed, is not acceptable: a
\* message is shown and nothing renewed, or the answer never comes.
Refuse ==
    /\ Reached
    /\ press' = IF press.call \in Unanswering THEN [Idle EXCEPT !.at = "unanswered"] ELSE Idle
    /\ UNCHANGED <<server, cache, place, mounted, told, socket, mishaps>>

\* Some operations announce only some of their changes.
Change(status, tells) ==
    /\ past' = Append(past, status)
    /\ \/ UNCHANGED wire
       \/ \E p \in Listeners(tells) :
            /\ socket # "down"
            /\ wire' = Append(wire, [version |-> Version + 1, copies |-> p.copies])

Apply ==
    /\ Reached
    /\ Accepted(press.call, press.to)
    /\ IF Outdates(press.call)
       THEN /\ \E op \in Does[press.call] : \E s \in Ends(op, press.to) :
                 Change(s, ToldBy[press.call])
            /\ press' = [Idle EXCEPT !.at = "applied", !.call = press.call,
                                     !.then = press.then, !.made = Version + 1]
       ELSE /\ UNCHANGED server
            /\ press' = IF press.then = "nothing" THEN Idle
                        ELSE [Idle EXCEPT !.at = "applied", !.then = press.then]
    /\ UNCHANGED <<cache, place, mounted, told, socket, mishaps>>

\* onSuccess renews the keys, or displays the answer.
Succeed ==
    /\ press.at = "applied"
    /\ press' = Idle
    /\ told' = IF press.made > told /\ Owes(place, press.call) THEN press.made ELSE told
    /\ CASE press.then = "nothing" -> UNCHANGED cache
         [] press.then = "copy" -> Copy(press.made)
         [] press.then = "invalidate" -> Invalidate /\ UNCHANGED <<seen, late, old>>
    /\ UNCHANGED <<server, place, mounted, socket, mishaps>>

\* onError: nothing is renewed, whether the server applied the change or not.
GiveUp ==
    /\ press.at \in {"missing", "forbidden", "conflict", "applied"}
    /\ ~(press.at = "conflict" /\ press.call \in Unanswering)
    /\ press' = Idle
    /\ UNCHANGED <<server, cache, place, mounted, told, socket, mishaps>>

-----------------------------------------------------------------------------
(* The others, the socket and the user's comings and goings.                *)

\* Another user changes what the query reads.
Others(op) ==
    /\ Affordable(2)
    /\ \E to \in StatusesOf(place.of) \cup {"same"} : \E s \in Ends(op.op, to) :
         Change(s, op.tells)
    /\ UNCHANGED <<cache, place, mounted, press, told, socket, mishaps>>

\* Nobody listens when the screen is closed.
Deliver ==
    /\ wire # <<>> /\ socket # "down"
    /\ wire' = Tail(wire)
    /\ IF ~mounted THEN UNCHANGED cache
       ELSE IF Head(wire).copies THEN Copy(Head(wire).version)
       ELSE Invalidate /\ UNCHANGED <<seen, late, old>>
    /\ UNCHANGED <<past, place, mounted, press, told, socket, mishaps>>

\* What was on its way is lost; the connection returns with the token that
\* is in memory then, and as a stranger when that token has expired.
Drop ==
    /\ Hearing /\ socket # "down"
    /\ Affordable(1) /\ mishaps' = mishaps + 1
    /\ socket' = "down" /\ wire' = <<>>
    /\ UNCHANGED <<cache, past, place, mounted, press, told>>

Reconnect ==
    /\ socket = "down"
    /\ socket' \in {"joined", "stranger"}
    /\ UNCHANGED <<server, cache, place, mounted, press, told, mishaps>>

Leave ==
    /\ mounted /\ Affordable(1)
    /\ mounted' = FALSE /\ mishaps' = mishaps + 1
    /\ press' = IF press.at = "unanswered" THEN Idle ELSE press
    /\ IF Cached THEN UNCHANGED <<seen, late, invalid, old, fetch>>
       ELSE seen' = 0 /\ late' = FALSE /\ invalid' = FALSE /\ fetch' = {} /\ UNCHANGED old
    /\ UNCHANGED <<server, place, told, socket>>

\* staleTime passes.
Age ==
    /\ ~mounted /\ Cached /\ seen > 0 /\ ~old
    /\ old' = TRUE
    /\ UNCHANGED <<server, place, seen, late, invalid, mounted, fetch, press, told, socket, mishaps>>

Return ==
    /\ ~mounted
    /\ mounted' = TRUE
    /\ fetch' = IF Query.do = "byHand" THEN fetch
                ELSE IF ~Cached \/ seen = 0 \/ invalid \/ old THEN Refetch ELSE fetch
    /\ UNCHANGED <<server, place, seen, late, invalid, old, press, told, socket, mishaps>>

-----------------------------------------------------------------------------
PressAButton == \E p \in Buttons : Press(p)
ReadAFetch == \E f \in fetch : Read(f)
DenyAFetch == \E f \in fetch : Deny(f)
ReplyToAFetch == \E f \in fetch : Reply(f)
FailAFetch == \E f \in fetch : Fail(f)
OthersChange == \E op \in WritersOf[Query.call] : Others(op)

Next ==
    \/ Again \/ ReadAFetch \/ DenyAFetch \/ ReplyToAFetch \/ FailAFetch
    \/ PressAButton \/ TurnAway \/ Conflict \/ Refuse \/ Apply \/ Succeed \/ GiveUp
    \/ OthersChange \/ Deliver \/ Drop \/ Reconnect
    \/ Leave \/ Age \/ Return

\* The server answers what reaches it, timers run, and a connection that is
\* up delivers; nobody has to press, leave or come back.
Fairness ==
    /\ WF_vars(Query.do = "poll" /\ Again) /\ WF_vars(ReadAFetch) /\ WF_vars(DenyAFetch)
    /\ WF_vars(ReplyToAFetch) /\ WF_vars(Deliver)

Spec == Init /\ [][Next]_vars /\ Fairness

-----------------------------------------------------------------------------
(* Properties.                                                              *)

Outcomes == {"idle", "sent", "applied", "conflict", "refused", "unanswered",
             "missing", "forbidden"}

TypeOK ==
    /\ place \in Places
    /\ past \in UNION {[1..n -> StatusesOf(place.of)] : n \in 1 .. 1 + MaxTrouble \div 2}
    /\ seen \in 0..Version /\ told \in 0..Version
    /\ {late, invalid, old, mounted} \subseteq BOOLEAN
    /\ \A f \in fetch : f.at \in {"sent", "read"} /\ f.version \in 0..Version /\ f.over \in BOOLEAN
    /\ Cached => Cardinality(fetch) <= 1
    /\ press.at \in Outcomes /\ press.saw \in 0..Version /\ press.made \in 0..Version
    /\ \A i \in DOMAIN wire : wire[i].version \in 2..Version /\ wire[i].copies \in BOOLEAN
    /\ socket \in {"joined", "stranger", "down"}

\* Nothing more will happen by itself: no press, no fetch, no failed one.
Settled == mounted /\ press = Idle /\ fetch = {} /\ ~invalid /\ seen > 0

\* What the server confirmed to the user is on the user's screen, once it is
\* settled: the button renews every query that its change outdates, and the
\* query its screen shows, but for the presses listed as Forgotten.  A fetch
\* that began before and was not replaced may have shown older data.
SavedIsShown == Settled => seen >= told \/ late

\* The seating of a table that is occupied, which the server never accepts.
EditSession == press.call = "POST /restaurant/tables/:id/seat" /\ press.to = "same"

\* A button that the screen offers is refused because of the record's status
\* only when somebody changed the record after it was displayed.
RefusedOnlyWhenOvertaken ==
    press.at = "conflict" /\ ~EditSession => press.saw < Version

\* Calls that the screens make although no route serves them, or none serves
\* them to every role that may open the screen.
DeadEnds ==
    {<<"/admin/valet", "GET /valet/admin/slots">>, <<"/admin/valet", "GET /valet/admin/vehicles">>,
     <<"/valet", "GET /valet/admin/managers">>,
     <<"/admin/settings", "GET /settings">>, <<"/admin/settings", "PUT /settings">>,
     <<"/restaurant/book/confirm/[id]", "GET /restaurant/reservations">>,
     <<"/services", "GET /auth/me">>, <<"/feedback", "GET /auth/me">>,
     <<"/rooms/book", "POST /coupons/validate">>, <<"/orders", "GET /orders/my">>,
     <<"/orders/[id]", "GET /orders/my/:id">>,
     <<"/orders/[id]", "POST /payments/orders/:orderId/razorpay">>,
     <<"/orders/[id]", "POST /payments/orders/:orderId/verify">>}

\* Events that a screen waits for and that nobody sends to a role that may
\* open it: a guest's ticket changes are told to the managers alone, and a
\* guest who is not signed in has no room of his own.
Unheard ==
    {<<"/orders", "complaint:updated">>, <<"/services", "complaint:updated">>,
     <<"/services", "complaint:new">>}

\* Whatever else the screen of a place offers or asks for has a route that admits
\* the role; whatever else it listens for is sent to the role.
Served(pl) ==
    /\ \A p \in ButtonsOf(pl) : ~GrantedAt(pl, p.call) => <<pl.at, p.call>> \in DeadEnds
    /\ pl.query # NoQuery /\ ~GrantedAt(pl, pl.query.call) => <<pl.at, pl.query.call>> \in DeadEnds
    /\ \A p \in AwaitedAt(pl) : <<pl.at, p.call>> \in Unheard

\* The screen is served, and no other press of its user is ever turned away.
NoDeadEnds ==
    /\ Served(place)
    /\ press.at \in {"missing", "forbidden"} => <<place.at, press.call>> \in DeadEnds

\* The cache is well formed on every screen, and no screen is a dead end.
ScreenInv == TypeOK /\ NoDeadEnds

\* A screen that stays open never goes back to an older version.
NeverBackwards ==
    [][mounted /\ mounted' => seen' >= seen \/ late']_vars

\* On a screen that polls, and on one that was sent an announcement, a change
\* is displayed in the end, unless the user leaves; without polling, unless
\* the connection or a fetch fails as well.
InRange(v) == \E i \in DOMAIN wire : wire[i].version = v
GivenUp == Query.do # "poll" /\ (socket = "down" \/ mishaps > 0 \/ late)
EventuallyShown ==
    \A v \in 2 .. 1 + MaxTrouble \div 2 :
      (mounted /\ Granted(Query.call) /\ seen < v /\ v <= Version
        /\ (Query.do = "poll" \/ (Query.do # "byHand" /\ InRange(v))))
        ~> (seen >= v \/ ~mounted \/ GivenUp)

-----------------------------------------------------------------------------
(* What the proofs assume.  All but the first are facts about the tables,   *)
(* which TLC evaluates for every screen, role, query and button.            *)

ASSUME ConsoleAssumption == MaxTrouble \in Nat

\* A part of a screen either displays an event or renews on it, and the
\* operations leave records in statuses of their collection.
ASSUME TablesAssumption ==
    \A pl \in Places :
      /\ \A p \in PartsOf(pl) : p.copies \in BOOLEAN
      /\ \A s \in StatusesOf(pl.of) :
           /\ \A op \in WritersOf[pl.query.call], to \in StatusesOf(pl.of) \cup {"same"} :
                EndsFrom(pl.of, op.op, s, to) \subseteq StatusesOf(pl.of)
           /\ \A p \in ButtonsOf(pl) : \A op \in Does[p.call] :
                EndsFrom(pl.of, op, s, p.to) \subseteq StatusesOf(pl.of)

\* What a component loads into its own state, no button and no listener of
\* its screen loads again.
ASSUME LoadsAssumption ==
    \A pl \in Places : pl.query.do = "load" =>
      \A p \in PartsOf(pl) : ~RenewsAt(pl, p.renews)

\* A button renews the query of its screen that its call outdates, unless the
\* call is listed, and no call is listed that a button of the place renews.
ASSUME ButtonsAssumption ==
    \A pl \in Places : \A p \in ButtonsOf(pl) : OutdatesAt(pl, p.call) =>
      (Owes(pl, p.call) <=> RenewsAt(pl, p.renews))

\* The server accepts a button's call in the statuses the button is for.
ASSUME OffersAssumption ==
    \A pl \in Places : \A p \in ButtonsOf(pl) : \A s \in StatusesOf(pl.of) :
      /\ ~(p.call = "POST /restaurant/tables/:id/seat" /\ p.to = "same")
      /\ ShownBy(pl, p) => s \in p.when
      => AcceptedIn(pl.of, p.call, s, p.to)
=============================================================================
