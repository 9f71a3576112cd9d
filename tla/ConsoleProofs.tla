--------------------------- MODULE ConsoleProofs ---------------------------
(***************************************************************************)
(* What a screen shows, proved for any bound on the changes and mishaps:   *)
(* it never goes back to an older version, what was saved appears on it,   *)
(* it offers no button that the server must refuse, and where the tables   *)
(* serve its place it is never turned away but where it is known to be.    *)
(*                                                                         *)
(* What the tables have to say for it is assumed in Console and evaluated  *)
(* by TLC; the proofs are about time: fetches that overlap a change, an    *)
(* answer that arrives after another renewal, a display that is overtaken. *)
(***************************************************************************)
EXTENDS Console, SequenceTheorems, FiniteSetTheorems, TLAPS

-----------------------------------------------------------------------------
(* The invariant.                                                           *)

\* The record has a status in each of its versions, and the bound holds.
PastInv ==
    /\ place \in Places
    /\ past \in Seq(StatusesOf(place.of)) /\ Len(past) >= 1
    /\ mishaps \in Nat
    /\ 2 * (Len(past) - 1) + mishaps + (IF press.at = "sent" THEN 2 ELSE 0) <= MaxTrouble

DisplayInv ==
    /\ seen \in 0..Len(past) /\ told \in 0..Len(past)
    /\ late \in BOOLEAN /\ invalid \in BOOLEAN /\ old \in BOOLEAN /\ mounted \in BOOLEAN
    /\ socket \in {"joined", "stranger", "down"}
    /\ ~Cached /\ ~mounted => seen = 0 /\ fetch = {}

\* One fetch at a time; unless it was overtaken, what it has read is not
\* older than what is shown.
FetchInv ==
    /\ \A f, g \in fetch : f = g
    /\ \A f \in fetch : f \in [at : {"sent", "read"}, version : 0..Len(past), over : BOOLEAN]
    /\ \A f \in fetch : f.at = "read" /\ ~f.over => f.version >= seen

\* What is on its way was announced by a change; loads hear nothing.
WireInv ==
    /\ wire \in Seq([version : Nat, copies : BOOLEAN])
    /\ \A i \in 1..Len(wire) : wire[i].version \in 2..Len(past)
    /\ ~Cached => wire = <<>>

\* A press that is under way was offered in the status that was displayed.
Offered(p) ==
    /\ press.call = p.call /\ press.to = p.to /\ press.then = Then(p)
    /\ Shows(p) => press.saw > 0 /\ past[press.saw] \in p.when

PressInv ==
    /\ press = [at |-> press.at, call |-> press.call, to |-> press.to, then |-> press.then,
                saw |-> press.saw, made |-> press.made]
    /\ press.at \in Outcomes /\ press.then \in {"nothing", "copy", "invalidate"}
    /\ press.saw \in 0..Len(past) /\ press.made \in 0..Len(past)
    /\ press.at = "sent" => \E p \in Buttons : Offered(p)
    /\ press.at = "conflict" /\ ~EditSession => press.saw < Len(past)

\* A change that the query is to show renews it when it is answered, and
\* until then what is shown is marked, or is known to be from before.
AnswerInv ==
    /\ ~Cached => press.then = "nothing"
    /\ press.at = "applied" /\ press.made > 0 /\ Owes(place, press.call) => press.then # "nothing"

SavedInv ==
    /\ seen > 0 /\ ~late /\ ~invalid => seen >= told
    /\ \A f \in fetch : f.at = "read" /\ ~f.over => f.version >= told

IInv ==
    PastInv /\ DisplayInv /\ FetchInv /\ WireInv /\ PressInv /\ AnswerInv /\ SavedInv

-----------------------------------------------------------------------------
(* One action at a time.                                                    *)

\* A fetch starts when none is in flight.
LEMMA AgainStep == ASSUME IInv, Again PROVE IInv'
<1> USE DEF IInv
<1>1. PastInv' BY DEF PastInv, Again, Begin, vars, server, cache
<1>2. DisplayInv' BY DEF PastInv, DisplayInv, FetchInv, Cached, Query, Again, Begin, vars, server, cache
<1>3. FetchInv' BY DEF PastInv, DisplayInv, FetchInv, Cached, Query, Again, Begin, vars, server, cache
<1>4. WireInv' BY DEF WireInv, Cached, Query, Again, Begin, vars, server, cache
<1>5. PressInv' BY DEF PressInv, Offered, Buttons, Shows, Then, Renews, EditSession, Outcomes, Query, Again, Begin, vars, server, cache
<1>6. AnswerInv' BY DEF AnswerInv, PressInv, Cached, Query, Again, Begin, vars, server, cache
<1>7. SavedInv' BY DEF SavedInv, DisplayInv, FetchInv, Cached, Query, Again, Begin, vars, server, cache
<1> QED BY <1>1, <1>2, <1>3, <1>4, <1>5, <1>6, <1>7

\* A fetch reads the newest version.
LEMMA ReadStep == ASSUME IInv, NEW f \in fetch, Read(f) PROVE IInv'
<1> USE DEF IInv
<1>0. PICK g \in [at : {"read"}, version : {Len(past)}, over : BOOLEAN] :
        fetch' = {g} /\ g.over = f.over
  <2>1. fetch = {f} /\ f \in [at : {"sent", "read"}, version : 0..Len(past), over : BOOLEAN]
    BY DEF FetchInv
  <2>2. /\ [f EXCEPT !.at = "read", !.version = Version]
              \in [at : {"read"}, version : {Len(past)}, over : BOOLEAN]
        /\ [f EXCEPT !.at = "read", !.version = Version].over = f.over
    BY <2>1 DEF Version
  <2> QED BY <2>1, <2>2 DEF Read
<1>1. PastInv' BY DEF PastInv, Read, Version, vars, server, cache
<1>2. DisplayInv' BY DEF PastInv, DisplayInv, FetchInv, Cached, Query, Read, Version, vars, server, cache
<1>3. FetchInv' BY <1>0 DEF PastInv, DisplayInv, FetchInv, Cached, Query, Read, Version, vars, server, cache
<1>4. WireInv' BY DEF WireInv, Cached, Query, Read, Version, vars, server, cache
<1>5. PressInv' BY DEF PressInv, Offered, Buttons, Shows, Then, Renews, EditSession, Outcomes, Query, Read, Version, vars, server, cache
<1>6. AnswerInv' BY DEF AnswerInv, PressInv, Cached, Query, Read, Version, vars, server, cache
<1>7. SavedInv' BY <1>0 DEF PastInv, SavedInv, DisplayInv, FetchInv, Cached, Query, Read, Version, vars, server, cache
<1> QED BY <1>1, <1>2, <1>3, <1>4, <1>5, <1>6, <1>7

\* A fetch is answered, and no other is in flight.
LEMMA ReplyStep == ASSUME IInv, NEW f \in fetch, Reply(f) PROVE IInv'
<1> USE DEF IInv
<1>1. PastInv' BY DEF PastInv, Reply, vars, server, cache
<1>2. DisplayInv' BY DEF PastInv, DisplayInv, FetchInv, Cached, Query, Reply, vars, server, cache
<1>3. FetchInv' BY DEF PastInv, DisplayInv, FetchInv, Cached, Query, Reply, vars, server, cache
<1>4. WireInv' BY DEF WireInv, Cached, Query, Reply, vars, server, cache
<1>5. PressInv' BY DEF PressInv, Offered, Buttons, Shows, Then, Renews, EditSession, Outcomes, Query, Reply, vars, server, cache
<1>6. AnswerInv' BY DEF AnswerInv, PressInv, Cached, Query, Reply, vars, server, cache
<1>7. SavedInv' BY DEF SavedInv, DisplayInv, FetchInv, Cached, Query, Reply, vars, server, cache
<1> QED BY <1>1, <1>2, <1>3, <1>4, <1>5, <1>6, <1>7

\* A fetch is refused.
LEMMA DenyStep == ASSUME IInv, NEW f \in fetch, Deny(f) PROVE IInv'
<1> USE DEF IInv
<1>1. PastInv' BY DEF PastInv, Deny, vars, server, cache
<1>2. DisplayInv' BY DEF PastInv, DisplayInv, FetchInv, Cached, Query, Deny, vars, server, cache
<1>3. FetchInv' BY DEF PastInv, DisplayInv, FetchInv, Cached, Query, Deny, vars, server, cache
<1>4. WireInv' BY DEF WireInv, Cached, Query, Deny, vars, server, cache
<1>5. PressInv' BY DEF PressInv, Offered, Buttons, Shows, Then, Renews, EditSession, Outcomes, Query, Deny, vars, server, cache
<1>6. AnswerInv' BY DEF AnswerInv, PressInv, Cached, Query, Deny, vars, server, cache
<1>7. SavedInv' BY DEF SavedInv, DisplayInv, FetchInv, Cached, Query, Deny, vars, server, cache
<1> QED BY <1>1, <1>2, <1>3, <1>4, <1>5, <1>6, <1>7

\* A fetch fails and leaves its mark.
LEMMA FailStep == ASSUME IInv, NEW f \in fetch, Fail(f) PROVE IInv'
<1> USE DEF IInv
<1>1. PastInv' BY DEF PastInv, Fail, Affordable, Version, vars, server, cache
<1>2. DisplayInv' BY DEF PastInv, DisplayInv, FetchInv, Cached, Query, Fail, Affordable, Version, vars, server, cache
<1>3. FetchInv' BY DEF PastInv, DisplayInv, FetchInv, Cached, Query, Fail, Affordable, Version, vars, server, cache
<1>4. WireInv' BY DEF WireInv, Cached, Query, Fail, Affordable, Version, vars, server, cache
<1>5. PressInv' BY DEF PressInv, Offered, Buttons, Shows, Then, Renews, EditSession, Outcomes, Query, Fail, Affordable, Version, vars, server, cache
<1>6. AnswerInv' BY DEF AnswerInv, PressInv, Cached, Query, Fail, Affordable, Version, vars, server, cache
<1>7. SavedInv' BY DEF SavedInv, DisplayInv, FetchInv, Cached, Query, Fail, Affordable, Version, vars, server, cache
<1> QED BY <1>1, <1>2, <1>3, <1>4, <1>5, <1>6, <1>7

\* A press is turned away.
LEMMA TurnAwayStep == ASSUME IInv, TurnAway PROVE IInv'
<1> USE DEF IInv
<1>0. \E o \in {"missing", "forbidden"} :
         press' = [at |-> o, call |-> press.call, to |-> "same", then |-> "nothing", saw |-> 0, made |-> 0]
  BY DEF TurnAway, Answered, Idle
<1>1. PastInv' BY <1>0, ConsoleAssumption DEF PastInv, TurnAway, Answered, Idle, vars, server, cache
<1>2. DisplayInv' BY DEF PastInv, DisplayInv, FetchInv, Cached, Query, TurnAway, Answered, Idle, vars, server, cache
<1>3. FetchInv' BY DEF PastInv, DisplayInv, FetchInv, Cached, Query, TurnAway, Answered, Idle, vars, server, cache
<1>4. WireInv' BY DEF WireInv, Cached, Query, TurnAway, Answered, Idle, vars, server, cache
<1>5. PressInv'
  <2>1. PICK o \in {"missing", "forbidden"} :
          press' = [at |-> o, call |-> press.call, to |-> "same", then |-> "nothing",
                    saw |-> 0, made |-> 0]
    BY <1>0
  <2> QED BY <2>1 DEF PastInv, PressInv, Outcomes, TurnAway, server
<1>6. AnswerInv' BY DEF AnswerInv, PressInv, Cached, Query, TurnAway, Answered, Idle, vars, server, cache
<1>7. SavedInv' BY DEF SavedInv, DisplayInv, FetchInv, Cached, Query, TurnAway, Answered, Idle, vars, server, cache
<1> QED BY <1>1, <1>2, <1>3, <1>4, <1>5, <1>6, <1>7

\* A press is refused because of the status: somebody was faster.
LEMMA ConflictStep == ASSUME IInv, Conflict PROVE IInv'
<1> USE DEF IInv
<1>0. press' = [at |-> "conflict", call |-> press.call, to |-> press.to,
                  then |-> "nothing", saw |-> press.saw, made |-> press.made]
  BY DEF Conflict, PressInv
<1>1. PastInv' BY <1>0, ConsoleAssumption DEF PastInv, Conflict, Reached, vars, server, cache
<1>2. DisplayInv' BY DEF PastInv, DisplayInv, FetchInv, Cached, Query, Conflict, Reached, vars, server, cache
<1>3. FetchInv' BY DEF PastInv, DisplayInv, FetchInv, Cached, Query, Conflict, Reached, vars, server, cache
<1>4. WireInv' BY DEF WireInv, Cached, Query, Conflict, Reached, vars, server, cache
<1>5. PressInv'
  <2>1. press.at = "sent" /\ ~EditSession => press.saw < Len(past)
    <3> SUFFICES ASSUME press.at = "sent", ~EditSession, press.saw = Len(past) PROVE FALSE
      BY DEF PressInv, PastInv
    <3>1. PICK p \in Buttons : Offered(p) BY DEF PressInv
    <3>2. Status \in StatusesOf(place.of) /\ (Shows(p) => Status \in p.when)
      BY <3>1 DEF PastInv, Offered, Status, Version
    <3>3. AcceptedIn(place.of, p.call, Status, p.to)
      BY <3>1, <3>2, OffersAssumption DEF PastInv, Offered, EditSession, Buttons, Shows
    <3> QED BY <3>1, <3>3 DEF Conflict, Accepted, Offered
  <2> QED BY <1>0, <2>1 DEF PastInv, PressInv, EditSession, Outcomes, Conflict, Reached, server
<1>6. AnswerInv' BY DEF AnswerInv, PressInv, Cached, Query, Conflict, Reached, vars, server, cache
<1>7. SavedInv' BY DEF SavedInv, DisplayInv, FetchInv, Cached, Query, Conflict, Reached, vars, server, cache
<1> QED BY <1>1, <1>2, <1>3, <1>4, <1>5, <1>6, <1>7

\* A press is refused for what was typed.
LEMMA RefuseStep == ASSUME IInv, Refuse PROVE IInv'
<1> USE DEF IInv
<1>0. \E o \in {"idle", "unanswered"} :
         press' = [at |-> o, call |-> "none", to |-> "same", then |-> "nothing", saw |-> 0, made |-> 0]
  BY DEF Refuse, Idle
<1>1. PastInv' BY <1>0, ConsoleAssumption DEF PastInv, Refuse, Reached, Idle, vars, server, cache
<1>2. DisplayInv' BY DEF PastInv, DisplayInv, FetchInv, Cached, Query, Refuse, Reached, Idle, vars, server, cache
<1>3. FetchInv' BY DEF PastInv, DisplayInv, FetchInv, Cached, Query, Refuse, Reached, Idle, vars, server, cache
<1>4. WireInv' BY DEF WireInv, Cached, Query, Refuse, Reached, Idle, vars, server, cache
<1>5. PressInv' BY <1>0 DEF PastInv, PressInv, Outcomes, Refuse, server
<1>6. AnswerInv' BY DEF AnswerInv, PressInv, Cached, Query, Refuse, Reached, Idle, vars, server, cache
<1>7. SavedInv' BY DEF SavedInv, DisplayInv, FetchInv, Cached, Query, Refuse, Reached, Idle, vars, server, cache
<1> QED BY <1>1, <1>2, <1>3, <1>4, <1>5, <1>6, <1>7

\* The user gives up a press.
LEMMA GiveUpStep == ASSUME IInv, GiveUp PROVE IInv'
<1> USE DEF IInv
<1>0. press' = [at |-> "idle", call |-> "none", to |-> "same", then |-> "nothing", saw |-> 0, made |-> 0]
  BY DEF GiveUp, Idle
<1>1. PastInv' BY <1>0, ConsoleAssumption DEF PastInv, GiveUp, Idle, vars, server, cache
<1>2. DisplayInv' BY DEF PastInv, DisplayInv, FetchInv, Cached, Query, GiveUp, Idle, vars, server, cache
<1>3. FetchInv' BY DEF PastInv, DisplayInv, FetchInv, Cached, Query, GiveUp, Idle, vars, server, cache
<1>4. WireInv' BY DEF WireInv, Cached, Query, GiveUp, Idle, vars, server, cache
<1>5. PressInv' BY <1>0 DEF PastInv, PressInv, Outcomes, GiveUp, server
<1>6. AnswerInv' BY DEF AnswerInv, PressInv, Cached, Query, GiveUp, Idle, vars, server, cache
<1>7. SavedInv' BY DEF SavedInv, DisplayInv, FetchInv, Cached, Query, GiveUp, Idle, vars, server, cache
<1> QED BY <1>1, <1>2, <1>3, <1>4, <1>5, <1>6, <1>7

\* The connection drops, and what was on its way is lost.
LEMMA DropStep == ASSUME IInv, Drop PROVE IInv'
<1> USE DEF IInv
<1>1. PastInv' BY DEF PastInv, Drop, Affordable, Version, vars, server, cache
<1>2. DisplayInv' BY DEF PastInv, DisplayInv, FetchInv, Cached, Query, Drop, Affordable, Version, vars, server, cache
<1>3. FetchInv' BY DEF PastInv, DisplayInv, FetchInv, Cached, Query, Drop, Affordable, Version, vars, server, cache
<1>4. WireInv' BY DEF WireInv, Cached, Query, Drop, Affordable, Version, vars, server, cache
<1>5. PressInv' BY DEF PressInv, Offered, Buttons, Shows, Then, Renews, EditSession, Outcomes, Query, Drop, Affordable, Version, vars, server, cache
<1>6. AnswerInv' BY DEF AnswerInv, PressInv, Cached, Query, Drop, Affordable, Version, vars, server, cache
<1>7. SavedInv' BY DEF SavedInv, DisplayInv, FetchInv, Cached, Query, Drop, Affordable, Version, vars, server, cache
<1> QED BY <1>1, <1>2, <1>3, <1>4, <1>5, <1>6, <1>7

\* The connection returns.
LEMMA ReconnectStep == ASSUME IInv, Reconnect PROVE IInv'
<1> USE DEF IInv
<1>1. PastInv' BY DEF PastInv, Reconnect, vars, server, cache
<1>2. DisplayInv' BY DEF PastInv, DisplayInv, FetchInv, Cached, Query, Reconnect, vars, server, cache
<1>3. FetchInv' BY DEF PastInv, DisplayInv, FetchInv, Cached, Query, Reconnect, vars, server, cache
<1>4. WireInv' BY DEF WireInv, Cached, Query, Reconnect, vars, server, cache
<1>5. PressInv' BY DEF PressInv, Offered, Buttons, Shows, Then, Renews, EditSession, Outcomes, Query, Reconnect, vars, server, cache
<1>6. AnswerInv' BY DEF AnswerInv, PressInv, Cached, Query, Reconnect, vars, server, cache
<1>7. SavedInv' BY DEF SavedInv, DisplayInv, FetchInv, Cached, Query, Reconnect, vars, server, cache
<1> QED BY <1>1, <1>2, <1>3, <1>4, <1>5, <1>6, <1>7

\* The screen is left; what a component loaded is gone.
LEMMA LeaveStep == ASSUME IInv, Leave PROVE IInv'
<1> USE DEF IInv
<1>0. press' = press \/ press' = [at |-> "idle", call |-> "none", to |-> "same", then |-> "nothing", saw |-> 0, made |-> 0]
  BY DEF Leave, Idle
<1>1. PastInv' BY <1>0, ConsoleAssumption DEF PastInv, Leave, Affordable, Version, Idle, vars, server, cache
<1>2. DisplayInv'
  <2>1. CASE Cached BY <2>1 DEF PastInv, DisplayInv, Cached, Query, Leave, server
  <2>2. CASE ~Cached
    <3>1. /\ seen' = 0 /\ late' = FALSE /\ invalid' = FALSE /\ old' = old /\ fetch' = {}
          /\ mounted' = FALSE /\ past' = past /\ told' = told /\ socket' = socket
      <4>1. IF Cached THEN UNCHANGED <<seen, late, invalid, old, fetch>>
            ELSE seen' = 0 /\ late' = FALSE /\ invalid' = FALSE /\ fetch' = {} /\ UNCHANGED old
        BY DEF Leave
      <4>2. mounted' = FALSE /\ past' = past /\ told' = told /\ socket' = socket
        BY DEF Leave, server
      <4> QED BY <2>2, <4>1, <4>2
    <3>2. seen' \in 0..Len(past') /\ told' \in 0..Len(past') BY <3>1 DEF PastInv, DisplayInv
    <3>3. /\ late' \in BOOLEAN /\ invalid' \in BOOLEAN /\ old' \in BOOLEAN /\ mounted' \in BOOLEAN
          /\ socket' \in {"joined", "stranger", "down"}
      BY <3>1 DEF DisplayInv
    <3> QED BY <3>1, <3>2, <3>3 DEF DisplayInv
  <2> QED BY <2>1, <2>2
<1>3. FetchInv' BY DEF PastInv, DisplayInv, FetchInv, Cached, Query, Leave, Affordable, Version, Idle, vars, server, cache
<1>4. WireInv' BY DEF WireInv, Cached, Query, Leave, Affordable, Version, Idle, vars, server, cache
<1>5. PressInv'
  <2>1. CASE press' = press
    BY <2>1 DEF PressInv, Offered, Buttons, Shows, Then, Renews, EditSession, Outcomes, Query, Leave, server
  <2>2. CASE press' # press BY <1>0, <2>2 DEF PastInv, PressInv, Outcomes, Leave, server
  <2> QED BY <2>1, <2>2
<1>6. AnswerInv' BY DEF AnswerInv, PressInv, Cached, Query, Leave, Affordable, Version, Idle, vars, server, cache
<1>7. SavedInv' BY DEF SavedInv, DisplayInv, FetchInv, Cached, Query, Leave, Affordable, Version, Idle, vars, server, cache
<1> QED BY <1>1, <1>2, <1>3, <1>4, <1>5, <1>6, <1>7

\* The data grows old.
LEMMA AgeStep == ASSUME IInv, Age PROVE IInv'
<1> USE DEF IInv
<1>1. PastInv' BY DEF PastInv, Age, vars, server, cache
<1>2. DisplayInv' BY DEF PastInv, DisplayInv, FetchInv, Cached, Query, Age, vars, server, cache
<1>3. FetchInv' BY DEF PastInv, DisplayInv, FetchInv, Cached, Query, Age, vars, server, cache
<1>4. WireInv' BY DEF WireInv, Cached, Query, Age, vars, server, cache
<1>5. PressInv' BY DEF PressInv, Offered, Buttons, Shows, Then, Renews, EditSession, Outcomes, Query, Age, vars, server, cache
<1>6. AnswerInv' BY DEF AnswerInv, PressInv, Cached, Query, Age, vars, server, cache
<1>7. SavedInv' BY DEF SavedInv, DisplayInv, FetchInv, Cached, Query, Age, vars, server, cache
<1> QED BY <1>1, <1>2, <1>3, <1>4, <1>5, <1>6, <1>7

\* The screen is opened again and fetches unless a fetch is in flight.
LEMMA ReturnStep == ASSUME IInv, Return PROVE IInv'
<1> USE DEF IInv
<1>0. fetch' = fetch \/ fetch' = {[at |-> "sent", version |-> 0, over |-> FALSE]}
  BY DEF Return, Refetch, Begin
<1>1. PastInv' BY DEF PastInv, Return, Refetch, Begin, vars, server, cache
<1>2. DisplayInv' BY DEF PastInv, DisplayInv, FetchInv, Cached, Query, Return, Refetch, Begin, vars, server, cache
<1>3. FetchInv'
  <2>1. CASE fetch' = fetch BY <2>1 DEF FetchInv, Return, server
  <2>2. CASE fetch' # fetch
    <3>1. fetch' = {[at |-> "sent", version |-> 0, over |-> FALSE]} /\ past' = past
      BY <1>0, <2>2 DEF Return, server
    <3> QED BY <3>1 DEF PastInv, FetchInv
  <2> QED BY <2>1, <2>2
<1>4. WireInv' BY DEF WireInv, Cached, Query, Return, Refetch, Begin, vars, server, cache
<1>5. PressInv' BY DEF PressInv, Offered, Buttons, Shows, Then, Renews, EditSession, Outcomes, Query, Return, Refetch, Begin, vars, server, cache
<1>6. AnswerInv' BY DEF AnswerInv, PressInv, Cached, Query, Return, Refetch, Begin, vars, server, cache
<1>7. SavedInv' BY DEF SavedInv, DisplayInv, FetchInv, Cached, Query, Return, Refetch, Begin, vars, server, cache
<1> QED BY <1>1, <1>2, <1>3, <1>4, <1>5, <1>6, <1>7

-----------------------------------------------------------------------------
(* Renewals and changes.                                                    *)

\* No fetch that has read something counts any more.
NoneCounts ==
    /\ \A f, g \in fetch' : f = g
    /\ \A f \in fetch' : /\ f \in [at : {"sent", "read"}, version : 0..Len(past), over : BOOLEAN]
                         /\ f.at = "read" => f.over

\* The fetches that are overtaken are the same ones, and do not count.
LEMMA Overtaken == ASSUME IInv, fetch' = Overrun PROVE NoneCounts
<1>1. \A f \in fetch : /\ [f EXCEPT !.over = TRUE]
                             \in [at : {"sent", "read"}, version : 0..Len(past), over : BOOLEAN]
                       /\ [f EXCEPT !.over = TRUE].over
  BY DEF IInv, FetchInv
<1>2. \A f, g \in fetch : f = g BY DEF IInv, FetchInv
<1> QED BY <1>1, <1>2 DEF NoneCounts, Overrun

\* An invalidation marks the query, and no fetch that has read counts.
LEMMA Invalidated ==
    ASSUME IInv, Cached, Invalidate PROVE NoneCounts /\ invalid' = TRUE
<1>1. invalid' = TRUE /\ (fetch' = Overrun \/ fetch' = {Begin})
  BY DEF Invalidate, Restart, Overrun
<1>2. CASE fetch' = Overrun BY <1>1, <1>2, Overtaken
<1>3. CASE fetch' = {Begin}
  BY <1>1, <1>3 DEF NoneCounts, Begin, IInv, PastInv
<1> QED BY <1>1, <1>2, <1>3

\* What a screen that shows something displays after a copy.
LEMMA Copied ==
    ASSUME IInv, NEW v \in 0..Len(past), Copy(v)
    PROVE  /\ NoneCounts
           /\ \/ seen = 0 /\ UNCHANGED <<seen, late, invalid, old>>
              \/ /\ seen > 0 /\ seen' = v /\ late' = (late \/ invalid \/ v < seen)
                 /\ invalid' = FALSE /\ old' = FALSE
BY Overtaken DEF Copy, IInv, DisplayInv

\* A renewal keeps what the invariant says of fetches.
LEMMA RenewedFetches ==
    ASSUME IInv, NoneCounts, past' = past, place' = place, told' \in 0..Len(past)
    PROVE  FetchInv' /\ \A f \in fetch' : f.at = "read" /\ ~f.over => f.version >= told'
BY DEF NoneCounts, FetchInv

\* A change appends a version; what listens to it is announced with it.
LEMMA Changed ==
    ASSUME IInv, NEW s \in StatusesOf(place.of), NEW tells, Change(s, tells), place' = place
    PROVE  /\ past' \in Seq(StatusesOf(place.of)) /\ Len(past') = Len(past) + 1
           /\ \A i \in 1..Len(past) : past'[i] = past[i]
           /\ WireInv'
<1> USE DEF IInv
<1>1. /\ past' \in Seq(StatusesOf(place.of)) /\ Len(past') = Len(past) + 1
      /\ \A i \in 1..Len(past) : past'[i] = past[i]
  BY DEF Change, PastInv
<1>2. CASE wire' = wire BY <1>1, <1>2 DEF WireInv, PastInv, Cached, Query
<1>3. CASE wire' # wire
  <2>1. PICK p \in Listeners(tells) :
          wire' = Append(wire, [version |-> Len(past) + 1, copies |-> p.copies])
    BY <1>3 DEF Change, Version
  <2>2. p \in PartsOf(place) /\ RenewsAt(place, p.renews)
    BY <2>1 DEF Listeners, Parts, Renews
  <2>3. Cached /\ p.copies \in BOOLEAN
    BY <2>2, LoadsAssumption, TablesAssumption DEF PastInv, Cached, Query
  <2>4. PICK m \in [version : Nat, copies : BOOLEAN] :
          m.version = Len(past) + 1 /\ wire' = Append(wire, m)
    BY <2>1, <2>3 DEF PastInv
  <2>5. /\ wire' \in Seq([version : Nat, copies : BOOLEAN]) /\ Len(wire') = Len(wire) + 1
        /\ wire'[Len(wire) + 1] = m /\ \A i \in 1..Len(wire) : wire'[i] = wire[i]
    BY <2>4 DEF WireInv
  <2>6. \A i \in 1..Len(wire') : wire'[i].version \in 2..Len(past')
    BY <1>1, <2>4, <2>5 DEF WireInv, PastInv
  <2>7. wire' \in Seq([version : Nat, copies : BOOLEAN]) BY <2>5
  <2> QED BY <1>1, <2>3, <2>6, <2>7 DEF WireInv, Cached, Query
<1> QED BY <1>1, <1>2, <1>3

\* A press takes what is displayed.
LEMMA PressStep == ASSUME IInv, NEW p \in Buttons, Press(p) PROVE IInv'
<1> USE DEF IInv
<1>0. /\ press' = [at |-> "sent", call |-> p.call, to |-> p.to, then |-> Then(p),
                   saw |-> seen, made |-> 0]
      /\ press = Idle /\ (Shows(p) => seen > 0 /\ past[seen] \in p.when)
      /\ UNCHANGED <<past, wire, seen, late, invalid, old, fetch, place, mounted, told, socket, mishaps>>
  BY DEF Press, server, cache
<1>1. PastInv' BY <1>0, ConsoleAssumption DEF PastInv, Press, Affordable, Version, Idle
<1>2. DisplayInv' BY <1>0 DEF DisplayInv, Cached, Query
<1>3. FetchInv' BY <1>0 DEF FetchInv
<1>4. WireInv' BY <1>0 DEF WireInv, Cached, Query
<1>5. Then(p) \in {"nothing", "copy", "invalidate"} /\ (~Cached => Then(p) = "nothing")
  BY LoadsAssumption DEF Then, Buttons, ButtonsOf, Renews, Cached, Query, PastInv
<1>6. PressInv'
  <2>1. p \in Buttons' /\ Offered(p)'
    BY <1>0 DEF Buttons, Offered, Shows, Then, Renews
  <2>2. press'.at = "sent" /\ press'.then = Then(p) /\ press'.saw = seen /\ press'.made = 0
    BY <1>0
  <2>3. seen \in 0..Len(past') /\ 0 \in 0..Len(past') BY <1>0 DEF PastInv, DisplayInv
  <2>4. press' = [at |-> press'.at, call |-> press'.call, to |-> press'.to, then |-> press'.then,
                  saw |-> press'.saw, made |-> press'.made]
    BY <1>0
  <2>5. press'.at \in Outcomes /\ press'.at # "conflict" BY <2>2 DEF Outcomes
  <2> QED BY <1>5, <2>1, <2>2, <2>3, <2>4, <2>5 DEF PressInv
<1>7. AnswerInv' BY <1>0, <1>5 DEF AnswerInv, Cached, Query
<1>8. SavedInv' BY <1>0 DEF SavedInv, Query
<1> QED BY <1>1, <1>2, <1>3, <1>4, <1>6, <1>7, <1>8

\* Another user's change outdates what is displayed and what was read.
LEMMA OthersStep == ASSUME IInv, NEW op \in WritersOf[Query.call], Others(op) PROVE IInv'
<1> USE DEF IInv
<1>0. /\ UNCHANGED <<seen, late, invalid, old, fetch, place, mounted, press, told, socket, mishaps>>
      /\ Affordable(2)
  BY DEF Others, cache
<1>1. PICK to \in StatusesOf(place.of) \cup {"same"} : \E s \in Ends(op.op, to) : Change(s, op.tells)
  BY DEF Others
<1>2. PICK s \in Ends(op.op, to) : Change(s, op.tells) BY <1>1
<1>3. Status \in StatusesOf(place.of) BY DEF PastInv, Status, Version
<1>4. s \in StatusesOf(place.of)
  BY <1>1, <1>2, <1>3, TablesAssumption DEF PastInv, Ends, Query
<1>5. /\ past' \in Seq(StatusesOf(place.of)) /\ Len(past') = Len(past) + 1
      /\ \A i \in 1..Len(past) : past'[i] = past[i]
      /\ WireInv'
  BY <1>0, <1>2, <1>4, Changed
<1>6. PastInv' BY <1>0, <1>5, ConsoleAssumption DEF PastInv, Affordable, Version
<1>7. DisplayInv' BY <1>0, <1>5 DEF DisplayInv, Cached, Query, PastInv
<1>8. FetchInv' BY <1>0, <1>5 DEF FetchInv, PastInv
<1>9. PressInv'
  <2>1. ASSUME press.at = "sent" PROVE \E p \in Buttons' : Offered(p)'
    <3>1. PICK p \in Buttons : Offered(p) BY <2>1 DEF PressInv
    <3>2. press.saw > 0 => past'[press.saw] = past[press.saw]
      BY <1>5 DEF PressInv, PastInv
    <3> QED BY <1>0, <3>1, <3>2 DEF Buttons, Offered, Shows, Then, Renews
  <2>2. press' = press /\ EditSession' = EditSession BY <1>0 DEF EditSession
  <2>3. press.saw \in 0..Len(past') /\ press.made \in 0..Len(past') BY <1>5 DEF PressInv, PastInv
  <2>4. press.at = "conflict" /\ ~EditSession => press.saw < Len(past')
    BY <1>5 DEF PressInv, PastInv
  <2> QED BY <2>1, <2>2, <2>3, <2>4 DEF PressInv
<1>10. AnswerInv' BY <1>0 DEF AnswerInv, Cached, Query
<1>11. SavedInv' BY <1>0 DEF SavedInv, Query
<1> QED BY <1>5, <1>6, <1>7, <1>8, <1>9, <1>10, <1>11

\* The user's own change; the answer knows which version it made.
LEMMA ApplyStep == ASSUME IInv, Apply PROVE IInv'
<1> USE DEF IInv
<1>0. /\ UNCHANGED <<seen, late, invalid, old, fetch, place, mounted, told, socket, mishaps>>
      /\ press.at = "sent"
  BY DEF Apply, cache, Reached
<1>1. PICK p \in Buttons : Offered(p) BY <1>0 DEF PressInv
<1>2. CASE ~Outdates(press.call)
  <2>1. past' = past /\ wire' = wire BY <1>2 DEF Apply, server
  <2>2. PICK o \in {"idle", "applied"} : \E t \in {"none", press.call} : \E n \in {"nothing", press.then} :
          press' = [at |-> o, call |-> t, to |-> "same", then |-> n, saw |-> 0, made |-> 0]
    BY <1>2 DEF Apply, Idle
  <2>3. press'.at = o /\ press'.then \in {"nothing", press.then} /\ press'.made = 0 /\ press'.saw = 0
    BY <2>2
  <2>4. PastInv' BY <1>0, <2>1, <2>3, ConsoleAssumption DEF PastInv
  <2>5. DisplayInv' BY <1>0, <2>1 DEF DisplayInv, Cached, Query
  <2>6. FetchInv' BY <1>0, <2>1 DEF FetchInv
  <2>7. WireInv' BY <1>0, <2>1 DEF WireInv, Cached, Query
  <2>8. PressInv' BY <2>1, <2>2 DEF PressInv, Outcomes, PastInv
  <2>9. AnswerInv' BY <1>0, <2>3 DEF AnswerInv, Cached, Query
  <2>10. SavedInv' BY <1>0 DEF SavedInv, Query
  <2> QED BY <2>4, <2>5, <2>6, <2>7, <2>8, <2>9, <2>10
<1>3. CASE Outdates(press.call)
  <2>1. press' = [at |-> "applied", call |-> press.call, to |-> "same", then |-> press.then,
                  saw |-> 0, made |-> Len(past) + 1]
    BY <1>3 DEF Apply, Idle, Version
  <2>2. PICK op \in Does[press.call] : \E s \in Ends(op, press.to) : Change(s, ToldBy[press.call])
    BY <1>3 DEF Apply
  <2>3. PICK s \in Ends(op, press.to) : Change(s, ToldBy[press.call]) BY <2>2
  <2>4. Status \in StatusesOf(place.of) BY DEF PastInv, Status, Version
  <2>5. s \in StatusesOf(place.of)
    BY <1>1, <2>2, <2>3, <2>4, TablesAssumption DEF PastInv, Ends, Offered, Buttons
  <2>6. /\ past' \in Seq(StatusesOf(place.of)) /\ Len(past') = Len(past) + 1
        /\ \A i \in 1..Len(past) : past'[i] = past[i]
        /\ WireInv'
    BY <1>0, <2>3, <2>5, Changed
  <2>7. PastInv' BY <1>0, <2>1, <2>6, ConsoleAssumption DEF PastInv
  <2>8. DisplayInv' BY <1>0, <2>6 DEF DisplayInv, Cached, Query, PastInv
  <2>9. FetchInv' BY <1>0, <2>6 DEF FetchInv, PastInv
  <2>10. PressInv' BY <2>1, <2>6 DEF PressInv, Outcomes, PastInv
  <2>11. Owes(place, press.call) => press.then # "nothing"
    BY <1>1, <1>3, ButtonsAssumption
    DEF PastInv, Query, Offered, Outdates, Then, Renews, Buttons
  <2>12. AnswerInv' BY <1>0, <2>1, <2>11 DEF AnswerInv, Cached, Query
  <2>13. SavedInv' BY <1>0 DEF SavedInv, Query
  <2> QED BY <2>6, <2>7, <2>8, <2>9, <2>10, <2>12, <2>13
<1> QED BY <1>2, <1>3

\* The answer of a press renews what it must, or is displayed.
LEMMA SucceedStep == ASSUME IInv, Succeed PROVE IInv'
<1> USE DEF IInv
<1>0. /\ UNCHANGED <<past, wire, place, mounted, socket, mishaps>>
      /\ press.at = "applied" /\ press' = Idle
      /\ told' = IF press.made > told /\ Owes(place, press.call) THEN press.made ELSE told
  BY DEF Succeed, server
<1>1. /\ press' = [at |-> "idle", call |-> "none", to |-> "same", then |-> "nothing",
                   saw |-> 0, made |-> 0]
      /\ told' \in 0..Len(past) /\ press.made \in 0..Len(past) /\ told \in 0..Len(past)
      /\ told' >= told
  BY <1>0 DEF Idle, PressInv, DisplayInv, PastInv
<1>2. PastInv' BY <1>0, <1>1, ConsoleAssumption DEF PastInv
<1>3. WireInv' BY <1>0 DEF WireInv, Cached, Query
<1>4. PressInv' BY <1>0, <1>1 DEF PressInv, Outcomes, PastInv
<1>5. AnswerInv' BY <1>1 DEF AnswerInv
<1>6. CASE press.then = "nothing"
  <2>1. UNCHANGED <<seen, late, invalid, old, fetch>> BY <1>6 DEF Succeed, cache
  <2>2. told' = told
    BY <1>0, <1>1, <1>6 DEF AnswerInv
  <2>3. DisplayInv' BY <1>0, <1>1, <2>1 DEF DisplayInv, Cached, Query
  <2>4. FetchInv' BY <1>0, <2>1 DEF FetchInv
  <2>5. SavedInv' BY <1>0, <2>1, <2>2 DEF SavedInv, Query
  <2> QED BY <1>2, <1>3, <1>4, <1>5, <2>3, <2>4, <2>5
<1>7. CASE press.then = "invalidate"
  <2>1. Cached BY <1>7 DEF AnswerInv
  <2>2. Invalidate /\ UNCHANGED <<seen, late, old>> BY <1>7 DEF Succeed
  <2>3. NoneCounts /\ invalid' = TRUE BY <2>1, <2>2, Invalidated
  <2>4. FetchInv' /\ \A f \in fetch' : f.at = "read" /\ ~f.over => f.version >= told'
    BY <1>0, <1>1, <2>3, RenewedFetches
  <2>5. DisplayInv' BY <1>0, <1>1, <2>1, <2>2, <2>3 DEF DisplayInv, Cached, Query
  <2>6. SavedInv' BY <2>3, <2>4 DEF SavedInv
  <2> QED BY <1>2, <1>3, <1>4, <1>5, <2>4, <2>5, <2>6
<1>8. CASE press.then = "copy"
  <2>1. Cached BY <1>8 DEF AnswerInv
  <2>2. Copy(press.made) BY <1>8 DEF Succeed
  <2>3. /\ NoneCounts
        /\ \/ seen = 0 /\ UNCHANGED <<seen, late, invalid, old>>
           \/ /\ seen > 0 /\ seen' = press.made /\ late' = (late \/ invalid \/ press.made < seen)
              /\ invalid' = FALSE /\ old' = FALSE
    BY <1>1, <2>2, Copied
  <2>4. FetchInv' /\ \A f \in fetch' : f.at = "read" /\ ~f.over => f.version >= told'
    BY <1>0, <1>1, <2>3, RenewedFetches
  <2>5. DisplayInv'
    <3>1. seen' \in 0..Len(past') /\ told' \in 0..Len(past') BY <1>0, <1>1, <2>3 DEF DisplayInv
    <3>2. late' \in BOOLEAN /\ invalid' \in BOOLEAN /\ old' \in BOOLEAN BY <2>3 DEF DisplayInv
    <3> QED BY <1>0, <2>1, <3>1, <3>2 DEF DisplayInv, Cached, Query
  <2>6. seen' > 0 /\ ~late' /\ ~invalid' => seen' >= told'
    <3>1. CASE seen = 0 /\ UNCHANGED <<seen, late, invalid, old>> BY <3>1, <1>1
    <3>2. CASE /\ seen > 0 /\ seen' = press.made /\ late' = (late \/ invalid \/ press.made < seen)
               /\ invalid' = FALSE /\ old' = FALSE
      <4>1. SUFFICES ASSUME ~late' PROVE press.made >= told
        BY <1>0, <1>1, <3>2
      <4>2. ~late /\ ~invalid /\ ~(press.made < seen) /\ seen > 0
        BY <3>2, <4>1
      <4>3. seen >= told BY <4>1, <4>2 DEF SavedInv
      <4> QED BY <1>1, <4>2, <4>3 DEF DisplayInv, PastInv
    <3> QED BY <2>3, <3>1, <3>2
  <2>7. SavedInv' BY <1>0, <2>4, <2>6 DEF SavedInv, Query
  <2> QED BY <1>2, <1>3, <1>4, <1>5, <2>4, <2>5, <2>7
<1> QED BY <1>6, <1>7, <1>8 DEF PressInv

\* An announcement arrives, and renews or is displayed when the screen is open.
LEMMA DeliverStep == ASSUME IInv, Deliver PROVE IInv'
<1> USE DEF IInv
<1>0. /\ UNCHANGED <<past, place, mounted, press, told, socket, mishaps>>
      /\ wire # <<>> /\ wire' = Tail(wire)
  BY DEF Deliver
<1>1. /\ Cached /\ Head(wire).version \in 0..Len(past)
      /\ wire' \in Seq([version : Nat, copies : BOOLEAN])
      /\ \A i \in 1..Len(wire') : wire'[i].version \in 2..Len(past)
  BY <1>0 DEF WireInv, PastInv
<1>2. PastInv' BY <1>0 DEF PastInv
<1>3. WireInv' BY <1>0, <1>1 DEF WireInv, Cached, Query
<1>4. PressInv'
  BY <1>0 DEF PressInv, Offered, Buttons, Shows, Then, Renews, EditSession, Query
<1>5. AnswerInv' BY <1>0 DEF AnswerInv, Cached, Query
<1>6. CASE ~mounted
  <2>1. UNCHANGED <<seen, late, invalid, old, fetch>> BY <1>6 DEF Deliver, cache
  <2>3. DisplayInv' BY <1>0, <1>1, <2>1 DEF DisplayInv, Cached, Query
  <2>4. FetchInv' BY <1>0, <2>1 DEF FetchInv
  <2>5. SavedInv' BY <1>0, <2>1 DEF SavedInv, Query
  <2> QED BY <1>2, <1>3, <1>4, <1>5, <2>3, <2>4, <2>5
<1>7. CASE mounted /\ ~Head(wire).copies
  <2>2. Invalidate /\ UNCHANGED <<seen, late, old>> BY <1>7 DEF Deliver
  <2>3. NoneCounts /\ invalid' = TRUE BY <1>1, <2>2, Invalidated
  <2>4. FetchInv' /\ \A f \in fetch' : f.at = "read" /\ ~f.over => f.version >= told'
    BY <1>0, <2>3, RenewedFetches DEF DisplayInv
  <2>5. DisplayInv' BY <1>0, <1>1, <2>2, <2>3 DEF DisplayInv, Cached, Query
  <2>6. SavedInv' BY <2>3, <2>4 DEF SavedInv
  <2> QED BY <1>2, <1>3, <1>4, <1>5, <2>4, <2>5, <2>6
<1>8. CASE mounted /\ Head(wire).copies
  <2>1. PICK v \in 0..Len(past) : v = Head(wire).version BY <1>1
  <2>2. Copy(v) BY <1>8, <2>1 DEF Deliver
  <2>3. /\ NoneCounts
        /\ \/ seen = 0 /\ UNCHANGED <<seen, late, invalid, old>>
           \/ /\ seen > 0 /\ seen' = v /\ late' = (late \/ invalid \/ v < seen)
              /\ invalid' = FALSE /\ old' = FALSE
    BY <2>2, Copied
  <2>4. FetchInv' /\ \A f \in fetch' : f.at = "read" /\ ~f.over => f.version >= told'
    BY <1>0, <2>3, RenewedFetches DEF DisplayInv
  <2>5. DisplayInv'
    <3>1. seen' \in 0..Len(past') /\ told' \in 0..Len(past') BY <1>0, <2>3 DEF DisplayInv
    <3>2. late' \in BOOLEAN /\ invalid' \in BOOLEAN /\ old' \in BOOLEAN BY <2>3 DEF DisplayInv
    <3> QED BY <1>0, <1>1, <3>1, <3>2 DEF DisplayInv, Cached, Query
  <2>6. seen' > 0 /\ ~late' /\ ~invalid' => seen' >= told'
    <3>1. CASE seen = 0 /\ UNCHANGED <<seen, late, invalid, old>> BY <3>1
    <3>2. CASE /\ seen > 0 /\ seen' = v /\ late' = (late \/ invalid \/ v < seen)
               /\ invalid' = FALSE /\ old' = FALSE
      <4>1. SUFFICES ASSUME seen' > 0, ~late' PROVE v >= told
        BY <1>0, <3>2
      <4>2. ~late /\ ~invalid /\ ~(v < seen) /\ seen > 0 BY <3>2, <4>1
      <4>3. seen >= told BY <4>1, <4>2 DEF SavedInv
      <4> QED BY <4>2, <4>3 DEF DisplayInv, PastInv
    <3> QED BY <2>3, <3>1, <3>2
  <2>7. SavedInv' BY <1>0, <2>4, <2>6 DEF SavedInv, Query
  <2> QED BY <1>2, <1>3, <1>4, <1>5, <2>4, <2>5, <2>7
<1> QED BY <1>6, <1>7, <1>8

-----------------------------------------------------------------------------
(* The theorems.                                                            *)

LEMMA Start == Init => IInv
<1> SUFFICES ASSUME Init PROVE IInv OBVIOUS
<1>1. PICK s \in StatusesOf(place.of) : past = <<s>> BY DEF Init
<1>2. past \in Seq(StatusesOf(place.of)) /\ Len(past) = 1 BY <1>1
<1>3. fetch = {} \/ fetch = {[at |-> "sent", version |-> 0, over |-> FALSE]}
  BY DEF Init, Begin
<1>4. press = [at |-> "idle", call |-> "none", to |-> "same", then |-> "nothing", saw |-> 0, made |-> 0]
  BY DEF Init, Idle
<1>5. PastInv BY <1>2, <1>4, ConsoleAssumption DEF Init, PastInv
<1>6. DisplayInv
  <2>1. seen = 0 /\ told = 0 /\ late = FALSE /\ invalid = FALSE /\ old = FALSE /\ mounted = TRUE
        /\ socket = "joined"
    BY DEF Init
  <2>2. seen \in 0..Len(past) /\ told \in 0..Len(past) BY <1>2, <2>1
  <2>3. {late, invalid, old, mounted} \subseteq BOOLEAN BY <2>1
  <2> QED BY <2>1, <2>2, <2>3 DEF DisplayInv
<1>7. FetchInv
  <2>1. CASE fetch = {} BY <2>1 DEF FetchInv
  <2>2. CASE fetch = {[at |-> "sent", version |-> 0, over |-> FALSE]} BY <1>2, <2>2 DEF FetchInv
  <2> QED BY <1>3, <2>1, <2>2
<1>8. WireInv
  <2>1. wire = <<>> /\ Len(wire) = 0 BY DEF Init
  <2> QED BY <2>1 DEF WireInv
<1>9. PressInv BY <1>2, <1>4 DEF PressInv, Outcomes
<1>10. AnswerInv BY <1>4 DEF AnswerInv
<1>11. SavedInv BY <1>3 DEF Init, SavedInv
<1> QED BY <1>5, <1>6, <1>7, <1>8, <1>9, <1>10, <1>11 DEF IInv

\* Every step keeps the invariant.
LEMMA Step == IInv /\ [Next]_vars => IInv'
<1> SUFFICES ASSUME IInv, [Next]_vars PROVE IInv' OBVIOUS
<1>1. CASE Next
  BY <1>1, AgainStep, ReadStep, DenyStep, ReplyStep, FailStep, PressStep, TurnAwayStep,
     ConflictStep, RefuseStep, ApplyStep, SucceedStep, GiveUpStep, OthersStep, DeliverStep,
     DropStep, ReconnectStep, LeaveStep, AgeStep, ReturnStep
  DEF Next, ReadAFetch, DenyAFetch, ReplyToAFetch, FailAFetch, PressAButton, OthersChange
<1>2. CASE UNCHANGED vars
  <2> USE <1>2 DEF vars
  <2>1. PastInv' /\ DisplayInv' /\ FetchInv' /\ WireInv'
    BY DEF IInv, PastInv, DisplayInv, FetchInv, WireInv, Cached, Query
  <2>2. PressInv'
    BY DEF IInv, PressInv, Offered, Buttons, Shows, Then, Renews, EditSession, Query
  <2>3. AnswerInv' /\ SavedInv' BY DEF IInv, AnswerInv, SavedInv, Cached, Query
  <2> QED BY <2>1, <2>2, <2>3 DEF IInv
<1> QED BY <1>1, <1>2

\* In every behaviour: fetches, presses and announcements are what the
\* invariant says.
THEOREM ScreenHolds == Spec => []IInv
BY Start, Step, PTL DEF Spec

\* What the server confirmed to the user is on the user's screen once it is
\* settled, on every screen and for any number of changes.
THEOREM SavedAppears == Spec => []SavedIsShown
<1>1. IInv => SavedIsShown BY DEF IInv, SavedInv, SavedIsShown, Settled
<1> QED BY <1>1, ScreenHolds, PTL

\* A button is refused for the record's status only when somebody changed
\* the record after it was displayed.
THEOREM OffersAreCurrent == Spec => []RefusedOnlyWhenOvertaken
<1>1. IInv => RefusedOnlyWhenOvertaken
  BY DEF IInv, PressInv, RefusedOnlyWhenOvertaken, Version
<1> QED BY <1>1, ScreenHolds, PTL

\* What a step may do to the display of a screen that stays open.
LEMMA Onwards ==
    ASSUME IInv, [Next]_vars, mounted, mounted', seen' # seen PROVE seen' >= seen \/ late'
<1> USE DEF IInv
<1>1. CASE ReplyToAFetch
  <2>1. PICK f \in fetch : Reply(f) BY <1>1 DEF ReplyToAFetch
  <2>2. f.at = "read" /\ seen' = f.version /\ late' = f.over BY <2>1 DEF Reply
  <2>3. f.over \in BOOLEAN /\ f.version \in Nat BY DEF FetchInv, PastInv
  <2> QED BY <2>2, <2>3 DEF FetchInv
<1>2. CASE Succeed
  <2>1. press.then = "copy" /\ Copy(press.made) BY <1>2 DEF Succeed, cache, PressInv
  <2>2. press.made \in 0..Len(past) BY DEF PressInv
  <2>3. seen' = press.made /\ late' = (late \/ invalid \/ press.made < seen)
    BY <2>1 DEF Copy
  <2>4. CASE press.made < seen BY <2>3, <2>4
  <2>5. CASE ~(press.made < seen) BY <2>2, <2>3, <2>5 DEF DisplayInv, PastInv
  <2> QED BY <2>4, <2>5
<1>3. CASE Deliver
  <2>1. Copy(Head(wire).version) BY <1>3 DEF Deliver, cache
  <2>2. Head(wire).version \in Nat BY <1>3 DEF Deliver, WireInv
  <2>3. /\ seen' = Head(wire).version
        /\ late' = (late \/ invalid \/ Head(wire).version < seen)
    BY <2>1 DEF Copy
  <2>4. CASE Head(wire).version < seen BY <2>3, <2>4
  <2>5. CASE ~(Head(wire).version < seen) BY <2>2, <2>3, <2>5 DEF DisplayInv, PastInv
  <2> QED BY <2>4, <2>5
<1>4. CASE ~ReplyToAFetch /\ ~Succeed /\ ~Deliver
  BY <1>4 DEF vars, Next, cache, server, Again, ReadAFetch, Read, DenyAFetch, Deny, FailAFetch, Fail,
       PressAButton, Press, TurnAway, Conflict, Refuse, Apply, GiveUp, OthersChange, Others,
       Drop, Reconnect, Leave, Age, Return
<1> QED BY <1>1, <1>2, <1>3, <1>4

\* A screen that stays open never goes back to an older version, except to
\* what a fetch that was overtaken brings.
THEOREM DisplayMovesForward == Spec => NeverBackwards
<1>1. IInv /\ [Next]_vars => [mounted /\ mounted' => seen' >= seen \/ late']_vars
  BY Onwards DEF IInv, PastInv, DisplayInv
<1> QED BY <1>1, ScreenHolds, PTL DEF Spec, NeverBackwards

-----------------------------------------------------------------------------
(* No dead ends.                                                            *)

\* Only a press of one of the screen's buttons is turned away.
TurnedAway ==
    press.at \in {"missing", "forbidden"} =>
        ~Granted(press.call) /\ \E p \in Buttons : press.call = p.call

LEMMA TurnedAwayStep ==
  ASSUME IInv, TurnedAway, [Next]_vars
  PROVE  TurnedAway'
<1>1. place' = place
  BY DEF vars, Next, cache, server, Again, ReadAFetch, Read, DenyAFetch, Deny, ReplyToAFetch, Reply,
         FailAFetch, Fail, PressAButton, Press, TurnAway, Conflict, Refuse, Apply, Succeed, GiveUp,
         OthersChange, Others, Deliver, Drop, Reconnect, Leave, Age, Return
<1>2. Buttons' = Buttons /\ \A c : Granted(c)' <=> Granted(c)
  BY <1>1 DEF Buttons, Granted
<1>3. CASE TurnAway
  <2>1. PICK p \in Buttons : press.call = p.call
    BY <1>3 DEF TurnAway, IInv, PressInv, Offered
  <2>2. ~Granted(press.call) /\ press'.call = press.call
    BY <1>3 DEF TurnAway, Granted, GrantedAt, Answered, Idle
  <2>3. QED
    BY <1>2, <2>1, <2>2 DEF TurnedAway
<1>4. CASE ~TurnAway
  <2>1. CASE Conflict \/ Refuse \/ Apply \/ Succeed \/ GiveUp
    <3>1. press'.at \in {"idle", "conflict", "unanswered", "applied"}
      <4>1. CASE Conflict
        BY <4>1 DEF Conflict, IInv, PressInv
      <4>2. CASE Refuse
        BY <4>2 DEF Refuse, Idle
      <4>3. CASE Apply
        <5>1. \/ press' = Idle
              \/ press' = [Idle EXCEPT !.at = "applied", !.call = press.call, !.then = press.then, !.made = Version + 1]
              \/ press' = [Idle EXCEPT !.at = "applied", !.then = press.then]
          BY <4>3 DEF Apply
        <5>2. /\ Idle.at = "idle"
              /\ [Idle EXCEPT !.at = "applied", !.call = press.call, !.then = press.then, !.made = Version + 1].at = "applied"
              /\ [Idle EXCEPT !.at = "applied", !.then = press.then].at = "applied"
          BY DEF Idle
        <5>3. QED
          BY <5>1, <5>2
      <4>4. CASE Succeed \/ GiveUp
        <5>1. press' = Idle
          BY <4>4 DEF Succeed, GiveUp
        <5>2. QED
          BY <5>1 DEF Idle
      <4>5. QED
        BY <2>1, <4>1, <4>2, <4>3, <4>4
    <3>2. QED
      BY <3>1 DEF TurnedAway
  <2>2. CASE PressAButton \/ Leave
    <3>1. press' = press \/ press'.at \in {"idle", "sent"}
      BY <2>2 DEF PressAButton, Press, Leave, Idle
    <3>2. QED
      BY <1>2, <3>1 DEF TurnedAway
  <2>3. CASE press' = press
    BY <1>2, <2>3 DEF TurnedAway
  <2>4. QED
    BY <1>4, <2>1, <2>2, <2>3 DEF vars, Next, Again, ReadAFetch, Read, DenyAFetch, Deny, ReplyToAFetch,
         Reply, FailAFetch, Fail, OthersChange, Others, Deliver, Drop, Reconnect, Age, Return
<1>5. QED
  BY <1>3, <1>4

LEMMA ScreenTypes == ASSUME IInv PROVE TypeOK
<1>1. /\ place \in Places /\ past \in Seq(StatusesOf(place.of)) /\ Len(past) \in Nat \ {0}
      /\ mishaps \in Nat /\ MaxTrouble \in Nat /\ 2 * (Len(past) - 1) <= MaxTrouble
  BY ConsoleAssumption DEF IInv, PastInv
<1>2. past \in UNION {[1..n -> StatusesOf(place.of)] : n \in 1 .. 1 + MaxTrouble \div 2}
  <2>1. Len(past) \in 1 .. 1 + MaxTrouble \div 2
    <3>1. Len(past) - 1 <= MaxTrouble \div 2
      BY <1>1
    <3>2. QED
      BY <1>1, <3>1
  <2>2. past \in [1..Len(past) -> StatusesOf(place.of)]
    BY <1>1
  <2>3. QED
    BY <2>1, <2>2
<1>3. Cardinality(fetch) <= 1
  <2>1. CASE fetch = {}
    BY <2>1, FS_EmptySet
  <2>2. CASE fetch # {}
    <3>1. PICK f \in fetch : fetch = {f}
      BY <2>2 DEF IInv, FetchInv
    <3>2. QED
      BY <3>1, FS_Singleton
  <2>3. QED
    BY <2>1, <2>2
<1>4. \A f \in fetch : f.at \in {"sent", "read"} /\ f.version \in 0..Version /\ f.over \in BOOLEAN
  BY DEF IInv, FetchInv, Version
<1>5. \A i \in DOMAIN wire : wire[i].version \in 2..Version /\ wire[i].copies \in BOOLEAN
  <2>1. wire \in Seq([version : Nat, copies : BOOLEAN])
    BY DEF IInv, WireInv
  <2>2. DOMAIN wire = 1..Len(wire)
    BY <2>1
  <2>3. \A i \in 1..Len(wire) : wire[i] \in [version : Nat, copies : BOOLEAN]
    BY <2>1, ElementOfSeq
  <2>4. \A i \in 1..Len(wire) : wire[i].copies \in BOOLEAN
    BY <2>3
  <2>5. QED
    BY <2>2, <2>4 DEF IInv, WireInv, Version
<1>6. QED
  BY <1>1, <1>2, <1>3, <1>4, <1>5 DEF IInv, DisplayInv, PressInv, TypeOK, Version

\* What the screens ask for and offer is served, wherever somebody may be.
ScreensAreServed == \A pl \in Places : Served(pl)

\* In every behaviour the cache is well formed, and nobody is turned away but
\* by the calls that are known to lead nowhere.
THEOREM ScreensLeadSomewhere ==
  ASSUME ScreensAreServed
  PROVE  Spec => []ScreenInv
<1>1. Init => TurnedAway
  BY DEF Init, TurnedAway, Idle
<1>2. IInv /\ TurnedAway /\ [Next]_vars => TurnedAway'
  BY TurnedAwayStep
<1>3. IInv /\ TurnedAway => ScreenInv
  <2> SUFFICES ASSUME IInv, TurnedAway PROVE ScreenInv
    OBVIOUS
  <2>1. Served(place)
    BY DEF ScreensAreServed, IInv, PastInv
  <2>2. press.at \in {"missing", "forbidden"} => <<place.at, press.call>> \in DeadEnds
    BY <2>1 DEF TurnedAway, Served, Buttons, Granted
  <2>3. QED
    BY <2>1, <2>2, ScreenTypes DEF ScreenInv, NoDeadEnds
<1>4. QED
  BY <1>1, <1>2, <1>3, ScreenHolds, PTL DEF Spec
=============================================================================
