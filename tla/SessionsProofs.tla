--------------------------- MODULE SessionsProofs ---------------------------
(***************************************************************************)
(* Theorems about Sessions, for any tabs, browsers, passwords and orders,  *)
(* and any number of requests in flight.                                   *)
(*                                                                         *)
(* A handler that read something and will write it later is right only if  *)
(* what it read still holds: `Claims' says what that is for every request, *)
(* most of it for requests nobody has disturbed (Alone).  Two requests     *)
(* about the same thing are on record (Rivalry), so a step of one of them  *)
(* disturbs no claim of another.                                           *)
(***************************************************************************)
EXTENDS Sessions, SequenceTheorems, FiniteSetTheorems, TLAPS

Say(ok) == [do |-> "reply", ok |-> ok]
Whys == {"", "rotated", "logout", "reset", "reuse"}

(* Shapes of the data. *)

DataInv ==
    /\ user # NoUser => user \in Fields
    /\ rows \in Seq([family : Nat, epoch : Nat, why : Whys, expired : BOOLEAN])
    /\ links \in Seq([type : {"verify", "reset"}, state : {"open", "used", "over", "gone"}])
    /\ orders \in [Order -> {"none", "guest", "linked"}]
    /\ jar \in [Browser -> [cookie : 0..Len(rows), hint : BOOLEAN]]
    /\ access \in [Tab -> BOOLEAN]
    /\ hist \in [epoch : Nat, crossed : SUBSET Slot, raced : SUBSET Int, shared : SUBSET Int,
                 failures : Nat, uses : Seq(Nat), over : SUBSET Int, alarms : SUBSET Int,
                 claimed : SUBSET Order]
    /\ Len(hist.uses) = Len(links)
    /\ links # <<>> => user # NoUser
    /\ hist.over \subseteq 1..Len(rows)

\* A row belongs to the family named after its first row, and has its epoch.
FamiliesInv ==
    \A s \in 1..Len(rows) :
        /\ rows[s].family \in 1..s
        /\ rows[rows[s].family].family = rows[s].family
        /\ rows[s].epoch = rows[rows[s].family].epoch

(* What is left of a request. *)

After(c) == IF c THEN <<ClaimOrders, Say(TRUE)>> ELSE <<Say(TRUE)>>
Opening(epoch, c) == IF c THEN <<Open(0, epoch), ClaimOrders, Say(TRUE)>>
                     ELSE <<Open(0, epoch), Say(TRUE)>>
WillOpen(t, c) == Head(t).epoch \in Nat /\ t = Opening(Head(t).epoch, c)
Linking(l, op) == IF op = "verify" THEN <<UseLink(l), ClaimOrders, Say(TRUE)>>
                  ELSE <<UseLink(l), [do |-> "revokeall"], Say(TRUE)>>
Linked(op) == IF op = "verify" THEN <<ClaimOrders, Say(TRUE)>>
              ELSE <<[do |-> "revokeall"], Say(TRUE)>>
Replacing(s) == <<[do |-> "rotated", row |-> s], Say(TRUE)>>
Mailing(type) == <<DropLinks(type), NewLink(type), Say(TRUE)>>
Mailed(type) == <<NewLink(type), Say(TRUE)>>

\* The fields a save may write, by what it records, and their values.
Writable == [failure |-> {"attempts", "locked"}, success |-> {"attempts", "locked"},
             google |-> {"google", "verified"}, verify |-> {"verified"},
             reset |-> {"attempts", "locked", "pw"}]
PatchInv(fact, set) ==
    /\ fact \in DOMAIN Writable
    /\ DOMAIN set \subseteq Writable[fact]
    /\ "attempts" \in DOMAIN set => set.attempts \in 0..MaxAttempts - 1
    /\ "locked" \in DOMAIN set => set.locked \in {"no", "on", "over"}
    /\ "google" \in DOMAIN set => set.google = TRUE
    /\ "verified" \in DOMAIN set => set.verified = TRUE
    /\ "pw" \in DOMAIN set => set.pw \in Password

\* What a handler has left, by its next step.
PlanInv(op, row, h, t, known, rs, n) ==
    \/ h.do = "register" /\ op = "register" /\ h.pw \in Password
    \/ h.do = "login" /\ op = "login" /\ h.pw \in Password /\ h.code \in BOOLEAN
    \/ h.do = "google" /\ op = "login" /\ h.ok \in BOOLEAN
    \/ h.do \in {"verify", "reset"} /\ op = h.do /\ h.link \in 1..n
       /\ (op = "reset" => h.pw \in Password)
    \/ h.do \in {"resend", "forgot"} /\ op = "mail"
    \/ h.do = "refresh" /\ op = "refresh" /\ h.row \in 0..Len(rs)
    \/ h.do = "logout" /\ op = "logout" /\ h.row \in 0..Len(rs)
    \/ h.do = "newuser" /\ op = "register" /\ t = Mailing("verify")
       /\ h.is \in Fields /\ h.is.attempts = 0
    \/ h.do = "newuser" /\ op = "login" /\ h.is \in Fields /\ h.is.attempts = 0
       /\ WillOpen(t, h.is.verified)
    \/ /\ h.do = "user" /\ known /\ PatchInv(h.fact, h.set)
       /\ \/ h.fact \in {"failure", "google"} /\ op = "login" /\ t = Failed
          \/ h.fact = "success" /\ op = "login" /\ WillOpen(t, TRUE)
          \/ h.fact = "google" /\ op = "login"
             /\ \E c \in BOOLEAN : WillOpen(t, c)
          \/ h.fact \in {"verify", "reset"} /\ op = h.fact
             /\ Head(t).link \in 1..n /\ t = Linking(Head(t).link, op)
    \/ h.do = "open" /\ op = "login" /\ h.family = 0 /\ h.epoch \in Nat /\ known
       /\ \E c \in BOOLEAN : t = After(c)
    \/ h.do = "open" /\ op = "refresh" /\ Head(t).row \in 1..Len(rs)
       /\ h.family = rs[Head(t).row].family /\ h.epoch = rs[Head(t).row].epoch
       /\ t = Replacing(Head(t).row)
    \/ h.do = "claim" /\ op \in {"login", "verify"} /\ t = Finish
    \/ h.do = "rotated" /\ op = "refresh" /\ h.row \in 1..Len(rs) /\ t = Finish
       /\ h.row < row /\ rs[h.row].family = rs[row].family
    \/ h.do = "reuse" /\ op = "refresh" /\ h.row \in 1..Len(rs) /\ t = Failed
    \/ h.do = "revokeall" /\ op = "reset" /\ t = Finish
    \/ h.do = "droplinks" /\ op \in {"register", "mail"} /\ known
       /\ h.type \in {"verify", "reset"} /\ t = Mailed(h.type)
    \/ h.do = "newlink" /\ op \in {"register", "mail"} /\ known
       /\ h.type \in {"verify", "reset"} /\ t = Finish
    \/ h.do = "uselink" /\ op \in {"verify", "reset"} /\ h.link \in 1..n
       /\ t = Linked(op)
    \/ h.do = "reply" /\ h.ok \in BOOLEAN

\* A request has its row once it opened one, and it answers with it.
RowInv(op, row, h, rs) ==
    /\ row \in 0..Len(rs)
    /\ row # 0 <=> /\ op \in {"login", "refresh"}
                   /\ h.do \in {"claim", "rotated"} \/ (h.do = "reply" /\ h.ok)

\* What requests are about.
AboutInv(op, about, h, row, rs) ==
    /\ op \in {"register", "verify"} => about = {Account, MailLinks}
    /\ op = "login" => about = {Account}
    /\ op = "mail" => about = {MailLinks}
    /\ op = "reset" => {Account, MailLinks} \subseteq about /\ about \subseteq Int
    /\ op \in {"refresh", "logout"} => about \subseteq 1..Len(rs)
    /\ op = "refresh" =>
         /\ h.do \in {"refresh", "rotated", "reuse"} =>
              about = IF h.row = 0 THEN {} ELSE {rs[h.row].family}
         /\ h.do = "open" => about = {h.family}
         /\ row # 0 => about = {rs[row].family}

RequestInv(q, known, rs, n) ==
    \/ q = Idle
    \/ /\ q = [op |-> q.op, tab |-> q.tab, about |-> q.about, row |-> q.row,
               seen |-> q.seen, todo |-> q.todo]
       /\ q.op \in {"register", "login", "verify", "reset", "mail", "refresh", "logout"}
       /\ q.tab \in Tab
       /\ q.seen \subseteq Order
       /\ q.op # "login" => q.seen = {}
       /\ PlanInv(q.op, q.row, Head(q.todo), Tail(q.todo), known, rs, n)
       /\ RowInv(q.op, q.row, Head(q.todo), rs)
       /\ AboutInv(q.op, q.about, Head(q.todo), q.row, rs)

RequestsInv ==
    /\ req = [a \in Slot |-> req[a]]
    /\ \A a \in Slot : RequestInv(req[a], user # NoUser, rows, Len(links))

\* Requests about the same thing at the same time are on record.
Rivalry ==
    \A a, b \in Slot :
        a # b /\ Busy(a) /\ Busy(b) /\ req[a].about \cap req[b].about # {}
            => a \in hist.crossed

Alone(a) == Busy(a) /\ a \notin hist.crossed
Step(a) == Head(req[a].todo)
Left(a) == Tail(req[a].todo)

(* Failed logins. *)

\* What the save of a request nobody disturbed does to the count.
CountClaim(a) ==
    (Alone(a) /\ Step(a).do = "user") =>
        LET set == Step(a).set
        IN  /\ Step(a).fact = "failure" =>
                 /\ user.locked # "on"
                 /\ IF user.attempts + 1 >= MaxAttempts
                    THEN /\ "locked" \in DOMAIN set /\ set.locked = "on"
                         /\ IF "attempts" \in DOMAIN set THEN set.attempts = 0
                            ELSE user.attempts = 0
                    ELSE /\ DOMAIN set = {"attempts"}
                         /\ set.attempts = user.attempts + 1
            /\ Step(a).fact \in {"success", "reset"} =>
                 IF "attempts" \in DOMAIN set THEN set.attempts = 0 ELSE user.attempts = 0

CountInv ==
    /\ user = NoUser => hist.failures = 0
    /\ user # NoUser /\ Account \notin hist.raced =>
         user.attempts = hist.failures /\ hist.failures < MaxAttempts

(* Links. *)

Pending(a) == IF Step(a).do = "uselink" THEN Step(a).link ELSE Head(Left(a)).link
WillUse(a) ==
    Step(a).do = "uselink" \/ (Step(a).do = "user" /\ req[a].op \in {"verify", "reset"})

\* A link that will be used was not used yet, and one that will be created is
\* the only one of its type.
LinkClaim(a) ==
    (Alone(a) /\ MailLinks \notin hist.raced) =>
        /\ WillUse(a) => hist.uses[Pending(a)] = 0
        /\ Step(a).do = "newlink" =>
             \A l \in 1..Len(links) : links[l].type # Step(a).type \/ ~Usable(l)

LinksInv ==
    MailLinks \notin hist.raced =>
        /\ \A l \in 1..Len(links) :
             hist.uses[l] <= 1 /\ (Usable(l) => hist.uses[l] = 0)
        /\ \A k, l \in 1..Len(links) :
             (links[k].type = links[l].type /\ Usable(k) /\ Usable(l)) => k = l

(* Orders. *)

\* A login that will not claim orders found the address unverified, and still does.
OrderClaim(a) ==
    Busy(a) =>
    /\ \A o \in req[a].seen : orders[o] # "none"
    /\ (Alone(a) /\ req[a].op = "login") =>
         /\ (Step(a).do = "user" /\ Left(a) # Failed) =>
              \/ WillOpen(Left(a), TRUE)
              \/ ~user.verified /\ "verified" \notin DOMAIN Step(a).set
         /\ Step(a).do = "open" => Left(a) = After(TRUE) \/ ~user.verified
         /\ (Step(a).do = "reply" /\ Step(a).ok /\ user.verified) =>
              \A o \in req[a].seen : orders[o] = "linked"

(* Rows. *)

RowsOf(f) == {s \in 1..Len(rows) : rows[s].family = f}
LiveRows(f) == {s \in RowsOf(f) : Live(s)}
Refreshes(a) == Busy(a) /\ req[a].op = "refresh"
Replaces(a) == Refreshes(a) /\ Step(a).do = "rotated"
Opens(a) == Refreshes(a) /\ Step(a).do = "open"

\* Of two live rows of a family one is about to be replaced by the other.
TokenInv ==
    \A f \in 1..Len(rows) \ hist.raced :
        /\ \A s, r \in LiveRows(f) :
             s # r => \E a \in Slot : Replaces(a) /\ {s, r} = {Step(a).row, req[a].row}
        /\ f \in hist.over => LiveRows(f) = {}

\* The row that will be replaced is the only live one.
OpenClaim(a) ==
    (Alone(a) /\ Opens(a) /\ Step(a).family \notin hist.raced) =>
        /\ LiveRows(Step(a).family) \subseteq {Head(Left(a)).row}
        /\ Step(a).family \notin hist.over

(* Browsers. *)

\* A family is known to the browser it was opened for, and to no other.
Holds(f, b) ==
    \/ jar[b].cookie # 0 /\ rows[jar[b].cookie].family = f
    \/ \E a \in Slot : /\ Busy(a) /\ BrowserOf[req[a].tab] = b
                       /\ \/ req[a].op = "refresh" /\ f \in req[a].about
                          \/ req[a].row # 0 /\ rows[req[a].row].family = f

HomeInv == \A f \in 1..Len(rows), b, c \in Browser : Holds(f, b) /\ Holds(f, c) => b = c

Replaced(s) == rows[s].why = "rotated"

\* A request that has a row for its browser is the only one to know it.
NewRowClaim(a) ==
    (Busy(a) /\ req[a].row # 0) =>
        /\ \A b \in Browser : jar[b].cookie # req[a].row
        /\ \A b \in Slot \ {a} : Busy(b) => req[b].row # req[a].row
        /\ req[a].op = "login" =>
             /\ rows[req[a].row].family = req[a].row
             /\ ~Replaced(req[a].row)
             /\ RowsOf(req[a].row) = {req[a].row}
             /\ \A b \in Slot : Refreshes(b) => req[a].row \notin req[b].about
        /\ (req[a].op = "refresh" /\ rows[req[a].row].family \notin hist.shared) =>
             ~Replaced(req[a].row)

\* A browser has a replaced row only until the answer with its successor comes.
JarInv ==
    \A b \in Browser :
        (/\ jar[b].cookie # 0 /\ Replaced(jar[b].cookie)
         /\ rows[jar[b].cookie].family \notin hist.shared) =>
            \E a \in Slot : /\ Refreshes(a) /\ req[a].row # 0 /\ Step(a).do = "reply"
                            /\ rows[jar[b].cookie].family \in req[a].about
                            /\ BrowserOf[req[a].tab] = b

\* Two refreshes of one family at once are on record.
SharedInv ==
    \A a, b \in Slot : Refreshes(a) /\ Refreshes(b) /\ a # b =>
        req[a].about \cap req[b].about \subseteq hist.shared

AlarmClaim(a) ==
    (/\ Refreshes(a) /\ Step(a).do \in {"refresh", "reuse"} /\ Step(a).row # 0
     /\ Replaced(Step(a).row)) => rows[Step(a).row].family \in hist.shared

(* Password resets. *)

Old(f) == rows[f].epoch # hist.epoch
EndsAll(a) == Busy(a) /\ req[a].op = "reset" /\ Step(a).do \in {"uselink", "revokeall"}

\* A login opens a session of today; a reset is about every session opened
\* before it; and whoever replaces a row of an old session was overtaken.
ResetClaim(a) ==
    (Busy(a) /\ Account \notin hist.raced) =>
        /\ req[a].op = "login" =>
             /\ Step(a).do = "open" => Step(a).epoch = hist.epoch
             /\ (Step(a).do \in {"user", "newuser"} /\ Left(a) # Failed) =>
                  Head(Left(a)).epoch = hist.epoch
        /\ req[a].op = "reset" =>
             \A f \in 1..Len(rows) : (rows[f].family = f /\ f \notin req[a].about) =>
                 ~Old(f) /\ a \in hist.crossed
        /\ (Opens(a) /\ Step(a).family \notin hist.raced /\ Old(Step(a).family)) =>
             a \in hist.crossed

\* A live row of an old session waits for the reset that ends it.
ResetInv ==
    Account \notin hist.raced =>
        \A f \in 1..Len(rows) \ hist.raced :
            (rows[f].family = f /\ Old(f) /\ LiveRows(f) # {}) => \E a \in Slot : EndsAll(a)

Claims(a) == /\ CountClaim(a) /\ LinkClaim(a) /\ OrderClaim(a) /\ OpenClaim(a)
             /\ NewRowClaim(a) /\ AlarmClaim(a) /\ ResetClaim(a)

IInv == /\ DataInv /\ FamiliesInv /\ RequestsInv /\ Rivalry
        /\ CountInv /\ LinksInv /\ OrdersFollowLogin /\ NoFalseAlarm
        /\ TokenInv /\ HomeInv /\ JarInv /\ SharedInv /\ ResetInv
        /\ \A a \in Slot : Claims(a)

-----------------------------------------------------------------------------
(* Sequences. *)

\* The head and the rest of a short tuple.
LEMMA Tuples ==
  /\ \A x : Head(<<x>>) = x /\ Tail(<<x>>) = <<>>
  /\ \A x, y : Head(<<x, y>>) = x /\ Tail(<<x, y>>) = <<y>>
  /\ \A x, y, z : Head(<<x, y, z>>) = x /\ Tail(<<x, y, z>>) = <<y, z>>
  /\ \A x, y, z, w : Head(<<x, y, z, w>>) = x /\ Tail(<<x, y, z, w>>) = <<y, z, w>>
OBVIOUS

\* The same for four.
LEMMA FourTuple ==
  ASSUME NEW x, NEW y, NEW z, NEW w
  PROVE  Head(<<x, y, z, w>>) = x /\ Tail(<<x, y, z, w>>) = <<y, z, w>>
OBVIOUS

\* Two sequences joined are the sequence with their elements.
LEMMA Joining ==
  ASSUME NEW S, NEW s \in Seq(S), NEW t \in Seq(S), NEW u \in Seq(S),
         Len(u) = Len(s) + Len(t),
         \A i \in 1..Len(u) : u[i] = IF i <= Len(s) THEN s[i] ELSE t[i - Len(s)]
  PROVE  s \o t = u
<1>1. /\ s \o t \in Seq(S)
      /\ Len(s \o t) = Len(s) + Len(t)
      /\ \A i \in 1..Len(s) + Len(t) :
           (s \o t)[i] = IF i <= Len(s) THEN s[i] ELSE t[i - Len(s)]
  BY ConcatProperties
<1>2. QED
  BY <1>1, SeqEqual

\* A tuple joined to another is the longer tuple.
LEMMA JoinTuples ==
  ASSUME NEW x, NEW y, NEW z, NEW w
  PROVE  /\ <<x>> \o <<y>> = <<x, y>>
         /\ <<x>> \o <<y, z>> = <<x, y, z>>
         /\ <<x>> \o <<y, z, w>> = <<x, y, z, w>>
         /\ <<x, y>> \o <<z>> = <<x, y, z>>
         /\ <<x, y, z>> \o <<w>> = <<x, y, z, w>>
         /\ <<>> \o <<x>> = <<x>>
         /\ <<>> \o <<x, y, z>> = <<x, y, z>>
<1> DEFINE S == {x, y, z, w}
<1>1. x \in S /\ y \in S /\ z \in S /\ w \in S
  OBVIOUS
<1> HIDE DEF S
<1>2. <<x>> \o <<y>> = <<x, y>>
  <2>1. /\ Len(<<x, y>>) = 2 /\ Len(<<x>>) = 1 /\ Len(<<y>>) = 1
        /\ \A i \in 1..2 : <<x, y>>[i] = IF i <= 1 THEN <<x>>[i] ELSE <<y>>[i - 1]
    OBVIOUS
  <2>2. <<x>> \in Seq(S) /\ <<y>> \in Seq(S) /\ <<x, y>> \in Seq(S)
    BY <1>1
  <2>3. Len(<<x, y>>) = Len(<<x>>) + Len(<<y>>)
    BY <2>1
  <2>4. \A i \in 1..Len(<<x, y>>) :
          <<x, y>>[i] = IF i <= Len(<<x>>) THEN <<x>>[i] ELSE <<y>>[i - Len(<<x>>)]
    BY <2>1
  <2>5. QED
    BY <2>2, <2>3, <2>4, Joining
<1>3. <<x>> \o <<y, z>> = <<x, y, z>>
  <2>1. /\ Len(<<x, y, z>>) = 3 /\ Len(<<x>>) = 1 /\ Len(<<y, z>>) = 2
        /\ \A i \in 1..3 : <<x, y, z>>[i] = IF i <= 1 THEN <<x>>[i] ELSE <<y, z>>[i - 1]
    OBVIOUS
  <2>2. <<x>> \in Seq(S) /\ <<y, z>> \in Seq(S) /\ <<x, y, z>> \in Seq(S)
    BY <1>1
  <2>3. Len(<<x, y, z>>) = Len(<<x>>) + Len(<<y, z>>)
    BY <2>1
  <2>4. \A i \in 1..Len(<<x, y, z>>) :
          <<x, y, z>>[i] = IF i <= Len(<<x>>) THEN <<x>>[i] ELSE <<y, z>>[i - Len(<<x>>)]
    BY <2>1
  <2>5. QED
    BY <2>2, <2>3, <2>4, Joining
<1>4. <<x>> \o <<y, z, w>> = <<x, y, z, w>>
  <2>1. /\ Len(<<x, y, z, w>>) = 4 /\ Len(<<x>>) = 1 /\ Len(<<y, z, w>>) = 3
        /\ \A i \in 1..4 : <<x, y, z, w>>[i] = IF i <= 1 THEN <<x>>[i] ELSE <<y, z, w>>[i - 1]
    OBVIOUS
  <2>2. <<x>> \in Seq(S) /\ <<y, z, w>> \in Seq(S) /\ <<x, y, z, w>> \in Seq(S)
    BY <1>1
  <2>3. Len(<<x, y, z, w>>) = Len(<<x>>) + Len(<<y, z, w>>)
    BY <2>1
  <2>4. \A i \in 1..Len(<<x, y, z, w>>) :
          <<x, y, z, w>>[i] = IF i <= Len(<<x>>) THEN <<x>>[i] ELSE <<y, z, w>>[i - Len(<<x>>)]
    BY <2>1
  <2>5. QED
    BY <2>2, <2>3, <2>4, Joining
<1>5. <<x, y>> \o <<z>> = <<x, y, z>>
  <2>1. /\ Len(<<x, y, z>>) = 3 /\ Len(<<x, y>>) = 2 /\ Len(<<z>>) = 1
        /\ \A i \in 1..3 : <<x, y, z>>[i] = IF i <= 2 THEN <<x, y>>[i] ELSE <<z>>[i - 2]
    OBVIOUS
  <2>2. <<x, y>> \in Seq(S) /\ <<z>> \in Seq(S) /\ <<x, y, z>> \in Seq(S)
    BY <1>1
  <2>3. Len(<<x, y, z>>) = Len(<<x, y>>) + Len(<<z>>)
    BY <2>1
  <2>4. \A i \in 1..Len(<<x, y, z>>) :
          <<x, y, z>>[i] = IF i <= Len(<<x, y>>) THEN <<x, y>>[i] ELSE <<z>>[i - Len(<<x, y>>)]
    BY <2>1
  <2>5. QED
    BY <2>2, <2>3, <2>4, Joining
<1>6. <<x, y, z>> \o <<w>> = <<x, y, z, w>>
  <2>1. /\ Len(<<x, y, z, w>>) = 4 /\ Len(<<x, y, z>>) = 3 /\ Len(<<w>>) = 1
        /\ \A i \in 1..4 : <<x, y, z, w>>[i] = IF i <= 3 THEN <<x, y, z>>[i] ELSE <<w>>[i - 3]
    OBVIOUS
  <2>2. <<x, y, z>> \in Seq(S) /\ <<w>> \in Seq(S) /\ <<x, y, z, w>> \in Seq(S)
    BY <1>1
  <2>3. Len(<<x, y, z, w>>) = Len(<<x, y, z>>) + Len(<<w>>)
    BY <2>1
  <2>4. \A i \in 1..Len(<<x, y, z, w>>) :
          <<x, y, z, w>>[i] = IF i <= Len(<<x, y, z>>) THEN <<x, y, z>>[i] ELSE <<w>>[i - Len(<<x, y, z>>)]
    BY <2>1
  <2>5. QED
    BY <2>2, <2>3, <2>4, Joining
<1>7. <<>> \o <<x>> = <<x>>
  <2>1. <<x>> \in Seq(S)
    BY <1>1
  <2>2. QED
    BY <2>1, ConcatEmptySeq
<1>8. <<>> \o <<x, y, z>> = <<x, y, z>>
  <2>1. <<x, y, z>> \in Seq(S)
    BY <1>1
  <2>2. QED
    BY <2>1, ConcatEmptySeq
<1>9. QED
  BY <1>2, <1>3, <1>4, <1>5, <1>6, <1>7, <1>8

\* The same, to be cited for any tuples.
LEMMA Joins ==
  /\ \A x, y : <<x>> \o <<y>> = <<x, y>>
  /\ \A x, y, z : <<x>> \o <<y, z>> = <<x, y, z>>
  /\ \A x, y, z, w : <<x>> \o <<y, z, w>> = <<x, y, z, w>>
  /\ \A x, y, z : <<x, y>> \o <<z>> = <<x, y, z>>
  /\ \A x, y, z, w : <<x, y, z>> \o <<w>> = <<x, y, z, w>>
  /\ \A x : <<>> \o <<x>> = <<x>>
  /\ \A x, y, z : <<>> \o <<x, y, z>> = <<x, y, z>>
<1>1. \A x, y : <<x>> \o <<y>> = <<x, y>>
  <2>1. SUFFICES ASSUME NEW x, NEW y
                 PROVE  <<x>> \o <<y>> = <<x, y>>
    OBVIOUS
  <2>2. /\ <<x>> \o <<y>> = <<x, y>>
        /\ <<x>> \o <<y, x>> = <<x, y, x>>
        /\ <<x>> \o <<y, x, x>> = <<x, y, x, x>>
        /\ <<x, y>> \o <<x>> = <<x, y, x>>
        /\ <<x, y, x>> \o <<x>> = <<x, y, x, x>>
        /\ <<>> \o <<x>> = <<x>>
        /\ <<>> \o <<x, y, x>> = <<x, y, x>>
    BY JoinTuples
  <2>3. QED
    BY <2>2
<1>2. \A x, y, z : <<x>> \o <<y, z>> = <<x, y, z>>
  <2>1. SUFFICES ASSUME NEW x, NEW y, NEW z
                 PROVE  <<x>> \o <<y, z>> = <<x, y, z>>
    OBVIOUS
  <2>2. /\ <<x>> \o <<y>> = <<x, y>>
        /\ <<x>> \o <<y, z>> = <<x, y, z>>
        /\ <<x>> \o <<y, z, x>> = <<x, y, z, x>>
        /\ <<x, y>> \o <<z>> = <<x, y, z>>
        /\ <<x, y, z>> \o <<x>> = <<x, y, z, x>>
        /\ <<>> \o <<x>> = <<x>>
        /\ <<>> \o <<x, y, z>> = <<x, y, z>>
    BY JoinTuples
  <2>3. QED
    BY <2>2
<1>3. \A x, y, z, w : <<x>> \o <<y, z, w>> = <<x, y, z, w>>
  <2>1. SUFFICES ASSUME NEW x, NEW y, NEW z, NEW w
                 PROVE  <<x>> \o <<y, z, w>> = <<x, y, z, w>>
    OBVIOUS
  <2>2. /\ <<x>> \o <<y>> = <<x, y>>
        /\ <<x>> \o <<y, z>> = <<x, y, z>>
        /\ <<x>> \o <<y, z, w>> = <<x, y, z, w>>
        /\ <<x, y>> \o <<z>> = <<x, y, z>>
        /\ <<x, y, z>> \o <<w>> = <<x, y, z, w>>
        /\ <<>> \o <<x>> = <<x>>
        /\ <<>> \o <<x, y, z>> = <<x, y, z>>
    BY JoinTuples, Z3
  <2>3. QED
    BY <2>2
<1>4. \A x, y, z : <<x, y>> \o <<z>> = <<x, y, z>>
  <2>1. SUFFICES ASSUME NEW x, NEW y, NEW z
                 PROVE  <<x, y>> \o <<z>> = <<x, y, z>>
    OBVIOUS
  <2>2. /\ <<x>> \o <<y>> = <<x, y>>
        /\ <<x>> \o <<y, z>> = <<x, y, z>>
        /\ <<x>> \o <<y, z, x>> = <<x, y, z, x>>
        /\ <<x, y>> \o <<z>> = <<x, y, z>>
        /\ <<x, y, z>> \o <<x>> = <<x, y, z, x>>
        /\ <<>> \o <<x>> = <<x>>
        /\ <<>> \o <<x, y, z>> = <<x, y, z>>
    BY JoinTuples
  <2>3. QED
    BY <2>2
<1>5. \A x, y, z, w : <<x, y, z>> \o <<w>> = <<x, y, z, w>>
  <2>1. SUFFICES ASSUME NEW x, NEW y, NEW z, NEW w
                 PROVE  <<x, y, z>> \o <<w>> = <<x, y, z, w>>
    OBVIOUS
  <2>2. /\ <<x>> \o <<y>> = <<x, y>>
        /\ <<x>> \o <<y, z>> = <<x, y, z>>
        /\ <<x>> \o <<y, z, w>> = <<x, y, z, w>>
        /\ <<x, y>> \o <<z>> = <<x, y, z>>
        /\ <<x, y, z>> \o <<w>> = <<x, y, z, w>>
        /\ <<>> \o <<x>> = <<x>>
        /\ <<>> \o <<x, y, z>> = <<x, y, z>>
    BY JoinTuples, Z3
  <2>3. QED
    BY <2>2
<1>6. \A x : <<>> \o <<x>> = <<x>>
  <2>1. SUFFICES ASSUME NEW x
                 PROVE  <<>> \o <<x>> = <<x>>
    OBVIOUS
  <2>2. /\ <<x>> \o <<x>> = <<x, x>>
        /\ <<x>> \o <<x, x>> = <<x, x, x>>
        /\ <<x>> \o <<x, x, x>> = <<x, x, x, x>>
        /\ <<x, x>> \o <<x>> = <<x, x, x>>
        /\ <<x, x, x>> \o <<x>> = <<x, x, x, x>>
        /\ <<>> \o <<x>> = <<x>>
        /\ <<>> \o <<x, x, x>> = <<x, x, x>>
    BY JoinTuples
  <2>3. QED
    BY <2>2
<1>7. \A x, y, z : <<>> \o <<x, y, z>> = <<x, y, z>>
  <2>1. SUFFICES ASSUME NEW x, NEW y, NEW z
                 PROVE  <<>> \o <<x, y, z>> = <<x, y, z>>
    OBVIOUS
  <2>2. /\ <<x>> \o <<y>> = <<x, y>>
        /\ <<x>> \o <<y, z>> = <<x, y, z>>
        /\ <<x>> \o <<y, z, x>> = <<x, y, z, x>>
        /\ <<x, y>> \o <<z>> = <<x, y, z>>
        /\ <<x, y, z>> \o <<x>> = <<x, y, z, x>>
        /\ <<>> \o <<x>> = <<x>>
        /\ <<>> \o <<x, y, z>> = <<x, y, z>>
    BY JoinTuples
  <2>3. QED
    BY <2>2
<1>8. QED
  BY <1>1, <1>2, <1>3, <1>4, <1>5, <1>6, <1>7

\* The steps of the lists a handler may have left.
LEMMA Lists ==
  ASSUME NEW e, NEW l, NEW s, NEW m
  PROVE  /\ Head(Failed) = Say(FALSE) /\ Head(Finish) = Say(TRUE)
         /\ Failed # Finish
         /\ Head(After(TRUE)) = ClaimOrders /\ Tail(After(TRUE)) = Finish
         /\ After(FALSE) = Finish
         /\ \A c \in BOOLEAN :
              Head(Opening(e, c)) = Open(0, e) /\ Tail(Opening(e, c)) = After(c)
         /\ \A op : Head(Linking(l, op)) = UseLink(l) /\ Tail(Linking(l, op)) = Linked(op)
         /\ Head(Linked("verify")) = ClaimOrders /\ Tail(Linked("verify")) = Finish
         /\ Head(Linked("reset")) = [do |-> "revokeall"] /\ Tail(Linked("reset")) = Finish
         /\ Head(Replacing(s)) = [do |-> "rotated", row |-> s] /\ Tail(Replacing(s)) = Finish
         /\ Head(Mailing(m)) = DropLinks(m) /\ Tail(Mailing(m)) = Mailed(m)
         /\ Head(Mailed(m)) = NewLink(m) /\ Tail(Mailed(m)) = Finish
<1>1. /\ Head(Failed) = Say(FALSE) /\ Head(Finish) = Say(TRUE)
      /\ After(FALSE) = Finish
  BY Tuples DEF Failed, Finish, Say, After
<1>2. Failed # Finish
  BY <1>1 DEF Say
<1>3. Head(After(TRUE)) = ClaimOrders /\ Tail(After(TRUE)) = Finish
  BY Tuples DEF After, Finish, Say
<1>4. ASSUME NEW c \in BOOLEAN
      PROVE  Head(Opening(e, c)) = Open(0, e) /\ Tail(Opening(e, c)) = After(c)
  BY Tuples DEF Opening, After
<1>5. ASSUME NEW op
      PROVE  Head(Linking(l, op)) = UseLink(l) /\ Tail(Linking(l, op)) = Linked(op)
  BY Tuples DEF Linking, Linked
<1>6. /\ Head(Linked("verify")) = ClaimOrders /\ Tail(Linked("verify")) = Finish
      /\ Head(Linked("reset")) = [do |-> "revokeall"] /\ Tail(Linked("reset")) = Finish
  BY Tuples DEF Linked, Finish, Say
<1>7. /\ Head(Replacing(s)) = [do |-> "rotated", row |-> s]
      /\ Tail(Replacing(s)) = Finish
  BY Tuples DEF Replacing, Finish, Say
<1>8. /\ Head(Mailing(m)) = DropLinks(m) /\ Tail(Mailing(m)) = Mailed(m)
      /\ Head(Mailed(m)) = NewLink(m) /\ Tail(Mailed(m)) = Finish
  <2>1. Head(Mailing(m)) = DropLinks(m) /\ Tail(Mailing(m)) = Mailed(m)
    <3>1. PICK x, y, z : x = DropLinks(m) /\ y = NewLink(m) /\ z = Say(TRUE)
      OBVIOUS
    <3>2. Mailing(m) = <<x, y, z>> /\ Mailed(m) = <<y, z>>
      BY <3>1 DEF Mailing, Mailed
    <3>3. Head(<<x, y, z>>) = x /\ Tail(<<x, y, z>>) = <<y, z>>
      BY Tuples
    <3>4. QED
      BY <3>1, <3>2, <3>3
  <2>2. Head(Mailed(m)) = NewLink(m) /\ Tail(Mailed(m)) = Finish
    BY Tuples DEF Mailed, Finish, Say
  <2>3. QED
    BY <2>1, <2>2
<1>9. QED
  BY <1>1, <1>2, <1>3, <1>4, <1>5, <1>6, <1>7, <1>8

-----------------------------------------------------------------------------
(* What a request has left. *)

\* A plan holds on when the account is created and rows and links are added.
LEMMA PlanKept ==
  ASSUME NEW q, NEW known \in BOOLEAN, NEW rs, NEW n \in Nat,
         NEW known2 \in BOOLEAN, NEW rs2, NEW n2 \in Nat,
         RequestInv(q, known, rs, n),
         known => known2, n <= n2, Len(rs) \in Nat, Len(rs2) \in Nat, Len(rs) <= Len(rs2),
         \A s \in 1..Len(rs) : rs2[s].family = rs[s].family /\ rs2[s].epoch = rs[s].epoch
  PROVE  RequestInv(q, known2, rs2, n2)
<1> DEFINE h == Head(q.todo)
           t == Tail(q.todo)
<1>1. CASE q = Idle
  BY <1>1 DEF RequestInv
<1>2. CASE q # Idle
  <2>1. /\ PlanInv(q.op, q.row, h, t, known, rs, n)
        /\ RowInv(q.op, q.row, h, rs)
        /\ AboutInv(q.op, q.about, h, q.row, rs)
    BY <1>2 DEF RequestInv
  <2> HIDE DEF h, t
  <2>2. q.row \in 0..Len(rs)
    BY <2>1 DEF RowInv
  <2>3. /\ 1..Len(rs) \subseteq 1..Len(rs2) /\ 0..Len(rs) \subseteq 0..Len(rs2)
        /\ 1..n \subseteq 1..n2
    OBVIOUS
  <2>7. PlanInv(q.op, q.row, h, t, known2, rs2, n2)
    <3>1. CASE h.do \in {"register", "login", "google", "verify", "reset", "resend",
                         "forgot", "refresh", "logout", "reply"}
      BY <2>1, <2>3, <3>1 DEF PlanInv
    <3>2. CASE h.do \in {"newuser", "user"}
      <4>1. h.do = "newuser" => PlanInv(q.op, q.row, h, t, known2, rs2, n2)
        BY <2>1, <2>3 DEF PlanInv
      <4>2. CASE h.do = "user"
        <5>1. /\ PatchInv(h.fact, h.set) /\ known
              /\ \/ h.fact \in {"failure", "google"} /\ q.op = "login" /\ t = Failed
                 \/ h.fact = "success" /\ q.op = "login" /\ WillOpen(t, TRUE)
                 \/ /\ h.fact = "google" /\ q.op = "login"
                    /\ \E c \in BOOLEAN : WillOpen(t, c)
                 \/ /\ h.fact \in {"verify", "reset"} /\ q.op = h.fact
                    /\ Head(t).link \in 1..n /\ t = Linking(Head(t).link, q.op)
          BY <2>1, <4>2 DEF PlanInv
        <5>2. known2 /\ 1..n \subseteq 1..n2
          BY <5>1
        <5>3. QED
          BY <4>2, <5>1, <5>2 DEF PlanInv
      <4>3. QED
        BY <3>2, <4>1, <4>2
    <3>3. CASE h.do \in {"open", "rotated"}
      <4>1. CASE h.do = "open" /\ q.op = "login"
        BY <2>1, <4>1 DEF PlanInv
      <4>2. CASE h.do = "open" /\ q.op = "refresh"
        <5>1. /\ Head(t).row \in 1..Len(rs) /\ h.family = rs[Head(t).row].family
              /\ h.epoch = rs[Head(t).row].epoch /\ t = Replacing(Head(t).row)
          BY <2>1, <4>2 DEF PlanInv
        <5>2. QED
          BY <2>3, <4>2, <5>1 DEF PlanInv
      <4>3. CASE h.do = "rotated"
        <5>1. /\ q.op = "refresh" /\ h.row \in 1..Len(rs) /\ t = Finish
              /\ h.row < q.row /\ rs[h.row].family = rs[q.row].family
          BY <2>1, <4>3 DEF PlanInv
        <5>2. q.row \in 1..Len(rs)
          BY <2>2, <5>1
        <5>3. QED
          BY <2>3, <4>3, <5>1, <5>2 DEF PlanInv
      <4>4. QED
        BY <2>1, <3>3, <4>1, <4>2, <4>3 DEF PlanInv
    <3>4. CASE h.do \in {"claim", "reuse", "revokeall", "droplinks", "newlink", "uselink"}
      BY <2>1, <2>3, <3>4 DEF PlanInv
    <3>5. QED
      BY <2>1, <3>1, <3>2, <3>3, <3>4 DEF PlanInv
  <2>4. RowInv(q.op, q.row, h, rs2)
    BY <2>1 DEF RowInv
  <2>5. (q.op = "refresh" /\ h.do \in {"refresh", "rotated", "reuse"}) =>
          h.row \in 0..Len(rs)
    BY <2>1 DEF PlanInv
  <2>6. AboutInv(q.op, q.about, h, q.row, rs2)
    <3>1. q.row # 0 => q.row \in 1..Len(rs)
      BY <2>2
    <3>2. (q.op = "refresh" /\ h.do \in {"refresh", "rotated", "reuse"} /\ h.row # 0) =>
            h.row \in 1..Len(rs)
      BY <2>5
    <3>3. QED
      BY <2>1, <2>3, <3>1, <3>2 DEF AboutInv
  <2>8. QED
    BY <1>2, <2>7, <2>4, <2>6 DEF RequestInv, h, t
<1>3. QED
  BY <1>1, <1>2

\* A request with another row and another list of things to do.
Renewed(q, row, todo) == [op |-> q.op, tab |-> q.tab, about |-> q.about, row |-> row,
                          seen |-> q.seen, todo |-> todo]

\* What an assignment to the row or the list makes of a request.
LEMMA Renewal ==
  ASSUME NEW q, q = Renewed(q, q.row, q.todo), NEW todo
  PROVE  [q EXCEPT !.todo = todo] = Renewed(q, q.row, todo)
<1>1. PICK op, tab, about, seen, old, list :
        q = [op |-> op, tab |-> tab, about |-> about, row |-> old,
             seen |-> seen, todo |-> list]
  BY DEF Renewed
<1>2. /\ q.op = op /\ q.tab = tab /\ q.about = about /\ q.seen = seen /\ q.row = old
  BY <1>1
<1>3. [q EXCEPT !.todo = todo] = [op |-> op, tab |-> tab, about |-> about, row |-> old,
                                  seen |-> seen, todo |-> todo]
  BY <1>1
<1>4. QED
  BY <1>2, <1>3 DEF Renewed

\* The same for the row and the list.
LEMMA RenewalOfRow ==
  ASSUME NEW q, q = Renewed(q, q.row, q.todo), NEW row, NEW todo,
         NEW new, new = [q EXCEPT !.row = row, !.todo = todo]
  PROVE  new = Renewed(q, row, todo)
<1>1. PICK op, tab, about, seen, old, list :
        q = [op |-> op, tab |-> tab, about |-> about, row |-> old,
             seen |-> seen, todo |-> list]
  BY DEF Renewed
<1>2. /\ q.op = op /\ q.tab = tab /\ q.about = about /\ q.seen = seen /\ q.row = old
  BY <1>1
<1>3. [q EXCEPT !.row = row] = [op |-> op, tab |-> tab, about |-> about, row |-> row,
                                seen |-> seen, todo |-> list]
  BY <1>1
<1>4. PICK mid : mid = [q EXCEPT !.row = row]
  OBVIOUS
<1>5. new = [mid EXCEPT !.todo = todo]
  BY <1>4
<1>6. new = [op |-> op, tab |-> tab, about |-> about, row |-> row, seen |-> seen, todo |-> todo]
  BY <1>3, <1>4, <1>5
<1>7. QED
  BY <1>2, <1>6 DEF Renewed

\* A request with another list of things to do keeps its shape if the list does.
LEMMA Replan ==
  ASSUME NEW q, NEW known, NEW rs, NEW n, NEW todo, NEW row,
         RequestInv(q, known, rs, n), q # Idle,
         PlanInv(q.op, row, Head(todo), Tail(todo), known, rs, n),
         RowInv(q.op, row, Head(todo), rs),
         AboutInv(q.op, q.about, Head(todo), row, rs),
         NEW new, new = Renewed(q, row, todo)
  PROVE  RequestInv(new, known, rs, n) /\ new # Idle
<1>1. /\ q.op \in {"register", "login", "verify", "reset", "mail", "refresh", "logout"}
      /\ q.tab \in Tab
      /\ q.seen \subseteq Order
      /\ q.op # "login" => q.seen = {}
  BY DEF RequestInv
<1>2. /\ new.op = q.op /\ new.tab = q.tab /\ new.about = q.about /\ new.row = row
      /\ new.seen = q.seen /\ new.todo = todo
  BY DEF Renewed
<1>3. new = [op |-> new.op, tab |-> new.tab, about |-> new.about, row |-> new.row,
             seen |-> new.seen, todo |-> new.todo]
  BY <1>2 DEF Renewed
<1>4. new # Idle
  BY <1>1, <1>2 DEF Idle
<1>5. QED
  BY <1>1, <1>2, <1>3, <1>4 DEF RequestInv

\* A request that performed a step goes on with the rest of its list.
LEMMA GoesOn ==
  ASSUME NEW q, NEW known, NEW rs, NEW n,
         RequestInv(q, known, rs, n), q # Idle, Head(q.todo).do = "newuser" => known,
         Head(q.todo).do \in {"newuser", "user", "claim", "rotated", "reuse", "revokeall",
                              "droplinks", "newlink", "uselink"}
  PROVE  /\ PlanInv(q.op, q.row, Head(Tail(q.todo)), Tail(Tail(q.todo)), known, rs, n)
         /\ RowInv(q.op, q.row, Head(Tail(q.todo)), rs)
         /\ AboutInv(q.op, q.about, Head(Tail(q.todo)), q.row, rs)
<1> DEFINE h == Head(q.todo)
           t == Tail(q.todo)
<1>1. /\ PlanInv(q.op, q.row, h, t, known, rs, n)
      /\ RowInv(q.op, q.row, h, rs)
      /\ AboutInv(q.op, q.about, h, q.row, rs)
  BY DEF RequestInv
<1>2. /\ h.do \in {"newuser", "user", "claim", "rotated", "reuse", "revokeall",
                   "droplinks", "newlink", "uselink"}
      /\ h.do = "newuser" => known
  OBVIOUS
<1> HIDE DEF h, t
<1>3. CASE h.do \in {"claim", "rotated", "revokeall", "newlink"}
  <2>1. t = Finish
    BY <1>1, <1>3 DEF PlanInv
  <2>2. Head(t) = Say(TRUE)
    BY <2>1, Lists
  <2>3. q.row # 0 <=> (q.op \in {"login", "refresh"})
    BY <1>1, <1>3 DEF PlanInv, RowInv
  <2>4. PlanInv(q.op, q.row, Head(t), Tail(t), known, rs, n)
    <3>1. Head(t).do = "reply" /\ Head(t).ok \in BOOLEAN
      <4>1. \E ok \in BOOLEAN : Head(t) = [do |-> "reply", ok |-> ok]
        BY <2>2 DEF Say
      <4>2. QED
        BY <4>1
    <3>2. QED
      BY <3>1 DEF PlanInv
  <2>5. RowInv(q.op, q.row, Head(t), rs)
    <3>1. Head(t).do = "reply" /\ Head(t).ok = TRUE
      BY <2>2 DEF Say
    <3>2. QED
      BY <1>1, <2>3, <3>1 DEF RowInv
  <2>6. AboutInv(q.op, q.about, Head(t), q.row, rs)
    BY <1>1, <2>2 DEF AboutInv, Say
  <2>7. QED
    BY <2>4, <2>5, <2>6 DEF t
<1>4. CASE h.do = "reuse"
  <2>1. t = Failed
    BY <1>1, <1>4 DEF PlanInv
  <2>2. Head(t) = Say(FALSE)
    BY <2>1, Lists
  <2>3. q.row = 0
    BY <1>1, <1>4 DEF RowInv
  <2>4. PlanInv(q.op, q.row, Head(t), Tail(t), known, rs, n)
    <3>1. Head(t).do = "reply" /\ Head(t).ok \in BOOLEAN
      <4>1. \E ok \in BOOLEAN : Head(t) = [do |-> "reply", ok |-> ok]
        BY <2>2 DEF Say
      <4>2. QED
        BY <4>1
    <3>2. QED
      BY <3>1 DEF PlanInv
  <2>5. RowInv(q.op, q.row, Head(t), rs)
    <3>1. Head(t).do = "reply" /\ Head(t).ok = FALSE
      BY <2>2 DEF Say
    <3>2. QED
      BY <1>1, <2>3, <3>1 DEF RowInv
  <2>6. AboutInv(q.op, q.about, Head(t), q.row, rs)
    BY <1>1, <2>2 DEF AboutInv, Say
  <2>7. QED
    BY <2>4, <2>5, <2>6 DEF t
<1>5. CASE h.do = "droplinks"
  <2>1. /\ q.op \in {"register", "mail"} /\ h.type \in {"verify", "reset"}
        /\ t = Mailed(h.type) /\ known
    BY <1>1, <1>5 DEF PlanInv
  <2>2. Head(t) = NewLink(h.type) /\ Tail(t) = Finish
    BY <2>1, Lists
  <2>3. PlanInv(q.op, q.row, Head(t), Tail(t), known, rs, n)
    <3>1. Head(t).do = "newlink" /\ Head(t).type = h.type
      BY <2>2 DEF NewLink
    <3>2. QED
      BY <2>1, <2>2, <3>1 DEF PlanInv
  <2>4. RowInv(q.op, q.row, Head(t), rs)
    BY <1>1, <2>1, <2>2 DEF RowInv, NewLink
  <2>5. AboutInv(q.op, q.about, Head(t), q.row, rs)
    BY <1>1, <2>1 DEF AboutInv
  <2>6. QED
    BY <2>3, <2>4, <2>5 DEF t
<1>6. CASE h.do = "uselink"
  <2>1. q.op \in {"verify", "reset"} /\ t = Linked(q.op)
    BY <1>1, <1>6 DEF PlanInv
  <2>2. /\ q.op = "verify" => Head(t) = ClaimOrders /\ Tail(t) = Finish
        /\ q.op = "reset" => Head(t) = [do |-> "revokeall"] /\ Tail(t) = Finish
    BY <2>1, Lists
  <2>3. PlanInv(q.op, q.row, Head(t), Tail(t), known, rs, n)
    <3>1. /\ q.op = "verify" => Head(t).do = "claim" /\ Tail(t) = Finish
          /\ q.op = "reset" => Head(t).do = "revokeall" /\ Tail(t) = Finish
      BY <2>2 DEF ClaimOrders
    <3>2. CASE q.op = "verify"
      BY <3>1, <3>2 DEF PlanInv
    <3>3. CASE q.op = "reset"
      BY <3>1, <3>3 DEF PlanInv
    <3>4. QED
      BY <2>1, <3>2, <3>3
  <2>4. RowInv(q.op, q.row, Head(t), rs)
    BY <1>1, <2>1 DEF RowInv
  <2>5. AboutInv(q.op, q.about, Head(t), q.row, rs)
    BY <1>1, <2>1 DEF AboutInv
  <2>6. QED
    BY <2>3, <2>4, <2>5 DEF t
<1>7. CASE h.do = "newuser" /\ q.op = "register"
  <2>1. t = Mailing("verify")
    BY <1>1, <1>7 DEF PlanInv
  <2>2. Head(t) = DropLinks("verify") /\ Tail(t) = Mailed("verify")
    BY <2>1, Lists
  <2>3. PlanInv(q.op, q.row, Head(t), Tail(t), known, rs, n)
    <3>1. /\ Head(t).do = "droplinks" /\ Head(t).type = "verify"
          /\ Tail(t) = Mailed(Head(t).type)
      BY <2>2 DEF DropLinks
    <3>2. QED
      BY <1>2, <1>7, <3>1 DEF PlanInv
  <2>4. RowInv(q.op, q.row, Head(t), rs)
    BY <1>1, <1>7 DEF RowInv
  <2>5. AboutInv(q.op, q.about, Head(t), q.row, rs)
    BY <1>1, <1>7 DEF AboutInv
  <2>6. QED
    BY <2>3, <2>4, <2>5 DEF t
<1>8. CASE h.do = "user" /\ q.op \in {"verify", "reset"}
  <2>1. Head(t).link \in 1..n /\ t = Linking(Head(t).link, q.op)
    BY <1>1, <1>8 DEF PlanInv
  <2>2. \E l \in 1..n : t = Linking(l, q.op)
    BY <2>1
  <2>3. PICK l \in 1..n : t = Linking(l, q.op)
    BY <2>2
  <2>4. Head(t) = UseLink(l) /\ Tail(t) = Linked(q.op)
    BY <2>3, Lists
  <2>5. PlanInv(q.op, q.row, Head(t), Tail(t), known, rs, n)
    <3>1. Head(t).do = "uselink" /\ Head(t).link \in 1..n /\ Tail(t) = Linked(q.op)
      BY <2>4 DEF UseLink
    <3>2. QED
      BY <1>8, <3>1 DEF PlanInv
  <2>6. RowInv(q.op, q.row, Head(t), rs)
    BY <1>1, <1>8 DEF RowInv
  <2>7. AboutInv(q.op, q.about, Head(t), q.row, rs)
    BY <1>1, <1>8 DEF AboutInv
  <2>8. QED
    BY <2>5, <2>6, <2>7 DEF t
<1>9. CASE (h.do = "newuser" /\ q.op = "login") \/ (h.do = "user" /\ q.op = "login")
  <2>1. \/ t = Failed
        \/ \E c \in BOOLEAN : WillOpen(t, c)
    <3>1. h.do = "newuser" => WillOpen(t, h.is.verified) /\ h.is.verified \in BOOLEAN
      BY <1>1, <1>9 DEF PlanInv, Fields
    <3>2. h.do = "user" => t = Failed \/ \E c \in BOOLEAN : WillOpen(t, c)
      BY <1>1, <1>9 DEF PlanInv
    <3>3. QED
      BY <1>9, <3>1, <3>2
  <2>2. q.row = 0
    BY <1>1, <1>9 DEF RowInv
  <2>3. AboutInv(q.op, q.about, Head(t), q.row, rs)
    BY <1>1, <1>9 DEF AboutInv
  <2>4. CASE t = Failed
    <3>1. Head(t) = Say(FALSE)
      BY <2>4, Lists
    <3>2. PlanInv(q.op, q.row, Head(t), Tail(t), known, rs, n)
      <4>1. Head(t).do = "reply" /\ Head(t).ok \in BOOLEAN
        <5>1. \E ok \in BOOLEAN : Head(t) = [do |-> "reply", ok |-> ok]
          BY <3>1 DEF Say
        <5>2. QED
          BY <5>1
      <4>2. QED
        BY <4>1 DEF PlanInv
    <3>3. RowInv(q.op, q.row, Head(t), rs)
      BY <1>1, <2>2, <3>1 DEF RowInv, Say
    <3>4. QED
      BY <2>3, <3>2, <3>3 DEF t
  <2>5. ASSUME NEW c \in BOOLEAN, WillOpen(t, c)
        PROVE  /\ PlanInv(q.op, q.row, Head(t), Tail(t), known, rs, n)
               /\ RowInv(q.op, q.row, Head(t), rs)
    <3>1. PICK e \in Nat : t = Opening(e, c)
      BY <2>5 DEF WillOpen
    <3>2. Head(t) = Open(0, e) /\ Tail(t) = After(c)
      BY <3>1, Lists
    <3>3. PlanInv(q.op, q.row, Head(t), Tail(t), known, rs, n)
      <4>1. /\ Head(t).do = "open" /\ Head(t).family = 0 /\ Head(t).epoch \in Nat
            /\ Tail(t) = After(c)
        BY <3>2 DEF Open
      <4>2. known /\ q.op = "login"
        BY <1>1, <1>2, <1>9 DEF PlanInv
      <4>3. QED
        BY <4>1, <4>2 DEF PlanInv
    <3>4. RowInv(q.op, q.row, Head(t), rs)
      BY <1>1, <2>2, <3>2 DEF RowInv, Open
    <3>5. QED
      BY <3>3, <3>4
  <2>6. QED
    BY <2>1, <2>3, <2>4, <2>5 DEF t
<1>10. /\ h.do = "newuser" => q.op \in {"register", "login"}
       /\ h.do = "user" => q.op \in {"verify", "reset", "login"}
  BY <1>1 DEF PlanInv
<1>11. QED
  BY <1>2, <1>3, <1>4, <1>5, <1>6, <1>7, <1>8, <1>9, <1>10 DEF h, t

-----------------------------------------------------------------------------
(* Steps, and the requests they do not belong to. *)

\* Nothing a step does is about request b: it is as it was, and what is on record
\* stays.
Stays(b) ==
    /\ req'[b] = req[b]
    /\ b \in hist.crossed => b \in hist'.crossed
    /\ hist.raced \subseteq hist'.raced

\* A step of request a, or the end of it.
StepOf(a) ==
    /\ req' = [b \in Slot |-> req'[b]]
    /\ \A b \in Slot \ {a} : Stays(b)

\* A step of the request itself: it goes on, as the request it was.
OwnStep(a) ==
    /\ StepOf(a)
    /\ Busy(a) /\ req'[a] # Idle
    /\ req'[a].op = req[a].op /\ req'[a].tab = req[a].tab
    /\ req'[a].about = req[a].about /\ req'[a].seen = req[a].seen
    /\ hist'.crossed = hist.crossed
    /\ hist.raced \subseteq hist'.raced

\* Others are as they were.
LEMMA Others ==
  ASSUME NEW b \in Slot, Stays(b)
  PROVE  /\ req'[b] = req[b]
         /\ Busy(b)' <=> Busy(b)
         /\ Step(b)' = Step(b) /\ Left(b)' = Left(b)
         /\ Alone(b)' => Alone(b)
         /\ Refreshes(b)' <=> Refreshes(b)
         /\ Opens(b)' <=> Opens(b)
         /\ Replaces(b)' <=> Replaces(b)
         /\ EndsAll(b)' <=> EndsAll(b)
<1>1. req'[b] = req[b]
  BY DEF Stays
<1>2. /\ Busy(b)' <=> Busy(b)
      /\ Step(b)' = Step(b) /\ Left(b)' = Left(b)
  BY <1>1 DEF Busy, Step, Left
<1>3. Alone(b)' => Alone(b)
  BY <1>2 DEF Alone, Stays
<1>4. QED
  BY <1>1, <1>2, <1>3 DEF Refreshes, Opens, Replaces, EndsAll

\* Nobody is alone who shares what a request in flight is about.
LEMMA AloneIsApart ==
  ASSUME Rivalry, NEW a \in Slot, NEW b \in Slot, a # b, Alone(b), Busy(a)
  PROVE  req[a].about \cap req[b].about = {}
BY DEF Rivalry, Alone

\* Rivals stay on record.
LEMMA RivalryKept ==
  ASSUME Rivalry, NEW a \in Slot, OwnStep(a)
  PROVE  Rivalry'
<1>1. SUFFICES ASSUME NEW b \in Slot, NEW c \in Slot, b # c, Busy(b)', Busy(c)',
                      (req[b].about)' \cap (req[c].about)' # {}
               PROVE  b \in hist'.crossed
  BY DEF Rivalry
<1>2. \A d \in Slot : (Busy(d)' => Busy(d)) /\ (req[d].about)' = req[d].about
  BY DEF OwnStep, StepOf, Stays, Busy
<1>3. b \in hist.crossed
  BY <1>1, <1>2 DEF Rivalry
<1>4. QED
  BY <1>3 DEF OwnStep

\* The shapes of the requests after a step of one of them.
LEMMA RequestsKept ==
  ASSUME DataInv, DataInv', RequestsInv, NEW a \in Slot, StepOf(a),
         user # NoUser => user' # NoUser, Len(rows) <= Len(rows'), Len(links) <= Len(links'),
         \A s \in 1..Len(rows) :
           rows'[s].family = rows[s].family /\ rows'[s].epoch = rows[s].epoch,
         RequestInv(req'[a], user' # NoUser, rows', Len(links'))
  PROVE  RequestsInv'
<1>1. /\ Len(rows) \in Nat /\ Len(rows') \in Nat
      /\ Len(links) \in Nat /\ Len(links') \in Nat
  BY DEF DataInv
<1>2. ASSUME NEW b \in Slot
      PROVE  RequestInv(req'[b], user' # NoUser, rows', Len(links'))
  <2>1. CASE b = a
    BY <2>1
  <2>2. CASE b # a
    <3>1. req'[b] = req[b]
      BY <2>2 DEF StepOf, Stays
    <3>2. RequestInv(req[b], user # NoUser, rows, Len(links))
      BY DEF RequestsInv
    <3>3. RequestInv(req[b], user' # NoUser, rows', Len(links'))
      BY <1>1, <3>2, PlanKept
    <3>4. QED
      BY <3>1, <3>3
  <2>3. QED
    BY <2>1, <2>2
<1>3. QED
  BY <1>2 DEF RequestsInv, StepOf

-----------------------------------------------------------------------------
(* What keeps a claim of a request that stays as it is. *)

\* A save is pending only for requests about the account, or about its links.
LEMMA WhoWrites ==
  ASSUME RequestsInv, NEW b \in Slot, Busy(b)
  PROVE  /\ Step(b).do \in {"user", "newuser"} => Account \in req[b].about /\ req[b].op # "refresh"
         /\ req[b].op = "login" => Account \in req[b].about
         /\ req[b].op = "reset" => Account \in req[b].about /\ MailLinks \in req[b].about
         /\ WillUse(b) \/ Step(b).do = "newlink" => MailLinks \in req[b].about
         /\ Step(b).do = "user" => user # NoUser
         /\ Opens(b) => /\ req[b].about = {Step(b).family}
                        /\ Step(b).family \in 1..Len(rows)
                        /\ Head(Left(b)).row \in 1..Len(rows)
                        /\ Step(b).family = rows[Head(Left(b)).row].family
                        /\ Step(b).epoch = rows[Head(Left(b)).row].epoch
         /\ Opens(b) => Left(b) = Replacing(Head(Left(b)).row)
<1>1. /\ PlanInv(req[b].op, req[b].row, Step(b), Left(b), user # NoUser, rows, Len(links))
      /\ RowInv(req[b].op, req[b].row, Step(b), rows)
      /\ AboutInv(req[b].op, req[b].about, Step(b), req[b].row, rows)
  BY DEF RequestsInv, RequestInv, Busy, Step, Left
<1>2. Step(b).do \in {"user", "newuser"} =>
        req[b].op \in {"register", "login", "verify", "reset"}
  BY <1>1 DEF PlanInv
<1>3. Step(b).do \in {"uselink", "newlink"} =>
        req[b].op \in {"register", "verify", "reset", "mail"}
  BY <1>1 DEF PlanInv
<1>4. Step(b).do = "user" => user # NoUser
  BY <1>1 DEF PlanInv
<1>5. Opens(b) => /\ req[b].about = {Step(b).family}
                  /\ Head(Left(b)).row \in 1..Len(rows)
                  /\ Step(b).family = rows[Head(Left(b)).row].family
                  /\ Step(b).epoch = rows[Head(Left(b)).row].epoch
                  /\ Left(b) = Replacing(Head(Left(b)).row)
                  /\ req[b].about \subseteq 1..Len(rows)
  BY <1>1 DEF PlanInv, AboutInv, Opens, Refreshes
<1>6. req[b].op \in {"register", "login", "verify", "reset"} => Account \in req[b].about
  BY <1>1 DEF AboutInv
<1>7. req[b].op \in {"register", "verify", "reset", "mail"} => MailLinks \in req[b].about
  BY <1>1 DEF AboutInv
<1>8. QED
  BY <1>2, <1>3, <1>4, <1>5, <1>6, <1>7 DEF WillUse

\* The count a save was based on is still the count.
LEMMA CountKept ==
  ASSUME RequestsInv, NEW b \in Slot, Stays(b), CountClaim(b),
         (Alone(b) /\ Account \in req[b].about) =>
           /\ user'.attempts = user.attempts
           /\ user'.locked = user.locked \/ user'.locked # "on"
  PROVE  CountClaim(b)'
<1>1. SUFFICES ASSUME Alone(b)', Step(b)'.do = "user"
               PROVE  CountClaim(b)'
  BY DEF CountClaim
<1>2. Alone(b) /\ Busy(b) /\ Step(b)' = Step(b)
  BY <1>1, Others DEF Alone
<1>3. Account \in req[b].about
  BY <1>1, <1>2, WhoWrites
<1>4. /\ user'.attempts = user.attempts
      /\ user'.locked = user.locked \/ user'.locked # "on"
  BY <1>2, <1>3
<1>5. QED
  BY <1>1, <1>2, <1>4 DEF CountClaim

\* A link that was not used yet is not used by others.
LEMMA LinkKept ==
  ASSUME DataInv, RequestsInv, NEW b \in Slot, Stays(b), LinkClaim(b),
         (Alone(b) /\ MailLinks \in req[b].about /\ MailLinks \notin hist'.raced) =>
           /\ \A l \in 1..Len(links) : hist'.uses[l] = hist.uses[l]
           /\ \A l \in 1..Len(links') : Usable(l)' =>
                l \in 1..Len(links) /\ Usable(l) /\ links'[l].type = links[l].type
  PROVE  LinkClaim(b)'
<1>1. SUFFICES ASSUME Alone(b)', MailLinks \notin hist'.raced,
                      WillUse(b)' \/ Step(b)'.do = "newlink"
               PROVE  LinkClaim(b)'
  BY DEF LinkClaim
<1>2. /\ Alone(b) /\ Busy(b) /\ Step(b)' = Step(b) /\ Left(b)' = Left(b)
      /\ req'[b] = req[b]
  BY <1>1, Others DEF Alone
<1>3. (WillUse(b)' <=> WillUse(b)) /\ Pending(b)' = Pending(b)
  BY <1>2 DEF WillUse, Pending
<1>4. MailLinks \in req[b].about
  BY <1>1, <1>2, <1>3, WhoWrites
<1>5. MailLinks \notin hist.raced
  BY <1>1 DEF Stays
<1>6. WillUse(b) => Pending(b) \in 1..Len(links)
  <2>1. PlanInv(req[b].op, req[b].row, Step(b), Left(b), user # NoUser, rows, Len(links))
    BY <1>2 DEF RequestsInv, RequestInv, Busy, Step, Left
  <2>2. Step(b).do = "uselink" => Step(b).link \in 1..Len(links)
    BY <2>1 DEF PlanInv
  <2>3. (Step(b).do = "user" /\ req[b].op \in {"verify", "reset"}) =>
          Head(Left(b)).link \in 1..Len(links)
    BY <2>1 DEF PlanInv
  <2>4. QED
    BY <2>2, <2>3 DEF WillUse, Pending
<1>7. WillUse(b)' => hist'.uses[Pending(b)'] = 0
  BY <1>2, <1>3, <1>4, <1>5, <1>6, <1>1 DEF LinkClaim
<1>8. Step(b)'.do = "newlink" =>
        \A l \in 1..Len(links') : links'[l].type # Step(b)'.type \/ ~Usable(l)'
  BY <1>2, <1>4, <1>5, <1>1 DEF LinkClaim
<1>9. QED
  BY <1>7, <1>8 DEF LinkClaim

\* A login still knows whether the address is verified.
LEMMA OrderKept ==
  ASSUME RequestsInv, NEW b \in Slot, Stays(b), OrderClaim(b),
         \A o \in Order : /\ orders[o] # "none" => orders'[o] # "none"
                          /\ orders[o] = "linked" => orders'[o] = "linked",
         (Alone(b) /\ Account \in req[b].about /\ user' # user) =>
           user # NoUser /\ user'.verified = user.verified
  PROVE  OrderClaim(b)'
<1>1. SUFFICES ASSUME Busy(b)'
               PROVE  OrderClaim(b)'
  BY DEF OrderClaim
<1>2. /\ Busy(b) /\ Step(b)' = Step(b) /\ Left(b)' = Left(b) /\ req'[b] = req[b]
      /\ Alone(b)' => Alone(b)
  BY <1>1, Others
<1>3. req[b].seen \subseteq Order
  BY <1>2 DEF RequestsInv, RequestInv, Busy
<1>4. \A o \in req'[b].seen : orders'[o] # "none"
  BY <1>2, <1>3 DEF OrderClaim
<1>5. ASSUME Alone(b)', req'[b].op = "login"
      PROVE  /\ (Step(b)'.do = "user" /\ Left(b)' # Failed) =>
                  \/ WillOpen(Left(b)', TRUE)
                  \/ ~user'.verified /\ "verified" \notin DOMAIN Step(b)'.set
             /\ Step(b)'.do = "open" => Left(b)' = After(TRUE) \/ ~user'.verified
             /\ (Step(b)'.do = "reply" /\ Step(b)'.ok /\ user'.verified) =>
                  \A o \in req'[b].seen : orders'[o] = "linked"
  <2>1. Account \in req[b].about
    BY <1>2, <1>5, WhoWrites
  <2>2. user'.verified = user.verified
    BY <1>2, <1>5, <2>1
  <2>3. QED
    BY <1>2, <1>3, <1>5, <2>2 DEF OrderClaim
<1>6. QED
  BY <1>4, <1>5 DEF OrderClaim

\* The row a request will replace is still the only live one.
LEMMA OpenKept ==
  ASSUME RequestsInv, NEW b \in Slot, Stays(b), OpenClaim(b),
         (Alone(b) /\ Opens(b) /\ Step(b).family \notin hist'.raced) =>
           /\ LiveRows(Step(b).family)' \subseteq LiveRows(Step(b).family)
           /\ Step(b).family \in hist'.over => Step(b).family \in hist.over
  PROVE  OpenClaim(b)'
<1>1. SUFFICES ASSUME Alone(b)', Opens(b)', Step(b)'.family \notin hist'.raced
               PROVE  OpenClaim(b)'
  BY DEF OpenClaim
<1>2. /\ Alone(b) /\ Opens(b) /\ Step(b)' = Step(b) /\ Left(b)' = Left(b)
  BY <1>1, Others
<1>3. QED
  BY <1>1, <1>2 DEF OpenClaim, Stays

\* A row that nobody else knows stays unknown to others.
LEMMA NewRowKept ==
  ASSUME DataInv, RequestsInv, NEW b \in Slot, Stays(b), NewRowClaim(b),
         hist.shared \subseteq hist'.shared,
         NEW r, r = req[b].row,
         \A c \in Browser : jar'[c].cookie = r /\ r # 0 => jar[c].cookie = r,
         \A c \in Slot \ {b} : Busy(c)' /\ req'[c].row = r /\ r # 0 =>
                                  Busy(c) /\ req[c].row = r,
         r \in 1..Len(rows) => rows'[r].family = rows[r].family,
         req[b].op = "login" /\ r # 0 =>
           /\ Replaced(r)' => Replaced(r)
           /\ RowsOf(r)' \subseteq RowsOf(r)
           /\ Len(rows) <= Len(rows')
           /\ \A c \in Slot : Refreshes(c)' /\ r \in req'[c].about =>
                                 Refreshes(c) /\ r \in req[c].about,
         req[b].op = "refresh" /\ r # 0 =>
           (Replaced(r)' => Replaced(r) \/ rows[r].family \in hist'.shared)
  PROVE  NewRowClaim(b)'
<1>1. SUFFICES ASSUME Busy(b)', req'[b].row # 0
               PROVE  NewRowClaim(b)'
  BY DEF NewRowClaim
<1>2. Busy(b) /\ req'[b] = req[b] /\ req'[b].row = r /\ r # 0
  BY <1>1, Others
<1>3. r \in 1..Len(rows)
  <2>1. r \in 0..Len(rows) /\ Len(rows) \in Nat
    BY <1>2 DEF RequestsInv, RequestInv, RowInv, Busy, DataInv
  <2>2. QED
    BY <1>2, <2>1
<1>4. rows'[r].family = rows[r].family
  BY <1>3
<1>5. \A c \in Browser : jar'[c].cookie # r
  BY <1>2 DEF NewRowClaim
<1>6. \A c \in Slot \ {b} : Busy(c)' => req'[c].row # r
  BY <1>2 DEF NewRowClaim
<1>7. ASSUME req[b].op = "login"
      PROVE  /\ rows'[r].family = r /\ ~Replaced(r)'
             /\ RowsOf(r)' = {r}
             /\ \A c \in Slot : Refreshes(c)' => r \notin req'[c].about
  <2>1. /\ rows[r].family = r /\ ~Replaced(r) /\ RowsOf(r) = {r}
        /\ \A c \in Slot : Refreshes(c) => r \notin req[c].about
    BY <1>2, <1>7 DEF NewRowClaim
  <2>2. r \in 1..Len(rows')
    BY <1>2, <1>3, <1>7 DEF DataInv
  <2>3. r \in RowsOf(r)'
    BY <1>4, <2>1, <2>2 DEF RowsOf
  <2>4. QED
    BY <1>2, <1>4, <1>7, <2>1, <2>3
<1>8. (req[b].op = "refresh" /\ rows'[r].family \notin hist'.shared) => ~Replaced(r)'
  BY <1>2, <1>4 DEF NewRowClaim
<1>9. QED
  BY <1>2, <1>5, <1>6, <1>7, <1>8 DEF NewRowClaim

\* A row that is presented was not replaced, or its family is on record as shared.
LEMMA AlarmKept ==
  ASSUME RequestsInv, NEW b \in Slot, Stays(b), AlarmClaim(b),
         hist.shared \subseteq hist'.shared,
         NEW s, s = Step(b).row,
         (Refreshes(b) /\ Step(b).do \in {"refresh", "reuse"} /\ s # 0) =>
           /\ rows'[s].family = rows[s].family
           /\ Replaced(s)' => Replaced(s) \/ rows[s].family \in hist'.shared
  PROVE  AlarmClaim(b)'
<1>1. SUFFICES ASSUME Refreshes(b)', Step(b)'.do \in {"refresh", "reuse"},
                      Step(b)'.row # 0, Replaced(Step(b).row)'
               PROVE  AlarmClaim(b)'
  BY DEF AlarmClaim
<1>2. Refreshes(b) /\ Step(b)' = Step(b)
  BY <1>1, Others
<1>3. Replaced(s)'
  BY <1>1, <1>2 DEF Replaced
<1>4. rows[s].family \in hist'.shared
  BY <1>1, <1>2, <1>3 DEF AlarmClaim
<1>5. rows'[s].family = rows[s].family
  BY <1>1, <1>2
<1>6. QED
  BY <1>2, <1>4, <1>5 DEF AlarmClaim

\* What a request knows of the password resets so far stays true.
LEMMA ResetKept ==
  ASSUME DataInv, RequestsInv, NEW b \in Slot, Stays(b), ResetClaim(b),
         Account \notin hist'.raced =>
           /\ hist'.epoch = hist.epoch
           /\ Len(rows) <= Len(rows') /\ Len(rows') \in Nat
           /\ \A f \in 1..Len(rows) :
                rows'[f].family = rows[f].family /\ rows'[f].epoch = rows[f].epoch
           /\ \A f \in 1..Len(rows') :
                (f \notin 1..Len(rows) /\ rows'[f].family = f /\ Busy(b)
                 /\ req[b].op = "reset" /\ f \notin req[b].about) =>
                    rows'[f].epoch = hist.epoch /\ b \in hist.crossed
  PROVE  ResetClaim(b)'
<1>1. SUFFICES ASSUME Busy(b)', Account \notin hist'.raced
               PROVE  ResetClaim(b)'
  BY DEF ResetClaim
<1>2. /\ Busy(b) /\ Step(b)' = Step(b) /\ Left(b)' = Left(b) /\ req'[b] = req[b]
      /\ Opens(b)' <=> Opens(b)
  BY <1>1, Others
<1>3. Account \notin hist.raced
  BY <1>1 DEF Stays
<1>4. ASSUME req'[b].op = "login"
      PROVE  /\ Step(b)'.do = "open" => Step(b)'.epoch = hist'.epoch
             /\ (Step(b)'.do \in {"user", "newuser"} /\ Left(b)' # Failed) =>
                  Head(Left(b)').epoch = hist'.epoch
  BY <1>1, <1>2, <1>3, <1>4 DEF ResetClaim
<1>5. ASSUME req'[b].op = "reset", NEW f \in 1..Len(rows'), rows'[f].family = f,
             f \notin req'[b].about
      PROVE  ~Old(f)' /\ b \in hist'.crossed
  <2>1. CASE f \in 1..Len(rows)
    <3>1. rows[f].family = f /\ rows[f].epoch = rows'[f].epoch
      BY <1>1, <1>5, <2>1
    <3>2. ~Old(f) /\ b \in hist.crossed
      BY <1>2, <1>3, <1>5, <2>1, <3>1 DEF ResetClaim
    <3>3. QED
      BY <1>1, <3>1, <3>2 DEF Old, Stays
  <2>2. CASE f \notin 1..Len(rows)
    BY <1>1, <1>2, <1>5, <2>2 DEF Old, Stays
  <2>3. QED
    BY <2>1, <2>2
<1>6. ASSUME Opens(b)', Step(b)'.family \notin hist'.raced, Old(Step(b).family)'
      PROVE  b \in hist'.crossed
  <2>1. Opens(b) /\ Step(b).family \in 1..Len(rows)
    BY <1>2, <1>6, WhoWrites
  <2>2. Step(b).family \notin hist.raced
    BY <1>2, <1>6 DEF Stays
  <2>3. Old(Step(b).family)
    BY <1>1, <1>2, <1>6, <2>1 DEF Old
  <2>4. b \in hist.crossed
    BY <1>2, <1>3, <2>1, <2>2, <2>3 DEF ResetClaim
  <2>5. QED
    BY <2>4 DEF Stays
<1>7. QED
  BY <1>4, <1>5, <1>6 DEF ResetClaim

-----------------------------------------------------------------------------
(* What keeps the facts about rows, browsers and resets. *)

\* Live rows that stay what they were, while those about to be replaced still are.
LEMMA TokenKept ==
  ASSUME TokenInv, Len(rows') = Len(rows),
         \A f \in 1..Len(rows) \ hist'.raced :
           /\ f \notin hist.raced
           /\ LiveRows(f)' \subseteq LiveRows(f)
           /\ f \in hist'.over => f \in hist.over \/ LiveRows(f)' = {}
           /\ \A a \in Slot : (/\ Replaces(a) /\ Step(a).row \in LiveRows(f)'
                               /\ req[a].row \in LiveRows(f)') =>
                 Replaces(a)' /\ Step(a)'.row = Step(a).row /\ req'[a].row = req[a].row
  PROVE  TokenInv'
<1>1. ASSUME NEW f \in 1..Len(rows'), f \notin hist'.raced
      PROVE  /\ \A s, r \in LiveRows(f)' :
                  s # r => \E a \in Slot : Replaces(a)' /\ {s, r} = {Step(a)'.row, req'[a].row}
             /\ f \in hist'.over => LiveRows(f)' = {}
  <2>1. /\ f \in 1..Len(rows) \ hist'.raced /\ f \in 1..Len(rows) \ hist.raced
        /\ LiveRows(f)' \subseteq LiveRows(f)
        /\ f \in hist'.over => f \in hist.over \/ LiveRows(f)' = {}
    BY <1>1
  <2>2. ASSUME NEW s \in LiveRows(f)', NEW r \in LiveRows(f)', s # r
        PROVE  \E a \in Slot : Replaces(a)' /\ {s, r} = {Step(a)'.row, req'[a].row}
    <3>4. s \in LiveRows(f) /\ r \in LiveRows(f)
      BY <2>1, <2>2
    <3>1. PICK a \in Slot : Replaces(a) /\ {s, r} = {Step(a).row, req[a].row}
      BY <2>1, <2>2, <3>4 DEF TokenInv
    <3>2. Step(a).row \in LiveRows(f)' /\ req[a].row \in LiveRows(f)'
      BY <2>2, <3>1
    <3>3. Replaces(a)' /\ Step(a)'.row = Step(a).row /\ req'[a].row = req[a].row
      BY <2>1, <3>1, <3>2
    <3>5. QED
      BY <3>1, <3>3
  <2>3. f \in hist'.over => LiveRows(f)' = {}
    BY <2>1 DEF TokenInv
  <2>4. QED
    BY <2>2, <2>3
<1>2. QED
  BY <1>1 DEF TokenInv

\* A browser that knows a family knew it before.
LEMMA HomeKept ==
  ASSUME HomeInv, Len(rows') = Len(rows),
         \A f \in 1..Len(rows), b \in Browser : Holds(f, b)' => Holds(f, b)
  PROVE  HomeInv'
BY DEF HomeInv

\* Nobody learns of a family when no request gets one and no cookie changes.
LEMMA HoldsKept ==
  ASSUME DataInv, RequestsInv, Len(rows') = Len(rows), jar' = jar,
         \A s \in 1..Len(rows) : rows'[s].family = rows[s].family,
         \A a \in Slot : Busy(a)' =>
           /\ Busy(a) /\ req'[a].op = req[a].op /\ req'[a].tab = req[a].tab
           /\ req'[a].about = req[a].about /\ req'[a].row = req[a].row
  PROVE  \A f \in 1..Len(rows), b \in Browser : Holds(f, b)' => Holds(f, b)
<1>1. SUFFICES ASSUME NEW f \in 1..Len(rows), NEW b \in Browser, Holds(f, b)'
               PROVE  Holds(f, b)
  OBVIOUS
<1>2. CASE jar'[b].cookie # 0 /\ rows'[jar'[b].cookie].family = f
  <2>1. jar[b].cookie \in 1..Len(rows)
    BY <1>2 DEF DataInv
  <2>2. QED
    BY <1>2, <2>1 DEF Holds
<1>3. ASSUME NEW a \in Slot, Busy(a)', BrowserOf[req'[a].tab] = b,
             \/ req'[a].op = "refresh" /\ f \in req'[a].about
             \/ req'[a].row # 0 /\ rows'[req'[a].row].family = f
      PROVE  Holds(f, b)
  <2>1. /\ Busy(a) /\ req'[a].op = req[a].op /\ req'[a].tab = req[a].tab
        /\ req'[a].about = req[a].about /\ req'[a].row = req[a].row
    BY <1>3
  <2>2. req[a].row \in 0..Len(rows) /\ Len(rows) \in Nat
    BY <2>1 DEF RequestsInv, RequestInv, RowInv, Busy, DataInv
  <2>3. req[a].row # 0 => rows'[req[a].row].family = rows[req[a].row].family
    BY <2>2
  <2>4. QED
    BY <1>3, <2>1, <2>3 DEF Holds
<1>4. QED
  BY <1>1, <1>2, <1>3 DEF Holds

\* A browser with a replaced row goes on waiting for the answer.
LEMMA JarKept ==
  ASSUME JarInv, hist.shared \subseteq hist'.shared,
         \A b \in Browser : \A s :
           (/\ s = jar'[b].cookie /\ s # 0 /\ Replaced(s)'
            /\ rows'[s].family \notin hist'.shared) =>
               jar[b].cookie = s /\ Replaced(s) /\ rows[s].family = rows'[s].family,
         \A a \in Slot : (Refreshes(a) /\ req[a].row # 0 /\ Step(a).do = "reply") =>
           \/ /\ Refreshes(a)' /\ req'[a].row # 0 /\ Step(a)'.do = "reply"
              /\ req'[a].about = req[a].about /\ req'[a].tab = req[a].tab
           \/ req[a].about \subseteq hist'.shared
  PROVE  JarInv'
<1>1. SUFFICES ASSUME NEW b \in Browser, NEW s, s = jar'[b].cookie,
                      s # 0, Replaced(s)', rows'[s].family \notin hist'.shared
               PROVE  \E a \in Slot : /\ Refreshes(a)' /\ req'[a].row # 0
                                      /\ Step(a)'.do = "reply"
                                      /\ rows'[s].family \in req'[a].about
                                      /\ BrowserOf[req'[a].tab] = b
  BY DEF JarInv, Replaced
<1>2. jar[b].cookie = s /\ Replaced(s) /\ rows[s].family = rows'[s].family
  BY <1>1
<1>3. PICK a \in Slot : /\ Refreshes(a) /\ req[a].row # 0 /\ Step(a).do = "reply"
                        /\ rows[s].family \in req[a].about
                        /\ BrowserOf[req[a].tab] = b
  BY <1>1, <1>2 DEF JarInv
<1>4. QED
  BY <1>1, <1>2, <1>3

\* Two refreshes at once are two that were, when nobody begins one.
LEMMA SharedKept ==
  ASSUME SharedInv, hist.shared \subseteq hist'.shared,
         \A a \in Slot : Refreshes(a)' => Refreshes(a) /\ req'[a].about = req[a].about
  PROVE  SharedInv'
BY DEF SharedInv

\* No reset ends, and no session of the past gets a live row.
LEMMA ResetInvKept ==
  ASSUME ResetInv, hist.raced \subseteq hist'.raced,
         Account \notin hist'.raced =>
           /\ hist'.epoch = hist.epoch /\ Len(rows') = Len(rows)
           /\ \A f \in 1..Len(rows) :
                /\ rows'[f].family = rows[f].family /\ rows'[f].epoch = rows[f].epoch
                /\ LiveRows(f)' \subseteq LiveRows(f)
           /\ \A a \in Slot : EndsAll(a) => EndsAll(a)'
  PROVE  ResetInv'
<1>1. SUFFICES ASSUME Account \notin hist'.raced, NEW f \in 1..Len(rows'),
                      f \notin hist'.raced, rows'[f].family = f, Old(f)', LiveRows(f)' # {}
               PROVE  \E a \in Slot : EndsAll(a)'
  BY DEF ResetInv
<1>2. /\ f \in 1..Len(rows) \ hist.raced /\ rows[f].family = f /\ Old(f) /\ LiveRows(f) # {}
  BY <1>1 DEF Old
<1>3. PICK a \in Slot : EndsAll(a)
  BY <1>1, <1>2 DEF ResetInv
<1>4. QED
  BY <1>1, <1>3

-----------------------------------------------------------------------------
(* Steps that only decide what to do. *)

\* Rows that are as they were.
LEMMA SameRows ==
  ASSUME rows' = rows
  PROVE  \A f : LiveRows(f)' = LiveRows(f) /\ RowsOf(f)' = RowsOf(f)
                /\ (Replaced(f)' <=> Replaced(f))
BY DEF LiveRows, RowsOf, Live, Replaced

\* A step that changes nothing but what its request will do.
LEMMA QuietStep ==
  ASSUME IInv, NEW a \in Slot, OwnStep(a),
         UNCHANGED <<user, rows, links, orders, jar, access, hist>>,
         req'[a].row = 0, req[a].row = 0,
         Step(a).do \notin {"rotated", "uselink", "revokeall"},
         RequestInv(req'[a], user # NoUser, rows, Len(links)),
         CountClaim(a)', LinkClaim(a)', OrderClaim(a)', OpenClaim(a)', AlarmClaim(a)',
         ResetClaim(a)'
  PROVE  IInv'
<1>1. /\ DataInv /\ FamiliesInv /\ RequestsInv /\ Rivalry
      /\ CountInv /\ LinksInv /\ OrdersFollowLogin /\ NoFalseAlarm
      /\ TokenInv /\ HomeInv /\ JarInv /\ SharedInv /\ ResetInv
      /\ \A b \in Slot : Claims(b)
  BY DEF IInv
<1>2. /\ user' = user /\ rows' = rows /\ links' = links /\ orders' = orders
      /\ jar' = jar /\ access' = access /\ hist' = hist
  OBVIOUS
<1>3. DataInv' /\ FamiliesInv' /\ CountInv' /\ LinksInv' /\ OrdersFollowLogin' /\ NoFalseAlarm'
  BY <1>1, <1>2 DEF DataInv, FamiliesInv, CountInv, LinksInv, OrdersFollowLogin, NoFalseAlarm,
                    Usable
<1>4. Rivalry'
  BY <1>1, RivalryKept
<1>5. StepOf(a)
  BY DEF OwnStep
<1>6. RequestsInv'
  <2>1. Len(rows) <= Len(rows') /\ Len(links) <= Len(links')
    BY <1>1, <1>2 DEF DataInv
  <2>2. QED
    BY <1>1, <1>2, <1>3, <1>5, <2>1, RequestsKept
<1>7. /\ \A f : LiveRows(f)' = LiveRows(f) /\ RowsOf(f)' = RowsOf(f)
                /\ (Replaced(f)' <=> Replaced(f))
      /\ \A f : Old(f)' <=> Old(f)
  BY <1>2, SameRows DEF Old
<1>8. \A b \in Slot : /\ Busy(b)' <=> Busy(b)
                      /\ req'[b].op = req[b].op /\ req'[b].tab = req[b].tab
                      /\ req'[b].about = req[b].about /\ req'[b].row = req[b].row
                      /\ Refreshes(b)' <=> Refreshes(b)
  BY <1>5 DEF OwnStep, StepOf, Stays, Busy, Refreshes
<1>9. \A b \in Slot : /\ Replaces(b) =>
                           /\ Replaces(b)' /\ Step(b)'.row = Step(b).row
                           /\ req'[b].row = req[b].row
                      /\ EndsAll(b) => EndsAll(b)'
  <2>1. ASSUME NEW b \in Slot, b # a
        PROVE  /\ Step(b)' = Step(b)
               /\ Replaces(b)' <=> Replaces(b)
               /\ EndsAll(b)' <=> EndsAll(b)
    BY <1>5, <2>1, Others DEF StepOf
  <2>2. ~Replaces(a) /\ ~EndsAll(a)
    BY DEF Replaces, EndsAll
  <2>3. QED
    BY <1>8, <2>1, <2>2
<1>10. TokenInv'
  BY <1>1, <1>2, <1>7, <1>9, TokenKept
<1>11. HomeInv'
  BY <1>1, <1>2, <1>8, HoldsKept, HomeKept
<1>12. JarInv'
  <2>1. \A b \in Slot : (Refreshes(b) /\ req[b].row # 0 /\ Step(b).do = "reply") =>
          Step(b)' = Step(b)
    BY <1>5 DEF StepOf, Stays, Step
  <2>2. QED
    BY <1>1, <1>2, <1>7, <1>8, <2>1, JarKept
<1>13. SharedInv'
  BY <1>1, <1>2, <1>8, SharedKept
<1>14. ResetInv'
  BY <1>1, <1>2, <1>7, <1>9, ResetInvKept
<1>15. ASSUME NEW b \in Slot
       PROVE  Claims(b)'
  <2>1. CASE b = a
    <3>1. NewRowClaim(a)'
      BY DEF NewRowClaim
    <3>2. QED
      BY <2>1, <3>1 DEF Claims
  <2>2. CASE b # a
    <3>1. Stays(b) /\ Claims(b)
      BY <1>1, <1>5, <2>2 DEF StepOf
    <3>2. CountClaim(b)' /\ LinkClaim(b)' /\ OrderClaim(b)'
      <4>1. CountClaim(b)'
        BY <1>1, <1>2, <3>1, CountKept DEF Claims
      <4>2. \A l \in 1..Len(links') : Usable(l)' <=> Usable(l)
        BY <1>2 DEF Usable
      <4>3. LinkClaim(b)'
        BY <1>1, <1>2, <3>1, <4>2, LinkKept DEF Claims
      <4>4. OrderClaim(b)'
        BY <1>1, <1>2, <3>1, OrderKept DEF Claims
      <4>5. QED
        BY <4>1, <4>3, <4>4
    <3>3. OpenClaim(b)'
      <4>1. Step(b)' = Step(b)
        BY <3>1, Others
      <4>2. QED
        BY <1>1, <1>2, <1>7, <3>1, <4>1, OpenKept DEF Claims, LiveRows, RowsOf, Live
    <3>4. NewRowClaim(b)'
      <4>1. PICK r : r = req[b].row
        OBVIOUS
      <4>2. \A c \in Browser : jar'[c].cookie = r /\ r # 0 => jar[c].cookie = r
        BY <1>2
      <4>3. \A c \in Slot \ {b} : Busy(c)' /\ req'[c].row = r /\ r # 0 =>
                                    Busy(c) /\ req[c].row = r
        BY <1>8
      <4>4. r \in 1..Len(rows) => rows'[r].family = rows[r].family
        BY <1>2
      <4>5. req[b].op = "login" /\ r # 0 =>
              /\ Replaced(r)' => Replaced(r)
              /\ RowsOf(r)' \subseteq RowsOf(r)
              /\ Len(rows) <= Len(rows')
              /\ \A c \in Slot : Refreshes(c)' /\ r \in req'[c].about =>
                                    Refreshes(c) /\ r \in req[c].about
        BY <1>1, <1>2, <1>7, <1>8 DEF DataInv
      <4>6. req[b].op = "refresh" /\ r # 0 =>
              (Replaced(r)' => Replaced(r) \/ rows[r].family \in hist'.shared)
        BY <1>7
      <4>7. NewRowClaim(b) /\ hist.shared \subseteq hist'.shared
        BY <1>2, <3>1 DEF Claims
      <4>8. QED
        BY <1>1, <3>1, <4>1, <4>2, <4>3, <4>4, <4>5, <4>6, <4>7, NewRowKept
    <3>5. AlarmClaim(b)'
      <4>1. PICK s : s = Step(b).row
        OBVIOUS
      <4>2. QED
        BY <1>1, <1>2, <1>7, <3>1, <4>1, AlarmKept DEF Claims
    <3>6. ResetClaim(b)'
      BY <1>1, <1>2, <3>1, ResetKept DEF Claims, DataInv
    <3>7. QED
      BY <3>2, <3>3, <3>4, <3>5, <3>6 DEF Claims
  <2>3. QED
    BY <2>1, <2>2
<1>16. QED
  BY <1>3, <1>4, <1>6, <1>10, <1>11, <1>12, <1>13, <1>14, <1>15 DEF IInv

\* A step of a request that leaves it `todo' to do, and possibly a row.
LEMMA Continues ==
  ASSUME DataInv, RequestsInv, NEW a \in Slot, Busy(a), NEW todo, NEW row,
         req' = [req EXCEPT ![a] = Renewed(req[a], row, todo)],
         hist'.crossed = hist.crossed, hist.raced \subseteq hist'.raced,
         RequestInv(req[a], user' # NoUser, rows', Len(links')),
         PlanInv(req[a].op, row, Head(todo), Tail(todo), user' # NoUser, rows', Len(links')),
         RowInv(req[a].op, row, Head(todo), rows'),
         AboutInv(req[a].op, req[a].about, Head(todo), row, rows')
  PROVE  /\ OwnStep(a) /\ StepOf(a)
         /\ RequestInv(req'[a], user' # NoUser, rows', Len(links'))
         /\ Step(a)' = Head(todo) /\ Left(a)' = Tail(todo)
         /\ req'[a].row = row
         /\ Busy(a)' /\ (Alone(a)' <=> Alone(a))
         /\ req'[a].op = req[a].op /\ req'[a].tab = req[a].tab
         /\ req'[a].about = req[a].about /\ req'[a].seen = req[a].seen
<1> DEFINE new == Renewed(req[a], row, todo)
<1>1. RequestInv(new, user' # NoUser, rows', Len(links')) /\ new # Idle
  BY Replan DEF Busy
<1>2. /\ new.op = req[a].op /\ new.tab = req[a].tab /\ new.about = req[a].about
      /\ new.seen = req[a].seen /\ new.row = row /\ new.todo = todo
  BY DEF Renewed
<1> HIDE DEF new
<1>3. /\ req'[a] = new
      /\ \A b \in Slot \ {a} : req'[b] = req[b]
      /\ req' = [b \in Slot |-> req'[b]]
  BY DEF RequestsInv, new
<1>4. /\ req'[a].op = req[a].op /\ req'[a].tab = req[a].tab
      /\ req'[a].about = req[a].about /\ req'[a].seen = req[a].seen
      /\ req'[a].row = row /\ req'[a].todo = todo
  BY <1>2, <1>3
<1>5. OwnStep(a) /\ StepOf(a)
  BY <1>1, <1>3, <1>4 DEF OwnStep, StepOf, Stays
<1>6. Busy(a)' /\ (Alone(a)' <=> Alone(a))
  BY <1>1, <1>3 DEF Busy, Alone
<1>7. Step(a)' = Head(todo) /\ Left(a)' = Tail(todo)
  BY <1>4 DEF Step, Left
<1>8. QED
  BY <1>1, <1>3, <1>4, <1>5, <1>6, <1>7

\* Actor a renews its list, and what is on it is allowed.
Renewing(a, row, todo) ==
    /\ req' = [req EXCEPT ![a] = Renewed(req[a], row, todo)]
    /\ hist'.crossed = hist.crossed /\ hist.raced \subseteq hist'.raced
    /\ RequestInv(req[a], user' # NoUser, rows', Len(links'))
    /\ PlanInv(req[a].op, row, Head(todo), Tail(todo), user' # NoUser, rows', Len(links'))
    /\ RowInv(req[a].op, row, Head(todo), rows')
    /\ AboutInv(req[a].op, req[a].about, Head(todo), row, rows')

\* It goes on with it.
Renews(a, row, todo) ==
    /\ OwnStep(a)
    /\ RequestInv(req'[a], user' # NoUser, rows', Len(links'))
    /\ Step(a)' = Head(todo) /\ Left(a)' = Tail(todo)
    /\ req'[a].row = row
    /\ Busy(a)' /\ (Alone(a)' <=> Alone(a))
    /\ req'[a].op = req[a].op /\ req'[a].about = req[a].about
    /\ req'[a].seen = req[a].seen

\* So it does.
LEMMA RenewingRenews ==
  ASSUME DataInv, RequestsInv, NEW a \in Slot, Busy(a), NEW todo, NEW row,
         Renewing(a, row, todo)
  PROVE  Renews(a, row, todo)
<1>1. /\ req' = [req EXCEPT ![a] = Renewed(req[a], row, todo)]
      /\ hist'.crossed = hist.crossed /\ hist.raced \subseteq hist'.raced
      /\ RequestInv(req[a], user' # NoUser, rows', Len(links'))
      /\ PlanInv(req[a].op, row, Head(todo), Tail(todo), user' # NoUser, rows', Len(links'))
      /\ RowInv(req[a].op, row, Head(todo), rows')
      /\ AboutInv(req[a].op, req[a].about, Head(todo), row, rows')
  BY DEF Renewing
<1>2. QED
  BY <1>1, Continues DEF Renews

\* What a request keeps of its shape, by its next step.
LEMMA ShapeOf ==
  ASSUME RequestsInv, NEW a \in Slot, Busy(a)
  PROVE  /\ RequestInv(req[a], user # NoUser, rows, Len(links))
         /\ PlanInv(req[a].op, req[a].row, Step(a), Left(a), user # NoUser, rows, Len(links))
         /\ RowInv(req[a].op, req[a].row, Step(a), rows)
         /\ AboutInv(req[a].op, req[a].about, Step(a), req[a].row, rows)
         /\ req[a] = [op |-> req[a].op, tab |-> req[a].tab, about |-> req[a].about,
                      row |-> req[a].row, seen |-> req[a].seen, todo |-> req[a].todo]
         /\ req[a].tab \in Tab /\ req[a].seen \subseteq Order
         /\ req[a].op # "login" => req[a].seen = {}
BY DEF RequestsInv, RequestInv, Busy, Step, Left

Reading == {"register", "login", "google", "verify", "reset", "resend", "forgot", "refresh"}

\* A handler that has read what it needs decides: the claims are about the list.
LEMMA ReadStep ==
  ASSUME IInv, NEW a \in Slot, Busy(a), Step(a).do \in Reading, NEW todo,
         req' = [req EXCEPT ![a].todo = todo],
         UNCHANGED <<user, rows, links, orders, jar, access, hist>>,
         PlanInv(req[a].op, 0, Head(todo), Tail(todo), user # NoUser, rows, Len(links)),
         RowInv(req[a].op, 0, Head(todo), rows),
         AboutInv(req[a].op, req[a].about, Head(todo), 0, rows)
  PROVE  /\ Step(a)' = Head(todo) /\ Left(a)' = Tail(todo)
         /\ Busy(a)' /\ (Alone(a)' <=> Alone(a))
         /\ req'[a].op = req[a].op /\ req'[a].about = req[a].about
         /\ req'[a].seen = req[a].seen
         /\ \A o \in req'[a].seen : orders'[o] # "none"
         /\ (/\ CountClaim(a)' /\ LinkClaim(a)' /\ OrderClaim(a)'
             /\ OpenClaim(a)' /\ AlarmClaim(a)' /\ ResetClaim(a)') => IInv'
<1>1. DataInv /\ RequestsInv /\ OrderClaim(a)
  BY DEF IInv, Claims
<1>2. req[a].row = 0
  BY <1>1, ShapeOf DEF RowInv, Reading
<1>3. PICK row : row = 0
  OBVIOUS
<1>4. req' = [req EXCEPT ![a] = Renewed(req[a], row, todo)]
  <2>1. req[a] = Renewed(req[a], req[a].row, req[a].todo)
    BY <1>1, ShapeOf DEF Renewed
  <2>2. QED
    BY <1>2, <1>3, <2>1, Renewal
<1>5. RequestInv(req[a], user' # NoUser, rows', Len(links'))
  BY <1>1, ShapeOf
<1>6. /\ PlanInv(req[a].op, row, Head(todo), Tail(todo), user' # NoUser, rows', Len(links'))
       /\ RowInv(req[a].op, row, Head(todo), rows')
       /\ AboutInv(req[a].op, req[a].about, Head(todo), row, rows')
  BY <1>3
<1>7. hist'.crossed = hist.crossed /\ hist.raced \subseteq hist'.raced
  OBVIOUS
<1>8. /\ OwnStep(a)
      /\ RequestInv(req'[a], user' # NoUser, rows', Len(links'))
      /\ Step(a)' = Head(todo) /\ Left(a)' = Tail(todo)
      /\ req'[a].row = row
      /\ Busy(a)' /\ (Alone(a)' <=> Alone(a))
      /\ req'[a].op = req[a].op /\ req'[a].about = req[a].about
      /\ req'[a].seen = req[a].seen
  <2>1. Renewing(a, row, todo)
    BY <1>4, <1>5, <1>6, <1>7 DEF Renewing
  <2>2. Renews(a, row, todo)
    BY <1>1, <2>1, RenewingRenews
  <2>3. QED
    BY <2>2 DEF Renews
<1>9. \A o \in req'[a].seen : orders'[o] # "none"
  BY <1>1, <1>8 DEF OrderClaim
<1>10. Step(a).do \notin {"rotated", "uselink", "revokeall"}
  BY DEF Reading
<1>11. RequestInv(req'[a], user # NoUser, rows, Len(links))
  BY <1>8
<1>12. OwnStep(a) /\ req'[a].row = 0
  BY <1>8, <1>3
<1>13. SUFFICES ASSUME /\ CountClaim(a)' /\ LinkClaim(a)' /\ OrderClaim(a)'
                       /\ OpenClaim(a)' /\ AlarmClaim(a)' /\ ResetClaim(a)'
                PROVE  IInv'
  BY <1>8, <1>9
<1>14. QED
  BY <1>2, <1>10, <1>11, <1>12, <1>13, QuietStep

-----------------------------------------------------------------------------
(* The handlers. *)

\* A handler that answers at once.
LEMMA AnswersAtOnce ==
  ASSUME IInv, NEW a \in Slot, Busy(a), Step(a).do \in Reading, NEW todo,
         todo = Failed \/ (todo = Finish /\ req[a].op = "mail"),
         req' = [req EXCEPT ![a].todo = todo],
         UNCHANGED <<user, rows, links, orders, jar, access, hist>>
  PROVE  IInv'
<1>1. DataInv /\ RequestsInv
  BY DEF IInv
<1>2. /\ PlanInv(req[a].op, req[a].row, Step(a), Left(a), user # NoUser, rows, Len(links))
      /\ RowInv(req[a].op, req[a].row, Step(a), rows)
      /\ AboutInv(req[a].op, req[a].about, Step(a), req[a].row, rows)
  BY <1>1, ShapeOf
<1>3. \E ok \in BOOLEAN : /\ Head(todo) = [do |-> "reply", ok |-> ok]
                          /\ ok => req[a].op = "mail"
  BY Lists DEF Say
<1>4. PICK ok \in BOOLEAN : /\ Head(todo) = [do |-> "reply", ok |-> ok]
                            /\ ok => req[a].op = "mail"
  BY <1>3
<1>5. Head(todo).do = "reply" /\ Head(todo).ok \in BOOLEAN /\ (Head(todo).ok <=> ok)
  BY <1>4
<1>6. PlanInv(req[a].op, 0, Head(todo), Tail(todo), user # NoUser, rows, Len(links))
  BY <1>5 DEF PlanInv
<1>7. RowInv(req[a].op, 0, Head(todo), rows)
  <2>1. req[a].op = "mail" => req[a].op \notin {"login", "refresh"}
    OBVIOUS
  <2>2. 0 \in 0..Len(rows)
    BY <1>1 DEF DataInv
  <2>3. QED
    BY <1>4, <1>5, <2>1, <2>2 DEF RowInv
<1>8. AboutInv(req[a].op, req[a].about, Head(todo), 0, rows)
  BY <1>2, <1>5 DEF AboutInv
<1>9. /\ Step(a)' = Head(todo)
      /\ req'[a].op = req[a].op
      /\ \A o \in req'[a].seen : orders'[o] # "none"
      /\ (/\ CountClaim(a)' /\ LinkClaim(a)' /\ OrderClaim(a)'
          /\ OpenClaim(a)' /\ AlarmClaim(a)' /\ ResetClaim(a)') => IInv'
  BY <1>6, <1>7, <1>8, ReadStep
<1>10. Step(a)'.do = "reply" /\ (Step(a)'.ok => req'[a].op = "mail")
  BY <1>4, <1>5, <1>9
<1>11. CountClaim(a)' /\ LinkClaim(a)' /\ OpenClaim(a)' /\ AlarmClaim(a)'
  BY <1>10 DEF CountClaim, LinkClaim, WillUse, OpenClaim, Opens, AlarmClaim
<1>12. OrderClaim(a)'
  BY <1>9, <1>10 DEF OrderClaim
<1>13. ResetClaim(a)'
  <2>1. req'[a].op = "reset" => ResetClaim(a)
    BY DEF IInv, Claims
  <2>2. req'[a].about = req[a].about /\ (Busy(a)' <=> Busy(a)) /\ (a \in hist'.crossed <=> a \in hist.crossed)
    BY <1>6, <1>7, <1>8, ReadStep
  <2>3. QED
    BY <1>9, <1>10, <2>1, <2>2 DEF ResetClaim, Opens, Old
<1>14. QED
  BY <1>9, <1>11, <1>12, <1>13

\* A handler that will mail a link.
LEMMA WillMail ==
  ASSUME IInv, NEW a \in Slot, Busy(a), Step(a).do \in Reading, NEW todo,
         \/ /\ req[a].op = "mail" /\ user # NoUser
            /\ \E type \in {"verify", "reset"} : todo = Mailing(type)
         \/ /\ req[a].op = "register" /\ Tail(todo) = Mailing("verify")
            /\ Head(todo).do = "newuser"
            /\ Head(todo).is \in Fields /\ Head(todo).is.attempts = 0,
         req' = [req EXCEPT ![a].todo = todo],
         UNCHANGED <<user, rows, links, orders, jar, access, hist>>
  PROVE  IInv'
<1>1. DataInv /\ RequestsInv
  BY DEF IInv
<1>2. AboutInv(req[a].op, req[a].about, Step(a), req[a].row, rows)
  BY <1>1, ShapeOf
<1>3. /\ req[a].op \in {"mail", "register"}
      /\ Head(todo).do \in {"droplinks", "newuser"}
  <2>1. \A type : Head(Mailing(type)) = DropLinks(type)
    BY Lists
  <2>2. QED
    BY <2>1 DEF DropLinks
<1>4. PlanInv(req[a].op, 0, Head(todo), Tail(todo), user # NoUser, rows, Len(links))
  <2>1. ASSUME NEW type \in {"verify", "reset"}, todo = Mailing(type), req[a].op = "mail",
               user # NoUser
        PROVE  PlanInv(req[a].op, 0, Head(todo), Tail(todo), user # NoUser, rows, Len(links))
    <3>1. Head(todo) = DropLinks(type) /\ Tail(todo) = Mailed(type)
      BY <2>1, Lists
    <3>2. /\ Head(todo).do = "droplinks" /\ Head(todo).type = type
          /\ Tail(todo) = Mailed(Head(todo).type)
      BY <3>1 DEF DropLinks
    <3>3. QED
      BY <2>1, <3>2 DEF PlanInv
  <2>2. CASE /\ req[a].op = "register" /\ Tail(todo) = Mailing("verify")
             /\ Head(todo).do = "newuser"
             /\ Head(todo).is \in Fields /\ Head(todo).is.attempts = 0
    BY <2>2 DEF PlanInv
  <2>3. QED
    BY <2>1, <2>2
<1>5. RowInv(req[a].op, 0, Head(todo), rows)
  BY <1>1, <1>3 DEF RowInv, DataInv
<1>6. AboutInv(req[a].op, req[a].about, Head(todo), 0, rows)
  BY <1>2, <1>3 DEF AboutInv
<1>7. /\ Step(a)' = Head(todo)
      /\ req'[a].op = req[a].op
      /\ \A o \in req'[a].seen : orders'[o] # "none"
      /\ (/\ CountClaim(a)' /\ LinkClaim(a)' /\ OrderClaim(a)'
          /\ OpenClaim(a)' /\ AlarmClaim(a)' /\ ResetClaim(a)') => IInv'
  BY <1>4, <1>5, <1>6, ReadStep
<1>8. /\ CountClaim(a)' /\ LinkClaim(a)' /\ OrderClaim(a)'
      /\ OpenClaim(a)' /\ AlarmClaim(a)' /\ ResetClaim(a)'
  BY <1>3, <1>7 DEF CountClaim, LinkClaim, WillUse, OpenClaim, Opens, Refreshes, AlarmClaim,
                    OrderClaim, ResetClaim
<1>9. QED
  BY <1>7, <1>8

\* A step, then the two that mail a link, then the answer.
LEMMA JoinAll == \A x, d, n, r : <<x>> \o <<d, n>> \o <<r>> = <<x, d, n, r>>
<1>1. SUFFICES ASSUME NEW x, NEW d, NEW n, NEW r
               PROVE  <<x>> \o <<d, n>> \o <<r>> = <<x, d, n, r>>
  OBVIOUS
<1>2. <<x>> \o <<d, n>> = <<x, d, n>>
  BY Joins
<1>3. <<x, d, n>> \o <<r>> = <<x, d, n, r>>
  BY Joins
<1>4. QED
  BY <1>2, <1>3

\* register.
LEMMA RegisterStep ==
  ASSUME IInv, NEW a \in Slot, DoRegister(a)
  PROVE  IInv'
<1> DEFINE new == NewUser(Todo(a).pw, FALSE, FALSE)
           list == <<[do |-> "newuser", is |-> new]>>
                     \o CreateVerificationToken("verify") \o Finish
           todo == IF user # NoUser THEN Failed ELSE list
<1>1. /\ Busy(a) /\ Step(a) = Todo(a) /\ Step(a).do = "register"
      /\ req' = [req EXCEPT ![a].todo = todo]
      /\ UNCHANGED <<user, rows, links, orders, jar, access, hist>>
  BY DEF DoRegister, Next1, Continue, Step, Todo
<1>2. Step(a).do \in Reading
  BY <1>1 DEF Reading
<1> DEFINE first == [do |-> "newuser", is |-> new]
<1>3. list = <<first, DropLinks("verify"), NewLink("verify"), Say(TRUE)>>
  <2>1. list = <<first>> \o <<DropLinks("verify"), NewLink("verify")>> \o <<Say(TRUE)>>
    BY DEF CreateVerificationToken, Finish, Say
  <2> HIDE DEF list, first
  <2>2. QED
    BY <2>1, JoinAll
<1>5. PlanInv(req[a].op, req[a].row, Step(a), Left(a), user # NoUser, rows, Len(links))
  BY <1>1, ShapeOf DEF IInv
<1>6. req[a].op = "register" /\ Todo(a).pw \in Password
  BY <1>1, <1>5 DEF PlanInv
<1>7. new \in Fields /\ new.attempts = 0
  BY <1>6, SessionAssumption DEF NewUser, Fields
<1>11. first.do = "newuser" /\ first.is = new
  OBVIOUS
<1> HIDE DEF list, first, new
<1>4. Head(list) = first /\ Tail(list) = Mailing("verify")
  <2>1. PICK d, n, r : d = DropLinks("verify") /\ n = NewLink("verify") /\ r = Say(TRUE)
    OBVIOUS
  <2>4. list = <<first, d, n, r>>
    BY <1>3, <2>1
  <2>2. Head(list) = first /\ Tail(list) = <<d, n, r>>
    BY <2>4, FourTuple
  <2>3. QED
    BY <2>1, <2>2 DEF Mailing
<1>8. CASE user # NoUser
  BY <1>1, <1>2, <1>8, AnswersAtOnce
<1>9. CASE user = NoUser
  <2>1. /\ req[a].op = "register" /\ Tail(list) = Mailing("verify")
        /\ Head(list).do = "newuser"
        /\ Head(list).is \in Fields /\ Head(list).is.attempts = 0
    BY <1>4, <1>6, <1>7, <1>11
  <2>2. req' = [req EXCEPT ![a].todo = list]
    BY <1>1, <1>9
  <2>3. QED
    BY <1>1, <1>2, <2>1, <2>2, WillMail
<1>10. QED
  BY <1>8, <1>9

\* A handler that mails a link, or has no reason to.
LEMMA MailsOrAnswers ==
  ASSUME IInv, NEW a \in Slot, Busy(a), Step(a).do \in {"resend", "forgot"},
         NEW type \in {"verify", "reset"}, NEW todo,
         \/ todo = Finish
         \/ user # NoUser /\ todo = CreateVerificationToken(type) \o Finish,
         req' = [req EXCEPT ![a].todo = todo],
         UNCHANGED <<user, rows, links, orders, jar, access, hist>>
  PROVE  IInv'
<1>2. Step(a).do \in Reading
  BY DEF Reading
<1>3. PlanInv(req[a].op, req[a].row, Step(a), Left(a), user # NoUser, rows, Len(links))
  BY ShapeOf DEF IInv
<1>4. req[a].op = "mail"
  BY <1>3 DEF PlanInv
<1>5. CreateVerificationToken(type) \o Finish = Mailing(type)
  <2>1. \A d, n, r : <<d, n>> \o <<r>> = <<d, n, r>>
    BY Joins
  <2>2. <<DropLinks(type), NewLink(type)>> \o <<Say(TRUE)>>
          = <<DropLinks(type), NewLink(type), Say(TRUE)>>
    BY <2>1
  <2>3. QED
    BY <2>2 DEF CreateVerificationToken, Finish, Mailing, Say
<1>6. CASE todo = Finish
  BY <1>2, <1>4, <1>6, AnswersAtOnce
<1>7. CASE user # NoUser /\ todo = Mailing(type)
  BY <1>2, <1>4, <1>7, WillMail
<1>8. QED
  BY <1>5, <1>6, <1>7

\* resendVerification and forgotPassword.
LEMMA ResendStep ==
  ASSUME IInv, NEW a \in Slot, DoResend(a) \/ DoForgot(a)
  PROVE  IInv'
<1>1. CASE DoResend(a)
  <2> DEFINE new == CreateVerificationToken("verify") \o Finish
             todo == IF user = NoUser THEN Finish ELSE IF user.verified THEN Finish ELSE new
  <2>1. /\ Busy(a) /\ Step(a).do = "resend"
        /\ req' = [req EXCEPT ![a].todo = todo]
        /\ UNCHANGED <<user, rows, links, orders, jar, access, hist>>
    BY <1>1 DEF DoResend, Next1, Continue, Step
  <2>2. todo = Finish \/ (user # NoUser /\ todo = new)
    OBVIOUS
  <2> HIDE DEF todo
  <2>3. QED
    BY <2>1, <2>2, MailsOrAnswers
<1>2. CASE DoForgot(a)
  <2> DEFINE new == CreateVerificationToken("reset") \o Finish
             todo == IF user = NoUser THEN Finish
                     ELSE IF user.pw = NoPassword THEN Finish ELSE new
  <2>1. /\ Busy(a) /\ Step(a).do = "forgot"
        /\ req' = [req EXCEPT ![a].todo = todo]
        /\ UNCHANGED <<user, rows, links, orders, jar, access, hist>>
    BY <1>2 DEF DoForgot, Next1, Continue, Step
  <2>2. todo = Finish \/ (user # NoUser /\ todo = new)
    OBVIOUS
  <2> HIDE DEF todo
  <2>3. QED
    BY <2>1, <2>2, MailsOrAnswers
<1>3. QED
  BY <1>1, <1>2

-----------------------------------------------------------------------------
(* Logins. *)

\* What a save writes: the fields in which the account differs from the copy.
LEMMA SaveIs ==
  ASSUME NEW u, NEW to, NEW fact
  PROVE  /\ SaveUser(u, to, fact).do = "user" /\ SaveUser(u, to, fact).fact = fact
         /\ DOMAIN SaveUser(u, to, fact).set = {g \in DOMAIN u : u[g] # to[g]}
         /\ \A g \in DOMAIN SaveUser(u, to, fact).set :
              SaveUser(u, to, fact).set[g] = to[g]
BY DEF SaveUser

\* The list of a login that issues tokens.
LEMMA IssueIs ==
  ASSUME NEW u, u.verified \in BOOLEAN
  PROVE  Issue(u) = Opening(hist.epoch, u.verified)
<1>0. PICK o, k, r : o = Open(0, hist.epoch) /\ k = ClaimOrders /\ r = Say(TRUE)
  OBVIOUS
<1>1. Issue(u) = <<o>> \o (IF u.verified THEN <<k>> ELSE <<>>) \o <<r>>
  BY <1>0 DEF Issue, Finish, Say
<1>2. Opening(hist.epoch, u.verified) = IF u.verified THEN <<o, k, r>> ELSE <<o, r>>
  BY <1>0 DEF Opening
<1>3. CASE u.verified
  <2>1. <<o>> \o <<k>> = <<o, k>>
    BY Joins
  <2>2. <<o, k>> \o <<r>> = <<o, k, r>>
    BY Joins
  <2>3. QED
    BY <1>1, <1>2, <1>3, <2>1, <2>2
<1>4. CASE ~u.verified
  <2>1. <<o>> \in Seq({o})
    OBVIOUS
  <2>2. <<o>> \o <<>> = <<o>>
    BY <2>1, ConcatEmptySeq
  <2>3. <<o>> \o <<r>> = <<o, r>>
    BY Joins
  <2>4. QED
    BY <1>1, <1>2, <1>4, <2>2, <2>3
<1>5. QED
  BY <1>3, <1>4

\* A step put before a list.
LEMMA Before ==
  ASSUME NEW x, NEW t, \/ t = Failed \/ \E e, c : t = Opening(e, c)
  PROVE  Head(<<x>> \o t) = x /\ Tail(<<x>> \o t) = t
<1>1. CASE t = Failed
  <2>1. PICK r : r = Say(FALSE)
    OBVIOUS
  <2>2. t = <<r>>
    BY <1>1, <2>1 DEF Failed, Say
  <2>3. <<x>> \o <<r>> = <<x, r>>
    BY Joins
  <2>4. Head(<<x, r>>) = x /\ Tail(<<x, r>>) = <<r>>
    BY Tuples
  <2>5. QED
    BY <2>2, <2>3, <2>4
<1>2. ASSUME NEW e, NEW c, t = Opening(e, c)
      PROVE  Head(<<x>> \o t) = x /\ Tail(<<x>> \o t) = t
  <2>1. PICK o, k, r : o = Open(0, e) /\ k = ClaimOrders /\ r = Say(TRUE)
    OBVIOUS
  <2>2. t = <<o, k, r>> \/ t = <<o, r>>
    BY <1>2, <2>1 DEF Opening
  <2>3. CASE t = <<o, k, r>>
    <3>1. <<x>> \o <<o, k, r>> = <<x, o, k, r>>
      BY Joins
    <3>2. Head(<<x, o, k, r>>) = x /\ Tail(<<x, o, k, r>>) = <<o, k, r>>
      BY FourTuple
    <3>3. QED
      BY <2>3, <3>1, <3>2
  <2>4. CASE t = <<o, r>>
    <3>1. <<x>> \o <<o, r>> = <<x, o, r>>
      BY Joins
    <3>2. Head(<<x, o, r>>) = x /\ Tail(<<x, o, r>>) = <<o, r>>
      BY Tuples
    <3>3. QED
      BY <2>4, <3>1, <3>2
  <2>5. QED
    BY <2>2, <2>3, <2>4
<1>3. QED
  BY <1>1, <1>2

\* A login that will save the account, create it, or open a session.
LEMMA WillIssue ==
  ASSUME IInv, NEW a \in Slot, Busy(a), Step(a).do \in {"login", "google"}, NEW todo,
         NEW h, NEW t, NEW c \in BOOLEAN, NEW e, e = hist.epoch,
         Head(todo) = h, Tail(todo) = t,
         \/ /\ h.do = "newuser" /\ h.is \in Fields /\ h.is.attempts = 0
            /\ h.is.verified = c /\ t = Opening(e, c)
         \/ /\ h.do = "user" /\ user # NoUser /\ PatchInv(h.fact, h.set)
            /\ \/ h.fact \in {"failure", "google"} /\ t = Failed
               \/ h.fact = "success" /\ t = Opening(e, TRUE)
               \/ /\ h.fact = "google" /\ t = Opening(e, c)
                  /\ c \/ (~user.verified /\ "verified" \notin DOMAIN h.set)
         \/ h = Open(0, e) /\ t = After(c) /\ user # NoUser /\ (c \/ ~user.verified),
         (h.do = "user" /\ h.fact = "failure") =>
           /\ user.locked # "on"
           /\ IF user.attempts + 1 >= MaxAttempts
              THEN /\ "locked" \in DOMAIN h.set /\ h.set.locked = "on"
                   /\ IF "attempts" \in DOMAIN h.set THEN h.set.attempts = 0
                      ELSE user.attempts = 0
              ELSE /\ DOMAIN h.set = {"attempts"}
                   /\ h.set.attempts = user.attempts + 1,
         (h.do = "user" /\ h.fact = "success") =>
           IF "attempts" \in DOMAIN h.set THEN h.set.attempts = 0 ELSE user.attempts = 0,
         req' = [req EXCEPT ![a].todo = todo],
         UNCHANGED <<user, rows, links, orders, jar, access, hist>>
  PROVE  IInv'
<1>1. DataInv /\ RequestsInv
  BY DEF IInv
<1>2. /\ PlanInv(req[a].op, req[a].row, Step(a), Left(a), user # NoUser, rows, Len(links))
      /\ AboutInv(req[a].op, req[a].about, Step(a), req[a].row, rows)
  BY <1>1, ShapeOf
<1>3. req[a].op = "login"
  BY <1>2 DEF PlanInv
<1>4. Open(0, e).do = "open" /\ Open(0, e).family = 0 /\ Open(0, e).epoch = e /\ e \in Nat
  BY <1>1 DEF Open, DataInv
<1>5. h.do \in {"newuser", "user", "open"}
  BY <1>4
<1>6. \A d \in BOOLEAN : t = Opening(e, d) =>
        WillOpen(t, d) /\ t # Failed /\ Head(t).epoch = e
  <2>1. ASSUME NEW d \in BOOLEAN, t = Opening(e, d)
        PROVE  WillOpen(t, d) /\ t # Failed /\ Head(t).epoch = e
    <3>1. Head(t) = Open(0, e)
      BY <2>1, Lists
    <3>4. Head(Failed) = Say(FALSE)
      BY Lists
    <3>2. Head(Failed).do = "reply"
      BY <3>4 DEF Say
    <3>3. QED
      BY <1>4, <2>1, <3>1, <3>2 DEF WillOpen
  <2>2. QED
    BY <2>1
<1>7. PlanInv(req[a].op, 0, Head(todo), Tail(todo), user # NoUser, rows, Len(links))
  <2>1. CASE h.do = "newuser"
    <3>1. WillOpen(t, c)
      BY <1>4, <1>6, <2>1
    <3>2. /\ h.is \in Fields /\ h.is.attempts = 0
          /\ h.is.verified = c
      BY <1>4, <2>1
    <3>3. QED
      BY <1>3, <2>1, <3>1, <3>2 DEF PlanInv
  <2>2. CASE h.do = "user"
    <3>1. /\ user # NoUser /\ PatchInv(h.fact, h.set)
          /\ \/ h.fact \in {"failure", "google"} /\ t = Failed
             \/ h.fact = "success" /\ WillOpen(t, TRUE)
             \/ h.fact = "google" /\ \E d \in BOOLEAN : WillOpen(t, d)
      BY <1>4, <1>6, <2>2
    <3>2. QED
      BY <1>3, <2>2, <3>1 DEF PlanInv
  <2>3. CASE h.do = "open"
    <3>1. /\ h.family = 0 /\ h.epoch \in Nat /\ user # NoUser /\ t = After(c)
      BY <1>4, <2>3
    <3>2. QED
      BY <1>3, <2>3, <3>1 DEF PlanInv
  <2>4. QED
    BY <1>5, <2>1, <2>2, <2>3
<1>8. RowInv(req[a].op, 0, Head(todo), rows)
  BY <1>1, <1>5 DEF RowInv, DataInv
<1>9. AboutInv(req[a].op, req[a].about, Head(todo), 0, rows)
  BY <1>2, <1>3 DEF AboutInv
<1>10. /\ Step(a)' = h /\ Left(a)' = t
       /\ req'[a].op = "login"
       /\ \A o \in req'[a].seen : orders'[o] # "none"
       /\ (/\ CountClaim(a)' /\ LinkClaim(a)' /\ OrderClaim(a)'
           /\ OpenClaim(a)' /\ AlarmClaim(a)' /\ ResetClaim(a)') => IInv'
  BY <1>3, <1>7, <1>8, <1>9, ReadStep DEF Reading
<1>11. user' = user /\ hist' = hist
  OBVIOUS
<1>12. CountClaim(a)'
  <2>1. (h.do = "user" /\ h.fact = "reset") => FALSE
    BY <1>4
  <2>2. QED
    BY <1>10, <1>11, <2>1 DEF CountClaim
<1>13. LinkClaim(a)' /\ OpenClaim(a)' /\ AlarmClaim(a)'
  BY <1>5, <1>10 DEF LinkClaim, WillUse, OpenClaim, Opens, Refreshes, AlarmClaim
<1>14. OrderClaim(a)'
  <2>1. (h.do = "user" /\ t # Failed) =>
          \/ WillOpen(t, TRUE)
          \/ ~user.verified /\ "verified" \notin DOMAIN h.set
    BY <1>4, <1>6
  <2>2. h.do = "open" => t = After(TRUE) \/ ~user.verified
    BY <1>4
  <2>3. QED
    BY <1>5, <1>10, <1>11, <2>1, <2>2 DEF OrderClaim
<1>15. ResetClaim(a)'
  <2>1. h.do = "open" => h.epoch = e
    BY <1>4
  <2>2. (h.do \in {"user", "newuser"} /\ t # Failed) => Head(t).epoch = e
    BY <1>4, <1>6
  <2>3. QED
    BY <1>10, <1>11, <2>1, <2>2 DEF ResetClaim, Opens, Refreshes
<1>16. QED
  BY <1>10, <1>12, <1>13, <1>14, <1>15

\* What is known of the account when it is there.
LEMMA Account0 ==
  ASSUME DataInv, user # NoUser
  PROVE  /\ user \in Fields
         /\ user = [pw |-> user.pw, google |-> user.google, privileged |-> user.privileged,
                    verified |-> user.verified, attempts |-> user.attempts,
                    locked |-> user.locked]
         /\ DOMAIN user = {"pw", "google", "privileged", "verified", "attempts", "locked"}
         /\ user.pw \in Password \cup {NoPassword} /\ user.google \in BOOLEAN
         /\ user.privileged \in BOOLEAN /\ user.verified \in BOOLEAN
         /\ user.attempts \in 0..MaxAttempts - 1 /\ user.locked \in {"no", "on", "over"}
<1>1. user \in Fields
  BY DEF DataInv
<1>2. QED
  BY <1>1 DEF Fields

\* What a failed attempt writes.
LEMMA AttemptIs ==
  ASSUME DataInv, user # NoUser, user.locked # "on", NEW h, h = FailedAttempt(user)
  PROVE  /\ h.do = "user" /\ h.fact = "failure" /\ PatchInv(h.fact, h.set)
         /\ IF user.attempts + 1 >= MaxAttempts
            THEN /\ "locked" \in DOMAIN h.set /\ h.set.locked = "on"
                 /\ IF "attempts" \in DOMAIN h.set THEN h.set.attempts = 0
                    ELSE user.attempts = 0
            ELSE /\ DOMAIN h.set = {"attempts"}
                 /\ h.set.attempts = user.attempts + 1
<1>1. PICK pw, google, privileged, verified, n, locked :
        user = [pw |-> pw, google |-> google, privileged |-> privileged,
                verified |-> verified, attempts |-> n, locked |-> locked]
  BY Account0
<1>2. n \in 0..MaxAttempts - 1 /\ locked \in {"no", "on", "over"} /\ locked # "on"
  BY <1>1, Account0
<1>3. MaxAttempts \in Nat \ {0}
  BY SessionAssumption
<1>4. user.attempts = n /\ user.locked = locked
  BY <1>1
<1>5. CASE n + 1 >= MaxAttempts
  <2> DEFINE to == [pw |-> pw, google |-> google, privileged |-> privileged,
                    verified |-> verified, attempts |-> 0, locked |-> "on"]
  <2>1. [user EXCEPT !.attempts = 0, !.locked = "on"] = to
    <3> DEFINE mid == [user EXCEPT !.attempts = 0]
    <3>1. mid = [pw |-> pw, google |-> google, privileged |-> privileged,
                 verified |-> verified, attempts |-> 0, locked |-> locked]
      BY <1>1
    <3>2. [user EXCEPT !.attempts = 0, !.locked = "on"] = [mid EXCEPT !.locked = "on"]
      OBVIOUS
    <3> HIDE DEF mid
    <3>3. QED
      BY <3>1, <3>2
  <2>2. h = SaveUser(user, to, "failure")
    BY <1>4, <1>5, <2>1 DEF FailedAttempt
  <2>3. /\ {g \in DOMAIN user : user[g] # to[g]} =
             IF n = 0 THEN {"locked"} ELSE {"attempts", "locked"}
        /\ to.attempts = 0 /\ to.locked = "on"
    BY <1>1, <1>2
  <2> HIDE DEF to
  <2>4. /\ h.do = "user" /\ h.fact = "failure"
        /\ DOMAIN h.set = IF n = 0 THEN {"locked"} ELSE {"attempts", "locked"}
        /\ \A g \in DOMAIN h.set : h.set[g] = to[g]
    <3>1. /\ h.do = "user" /\ h.fact = "failure"
          /\ DOMAIN h.set = {g \in DOMAIN user : user[g] # to[g]}
          /\ \A g \in DOMAIN h.set : h.set[g] = to[g]
      BY <2>2, SaveIs
    <3>2. QED
      BY <2>3, <3>1
  <2>5. /\ "locked" \in DOMAIN h.set /\ h.set.locked = "on"
        /\ "attempts" \in DOMAIN h.set => h.set.attempts = 0
        /\ "attempts" \notin DOMAIN h.set => n = 0
        /\ DOMAIN h.set \subseteq {"attempts", "locked"}
    BY <2>3, <2>4
  <2>6. PatchInv(h.fact, h.set)
    <3>1. Writable[h.fact] = {"attempts", "locked"} /\ h.fact \in DOMAIN Writable
      BY <2>4 DEF Writable
    <3>2. 0 \in 0..MaxAttempts - 1
      BY <1>3
    <3>3. QED
      BY <2>5, <3>1, <3>2 DEF PatchInv
  <2>7. QED
    BY <1>4, <1>5, <2>4, <2>5, <2>6
<1>6. CASE ~(n + 1 >= MaxAttempts)
  <2> DEFINE to == [pw |-> pw, google |-> google, privileged |-> privileged,
                    verified |-> verified, attempts |-> n + 1, locked |-> locked]
  <2>1. [user EXCEPT !.attempts = @ + 1] = to
    BY <1>1
  <2>2. h = SaveUser(user, to, "failure")
    BY <1>4, <1>6, <2>1 DEF FailedAttempt
  <2>5. n # n + 1
    BY <1>2
  <2>3. {g \in DOMAIN user : user[g] # to[g]} = {"attempts"} /\ to.attempts = n + 1
    <3>1. /\ to.pw = user.pw /\ to.google = user.google /\ to.privileged = user.privileged
          /\ to.verified = user.verified /\ to.locked = user.locked
          /\ to.attempts = n + 1 /\ user.attempts # to.attempts
      BY <1>1, <2>5
    <3>2. \A g \in DOMAIN user : user[g] # to[g] <=> g = "attempts"
      BY <1>1, <3>1
    <3>3. "attempts" \in DOMAIN user
      BY <1>1
    <3>4. QED
      BY <3>1, <3>2, <3>3
  <2> HIDE DEF to
  <2>4. /\ h.do = "user" /\ h.fact = "failure"
        /\ DOMAIN h.set = {"attempts"}
        /\ h.set.attempts = n + 1
    BY <2>2, <2>3, SaveIs
  <2>6. PatchInv(h.fact, h.set)
    <3>1. Writable[h.fact] = {"attempts", "locked"} /\ h.fact \in DOMAIN Writable
      BY <2>4 DEF Writable
    <3>2. n + 1 \in 0..MaxAttempts - 1
      BY <1>2, <1>3, <1>6
    <3>3. QED
      BY <2>4, <3>1, <3>2 DEF PatchInv
  <2>7. QED
    BY <1>4, <1>6, <2>4, <2>6
<1>7. QED
  BY <1>5, <1>6

\* What a success writes.
LEMMA ClearIs ==
  ASSUME DataInv, user # NoUser, NEW fact, NEW h,
         h = SaveUser(user, [user EXCEPT !.attempts = 0, !.locked = "no"], fact)
  PROVE  /\ h.do = "user" /\ h.fact = fact
         /\ DOMAIN h.set \subseteq {"attempts", "locked"}
         /\ IF "attempts" \in DOMAIN h.set THEN h.set.attempts = 0 ELSE user.attempts = 0
         /\ "locked" \in DOMAIN h.set => h.set.locked = "no"
<1>1. PICK pw, google, privileged, verified, n, locked :
        user = [pw |-> pw, google |-> google, privileged |-> privileged,
                verified |-> verified, attempts |-> n, locked |-> locked]
  BY Account0
<1>4. user.attempts = n /\ user.locked = locked /\ "attempts" \in DOMAIN user
  BY <1>1
<1> DEFINE to == [pw |-> pw, google |-> google, privileged |-> privileged,
                  verified |-> verified, attempts |-> 0, locked |-> "no"]
<1>2. [user EXCEPT !.attempts = 0, !.locked = "no"] = to
  <2> DEFINE mid == [user EXCEPT !.attempts = 0]
  <2>1. mid = [pw |-> pw, google |-> google, privileged |-> privileged,
               verified |-> verified, attempts |-> 0, locked |-> locked]
    BY <1>1
  <2>2. [user EXCEPT !.attempts = 0, !.locked = "no"] = [mid EXCEPT !.locked = "no"]
    OBVIOUS
  <2> HIDE DEF mid
  <2>3. QED
    BY <2>1, <2>2
<1>3. /\ \A g \in DOMAIN user : user[g] # to[g] => g \in {"attempts", "locked"}
      /\ to.attempts = 0 /\ to.locked = "no"
  BY <1>1
<1> HIDE DEF to
<1>5. /\ h.do = "user" /\ h.fact = fact
      /\ DOMAIN h.set = {g \in DOMAIN user : user[g] # to[g]}
      /\ \A g \in DOMAIN h.set : h.set[g] = to[g]
  <2>1. h = SaveUser(user, to, fact)
    BY <1>2
  <2>2. QED
    BY <2>1, SaveIs
<1>6. DOMAIN h.set \subseteq {"attempts", "locked"}
  BY <1>3, <1>5
<1>7. "attempts" \in DOMAIN h.set => h.set.attempts = 0
  BY <1>3, <1>5
<1>8. "attempts" \notin DOMAIN h.set => user.attempts = 0
  BY <1>3, <1>4, <1>5
<1>9. "locked" \in DOMAIN h.set => h.set.locked = "no"
  BY <1>3, <1>5
<1>10. QED
  BY <1>5, <1>6, <1>7, <1>8, <1>9

\* login.
LEMMA LoginStep ==
  ASSUME IInv, NEW a \in Slot, DoLogin(a)
  PROVE  IInv'
<1> DEFINE clear == SaveUser(user, [user EXCEPT !.attempts = 0, !.locked = "no"], "success")
           todo == IF user = NoUser THEN Failed
                   ELSE IF user.locked = "on" THEN Failed
                   ELSE IF (user.privileged /\ ~Todo(a).code) \/ user.pw # Todo(a).pw
                        THEN <<FailedAttempt(user)>> \o Failed
                   ELSE IF ~user.verified THEN Failed
                   ELSE <<clear>> \o Issue(user)
<1>1. /\ Busy(a) /\ Step(a) = Todo(a) /\ Step(a).do = "login"
      /\ req' = [req EXCEPT ![a].todo = todo]
      /\ UNCHANGED <<user, rows, links, orders, jar, access, hist>>
  BY DEF DoLogin, Next1, Continue, Step, Todo
<1>2. Step(a).do \in Reading /\ Step(a).do \in {"login", "google"}
  BY <1>1 DEF Reading
<1>3. \/ todo = Failed
      \/ user # NoUser /\ user.locked # "on" /\ todo = <<FailedAttempt(user)>> \o Failed
      \/ user # NoUser /\ user.verified /\ todo = <<clear>> \o Issue(user)
  OBVIOUS
<1>4. DataInv
  BY DEF IInv
<1> HIDE DEF todo, clear
<1>5. CASE todo = Failed
  BY <1>1, <1>2, <1>5, AnswersAtOnce
<1>6. CASE user # NoUser /\ user.locked # "on" /\ todo = <<FailedAttempt(user)>> \o Failed
  <2>1. PICK h : h = FailedAttempt(user)
    OBVIOUS
  <2>2. /\ h.do = "user" /\ h.fact = "failure" /\ PatchInv(h.fact, h.set)
        /\ IF user.attempts + 1 >= MaxAttempts
           THEN /\ "locked" \in DOMAIN h.set /\ h.set.locked = "on"
                /\ IF "attempts" \in DOMAIN h.set THEN h.set.attempts = 0
                   ELSE user.attempts = 0
           ELSE /\ DOMAIN h.set = {"attempts"}
                /\ h.set.attempts = user.attempts + 1
    BY <1>4, <1>6, <2>1, AttemptIs
  <2>3. Head(todo) = h /\ Tail(todo) = Failed
    BY <1>6, <2>1, Before
  <2>4. PICK e : e = hist.epoch
    OBVIOUS
  <2>5. /\ (h.do = "user" /\ h.fact = "failure") =>
             /\ user.locked # "on"
             /\ IF user.attempts + 1 >= MaxAttempts
                THEN /\ "locked" \in DOMAIN h.set /\ h.set.locked = "on"
                     /\ IF "attempts" \in DOMAIN h.set THEN h.set.attempts = 0
                        ELSE user.attempts = 0
                ELSE /\ DOMAIN h.set = {"attempts"}
                     /\ h.set.attempts = user.attempts + 1
        /\ (h.do = "user" /\ h.fact = "success") =>
             IF "attempts" \in DOMAIN h.set THEN h.set.attempts = 0 ELSE user.attempts = 0
    BY <1>6, <2>2
  <2>6. QED
    BY <1>1, <1>2, <1>6, <2>2, <2>3, <2>4, <2>5, WillIssue
<1>7. CASE user # NoUser /\ user.verified /\ todo = <<clear>> \o Issue(user)
  <2>1. PICK h : h = clear
    OBVIOUS
  <2>2. /\ h.do = "user" /\ h.fact = "success"
        /\ DOMAIN h.set \subseteq {"attempts", "locked"}
        /\ IF "attempts" \in DOMAIN h.set THEN h.set.attempts = 0 ELSE user.attempts = 0
        /\ "locked" \in DOMAIN h.set => h.set.locked = "no"
    BY <1>4, <1>7, <2>1, ClearIs DEF clear
  <2>3. PatchInv(h.fact, h.set)
    <3>1. Writable[h.fact] = {"attempts", "locked"} /\ h.fact \in DOMAIN Writable
      BY <2>2 DEF Writable
    <3>2. 0 \in 0..MaxAttempts - 1
      BY SessionAssumption
    <3>3. QED
      BY <2>2, <3>1, <3>2 DEF PatchInv
  <2>4. PICK e : e = hist.epoch
    OBVIOUS
  <2>5. Issue(user) = Opening(e, TRUE)
    <3>1. user.verified = TRUE
      BY <1>4, <1>7, Account0
    <3>2. user.verified \in BOOLEAN
      BY <3>1
    <3>3. Issue(user) = Opening(hist.epoch, user.verified)
      BY <3>2, IssueIs
    <3>4. QED
      BY <2>4, <3>1, <3>3
  <2>6. Head(todo) = h /\ Tail(todo) = Opening(e, TRUE)
    BY <1>7, <2>1, <2>5, Before
  <2>7. /\ (h.do = "user" /\ h.fact = "failure") =>
             /\ user.locked # "on"
             /\ IF user.attempts + 1 >= MaxAttempts
                THEN /\ "locked" \in DOMAIN h.set /\ h.set.locked = "on"
                     /\ IF "attempts" \in DOMAIN h.set THEN h.set.attempts = 0
                        ELSE user.attempts = 0
                ELSE /\ DOMAIN h.set = {"attempts"}
                     /\ h.set.attempts = user.attempts + 1
        /\ (h.do = "user" /\ h.fact = "success") =>
             IF "attempts" \in DOMAIN h.set THEN h.set.attempts = 0 ELSE user.attempts = 0
    BY <2>2
  <2>8. QED
    BY <1>1, <1>2, <1>7, <2>2, <2>3, <2>4, <2>6, <2>7, WillIssue
<1>8. QED
  BY <1>3, <1>5, <1>6, <1>7

\* Nothing put before a list.
LEMMA NothingBefore ==
  ASSUME NEW t, \/ t = Failed \/ \E e, c : t = Opening(e, c)
  PROVE  <<>> \o t = t
<1>1. CASE t = Failed
  <2>1. PICK r : r = Say(FALSE)
    OBVIOUS
  <2>2. t = <<r>>
    BY <1>1, <2>1 DEF Failed, Say
  <2>3. t \in Seq({r})
    BY <2>2
  <2>4. QED
    BY <2>3, ConcatEmptySeq
<1>2. ASSUME NEW e, NEW c, t = Opening(e, c)
      PROVE  <<>> \o t = t
  <2>1. PICK o, k, r : o = Open(0, e) /\ k = ClaimOrders /\ r = Say(TRUE)
    OBVIOUS
  <2>2. t = <<o, k, r>> \/ t = <<o, r>>
    BY <1>2, <2>1 DEF Opening
  <2>5. <<o, k, r>> \in Seq({o, k, r}) /\ <<o, r>> \in Seq({o, k, r})
    OBVIOUS
  <2>3. t \in Seq({o, k, r})
    BY <2>2, <2>5
  <2>4. QED
    BY <2>3, ConcatEmptySeq
<1>3. QED
  BY <1>1, <1>2

\* An account with its link to Google.
LEMMA GoogleRecord ==
  ASSUME NEW u, NEW pw, NEW google, NEW privileged, NEW verified, NEW n, NEW locked,
         u = [pw |-> pw, google |-> google, privileged |-> privileged,
              verified |-> verified, attempts |-> n, locked |-> locked],
         NEW yes, NEW v
  PROVE  [u EXCEPT !.google = yes, !.verified = v] =
           [pw |-> pw, google |-> yes, privileged |-> privileged,
            verified |-> v, attempts |-> n, locked |-> locked]
<1> DEFINE mid == [u EXCEPT !.google = yes]
<1>1. mid = [pw |-> pw, google |-> yes, privileged |-> privileged,
             verified |-> verified, attempts |-> n, locked |-> locked]
  OBVIOUS
<1>2. [u EXCEPT !.google = yes, !.verified = v] = [mid EXCEPT !.verified = v]
  OBVIOUS
<1> HIDE DEF mid
<1>3. QED
  BY <1>1, <1>2

\* What the link to Google writes.
LEMMA LinkedIs ==
  ASSUME DataInv, user # NoUser, ~user.google, NEW v \in BOOLEAN, user.verified => v,
         NEW to, to = [user EXCEPT !.google = TRUE, !.verified = v],
         NEW h, h = SaveUser(user, to, "google")
  PROVE  /\ h.do = "user" /\ h.fact = "google" /\ PatchInv(h.fact, h.set)
         /\ to.verified = v
         /\ v \/ (~user.verified /\ "verified" \notin DOMAIN h.set)
<1>1. PICK pw, google, privileged, verified, n, locked :
        user = [pw |-> pw, google |-> google, privileged |-> privileged,
                verified |-> verified, attempts |-> n, locked |-> locked]
  BY Account0
<1>2. verified \in BOOLEAN /\ user.verified = verified
  BY <1>1, Account0
<1>4. to = [pw |-> pw, google |-> TRUE, privileged |-> privileged,
            verified |-> v, attempts |-> n, locked |-> locked]
  BY <1>1, GoogleRecord
<1>5. /\ \A g \in DOMAIN user : user[g] # to[g] => g \in {"google", "verified"}
      /\ to.google = TRUE /\ to.verified = v
      /\ user.verified = verified /\ "verified" \in DOMAIN user
  BY <1>1, <1>4
<1>6. /\ h.do = "user" /\ h.fact = "google"
      /\ DOMAIN h.set = {g \in DOMAIN user : user[g] # to[g]}
      /\ \A g \in DOMAIN h.set : h.set[g] = to[g]
  <2>1. PICK u, w : u = user /\ w = to
    OBVIOUS
  <2>2. h = SaveUser(u, w, "google")
    BY <2>1
  <2> HIDE <2>1
  <2>3. /\ h.do = "user" /\ h.fact = "google"
        /\ DOMAIN h.set = {g \in DOMAIN u : u[g] # w[g]}
        /\ \A g \in DOMAIN h.set : h.set[g] = w[g]
    BY <2>2, SaveIs
  <2>4. QED
    BY <2>1, <2>3
<1>7. DOMAIN h.set \subseteq {"google", "verified"}
  BY <1>5, <1>6
<1>8. "google" \in DOMAIN h.set => h.set.google = TRUE
  BY <1>5, <1>6
<1>9. "verified" \in DOMAIN h.set => v # verified /\ h.set.verified = v
  BY <1>5, <1>6
<1>10. v # verified => v = TRUE
  BY <1>2
<1>11. "verified" \in DOMAIN h.set => h.set.verified = TRUE
  BY <1>9, <1>10
<1>12. PatchInv(h.fact, h.set)
  <2>1. Writable[h.fact] = {"google", "verified"} /\ h.fact \in DOMAIN Writable
    BY <1>6 DEF Writable
  <2>2. QED
    BY <1>7, <1>8, <1>11, <2>1 DEF PatchInv
<1>13. v \/ (~verified /\ v = verified)
  BY <1>2
<1>14. v \/ (~user.verified /\ "verified" \notin DOMAIN h.set)
  <2>1. CASE v
    BY <1>5, <2>1
  <2>2. CASE ~verified /\ v = verified
    BY <1>5, <1>9, <2>2
  <2>3. QED
    BY <1>13, <2>1, <2>2
<1>15. QED
  BY <1>5, <1>6, <1>12, <1>14

\* A save that links Google to an account that is verified afterwards, or is not
\* verified by it.
LinksGoogle(h, t) ==
    /\ h.do = "user" /\ h.fact = "google" /\ PatchInv(h.fact, h.set)
    /\ \E v \in BOOLEAN : /\ t = Opening(hist.epoch, v)
                          /\ v \/ (~user.verified /\ "verified" \notin DOMAIN h.set)

\* A login by Google that will save the account, and open a session.
LEMMA WillLink ==
  ASSUME IInv, NEW a \in Slot, Busy(a), Step(a).do \in {"login", "google"}, NEW todo,
         NEW h, NEW t, Head(todo) = h, Tail(todo) = t, LinksGoogle(h, t), user # NoUser,
         req' = [req EXCEPT ![a].todo = todo],
         UNCHANGED <<user, rows, links, orders, jar, access, hist>>
  PROVE  IInv'
<1>1. PICK e : e = hist.epoch
  OBVIOUS
<1>2. PICK v \in BOOLEAN : /\ t = Opening(e, v)
                           /\ v \/ (~user.verified /\ "verified" \notin DOMAIN h.set)
  BY <1>1 DEF LinksGoogle
<1>3. h.do = "user" /\ h.fact = "google" /\ PatchInv(h.fact, h.set)
  BY DEF LinksGoogle
<1>4. h.fact # "failure" /\ h.fact # "success"
  BY <1>3
<1>5. /\ h.fact = "google" /\ t = Opening(e, v)
      /\ v \/ (~user.verified /\ "verified" \notin DOMAIN h.set)
  BY <1>2, <1>3
<1>6. /\ h.do = "user" /\ user # NoUser /\ PatchInv(h.fact, h.set)
      /\ \/ h.fact \in {"failure", "google"} /\ t = Failed
         \/ h.fact = "success" /\ t = Opening(e, TRUE)
         \/ /\ h.fact = "google" /\ t = Opening(e, v)
            /\ v \/ (~user.verified /\ "verified" \notin DOMAIN h.set)
  BY <1>3, <1>5
<1>7. QED
  BY <1>1, <1>4, <1>6, WillIssue

\* A login by Google of an address that has an account.
LEMMA GoogleKnown ==
  ASSUME IInv, NEW a \in Slot, Busy(a), Step(a).do = "google", user # NoUser,
         NEW v \in BOOLEAN, user.verified => v, NEW linked,
         linked = [user EXCEPT !.google = TRUE, !.verified = v],
         NEW todo,
         todo = (IF user.google THEN <<>> ELSE <<SaveUser(user, linked, "google")>>)
                \o (IF user.privileged THEN Failed
                    ELSE Issue(IF user.google THEN user ELSE linked)),
         req' = [req EXCEPT ![a].todo = todo],
         UNCHANGED <<user, rows, links, orders, jar, access, hist>>
  PROVE  IInv'
<1>1. Step(a).do \in Reading /\ Step(a).do \in {"login", "google"}
  BY DEF Reading
<1>2. DataInv /\ user.verified \in BOOLEAN
  BY Account0 DEF IInv
<1>3. PICK e : e = hist.epoch
  OBVIOUS
<1>4. CASE user.google
  <2>1. todo = <<>> \o (IF user.privileged THEN Failed ELSE Issue(user))
    BY <1>4
  <2>2. PICK c \in BOOLEAN : c = user.verified
    BY <1>2
  <2>3. Issue(user) = Opening(e, c)
    <3>1. Issue(user) = Opening(hist.epoch, user.verified)
      BY <1>2, IssueIs
    <3>2. QED
      BY <1>3, <2>2, <3>1
  <2>4. CASE user.privileged
    <3>1. todo = Failed
      BY <2>1, <2>4, NothingBefore
    <3>2. QED
      BY <1>1, <3>1, AnswersAtOnce
  <2>5. CASE ~user.privileged
    <3>1. todo = Opening(e, c)
      BY <2>1, <2>3, <2>5, NothingBefore
    <3>2. PICK h : h = Open(0, e)
      OBVIOUS
    <3>3. Head(todo) = h /\ Tail(todo) = After(c)
      BY <3>1, <3>2, Lists
    <3>4. h.do = "open"
      BY <3>2 DEF Open
    <3>5. c \/ ~user.verified
      BY <2>2
    <3>6. QED
      BY <1>1, <1>3, <3>2, <3>3, <3>4, <3>5, WillIssue
  <2>6. QED
    BY <2>4, <2>5
<1>5. CASE ~user.google
  <2>1. PICK h : h = SaveUser(user, linked, "google")
    OBVIOUS
  <2>2. /\ h.do = "user" /\ h.fact = "google" /\ PatchInv(h.fact, h.set)
        /\ linked.verified = v
        /\ v \/ (~user.verified /\ "verified" \notin DOMAIN h.set)
    BY <1>2, <1>5, <2>1, LinkedIs
  <2>3. todo = <<h>> \o (IF user.privileged THEN Failed ELSE Issue(linked))
    BY <1>5, <2>1
  <2>4. Issue(linked) = Opening(e, v)
    <3>1. PICK u : u = linked
      OBVIOUS
    <3>4. u.verified = v /\ u.verified \in BOOLEAN
      BY <2>2, <3>1
    <3>2. Issue(u) = Opening(hist.epoch, u.verified)
      BY <3>4, IssueIs
    <3>3. QED
      BY <1>3, <3>1, <3>2, <3>4
  <2>5. CASE user.privileged
    <3>1. Head(todo) = h /\ Tail(todo) = Failed
      BY <2>3, <2>5, Before
    <3>5. PICK t : t = Failed
      OBVIOUS
    <3>3. PICK c \in BOOLEAN : c = v
      OBVIOUS
    <3>4. /\ h.do = "user" /\ user # NoUser /\ PatchInv(h.fact, h.set)
          /\ \/ h.fact \in {"failure", "google"} /\ t = Failed
             \/ h.fact = "success" /\ t = Opening(e, TRUE)
             \/ /\ h.fact = "google" /\ t = Opening(e, c)
                /\ c \/ (~user.verified /\ "verified" \notin DOMAIN h.set)
      BY <2>2, <3>5
    <3>2. QED
      BY <1>1, <1>3, <2>2, <3>1, <3>4, <3>5, WillIssue
  <2>6. CASE ~user.privileged
    <3>1. PICK t : t = Opening(e, v)
      OBVIOUS
    <3>2. Head(todo) = h /\ Tail(todo) = t
      BY <2>3, <2>4, <2>6, <3>1, Before
    <3>3. t = Opening(hist.epoch, v)
      BY <1>3, <3>1
    <3>4. LinksGoogle(h, t)
      BY <2>2, <3>3 DEF LinksGoogle
    <3>5. QED
      BY <1>1, <3>2, <3>4, WillLink
  <2>7. QED
    BY <2>5, <2>6
<1>6. QED
  BY <1>4, <1>5

\* googleLogin.
LEMMA GoogleStep ==
  ASSUME IInv, NEW a \in Slot, DoGoogle(a)
  PROVE  IInv'
<1>1. /\ Busy(a) /\ Step(a) = Todo(a) /\ Step(a).do = "google"
      /\ UNCHANGED <<user, rows, links, orders, jar, access, hist>>
  BY DEF DoGoogle, Next1, Step, Todo
<1>2. DataInv /\ RequestsInv
  BY DEF IInv
<1>3. PlanInv(req[a].op, req[a].row, Step(a), Left(a), user # NoUser, rows, Len(links))
  BY <1>1, <1>2, ShapeOf
<1>4. Todo(a).ok \in BOOLEAN
  BY <1>1, <1>3 DEF PlanInv
<1>5. PICK ok \in BOOLEAN : ok = Todo(a).ok
  BY <1>4
<1>6. CASE user = NoUser
  <2> DEFINE new == NewUser(NoPassword, TRUE, ok)
             first == [do |-> "newuser", is |-> new]
             todo == <<first>> \o Issue(new)
  <2>1. req' = [req EXCEPT ![a].todo = todo]
    BY <1>5, <1>6 DEF DoGoogle, Continue
  <2>2. new \in Fields /\ new.attempts = 0 /\ new.verified = ok
    BY SessionAssumption DEF NewUser, Fields
  <2>3. first.do = "newuser" /\ first.is = new
    OBVIOUS
  <2>4. PICK e : e = hist.epoch
    OBVIOUS
  <2> HIDE DEF new
  <2>5. Issue(new) = Opening(e, ok)
    <3>1. Issue(new) = Opening(hist.epoch, new.verified)
      BY <2>2, IssueIs
    <3>2. QED
      BY <2>2, <2>4, <3>1
  <2> HIDE DEF first
  <2>6. Head(todo) = first /\ Tail(todo) = Opening(e, ok)
    BY <2>5, Before
  <2> HIDE DEF todo
  <2>7. QED
    BY <1>1, <2>1, <2>2, <2>3, <2>4, <2>6, WillIssue
<1>7. CASE user # NoUser
  <2>1. user.verified \in BOOLEAN
    BY <1>2, <1>7, Account0
  <2>2. PICK v \in BOOLEAN : v = (user.verified \/ ok)
    BY <2>1
  <2>3. user.verified => v
    BY <2>2
  <2> DEFINE linked == [user EXCEPT !.google = TRUE, !.verified = v]
             todo == (IF user.google THEN <<>> ELSE <<SaveUser(user, linked, "google")>>)
                     \o (IF user.privileged THEN Failed
                         ELSE Issue(IF user.google THEN user ELSE linked))
  <2>4. req' = [req EXCEPT ![a].todo = todo]
    BY <1>5, <1>7, <2>2, Zenon DEF DoGoogle, Continue
  <2>5. QED
    <3> HIDE DEF linked
    <3>1. linked = [user EXCEPT !.google = TRUE, !.verified = v]
      BY DEF linked
    <3> HIDE DEF todo
    <3>2. todo = (IF user.google THEN <<>> ELSE <<SaveUser(user, linked, "google")>>)
                 \o (IF user.privileged THEN Failed
                     ELSE Issue(IF user.google THEN user ELSE linked))
      BY DEF todo
    <3>3. QED
      BY <1>1, <1>7, <2>3, <2>4, <3>1, <3>2, GoogleKnown
<1>8. QED
  BY <1>6, <1>7

-----------------------------------------------------------------------------
(* Links that are followed. *)

\* A request that will save the account, and use a link.
LEMMA WillFollow ==
  ASSUME IInv, NEW a \in Slot, Busy(a), NEW op \in {"verify", "reset"}, Step(a).do = op,
         NEW l, l = Step(a).link, Usable(l), NEW todo, NEW h,
         Head(todo) = h, Tail(todo) = Linking(l, op),
         h.do = "user", h.fact = op, PatchInv(h.fact, h.set),
         op = "reset" =>
           IF "attempts" \in DOMAIN h.set THEN h.set.attempts = 0 ELSE user.attempts = 0,
         req' = [req EXCEPT ![a].todo = todo],
         UNCHANGED <<user, rows, links, orders, jar, access, hist>>
  PROVE  IInv'
<1>1. DataInv /\ RequestsInv /\ LinksInv /\ ResetClaim(a)
  BY DEF IInv, Claims
<1>2. /\ PlanInv(req[a].op, req[a].row, Step(a), Left(a), user # NoUser, rows, Len(links))
      /\ AboutInv(req[a].op, req[a].about, Step(a), req[a].row, rows)
  BY <1>1, ShapeOf
<1>3. req[a].op = op /\ l \in 1..Len(links)
  BY <1>2 DEF PlanInv
<1>4. user # NoUser
  <2>1. links # <<>>
    BY <1>1, <1>3 DEF DataInv
  <2>2. QED
    BY <1>1, <2>1 DEF DataInv
<1>5. PICK t : t = Linking(l, op)
  OBVIOUS
<1>6. Head(t).link = l /\ Tail(todo) = t
  <2>1. Head(t) = UseLink(l)
    BY <1>5, Lists
  <2>2. UseLink(l).link = l
    BY DEF UseLink
  <2>3. QED
    BY <1>5, <2>1, <2>2
<1>7. PlanInv(req[a].op, 0, Head(todo), Tail(todo), user # NoUser, rows, Len(links))
  <2>1. Head(t).link \in 1..Len(links) /\ t = Linking(Head(t).link, op)
    BY <1>3, <1>5, <1>6
  <2>2. QED
    BY <1>3, <1>4, <1>6, <2>1 DEF PlanInv
<1>8. RowInv(req[a].op, 0, Head(todo), rows)
  BY <1>1, <1>3 DEF RowInv, DataInv
<1>9. AboutInv(req[a].op, req[a].about, Head(todo), 0, rows)
  BY <1>2, <1>3 DEF AboutInv
<1>10. /\ Step(a)' = h /\ Left(a)' = t
       /\ (Alone(a)' <=> Alone(a))
       /\ req'[a].op = op /\ req'[a].about = req[a].about
       /\ \A o \in req'[a].seen : orders'[o] # "none"
       /\ (/\ CountClaim(a)' /\ LinkClaim(a)' /\ OrderClaim(a)'
           /\ OpenClaim(a)' /\ AlarmClaim(a)' /\ ResetClaim(a)') => IInv'
  BY <1>3, <1>6, <1>7, <1>8, <1>9, ReadStep DEF Reading
<1>11. user' = user /\ hist' = hist /\ links' = links /\ rows' = rows
  OBVIOUS
<1>12. CountClaim(a)'
  BY <1>10, <1>11 DEF CountClaim
<1>13. LinkClaim(a)'
  <2>1. Pending(a)' = l
    BY <1>6, <1>10 DEF Pending
  <2>2. MailLinks \notin hist.raced => hist.uses[l] = 0
    BY <1>1, <1>3 DEF LinksInv
  <2>3. QED
    BY <1>10, <1>11, <2>1, <2>2 DEF LinkClaim
<1>14. OpenClaim(a)' /\ AlarmClaim(a)' /\ OrderClaim(a)'
  BY <1>10 DEF OpenClaim, Opens, Refreshes, AlarmClaim, OrderClaim
<1>15. ResetClaim(a)'
  <2>1. \A f : Old(f)' <=> Old(f)
    BY <1>11 DEF Old
  <2>2. QED
    BY <1>1, <1>3, <1>10, <1>11, <2>1 DEF ResetClaim, Opens, Refreshes
<1>16. QED
  BY <1>10, <1>12, <1>13, <1>14, <1>15

\* verifyEmail.
LEMMA VerifyStep ==
  ASSUME IInv, NEW a \in Slot, DoVerify(a)
  PROVE  IInv'
<1> DEFINE l == Todo(a).link
           h == SaveUser(user, [user EXCEPT !.verified = TRUE], "verify")
           list == <<h, UseLink(l), ClaimOrders>> \o Finish
           todo == IF Usable(l) THEN list ELSE Failed
<1>1. /\ Busy(a) /\ Step(a) = Todo(a) /\ Step(a).do = "verify"
      /\ req' = [req EXCEPT ![a].todo = todo]
      /\ UNCHANGED <<user, rows, links, orders, jar, access, hist>>
  BY DEF DoVerify, Next1, Continue, Step, Todo
<1>2. Step(a).do \in Reading
  BY <1>1 DEF Reading
<1>3. DataInv /\ RequestsInv
  BY DEF IInv
<1>4. CASE ~Usable(l)
  BY <1>1, <1>2, <1>4, AnswersAtOnce
<1>5. CASE Usable(l)
  <2>1. user # NoUser
    <3>1. PlanInv(req[a].op, req[a].row, Step(a), Left(a), user # NoUser, rows, Len(links))
      BY <1>1, <1>3, ShapeOf
    <3>2. l \in 1..Len(links)
      BY <1>1, <3>1 DEF PlanInv
    <3>3. links # <<>>
      BY <1>3, <3>2 DEF DataInv
    <3>4. QED
      BY <1>3, <3>3 DEF DataInv
  <2>2. h.do = "user" /\ h.fact = "verify" /\ PatchInv(h.fact, h.set)
    <3>1. PICK pw, google, privileged, verified, n, locked :
            user = [pw |-> pw, google |-> google, privileged |-> privileged,
                    verified |-> verified, attempts |-> n, locked |-> locked]
      BY <1>3, <2>1, Account0
    <3>2. PICK to : to = [user EXCEPT !.verified = TRUE]
      OBVIOUS
    <3>3. to = [pw |-> pw, google |-> google, privileged |-> privileged,
                verified |-> TRUE, attempts |-> n, locked |-> locked]
      BY <3>1, <3>2
    <3>4. /\ \A g \in DOMAIN user : user[g] # to[g] => g = "verified"
          /\ to.verified = TRUE
      BY <3>1, <3>3
    <3>5. /\ h.do = "user" /\ h.fact = "verify"
          /\ DOMAIN h.set = {g \in DOMAIN user : user[g] # to[g]}
          /\ \A g \in DOMAIN h.set : h.set[g] = to[g]
      BY <3>2, SaveIs
    <3>6. DOMAIN h.set \subseteq {"verified"}
      BY <3>4, <3>5
    <3>7. "verified" \in DOMAIN h.set => h.set.verified = TRUE
      BY <3>4, <3>5
    <3>8. Writable[h.fact] = {"verified"} /\ h.fact \in DOMAIN Writable
      BY <3>5 DEF Writable
    <3> HIDE DEF h
    <3>9. QED
      BY <3>5, <3>6, <3>7, <3>8 DEF PatchInv
  <2>3. Head(list) = h /\ Tail(list) = Linking(l, "verify")
    <3>1. PICK x, y, z, w : x = h /\ y = UseLink(l) /\ z = ClaimOrders /\ w = Say(TRUE)
      OBVIOUS
    <3>2. list = <<x, y, z>> \o <<w>>
      BY <3>1 DEF Finish, Say
    <3>3. <<x, y, z>> \o <<w>> = <<x, y, z, w>>
      BY Joins
    <3>4. Head(<<x, y, z, w>>) = x /\ Tail(<<x, y, z, w>>) = <<y, z, w>>
      BY FourTuple
    <3>5. Linking(l, "verify") = <<y, z, w>>
      BY <3>1 DEF Linking
    <3> HIDE DEF list, h
    <3>6. QED
      BY <3>1, <3>2, <3>3, <3>4, <3>5
  <2>4. req' = [req EXCEPT ![a].todo = list]
    BY <1>1, <1>5
  <2>5. l = Step(a).link
    BY <1>1
  <2>7. PICK op \in {"verify", "reset"} : op = "verify"
    OBVIOUS
  <2>8. /\ Busy(a) /\ Step(a).do = op /\ Head(list) = h /\ Tail(list) = Linking(l, op)
        /\ h.do = "user" /\ h.fact = op /\ PatchInv(h.fact, h.set) /\ op # "reset"
        /\ UNCHANGED <<user, rows, links, orders, jar, access, hist>>
    BY <1>1, <2>2, <2>3, <2>7
  <2> HIDE DEF list, h, l
  <2>6. QED
    BY <1>5, <2>4, <2>5, <2>8, WillFollow
<1>6. QED
  BY <1>4, <1>5

\* What a reset writes.
LEMMA PasswordIs ==
  ASSUME DataInv, user # NoUser, NEW pw \in Password, NEW h, h = SavePassword(pw)
  PROVE  /\ h.do = "user" /\ h.fact = "reset" /\ PatchInv(h.fact, h.set)
         /\ IF "attempts" \in DOMAIN h.set THEN h.set.attempts = 0 ELSE user.attempts = 0
<1> DEFINE plain == SaveUser(user, [user EXCEPT !.attempts = 0, !.locked = "no"], "reset")
           set == [f \in DOMAIN plain.set \cup {"pw"} |->
                     IF f = "pw" THEN pw ELSE plain.set[f]]
<1>1. PICK s : plain = [do |-> "user", fact |-> "reset", set |-> s]
  BY DEF SaveUser
<1>2. h = [plain EXCEPT !.set = set]
  BY DEF SavePassword
<1>3. /\ DOMAIN plain.set \subseteq {"attempts", "locked"}
      /\ IF "attempts" \in DOMAIN plain.set THEN plain.set.attempts = 0 ELSE user.attempts = 0
      /\ "locked" \in DOMAIN plain.set => plain.set.locked = "no"
  BY ClearIs
<1>4. plain.set = s
  BY <1>1
<1> HIDE DEF plain
<1>5. DOMAIN set = DOMAIN s \cup {"pw"} /\ set.pw = pw
  BY <1>4
<1>6. \A f \in DOMAIN s : f # "pw" => set[f] = s[f]
  BY <1>4
<1> HIDE DEF set
<1>7. h.do = "user" /\ h.fact = "reset" /\ h.set = set
  BY <1>1, <1>2
<1>8. DOMAIN set \subseteq {"attempts", "locked", "pw"}
  BY <1>3, <1>4, <1>5
<1>9. /\ "attempts" \in DOMAIN set => "attempts" \in DOMAIN s
      /\ "locked" \in DOMAIN set => "locked" \in DOMAIN s
  BY <1>5
<1>10. "attempts" \in DOMAIN set => set.attempts = 0
  BY <1>3, <1>4, <1>6, <1>9
<1>11. "locked" \in DOMAIN set => set.locked = "no"
  BY <1>3, <1>4, <1>6, <1>9
<1>12. "attempts" \notin DOMAIN set => user.attempts = 0
  BY <1>3, <1>4, <1>5
<1>13. PatchInv(h.fact, h.set)
  <2>1. /\ Writable[h.fact] = {"attempts", "locked", "pw"}
        /\ h.fact \in DOMAIN Writable
    BY <1>7 DEF Writable
  <2>2. 0 \in 0..MaxAttempts - 1
    BY SessionAssumption
  <2>3. "google" \notin DOMAIN set /\ "verified" \notin DOMAIN set
    BY <1>8
  <2>4. QED
    BY <1>5, <1>7, <1>8, <1>10, <1>11, <2>1, <2>2, <2>3 DEF PatchInv
<1>14. QED
  BY <1>7, <1>10, <1>12, <1>13

\* resetPassword.
LEMMA ResetStep ==
  ASSUME IInv, NEW a \in Slot, DoReset(a)
  PROVE  IInv'
<1> DEFINE l == Todo(a).link
           h == SavePassword(Todo(a).pw)
           list == ResetSteps(l, Todo(a).pw) \o Finish
           todo == IF Usable(l) THEN list ELSE Failed
<1>1. /\ Busy(a) /\ Step(a) = Todo(a) /\ Step(a).do = "reset"
      /\ req' = [req EXCEPT ![a].todo = todo]
      /\ UNCHANGED <<user, rows, links, orders, jar, access, hist>>
  BY DEF DoReset, Next1, Continue, Step, Todo
<1>2. Step(a).do \in Reading
  BY <1>1 DEF Reading
<1>3. DataInv /\ RequestsInv
  BY DEF IInv
<1>4. CASE ~Usable(l)
  BY <1>1, <1>2, <1>4, AnswersAtOnce
<1>5. CASE Usable(l)
  <2>1. user # NoUser /\ Todo(a).pw \in Password
    <3>1. PlanInv(req[a].op, req[a].row, Step(a), Left(a), user # NoUser, rows, Len(links))
      BY <1>1, <1>3, ShapeOf
    <3>2. l \in 1..Len(links) /\ Todo(a).pw \in Password
      BY <1>1, <3>1 DEF PlanInv
    <3>3. links # <<>>
      BY <1>3, <3>2 DEF DataInv
    <3>4. QED
      BY <1>3, <3>2, <3>3 DEF DataInv
  <2>2. /\ h.do = "user" /\ h.fact = "reset" /\ PatchInv(h.fact, h.set)
        /\ IF "attempts" \in DOMAIN h.set THEN h.set.attempts = 0 ELSE user.attempts = 0
    BY <1>3, <2>1, PasswordIs
  <2>3. Head(list) = h /\ Tail(list) = Linking(l, "reset")
    <3>1. PICK x, y, z, w : x = h /\ y = UseLink(l) /\ z = [do |-> "revokeall"] /\ w = Say(TRUE)
      OBVIOUS
    <3>2. list = <<x, y, z>> \o <<w>>
      BY <3>1 DEF Finish, Say, ResetSteps
    <3>3. <<x, y, z>> \o <<w>> = <<x, y, z, w>>
      BY Joins
    <3>4. Head(<<x, y, z, w>>) = x /\ Tail(<<x, y, z, w>>) = <<y, z, w>>
      BY FourTuple
    <3>5. Linking(l, "reset") = <<y, z, w>>
      BY <3>1 DEF Linking
    <3> HIDE DEF list, h
    <3>6. QED
      BY <3>1, <3>2, <3>3, <3>4, <3>5
  <2>4. req' = [req EXCEPT ![a].todo = list]
    BY <1>1, <1>5
  <2>5. l = Step(a).link
    BY <1>1
  <2>7. PICK op \in {"verify", "reset"} : op = "reset"
    OBVIOUS
  <2>8. /\ Busy(a) /\ Step(a).do = op /\ Head(list) = h /\ Tail(list) = Linking(l, op)
        /\ h.do = "user" /\ h.fact = op /\ PatchInv(h.fact, h.set)
        /\ IF "attempts" \in DOMAIN h.set THEN h.set.attempts = 0 ELSE user.attempts = 0
        /\ UNCHANGED <<user, rows, links, orders, jar, access, hist>>
    BY <1>1, <2>2, <2>3, <2>7
  <2> HIDE DEF list, h, l
  <2>6. QED
    BY <1>5, <2>4, <2>5, <2>8, WillFollow
<1>6. QED
  BY <1>4, <1>5

-----------------------------------------------------------------------------
(* Refreshes. *)

\* A refresh that found its row used up.
LEMMA WillAlarm ==
  ASSUME IInv, NEW a \in Slot, Busy(a), Step(a).do = "refresh",
         NEW s, s = Step(a).row, s # 0, NEW todo, NEW h,
         h = [do |-> "reuse", row |-> s], Head(todo) = h, Tail(todo) = Failed,
         req' = [req EXCEPT ![a].todo = todo],
         UNCHANGED <<user, rows, links, orders, jar, access, hist>>
  PROVE  IInv'
<1>1. DataInv /\ RequestsInv /\ AlarmClaim(a)
  BY DEF IInv, Claims
<1>2. /\ PlanInv(req[a].op, req[a].row, Step(a), Left(a), user # NoUser, rows, Len(links))
      /\ AboutInv(req[a].op, req[a].about, Step(a), req[a].row, rows)
  BY <1>1, ShapeOf
<1>3. req[a].op = "refresh" /\ s \in 1..Len(rows)
  <2>1. req[a].op = "refresh" /\ s \in 0..Len(rows)
    BY <1>2 DEF PlanInv
  <2>2. QED
    BY <1>1, <2>1 DEF DataInv
<1>4. h.do = "reuse" /\ h.row = s
  OBVIOUS
<1>5. PlanInv(req[a].op, 0, h, Failed, user # NoUser, rows, Len(links))
  BY <1>3, <1>4 DEF PlanInv
<1>6. RowInv(req[a].op, 0, h, rows)
  BY <1>1, <1>4 DEF RowInv, DataInv
<1>7. AboutInv(req[a].op, req[a].about, h, 0, rows)
  <2>1. req[a].about = {rows[s].family} /\ req[a].about \subseteq 1..Len(rows)
    BY <1>2, <1>3 DEF AboutInv
  <2>2. QED
    BY <1>3, <1>4, <2>1 DEF AboutInv
<1>8. /\ Step(a)' = h
      /\ req'[a].op = "refresh"
      /\ \A o \in req'[a].seen : orders'[o] # "none"
      /\ (/\ CountClaim(a)' /\ LinkClaim(a)' /\ OrderClaim(a)'
          /\ OpenClaim(a)' /\ AlarmClaim(a)' /\ ResetClaim(a)') => IInv'
  BY <1>3, <1>5, <1>6, <1>7, ReadStep DEF Reading
<1>9. /\ CountClaim(a)' /\ LinkClaim(a)' /\ OrderClaim(a)' /\ OpenClaim(a)'
      /\ ResetClaim(a)'
  BY <1>4, <1>8 DEF CountClaim, LinkClaim, WillUse, OrderClaim, OpenClaim, Opens, ResetClaim
<1>10. AlarmClaim(a)'
  <2>1. Replaced(s) => rows[s].family \in hist.shared
    BY <1>1, <1>3 DEF AlarmClaim, Refreshes
  <2>2. Replaced(s)' <=> Replaced(s)
    BY DEF Replaced
  <2>3. Step(a)'.row = s
    BY <1>4, <1>8
  <2>4. Replaced(Step(a).row)' => Replaced(s)'
    BY <2>3 DEF Replaced
  <2>5. QED
    BY <2>1, <2>2, <2>3, <2>4 DEF AlarmClaim
<1>11. QED
  BY <1>8, <1>9, <1>10

\* A refresh that will replace its row by a new one.
LEMMA WillReplace ==
  ASSUME IInv, NEW a \in Slot, Busy(a), Step(a).do = "refresh",
         NEW s, s = Step(a).row, s # 0, Live(s), NEW f, f = rows[s].family, NEW todo,
         Head(todo) = Open(f, rows[s].epoch), Tail(todo) = Replacing(s),
         req' = [req EXCEPT ![a].todo = todo],
         UNCHANGED <<user, rows, links, orders, jar, access, hist>>
  PROVE  IInv'
<1>1. /\ DataInv /\ RequestsInv /\ FamiliesInv /\ TokenInv /\ Rivalry /\ ResetInv
      /\ \A b \in Slot : ResetClaim(b)
  BY DEF IInv, Claims
<1>2. /\ PlanInv(req[a].op, req[a].row, Step(a), Left(a), user # NoUser, rows, Len(links))
      /\ AboutInv(req[a].op, req[a].about, Step(a), req[a].row, rows)
  BY <1>1, ShapeOf
<1>3. req[a].op = "refresh" /\ s \in 1..Len(rows)
  <2>1. req[a].op = "refresh" /\ s \in 0..Len(rows)
    BY <1>2 DEF PlanInv
  <2>2. QED
    BY <1>1, <2>1 DEF DataInv
<1>4. req[a].about = {f} /\ req[a].about \subseteq 1..Len(rows)
  BY <1>2, <1>3 DEF AboutInv
<1>5. f \in 1..Len(rows) /\ rows[f].family = f /\ s \in LiveRows(f)
  BY <1>1, <1>3, <1>4 DEF FamiliesInv, LiveRows, RowsOf
<1>6. PICK h, t : h = Open(f, rows[s].epoch) /\ t = Replacing(s)
  OBVIOUS
<1>7. h.do = "open" /\ h.family = f /\ h.epoch = rows[s].epoch
  BY <1>6 DEF Open
<1>8. Head(t).row = s
  <2>1. Head(t) = [do |-> "rotated", row |-> s]
    BY <1>6, Lists
  <2>2. QED
    BY <2>1
<1>9. PlanInv(req[a].op, 0, h, t, user # NoUser, rows, Len(links))
  BY <1>3, <1>6, <1>7, <1>8 DEF PlanInv
<1>10. RowInv(req[a].op, 0, h, rows)
  BY <1>1, <1>7 DEF RowInv, DataInv
<1>11. AboutInv(req[a].op, req[a].about, h, 0, rows)
  BY <1>3, <1>4, <1>7 DEF AboutInv
<1>12. /\ Step(a)' = h /\ Left(a)' = t /\ (Alone(a)' <=> Alone(a))
       /\ req'[a].op = "refresh"
       /\ \A o \in req'[a].seen : orders'[o] # "none"
       /\ (/\ CountClaim(a)' /\ LinkClaim(a)' /\ OrderClaim(a)'
           /\ OpenClaim(a)' /\ AlarmClaim(a)' /\ ResetClaim(a)') => IInv'
  BY <1>3, <1>6, <1>9, <1>10, <1>11, ReadStep DEF Reading
<1>13. CountClaim(a)' /\ LinkClaim(a)' /\ OrderClaim(a)' /\ AlarmClaim(a)'
  BY <1>7, <1>12 DEF CountClaim, LinkClaim, WillUse, OrderClaim, AlarmClaim
<1>14. rows' = rows /\ hist' = hist
  OBVIOUS
<1>15. OpenClaim(a)'
  <2>1. ASSUME Alone(a), f \notin hist.raced
        PROVE  LiveRows(f) \subseteq {s} /\ f \notin hist.over
    <3>1. ASSUME NEW r \in LiveRows(f), r # s
          PROVE  FALSE
      <4>6. f \in 1..Len(rows) \ hist.raced /\ s \in LiveRows(f) /\ r \in LiveRows(f)
        BY <1>5, <2>1
      <4>7. \A x, y \in LiveRows(f) :
              x # y => \E c \in Slot : Replaces(c) /\ {x, y} = {Step(c).row, req[c].row}
        BY <1>1, <4>6 DEF TokenInv
      <4>1. PICK c \in Slot : Replaces(c) /\ {s, r} = {Step(c).row, req[c].row}
        BY <3>1, <4>6, <4>7
      <4>2. c # a /\ Busy(c)
        BY <4>1 DEF Replaces, Refreshes
      <4>3. AboutInv(req[c].op, req[c].about, Step(c), req[c].row, rows)
        BY <1>1, <4>2, ShapeOf
      <4>4. f \in req[c].about
        <5>1. Step(c).row \in 1..Len(rows) /\ rows[Step(c).row].family = f
          BY <1>3, <3>1, <4>1 DEF LiveRows, RowsOf
        <5>2. Step(c).row # 0
          BY <1>1, <5>1 DEF DataInv
        <5>3. QED
          BY <4>1, <4>3, <5>1, <5>2 DEF AboutInv, Replaces, Refreshes
      <4>5. QED
        BY <1>1, <1>4, <2>1, <4>2, <4>4 DEF Rivalry, Alone
    <3>2. QED
      BY <1>1, <1>5, <2>1, <3>1 DEF TokenInv
  <2>2. LiveRows(f)' = LiveRows(f)
    BY <1>14, SameRows
  <2>3. ASSUME Alone(a)', Step(a)'.family \notin hist'.raced
        PROVE  LiveRows(Step(a).family)' \subseteq {Head(Left(a)').row}
               /\ Step(a)'.family \notin hist'.over
    <3>1. Step(a)'.family = f /\ Head(Left(a)').row = s
      BY <1>7, <1>8, <1>12
    <3>2. Alone(a) /\ f \notin hist.raced
      BY <1>12, <1>14, <2>3, <3>1
    <3>3. LiveRows(Step(a).family)' = LiveRows(f)
      BY <1>14, <3>1 DEF LiveRows, RowsOf, Live
    <3>4. QED
      BY <1>14, <2>1, <3>1, <3>2, <3>3
  <2>4. QED
    BY <2>3 DEF OpenClaim
<1>16. ResetClaim(a)'
  <2>1. ASSUME Account \notin hist.raced, f \notin hist.raced, Old(f)
        PROVE  a \in hist.crossed
    <3>1. PICK c \in Slot : EndsAll(c)
      BY <1>1, <1>5, <2>1 DEF ResetInv
    <3>2. Busy(c) /\ req[c].op = "reset" /\ c # a
      BY <1>3, <3>1 DEF EndsAll
    <3>3. f \in req[c].about
      BY <1>1, <1>5, <2>1, <3>2 DEF ResetClaim
    <3>4. QED
      BY <1>1, <1>4, <3>2, <3>3 DEF Rivalry
  <2>2. ASSUME Account \notin hist'.raced, Opens(a)', Step(a)'.family \notin hist'.raced,
               Old(Step(a).family)'
        PROVE  a \in hist'.crossed
    <3>1. Step(a)'.family = f
      BY <1>7, <1>12
    <3>2. Old(f)
      BY <1>14, <2>2, <3>1 DEF Old
    <3>3. QED
      BY <1>14, <2>1, <2>2, <3>1, <3>2
  <2>3. QED
    BY <1>12, <2>2 DEF ResetClaim
<1>17. QED
  BY <1>12, <1>13, <1>15, <1>16

\* rotateRefreshToken.
LEMMA RefreshStep ==
  ASSUME IInv, NEW a \in Slot, DoRefresh(a) \/ RefreshPurged(a)
  PROVE  IInv'
<1>1. CASE RefreshPurged(a)
  <2>1. /\ Busy(a) /\ Step(a).do \in Reading /\ req' = [req EXCEPT ![a].todo = Failed]
        /\ UNCHANGED <<user, rows, links, orders, jar, access, hist>>
    BY <1>1 DEF RefreshPurged, Next1, Continue, Step, Reading
  <2>2. QED
    BY <2>1, AnswersAtOnce
<1>2. CASE DoRefresh(a)
  <2> DEFINE s == Todo(a).row
             f == rows[s].family
             o == Open(f, rows[s].epoch)
             h == [do |-> "reuse", row |-> s]
             todo == IF s = 0 THEN Failed
                     ELSE IF rows[s].why # "" THEN <<h>> \o Failed
                     ELSE IF rows[s].expired THEN Failed
                     ELSE Rotate(s) \o Finish
  <2>1. /\ Busy(a) /\ Step(a) = Todo(a) /\ Step(a).do = "refresh"
        /\ req' = [req EXCEPT ![a].todo = todo]
        /\ UNCHANGED <<user, rows, links, orders, jar, access, hist>>
    BY <1>2 DEF DoRefresh, Next1, Continue, Step, Todo
  <2>2. Step(a).do \in Reading
    BY <2>1 DEF Reading
  <2>3. \/ todo = Failed
        \/ s # 0 /\ todo = <<h>> \o Failed
        \/ s # 0 /\ Live(s) /\ todo = Rotate(s) \o Finish
    BY DEF Live
  <2>4. s = Step(a).row
    BY <2>1
  <2> HIDE DEF s, todo
  <2>5. CASE todo = Failed
    BY <2>1, <2>2, <2>5, AnswersAtOnce
  <2>6. CASE s # 0 /\ todo = <<h>> \o Failed
    <3>1. Head(todo) = h /\ Tail(todo) = Failed
      BY <2>6, Before
    <3>2. QED
      BY <2>1, <2>4, <2>6, <3>1, WillAlarm
  <2>7. CASE s # 0 /\ Live(s) /\ todo = Rotate(s) \o Finish
    <3>1. PICK x, y, z : x = o /\ y = [do |-> "rotated", row |-> s] /\ z = Say(TRUE)
      OBVIOUS
    <3>2. todo = <<x, y>> \o <<z>>
      BY <2>7, <3>1 DEF Rotate, Finish, Say
    <3>3. todo = <<x, y, z>>
      BY <3>2, Joins
    <3>4. Head(todo) = x /\ Tail(todo) = <<y, z>>
      BY <3>3, Tuples
    <3>5. Replacing(s) = <<y, z>>
      BY <3>1 DEF Replacing
    <3>6. Head(todo) = Open(f, rows[s].epoch) /\ Tail(todo) = Replacing(s)
      BY <3>1, <3>4, <3>5
    <3>7. QED
      BY <2>1, <2>4, <2>7, <3>6, WillReplace
  <2>8. QED
    BY <2>3, <2>5, <2>6, <2>7
<1>3. QED
  BY <1>1, <1>2

\* What a handler decides from what it reads keeps the invariant.
LEMMA ReadsStep ==
  ASSUME IInv, NEW a \in Slot, Reads(a)
  PROVE  IInv'
BY RegisterStep, LoginStep, GoogleStep, VerifyStep, ResendStep, ResetStep, RefreshStep DEF Reads

-----------------------------------------------------------------------------
(* Requests that begin. *)

Asking == {"register", "login", "google", "verify", "reset", "resend", "forgot", "refresh",
           "logout"}

\* A request that begins knows nothing, and is on record with those it overlaps.
LEMMA Beginning ==
  ASSUME IInv, NEW a \in Slot, NEW t \in Tab, NEW op, NEW about, NEW first, NEW shared,
         Begin(a, t, op, about, first, shared),
         first.do \in Asking, shared \subseteq Int,
         op \in {"register", "login", "verify", "reset", "mail", "refresh", "logout"},
         PlanInv(op, 0, first, <<>>, user # NoUser, rows, Len(links)),
         AboutInv(op, about, first, 0, rows),
         op = "reset" => 1..Len(rows) \subseteq about,
         op = "refresh" =>
           /\ first.do = "refresh" /\ first.row = Cookie(t)
           /\ \A c \in Slot \ {a} : Refreshes(c) =>
                req[c].about \cap about \subseteq hist.shared \cup shared
  PROVE  IInv'
<1>1. /\ DataInv /\ FamiliesInv /\ RequestsInv /\ Rivalry
      /\ CountInv /\ LinksInv /\ OrdersFollowLogin /\ NoFalseAlarm
      /\ TokenInv /\ HomeInv /\ JarInv /\ SharedInv /\ ResetInv
      /\ \A b \in Slot : Claims(b)
  BY DEF IInv
<1> DEFINE seen == IF op = "login" THEN Guests ELSE {}
           q == [op |-> op, tab |-> t, about |-> about, row |-> 0,
                 seen |-> seen, todo |-> <<first>>]
           crossed == Joined(hist.crossed, a, Rivals(a, about))
<1>2. /\ ~Busy(a)
      /\ req' = [req EXCEPT ![a] = q]
      /\ hist' = [hist EXCEPT !.crossed = crossed, !.shared = hist.shared \cup shared]
      /\ user' = user /\ rows' = rows /\ links' = links /\ orders' = orders
      /\ jar' = jar /\ access' = access
  BY DEF Begin
<1>3. seen \subseteq Order /\ (op # "login" => seen = {}) /\ \A o \in seen : orders[o] # "none"
  BY DEF Guests
<1> HIDE DEF seen
<1>4. /\ q.op = op /\ q.tab = t /\ q.about = about /\ q.row = 0 /\ q.seen = seen
      /\ q.todo = <<first>> /\ q # Idle
  BY DEF Idle
<1>5. Head(q.todo) = first /\ Tail(q.todo) = <<>>
  BY <1>4, Tuples
<1>6. RequestInv(q, user # NoUser, rows, Len(links))
  <2>1. RowInv(op, 0, first, rows)
    BY <1>1 DEF RowInv, DataInv, Asking
  <2>2. QED
    BY <1>3, <1>4, <1>5, <2>1 DEF RequestInv
<1> HIDE DEF q
<1>7. /\ req'[a] = q /\ req' = [b \in Slot |-> req'[b]]
      /\ \A b \in Slot \ {a} : req'[b] = req[b]
  BY <1>1, <1>2 DEF RequestsInv
<1>8. /\ hist'.crossed = crossed /\ hist'.raced = hist.raced
      /\ hist'.shared = hist.shared \cup shared
      /\ hist'.epoch = hist.epoch /\ hist'.failures = hist.failures
      /\ hist'.uses = hist.uses /\ hist'.over = hist.over
      /\ hist'.alarms = hist.alarms /\ hist'.claimed = hist.claimed
  BY <1>1, <1>2 DEF DataInv
<1>9. /\ \A b \in Slot \ {a} : b \in hist.crossed => b \in crossed
      /\ crossed \subseteq Slot
      /\ Rivals(a, about) # {} => a \in crossed /\ Rivals(a, about) \subseteq crossed
  BY <1>1 DEF Joined, Rivals, DataInv
<1> HIDE DEF crossed
<1>10. StepOf(a)
  BY <1>7, <1>8, <1>9 DEF StepOf, Stays
<1>11. DataInv'
  <2>1. hist' \in [epoch : Nat, crossed : SUBSET Slot, raced : SUBSET Int,
                   shared : SUBSET Int, failures : Nat, uses : Seq(Nat), over : SUBSET Int,
                   alarms : SUBSET Int, claimed : SUBSET Order]
    BY <1>1, <1>2, <1>9 DEF DataInv
  <2>2. QED
    BY <1>1, <1>2, <1>8, <2>1 DEF DataInv
<1>12. FamiliesInv' /\ CountInv' /\ LinksInv' /\ OrdersFollowLogin' /\ NoFalseAlarm'
  BY <1>1, <1>2, <1>8 DEF FamiliesInv, CountInv, LinksInv, OrdersFollowLogin, NoFalseAlarm,
                          Usable
<1>13. Len(rows) <= Len(rows') /\ Len(links) <= Len(links') /\ Len(rows) \in Nat
  BY <1>1, <1>2 DEF DataInv
<1>14. RequestsInv'
  <2>1. RequestInv(req'[a], user' # NoUser, rows', Len(links'))
    BY <1>2, <1>6, <1>7
  <2>2. QED
    BY <1>1, <1>2, <1>10, <1>11, <1>13, <2>1, RequestsKept
<1>15. /\ Busy(a)' /\ Step(a)' = first /\ req'[a].row = 0 /\ req'[a].op = op
       /\ req'[a].about = about /\ req'[a].seen = seen /\ req'[a].tab = t
  BY <1>4, <1>5, <1>7 DEF Busy, Step
<1>16. ASSUME NEW b \in Slot, b # a
       PROVE  /\ Stays(b) /\ req'[b] = req[b] /\ Step(b)' = Step(b)
              /\ Busy(b)' <=> Busy(b)
              /\ Refreshes(b)' <=> Refreshes(b)
              /\ Replaces(b)' <=> Replaces(b)
              /\ EndsAll(b)' <=> EndsAll(b)
  BY <1>10, <1>16, Others DEF StepOf
<1>17. ~Refreshes(a) /\ ~Replaces(a) /\ ~EndsAll(a)
  BY <1>2 DEF Refreshes, Replaces, EndsAll
<1>18. Rivalry'
  <2>1. SUFFICES ASSUME NEW b \in Slot, NEW c \in Slot, b # c, Busy(b)', Busy(c)',
                        (req[b].about)' \cap (req[c].about)' # {}
                 PROVE  b \in hist'.crossed
    BY DEF Rivalry
  <2>2. CASE b # a /\ c # a
    <3>1. b \in hist.crossed
      BY <1>1, <1>16, <2>1, <2>2 DEF Rivalry
    <3>2. QED
      BY <1>8, <1>9, <2>2, <3>1
  <2>3. CASE b = a
    <3>1. c \in Rivals(a, about)
      BY <1>15, <1>16, <2>1, <2>3 DEF Rivals
    <3>2. QED
      BY <1>8, <1>9, <2>3, <3>1
  <2>4. CASE c = a
    <3>1. b \in Rivals(a, about)
      BY <1>15, <1>16, <2>1, <2>4 DEF Rivals
    <3>2. QED
      BY <1>8, <1>9, <3>1
  <2>5. QED
    BY <2>2, <2>3, <2>4
<1>19. /\ \A f : LiveRows(f)' = LiveRows(f) /\ RowsOf(f)' = RowsOf(f)
                 /\ (Replaced(f)' <=> Replaced(f))
       /\ \A f : Old(f)' <=> Old(f)
  BY <1>2, <1>8, SameRows DEF Old
<1>20. TokenInv'
  BY <1>1, <1>2, <1>8, <1>16, <1>17, <1>19, TokenKept
<1>21. op = "refresh" =>
         about = IF Cookie(t) = 0 THEN {} ELSE {rows[Cookie(t)].family}
  BY DEF AboutInv
<1>22. HomeInv'
  <2>1. ASSUME NEW f \in 1..Len(rows), NEW b \in Browser, Holds(f, b)'
        PROVE  Holds(f, b)
    <3>1. CASE jar'[b].cookie # 0 /\ rows'[jar'[b].cookie].family = f
      BY <1>2, <3>1 DEF Holds
    <3>2. ASSUME NEW c \in Slot, Busy(c)', BrowserOf[req'[c].tab] = b,
                 \/ req'[c].op = "refresh" /\ f \in req'[c].about
                 \/ req'[c].row # 0 /\ rows'[req'[c].row].family = f
          PROVE  Holds(f, b)
      <4>1. CASE c # a
        BY <1>2, <1>16, <3>2, <4>1 DEF Holds
      <4>2. CASE c = a
        <5>1. op = "refresh" /\ f \in about /\ b = BrowserOf[t]
          BY <1>15, <3>2, <4>2
        <5>2. Cookie(t) # 0 /\ f = rows[Cookie(t)].family
          BY <1>21, <5>1
        <5>3. QED
          BY <5>1, <5>2 DEF Holds, Cookie
      <4>3. QED
        BY <4>1, <4>2
    <3>3. QED
      BY <2>1, <3>1, <3>2 DEF Holds
  <2>2. QED
    BY <1>1, <1>2, <2>1, HomeKept
<1>23. JarInv'
  BY <1>1, <1>2, <1>8, <1>16, <1>17, <1>19, JarKept
<1>24. SharedInv'
  <2>1. SUFFICES ASSUME NEW b \in Slot, NEW c \in Slot, Refreshes(b)', Refreshes(c)', b # c
                 PROVE  req'[b].about \cap req'[c].about \subseteq hist'.shared
    BY DEF SharedInv
  <2>2. CASE b # a /\ c # a
    BY <1>1, <1>8, <1>16, <2>1, <2>2 DEF SharedInv
  <2>3. CASE b = a
    <3>1. op = "refresh" /\ Refreshes(c)
      BY <1>15, <1>16, <2>1, <2>3 DEF Refreshes
    <3>2. QED
      BY <1>8, <1>15, <1>16, <2>1, <2>3, <3>1
  <2>4. CASE c = a
    <3>1. op = "refresh" /\ Refreshes(b)
      BY <1>15, <1>16, <2>1, <2>4 DEF Refreshes
    <3>2. QED
      BY <1>8, <1>15, <1>16, <2>1, <2>4, <3>1
  <2>5. QED
    BY <2>2, <2>3, <2>4
<1>25. ResetInv'
  BY <1>1, <1>2, <1>8, <1>16, <1>17, <1>19, ResetInvKept
<1>26. ASSUME NEW b \in Slot, b # a
       PROVE  Claims(b)'
  <2>1. Claims(b) /\ Stays(b) /\ Step(b)' = Step(b) /\ hist.shared \subseteq hist'.shared
    BY <1>1, <1>8, <1>16, <1>26
  <2>2. CountClaim(b)'
    BY <1>1, <1>2, <2>1, CountKept DEF Claims
  <2>3. LinkClaim(b)'
    <3>1. \A l \in 1..Len(links') : Usable(l)' <=> Usable(l)
      BY <1>2 DEF Usable
    <3>2. QED
      BY <1>1, <1>2, <1>8, <2>1, <3>1, LinkKept DEF Claims
  <2>4. OrderClaim(b)'
    BY <1>1, <1>2, <2>1, OrderKept DEF Claims
  <2>5. OpenClaim(b)'
    BY <1>1, <1>2, <1>8, <1>19, <2>1, OpenKept DEF Claims, LiveRows, RowsOf, Live
  <2>6. NewRowClaim(b)'
    <3>1. PICK r : r = req[b].row
      OBVIOUS
    <3>2. NewRowClaim(b)
      BY <2>1 DEF Claims
    <3>3. \A c \in Browser : jar'[c].cookie = r /\ r # 0 => jar[c].cookie = r
      BY <1>2
    <3>4. \A c \in Slot \ {b} : Busy(c)' /\ req'[c].row = r /\ r # 0 =>
                                  Busy(c) /\ req[c].row = r
      BY <1>15, <1>16
    <3>5. r \in 1..Len(rows) => rows'[r].family = rows[r].family
      BY <1>2
    <3>6. ASSUME req[b].op = "login", r # 0
          PROVE  /\ Replaced(r)' => Replaced(r)
                 /\ RowsOf(r)' \subseteq RowsOf(r)
                 /\ Len(rows) <= Len(rows')
                 /\ \A c \in Slot : Refreshes(c)' /\ r \in req'[c].about =>
                                       Refreshes(c) /\ r \in req[c].about
      <4>1. ASSUME Refreshes(a)', r \in about
            PROVE  FALSE
        <5>1. op = "refresh"
          BY <1>15, <4>1 DEF Refreshes
        <5>2. Cookie(t) # 0 /\ r = rows[Cookie(t)].family
          BY <1>21, <4>1, <5>1
        <5>3. Busy(b)
          <6>1. Busy(b) \/ req[b] = Idle
            BY DEF Busy
          <6>2. req[b] = Idle => req[b].op = "idle"
            BY DEF Idle
          <6>3. QED
            BY <3>6, <6>1, <6>2
        <5>4. /\ \A c \in Browser : jar[c].cookie # r
              /\ RowsOf(r) = {r}
          BY <3>1, <3>2, <3>6, <5>3 DEF NewRowClaim
        <5>5. BrowserOf[t] \in Browser
          BY SessionAssumption
        <5>6. Cookie(t) \in 1..Len(rows)
          BY <1>1, <1>13, <5>2, <5>5 DEF DataInv, Cookie
        <5>7. Cookie(t) \in RowsOf(r)
          BY <5>2, <5>6 DEF RowsOf
        <5>8. QED
          BY <5>4, <5>5, <5>7 DEF Cookie
      <4>2. \A c \in Slot : Refreshes(c)' /\ r \in req'[c].about =>
                               Refreshes(c) /\ r \in req[c].about
        BY <1>15, <1>16, <4>1
      <4>3. QED
        BY <1>13, <1>19, <4>2
    <3>7. req[b].op = "refresh" /\ r # 0 =>
            (Replaced(r)' => Replaced(r) \/ rows[r].family \in hist'.shared)
      BY <1>19
    <3>8. QED
      BY <1>1, <2>1, <3>1, <3>2, <3>3, <3>4, <3>5, <3>6, <3>7, NewRowKept
  <2>7. AlarmClaim(b)'
    <3>1. PICK s : s = Step(b).row
      OBVIOUS
    <3>2. QED
      BY <1>1, <1>2, <1>19, <2>1, <3>1, AlarmKept DEF Claims
  <2>8. ResetClaim(b)'
    BY <1>1, <1>2, <1>8, <1>13, <2>1, ResetKept DEF Claims
  <2>9. QED
    BY <2>2, <2>3, <2>4, <2>5, <2>6, <2>7, <2>8 DEF Claims
<1>27. Claims(a)'
  <2>1. CountClaim(a)' /\ LinkClaim(a)' /\ OpenClaim(a)' /\ NewRowClaim(a)'
    BY <1>15 DEF CountClaim, LinkClaim, WillUse, OpenClaim, Opens, NewRowClaim, Asking
  <2>2. OrderClaim(a)'
    BY <1>2, <1>3, <1>15 DEF OrderClaim, Asking
  <2>3. AlarmClaim(a)'
    <3>1. SUFFICES ASSUME Refreshes(a)', Step(a)'.row # 0, Replaced(Step(a).row)'
                   PROVE  rows'[Step(a)'.row].family \in hist'.shared
      BY DEF AlarmClaim
    <3>2. op = "refresh" /\ first.row = Cookie(t)
      BY <1>15, <3>1 DEF Refreshes
    <3>3. PICK s, b : s = Cookie(t) /\ b = BrowserOf[t]
      OBVIOUS
    <3>4. b \in Browser /\ s = jar[b].cookie
      BY <3>3, SessionAssumption DEF Cookie
    <3>5. s # 0 /\ Replaced(s)
      <4>1. Step(a)'.row = s
        BY <1>15, <3>2, <3>3
      <4>2. Replaced(s)'
        BY <3>1, <4>1 DEF Replaced
      <4>3. QED
        BY <1>19, <3>1, <4>1, <4>2
    <3>6. about = {rows[s].family}
      BY <1>21, <3>2, <3>3, <3>5
    <3>7. rows[s].family \in hist'.shared
      <4>1. CASE rows[s].family \in hist.shared
        BY <1>8, <4>1
      <4>2. CASE rows[s].family \notin hist.shared
        <5>1. PICK c \in Slot : Refreshes(c) /\ rows[s].family \in req[c].about
          BY <1>1, <3>4, <3>5, <4>2 DEF JarInv
        <5>2. c # a
          BY <1>17, <5>1
        <5>3. rows[s].family \in req[c].about \cap about
          BY <3>6, <5>1
        <5>4. QED
          BY <1>8, <3>2, <5>1, <5>2, <5>3
      <4>3. QED
        BY <4>1, <4>2
    <3>8. QED
      BY <1>2, <1>15, <3>2, <3>3, <3>7
  <2>4. ResetClaim(a)'
    BY <1>2, <1>15 DEF ResetClaim, Opens, Asking
  <2>5. QED
    BY <2>1, <2>2, <2>3, <2>4 DEF Claims
<1>28. QED
  BY <1>11, <1>12, <1>14, <1>18, <1>20, <1>22, <1>23, <1>24, <1>25, <1>26, <1>27 DEF IInv

\* A refresh that begins: the tabs of a browser that refresh at once are on record.
LEMMA RefreshBegins ==
  ASSUME IInv, NEW a \in Slot, NEW t \in Tab, RefreshSession(a, t)
  PROVE  IInv'
<1> DEFINE s == Cookie(t)
           on == IF s = 0 THEN {} ELSE {rows[s].family}
           others == {o \in Rivals(a, on) : req[o].op = "refresh" /\ req[o].tab # t}
           shared == IF others = {} THEN {} ELSE on
           first == [do |-> "refresh", row |-> s]
<1>1. DataInv /\ FamiliesInv /\ RequestsInv
  BY DEF IInv
<1>2. Begin(a, t, "refresh", on, first, shared) /\ Refreshing(t) = {}
  BY DEF RefreshSession, SendRefresh
<1>3. first.do = "refresh" /\ first.row = s
  OBVIOUS
<1>4. s \in 0..Len(rows) /\ Len(rows) \in Nat
  BY <1>1, SessionAssumption DEF DataInv, Cookie
<1>5. on \subseteq 1..Len(rows)
  BY <1>1, <1>4 DEF FamiliesInv
<1> HIDE DEF first
<1>6. PlanInv("refresh", 0, first, <<>>, user # NoUser, rows, Len(links))
  BY <1>3, <1>4 DEF PlanInv
<1>7. AboutInv("refresh", on, first, 0, rows)
  BY <1>3, <1>5 DEF AboutInv
<1>8. ASSUME NEW c \in Slot \ {a}, Refreshes(c)
      PROVE  req[c].about \cap on \subseteq hist.shared \cup shared
  <2>1. CASE req[c].about \cap on = {}
    BY <2>1
  <2>2. CASE req[c].about \cap on # {}
    <3>1. Busy(c) /\ req[c].op = "refresh"
      BY <1>8 DEF Refreshes
    <3>2. req[c].tab # t
      BY <1>2, <1>8, <3>1 DEF Refreshing
    <3>3. c \in others
      BY <2>2, <3>1, <3>2 DEF Rivals
    <3>4. QED
      BY <3>3
  <2>3. QED
    BY <2>1, <2>2
<1>9. shared \subseteq Int
  BY <1>4, <1>5
<1> HIDE DEF shared, on
<1>10. PICK op : op = "refresh"
  OBVIOUS
<1>11. /\ Begin(a, t, op, on, first, shared) /\ first.do \in Asking
       /\ op \in {"register", "login", "verify", "reset", "mail", "refresh", "logout"}
       /\ PlanInv(op, 0, first, <<>>, user # NoUser, rows, Len(links))
       /\ AboutInv(op, on, first, 0, rows)
       /\ op = "reset" => 1..Len(rows) \subseteq on
       /\ op = "refresh" =>
            /\ first.do = "refresh" /\ first.row = Cookie(t)
            /\ \A c \in Slot \ {a} : Refreshes(c) =>
                 req[c].about \cap on \subseteq hist.shared \cup shared
  BY <1>2, <1>3, <1>6, <1>7, <1>8, <1>10 DEF Asking
<1>12. QED
  BY <1>9, <1>11, Beginning

\* A logout that begins.
LEMMA LogoutBegins ==
  ASSUME IInv, NEW a \in Slot, NEW t \in Tab, Logout(a, t)
  PROVE  IInv'
<1> DEFINE s == Cookie(t)
           on == IF s = 0 THEN {} ELSE {rows[s].family}
           first == [do |-> "logout", row |-> s]
<1>1. DataInv /\ FamiliesInv
  BY DEF IInv
<1>2. PICK op, none : op = "logout" /\ none = {}
  OBVIOUS
<1>3. Begin(a, t, op, on, first, none)
  BY <1>2 DEF Logout
<1>4. first.do = "logout" /\ first.row = s
  OBVIOUS
<1>5. s \in 0..Len(rows) /\ Len(rows) \in Nat
  BY <1>1, SessionAssumption DEF DataInv, Cookie
<1>6. on \subseteq 1..Len(rows)
  BY <1>1, <1>5 DEF FamiliesInv
<1> HIDE DEF first, on
<1>7. PlanInv(op, 0, first, <<>>, user # NoUser, rows, Len(links))
  BY <1>2, <1>4, <1>5 DEF PlanInv
<1>8. AboutInv(op, on, first, 0, rows)
  BY <1>2, <1>6 DEF AboutInv
<1>9. /\ first.do \in Asking /\ none \subseteq Int /\ op # "reset" /\ op # "refresh"
      /\ op \in {"register", "login", "verify", "reset", "mail", "refresh", "logout"}
  BY <1>2, <1>4 DEF Asking
<1>10. QED
  BY <1>3, <1>7, <1>8, <1>9, Beginning

\* A request about the account or its links that begins.
LEMMA AccountBegins ==
  ASSUME IInv, NEW a \in Slot, NEW t \in Tab, NEW op, NEW about, NEW first,
         Begin(a, t, op, about, first, {}),
         \/ op = "register" /\ about = {Account, MailLinks} /\ first.do = "register"
            /\ first.pw \in Password
         \/ op = "login" /\ about = {Account} /\ first.do = "login"
            /\ first.pw \in Password /\ first.code \in BOOLEAN
         \/ op = "login" /\ about = {Account} /\ first.do = "google" /\ first.ok \in BOOLEAN
         \/ op = "verify" /\ about = {Account, MailLinks} /\ first.do = "verify"
            /\ first.link \in 1..Len(links)
         \/ op = "reset" /\ about = {Account, MailLinks} \cup (1..Len(rows))
            /\ first.do = "reset" /\ first.link \in 1..Len(links) /\ first.pw \in Password
         \/ op = "mail" /\ about = {MailLinks} /\ first.do \in {"resend", "forgot"}
  PROVE  IInv'
<1>1. PICK none : none = {}
  OBVIOUS
<1>2. DataInv /\ Len(rows) \in Nat
  BY DEF IInv, DataInv
<1>3. /\ op \in {"register", "login", "verify", "reset", "mail"} /\ first.do \in Asking
      /\ none \subseteq Int /\ Begin(a, t, op, about, first, none)
  BY <1>1 DEF Asking
<1>4. PlanInv(op, 0, first, <<>>, user # NoUser, rows, Len(links))
  BY DEF PlanInv
<1>5. AboutInv(op, about, first, 0, rows)
  <2>1. op \in {"register", "verify"} => about = {Account, MailLinks}
    OBVIOUS
  <2>2. op = "login" => about = {Account}
    OBVIOUS
  <2>3. op = "mail" => about = {MailLinks}
    OBVIOUS
  <2>4. op = "reset" => {Account, MailLinks} \subseteq about /\ about \subseteq Int
    BY <1>2 DEF Account, MailLinks
  <2>5. op # "refresh" /\ op # "logout"
    BY <1>3
  <2>6. QED
    BY <2>1, <2>2, <2>3, <2>4, <2>5 DEF AboutInv
<1>6. op = "reset" => 1..Len(rows) \subseteq about
  OBVIOUS
<1>7. op # "refresh"
  BY <1>3
<1>8. QED
  BY <1>3, <1>4, <1>5, <1>6, <1>7, Beginning

\* Requests that begin keep the invariant.
LEMMA RequestsStep ==
  ASSUME IInv, NEW a \in Slot, NEW t \in Tab, Requests(a, t)
  PROVE  IInv'
<1>0. DOMAIN links = 1..Len(links) /\ DOMAIN rows = 1..Len(rows)
  BY DEF IInv, DataInv
<1>1. ASSUME NEW pw \in Password, Register(a, t, pw)
      PROVE  IInv'
  <2>1. PICK op, about, first : /\ op = "register" /\ about = {Account, MailLinks}
                                /\ first = [do |-> "register", pw |-> pw]
    OBVIOUS
  <2>2. Begin(a, t, op, about, first, {})
    BY <1>1, <2>1 DEF Register
  <2>3. QED
    BY <2>1, <2>2, AccountBegins
<1>2. ASSUME NEW pw \in Password, NEW code \in BOOLEAN, Login(a, t, pw, code)
      PROVE  IInv'
  <2>1. PICK op, about, first : /\ op = "login" /\ about = {Account}
                                /\ first = [do |-> "login", pw |-> pw, code |-> code]
    OBVIOUS
  <2>2. Begin(a, t, op, about, first, {})
    BY <1>2, <2>1 DEF Login
  <2>3. QED
    BY <2>1, <2>2, AccountBegins
<1>3. ASSUME NEW ok \in BOOLEAN, GoogleLogin(a, t, ok)
      PROVE  IInv'
  <2>1. PICK op, about, first : /\ op = "login" /\ about = {Account}
                                /\ first = [do |-> "google", ok |-> ok]
    OBVIOUS
  <2>2. Begin(a, t, op, about, first, {})
    BY <1>3, <2>1 DEF GoogleLogin
  <2>3. QED
    BY <2>1, <2>2, AccountBegins
<1>4. ASSUME NEW l \in DOMAIN links, VerifyEmail(a, t, l)
      PROVE  IInv'
  <2>1. PICK op, about, first : /\ op = "verify" /\ about = {Account, MailLinks}
                                /\ first = [do |-> "verify", link |-> l]
    OBVIOUS
  <2>2. Begin(a, t, op, about, first, {})
    BY <1>4, <2>1 DEF VerifyEmail
  <2>3. QED
    BY <1>0, <2>1, <2>2, AccountBegins
<1>5. ASSUME NEW l \in DOMAIN links, NEW pw \in Password, ResetPassword(a, t, l, pw)
      PROVE  IInv'
  <2>1. PICK op, about, first : /\ op = "reset"
                                /\ about = {Account, MailLinks} \cup (1..Len(rows))
                                /\ first = [do |-> "reset", pw |-> pw, link |-> l]
    OBVIOUS
  <2>2. Begin(a, t, op, about, first, {})
    BY <1>0, <1>5, <2>1 DEF ResetPassword
  <2>3. QED
    BY <1>0, <2>1, <2>2, AccountBegins
<1>6. ASSUME ResendVerification(a, t) \/ ForgotPassword(a, t)
      PROVE  IInv'
  <2>1. PICK op, about, kind : /\ op = "mail" /\ about = {MailLinks}
                               /\ kind \in {"resend", "forgot"}
                               /\ Begin(a, t, op, about, [do |-> kind], {})
    BY <1>6 DEF ResendVerification, ForgotPassword
  <2>2. PICK first : first = [do |-> kind]
    OBVIOUS
  <2>3. Begin(a, t, op, about, first, {})
    BY <2>1, <2>2
  <2>4. QED
    BY <2>1, <2>2, <2>3, AccountBegins
<1>7. QED
  BY <1>1, <1>2, <1>3, <1>4, <1>5, <1>6, RefreshBegins, LogoutBegins DEF Requests

-----------------------------------------------------------------------------
(* Steps that write. *)

Writing == {"newuser", "user", "claim", "rotated", "reuse", "revokeall", "droplinks",
            "newlink", "uselink"}

\* A request that performed the first of its steps has the rest left.
LEMMA StepDone ==
  ASSUME DataInv, DataInv', RequestsInv, Rivalry, NEW a \in Slot, Busy(a), Done(a),
         Step(a).do \in Writing, Step(a).do = "newuser" => user' # NoUser,
         user # NoUser => user' # NoUser,
         Len(rows) <= Len(rows'), Len(links) <= Len(links'),
         \A s \in 1..Len(rows) :
           rows'[s].family = rows[s].family /\ rows'[s].epoch = rows[s].epoch,
         hist'.crossed = hist.crossed, hist.raced \subseteq hist'.raced
  PROVE  /\ OwnStep(a) /\ StepOf(a)
         /\ Step(a)' = Head(Left(a)) /\ Left(a)' = Tail(Left(a))
         /\ req'[a].row = req[a].row
         /\ Busy(a)' /\ (Alone(a)' <=> Alone(a))
         /\ req'[a].op = req[a].op /\ req'[a].tab = req[a].tab
         /\ req'[a].about = req[a].about /\ req'[a].seen = req[a].seen
         /\ RequestsInv' /\ Rivalry'
<1>1. RequestInv(req[a], user # NoUser, rows, Len(links))
  BY DEF RequestsInv
<1>2. /\ Len(rows) \in Nat /\ Len(rows') \in Nat
      /\ Len(links) \in Nat /\ Len(links') \in Nat
  BY DEF DataInv
<1>3. RequestInv(req[a], user' # NoUser, rows', Len(links'))
  BY <1>1, <1>2, PlanKept
<1>4. Head(req[a].todo).do \in Writing
  BY DEF Step
<1>5. PICK known, rs, n : known = (user' # NoUser) /\ rs = rows' /\ n = Len(links')
  OBVIOUS
<1>6. /\ RequestInv(req[a], known, rs, n) /\ req[a] # Idle
      /\ Head(req[a].todo).do = "newuser" => known
      /\ Head(req[a].todo).do \in {"newuser", "user", "claim", "rotated", "reuse",
                                   "revokeall", "droplinks", "newlink", "uselink"}
  BY <1>3, <1>4, <1>5 DEF Busy, Step, Writing
<1>7. /\ PlanInv(req[a].op, req[a].row, Head(Left(a)), Tail(Left(a)), known, rs, n)
      /\ RowInv(req[a].op, req[a].row, Head(Left(a)), rs)
      /\ AboutInv(req[a].op, req[a].about, Head(Left(a)), req[a].row, rs)
  BY <1>6, GoesOn DEF Left
<1>8. PICK todo : todo = Left(a)
  OBVIOUS
<1>9. req' = [req EXCEPT ![a] = Renewed(req[a], req[a].row, todo)]
  <2>1. req[a] = Renewed(req[a], req[a].row, req[a].todo)
    BY ShapeOf DEF Renewed
  <2>2. [req[a] EXCEPT !.todo = todo] = Renewed(req[a], req[a].row, todo)
    BY <2>1, Renewal
  <2>3. QED
    BY <1>8, <2>2 DEF Done, Continue, Left
<1>10. PICK row : row = req[a].row
  OBVIOUS
<1>11. /\ req' = [req EXCEPT ![a] = Renewed(req[a], row, todo)]
       /\ PlanInv(req[a].op, row, Head(todo), Tail(todo), user' # NoUser, rows', Len(links'))
       /\ RowInv(req[a].op, row, Head(todo), rows')
       /\ AboutInv(req[a].op, req[a].about, Head(todo), row, rows')
  BY <1>5, <1>7, <1>8, <1>9, <1>10
<1>12. /\ OwnStep(a) /\ StepOf(a)
       /\ RequestInv(req'[a], user' # NoUser, rows', Len(links'))
       /\ Step(a)' = Head(todo) /\ Left(a)' = Tail(todo)
       /\ req'[a].row = row
       /\ Busy(a)' /\ (Alone(a)' <=> Alone(a))
       /\ req'[a].op = req[a].op /\ req'[a].tab = req[a].tab
       /\ req'[a].about = req[a].about /\ req'[a].seen = req[a].seen
  BY <1>3, <1>11, Continues
<1>13. RequestsInv'
  BY <1>2, <1>12, RequestsKept
<1>14. Rivalry'
  BY <1>12, RivalryKept
<1>15. QED
  BY <1>8, <1>10, <1>12, <1>13, <1>14

\* A step that adds no row and revives none.
LEMMA Settled ==
  ASSUME IInv, NEW a \in Slot, OwnStep(a), jar' = jar, Len(rows') = Len(rows),
         \A s \in 1..Len(rows) :
           rows'[s].family = rows[s].family /\ rows'[s].epoch = rows[s].epoch,
         \A f : LiveRows(f)' \subseteq LiveRows(f) /\ RowsOf(f)' \subseteq RowsOf(f),
         \A s \in 1..Len(rows) : Replaced(s)' => Replaced(s),
         hist'.shared = hist.shared,
         \A f \in 1..Len(rows) \ hist'.raced :
           f \in hist'.over => f \in hist.over \/ LiveRows(f)' = {},
         \A b \in Slot \ {a} : (Alone(b) /\ Opens(b)) =>
           (Step(b).family \in hist'.over => Step(b).family \in hist.over),
         req'[a].row = req[a].row, Step(a).do \notin {"rotated", "reply"}
  PROVE  /\ TokenInv' /\ HomeInv' /\ JarInv' /\ SharedInv' /\ NewRowClaim(a)'
         /\ \A b \in Slot \ {a} : OpenClaim(b)' /\ NewRowClaim(b)' /\ AlarmClaim(b)'
         /\ (Account \notin hist'.raced => hist'.epoch = hist.epoch) =>
              \A b \in Slot \ {a} : ResetClaim(b)'
<1>1. /\ DataInv /\ RequestsInv /\ TokenInv /\ HomeInv /\ JarInv /\ SharedInv
      /\ \A b \in Slot : Claims(b)
  BY DEF IInv
<1>2. StepOf(a)
  BY DEF OwnStep
<1>3. Len(rows) \in Nat
  BY <1>1 DEF DataInv
<1>4. \A b \in Slot : /\ Busy(b)' <=> Busy(b)
                      /\ req'[b].op = req[b].op /\ req'[b].tab = req[b].tab
                      /\ req'[b].about = req[b].about /\ req'[b].row = req[b].row
                      /\ Refreshes(b)' <=> Refreshes(b)
  BY <1>2 DEF OwnStep, StepOf, Stays, Busy, Refreshes
<1>5. ASSUME NEW b \in Slot, b # a
      PROVE  Stays(b) /\ Step(b)' = Step(b) /\ (Replaces(b)' <=> Replaces(b))
  BY <1>2, <1>5, Others DEF StepOf
<1>6. hist.raced \subseteq hist'.raced /\ hist.shared \subseteq hist'.shared
  BY DEF OwnStep
<1>7. TokenInv'
  <2>1. ~Replaces(a)
    BY DEF Replaces
  <2>2. \A b \in Slot : Replaces(b) =>
          Replaces(b)' /\ Step(b)'.row = Step(b).row /\ req'[b].row = req[b].row
    BY <1>4, <1>5, <2>1
  <2>3. QED
    BY <1>1, <1>6, <2>2, TokenKept
<1>8. HomeInv'
  BY <1>1, <1>4, HoldsKept, HomeKept
<1>9. \A s \in 1..Len(rows) :
        Replaced(s)' => Replaced(s) /\ rows[s].family = rows'[s].family
  OBVIOUS
<1>10. JarInv'
  <2>1. \A b \in Browser : \A s :
          (/\ s = jar'[b].cookie /\ s # 0 /\ Replaced(s)'
           /\ rows'[s].family \notin hist'.shared) =>
              jar[b].cookie = s /\ Replaced(s) /\ rows[s].family = rows'[s].family
    BY <1>1, <1>3, <1>9 DEF DataInv
  <2>2. \A b \in Slot : (Refreshes(b) /\ req[b].row # 0 /\ Step(b).do = "reply") =>
          /\ Refreshes(b)' /\ req'[b].row # 0 /\ Step(b)'.do = "reply"
          /\ req'[b].about = req[b].about /\ req'[b].tab = req[b].tab
    BY <1>4, <1>5
  <2>3. QED
    BY <1>1, <1>6, <2>1, <2>2, JarKept
<1>11. SharedInv'
  BY <1>1, <1>4, <1>6, SharedKept
<1>12. ASSUME NEW b \in Slot
       PROVE  req[b].row # 0 /\ Busy(b) => req[b].row \in 1..Len(rows)
  <2>1. Busy(b) => RowInv(req[b].op, req[b].row, Step(b), rows)
    BY <1>1, ShapeOf
  <2>2. Busy(b) => req[b].row \in 0..Len(rows)
    BY <2>1 DEF RowInv
  <2>3. QED
    BY <1>3, <2>2
<1>13. NewRowClaim(a)'
  <2>1. PICK r : r = req[a].row
    OBVIOUS
  <2>2. SUFFICES ASSUME r # 0, Busy(a)
                 PROVE  NewRowClaim(a)'
    BY <1>4, <2>1 DEF NewRowClaim
  <2>3. NewRowClaim(a) /\ r \in 1..Len(rows)
    BY <1>1, <1>12, <2>1, <2>2 DEF Claims
  <2>4. /\ \A b \in Browser : jar'[b].cookie # r
        /\ \A b \in Slot \ {a} : Busy(b)' => req'[b].row # r
    BY <1>4, <2>1, <2>2, <2>3 DEF NewRowClaim
  <2>5. ASSUME req[a].op = "login"
        PROVE  /\ rows'[r].family = r /\ ~Replaced(r)' /\ RowsOf(r)' = {r}
               /\ \A b \in Slot : Refreshes(b)' => r \notin req'[b].about
    <3>1. /\ rows[r].family = r /\ ~Replaced(r) /\ RowsOf(r) = {r}
          /\ \A b \in Slot : Refreshes(b) => r \notin req[b].about
      BY <2>1, <2>2, <2>3, <2>5 DEF NewRowClaim
    <3>2. r \in RowsOf(r)'
      BY <2>3, <3>1 DEF RowsOf
    <3>3. QED
      BY <1>4, <1>9, <2>3, <3>1, <3>2
  <2>6. (req[a].op = "refresh" /\ rows'[r].family \notin hist'.shared) => ~Replaced(r)'
    BY <1>9, <2>1, <2>2, <2>3 DEF NewRowClaim
  <2>7. req'[a].row = r /\ req'[a].op = req[a].op
    BY <1>4, <2>1
  <2>8. QED
    BY <2>4, <2>5, <2>6, <2>7 DEF NewRowClaim
<1>14. ASSUME NEW b \in Slot \ {a}
       PROVE  /\ OpenClaim(b)' /\ NewRowClaim(b)' /\ AlarmClaim(b)'
              /\ (Account \notin hist'.raced => hist'.epoch = hist.epoch) => ResetClaim(b)'
  <2>1. Claims(b) /\ Stays(b) /\ Step(b)' = Step(b)
    BY <1>1, <1>5
  <2>2. OpenClaim(b)'
    <3>1. PICK f : f = Step(b).family
      OBVIOUS
    <3>2. LiveRows(Step(b).family)' \subseteq LiveRows(f)
      <4>1. LiveRows(f)' \subseteq LiveRows(f)
        OBVIOUS
      <4>2. Step(b)'.family = f
        BY <2>1, <3>1
      <4>3. LiveRows(Step(b).family)' = LiveRows(f)'
        BY <4>2 DEF LiveRows, RowsOf, Live
      <4>4. QED
        BY <4>1, <4>3
    <3>3. QED
      BY <1>1, <2>1, <3>1, <3>2, OpenKept DEF Claims
  <2>3. NewRowClaim(b)'
    <3>1. PICK r : r = req[b].row
      OBVIOUS
    <3>2. NewRowClaim(b)
      BY <2>1 DEF Claims
    <3>3. \A c \in Browser : jar'[c].cookie = r /\ r # 0 => jar[c].cookie = r
      OBVIOUS
    <3>4. \A c \in Slot \ {b} : Busy(c)' /\ req'[c].row = r /\ r # 0 =>
                                  Busy(c) /\ req[c].row = r
      BY <1>4
    <3>5. r \in 1..Len(rows) => rows'[r].family = rows[r].family
      OBVIOUS
    <3>9. (Busy(b) /\ r # 0) => r \in 1..Len(rows)
      BY <1>12, <3>1
    <3>10. req[b].op \in {"login", "refresh"} => Busy(b)
      <4>1. ASSUME ~Busy(b)
            PROVE  req[b].op = "idle"
        BY <4>1 DEF Busy, Idle
      <4>2. QED
        BY <4>1
    <3>6. req[b].op = "login" /\ r # 0 =>
            /\ Replaced(r)' => Replaced(r)
            /\ RowsOf(r)' \subseteq RowsOf(r)
            /\ Len(rows) <= Len(rows')
            /\ \A c \in Slot : Refreshes(c)' /\ r \in req'[c].about =>
                                  Refreshes(c) /\ r \in req[c].about
      BY <1>3, <1>4, <1>9, <3>9, <3>10
    <3>7. req[b].op = "refresh" /\ r # 0 =>
            (Replaced(r)' => Replaced(r) \/ rows[r].family \in hist'.shared)
      BY <1>9, <3>9, <3>10
    <3>8. QED
      BY <1>1, <1>6, <2>1, <3>1, <3>2, <3>3, <3>4, <3>5, <3>6, <3>7, NewRowKept
  <2>4. AlarmClaim(b)'
    <3>1. PICK s : s = Step(b).row
      OBVIOUS
    <3>2. (Refreshes(b) /\ Step(b).do \in {"refresh", "reuse"} /\ s # 0) => s \in 1..Len(rows)
      <4>1. ASSUME Refreshes(b), Step(b).do \in {"refresh", "reuse"}
            PROVE  Step(b).row \in 0..Len(rows)
        <5>1. /\ PlanInv(req[b].op, req[b].row, Step(b), Left(b), user # NoUser, rows,
                         Len(links))
              /\ req[b].op = "refresh"
          BY <1>1, <4>1, ShapeOf DEF Refreshes
        <5>2. QED
          BY <4>1, <5>1 DEF PlanInv
      <4>3. QED
        BY <1>3, <3>1, <4>1
    <3>3. (Refreshes(b) /\ Step(b).do \in {"refresh", "reuse"} /\ s # 0) =>
            /\ rows'[s].family = rows[s].family
            /\ Replaced(s)' => Replaced(s) \/ rows[s].family \in hist'.shared
      BY <1>9, <3>2
    <3>4. QED
      BY <1>1, <1>6, <2>1, <3>1, <3>3, AlarmKept DEF Claims
  <2>5. (Account \notin hist'.raced => hist'.epoch = hist.epoch) => ResetClaim(b)'
    BY <1>1, <1>3, <2>1, ResetKept DEF Claims
  <2>6. QED
    BY <2>2, <2>3, <2>4, <2>5
<1>15. QED
  BY <1>7, <1>8, <1>10, <1>11, <1>13, <1>14

\* A step that leaves the rows and the browsers as they are.
LEMMA RowsStay ==
  ASSUME IInv, NEW a \in Slot, OwnStep(a), RequestsInv', DataInv',
         CountInv', LinksInv', OrdersFollowLogin',
         rows' = rows, jar' = jar, hist'.shared = hist.shared, hist'.over = hist.over,
         hist'.alarms = hist.alarms,
         req'[a].row = req[a].row, Step(a).do \notin {"rotated", "reply"},
         \A b \in Slot \ {a} : CountClaim(b)' /\ LinkClaim(b)' /\ OrderClaim(b)',
         CountClaim(a)', LinkClaim(a)', OrderClaim(a)', ResetClaim(a)',
         Step(a)'.do \notin {"refresh", "reuse"}, ~Opens(a)',
         \/ Account \notin hist'.raced =>
              hist'.epoch = hist.epoch /\ (EndsAll(a) => EndsAll(a)')
         \/ ResetInv' /\ \A b \in Slot \ {a} : ResetClaim(b)'
  PROVE  IInv'
<1>1. /\ DataInv /\ FamiliesInv /\ RequestsInv /\ Rivalry /\ NoFalseAlarm /\ ResetInv
  BY DEF IInv
<1>2. \A f : LiveRows(f)' = LiveRows(f) /\ RowsOf(f)' = RowsOf(f) /\ (Replaced(f)' <=> Replaced(f))
  BY SameRows
<1>3. /\ Len(rows') = Len(rows)
      /\ \A s \in 1..Len(rows) :
           rows'[s].family = rows[s].family /\ rows'[s].epoch = rows[s].epoch
      /\ \A f : LiveRows(f)' \subseteq LiveRows(f) /\ RowsOf(f)' \subseteq RowsOf(f)
      /\ \A s \in 1..Len(rows) : Replaced(s)' => Replaced(s)
  BY <1>2
<1>4. /\ TokenInv' /\ HomeInv' /\ JarInv' /\ SharedInv' /\ NewRowClaim(a)'
      /\ \A b \in Slot \ {a} : OpenClaim(b)' /\ NewRowClaim(b)' /\ AlarmClaim(b)'
      /\ (Account \notin hist'.raced => hist'.epoch = hist.epoch) =>
           \A b \in Slot \ {a} : ResetClaim(b)'
  BY <1>3, Settled
<1>5. FamiliesInv' /\ NoFalseAlarm'
  BY <1>1 DEF FamiliesInv, NoFalseAlarm
<1>6. Rivalry'
  BY <1>1, RivalryKept
<1>7. ResetInv' /\ \A b \in Slot \ {a} : ResetClaim(b)'
  <2>1. CASE Account \notin hist'.raced =>
               hist'.epoch = hist.epoch /\ (EndsAll(a) => EndsAll(a)')
    <3>1. hist.raced \subseteq hist'.raced
      BY DEF OwnStep
    <3>2. \A b \in Slot \ {a} : EndsAll(b) => EndsAll(b)'
      BY Others DEF OwnStep, StepOf
    <3>3. ResetInv'
      BY <1>1, <1>3, <2>1, <3>1, <3>2, ResetInvKept
    <3>4. QED
      BY <1>4, <2>1, <3>3
  <2>2. QED
    BY <2>1
<1>8. OpenClaim(a)' /\ AlarmClaim(a)'
  BY DEF OpenClaim, AlarmClaim
<1>9. \A b \in Slot : Claims(b)'
  BY <1>4, <1>7, <1>8 DEF Claims
<1>10. QED
  BY <1>1, <1>4, <1>5, <1>6, <1>7, <1>9 DEF IInv

\* linkGuestOrders keeps the invariant.
LEMMA ClaimStep ==
  ASSUME IInv, NEW a \in Slot, DoClaim(a)
  PROVE  IInv'
<1>1. /\ DataInv /\ RequestsInv /\ Rivalry /\ CountInv /\ LinksInv /\ OrdersFollowLogin
      /\ \A b \in Slot : Claims(b)
  BY DEF IInv
<1>2. /\ Busy(a) /\ Step(a).do = "claim" /\ Done(a)
      /\ UNCHANGED <<user, rows, links, jar, access, hist>>
      /\ orders' = [o \in Order |-> IF orders[o] = "guest" THEN "linked" ELSE orders[o]]
  BY DEF DoClaim, Next1, Step
<1>3. DataInv'
  <2>1. orders' \in [Order -> {"none", "guest", "linked"}]
    BY <1>1, <1>2 DEF DataInv
  <2>2. QED
    BY <1>1, <1>2, <2>1 DEF DataInv
<1>4. PlanInv(req[a].op, req[a].row, Step(a), Left(a), user # NoUser, rows, Len(links))
  BY <1>1, <1>2, ShapeOf
<1>5. req[a].op \in {"login", "verify"} /\ Left(a) = Finish
  BY <1>2, <1>4 DEF PlanInv
<1>6. /\ OwnStep(a) /\ StepOf(a) /\ Step(a)' = Head(Left(a)) /\ req'[a].row = req[a].row
      /\ Busy(a)' /\ (Alone(a)' <=> Alone(a))
      /\ req'[a].op = req[a].op /\ req'[a].seen = req[a].seen /\ RequestsInv'
  <2>1. Len(rows) <= Len(rows') /\ Len(links) <= Len(links')
    BY <1>1, <1>2 DEF DataInv
  <2>2. Step(a).do \in Writing
    BY <1>2 DEF Writing
  <2>3. QED
    BY <1>1, <1>2, <1>3, <2>1, <2>2, StepDone
<1>7. Step(a)' = Say(TRUE)
  BY <1>5, <1>6, Lists
<1>8. Step(a)'.do = "reply"
  BY <1>7 DEF Say
<1>9. \A o \in Order : /\ orders[o] # "none" => orders'[o] = "linked"
                       /\ orders[o] = "linked" => orders'[o] = "linked"
  BY <1>1, <1>2 DEF DataInv
<1>10. ASSUME NEW b \in Slot \ {a}
       PROVE  CountClaim(b)' /\ LinkClaim(b)' /\ OrderClaim(b)'
  <2>1. Stays(b) /\ Claims(b)
    BY <1>1, <1>6 DEF StepOf
  <2>2. CountClaim(b)'
    BY <1>1, <1>2, <2>1, CountKept DEF Claims
  <2>3. LinkClaim(b)'
    <3>1. \A l \in 1..Len(links') : Usable(l)' =>
            l \in 1..Len(links) /\ Usable(l) /\ links'[l].type = links[l].type
      BY <1>2 DEF Usable
    <3>2. QED
      BY <1>1, <1>2, <2>1, <3>1, LinkKept DEF Claims
  <2>4. OrderClaim(b)'
    BY <1>1, <1>2, <1>9, <2>1, OrderKept DEF Claims
  <2>5. QED
    BY <2>2, <2>3, <2>4
<1>11. CountInv' /\ LinksInv'
  BY <1>1, <1>2 DEF CountInv, LinksInv, Usable
<1>12. OrdersFollowLogin'
  <2>1. hist.claimed \subseteq Order
    BY <1>1 DEF DataInv
  <2>2. QED
    BY <1>1, <1>2, <1>9, <2>1 DEF OrdersFollowLogin
<1>13. CountClaim(a)' /\ LinkClaim(a)'
  BY <1>8 DEF CountClaim, LinkClaim, WillUse
<1>14. OrderClaim(a)'
  <2>1. \A o \in req[a].seen : o \in Order /\ orders[o] # "none"
    BY <1>1, <1>2, ShapeOf DEF Claims, OrderClaim
  <2>2. \A o \in req'[a].seen : orders'[o] # "none" /\ orders'[o] = "linked"
    BY <1>6, <1>9, <2>1
  <2>3. QED
    BY <1>8, <2>2 DEF OrderClaim
<1>15. ResetClaim(a)' /\ ~Opens(a)' /\ ~EndsAll(a)
  <2>1. ~Opens(a)' /\ req'[a].op # "reset" /\ ~EndsAll(a)
    BY <1>2, <1>5, <1>6, <1>8 DEF Opens, EndsAll
  <2>2. QED
    BY <1>8, <2>1 DEF ResetClaim
<1>16. QED
  BY <1>2, <1>3, <1>6, <1>8, <1>10, <1>11, <1>12, <1>13, <1>14, <1>15, RowsStay

\* The rows and the links, one by one.
LEMMA RowsAndLinks ==
  ASSUME DataInv
  PROVE  /\ Len(rows) \in Nat /\ DOMAIN rows = 1..Len(rows)
         /\ \A s \in 1..Len(rows) :
              rows[s] \in [family : Nat, epoch : Nat, why : Whys, expired : BOOLEAN]
         /\ Len(links) \in Nat /\ DOMAIN links = 1..Len(links)
         /\ \A l \in 1..Len(links) :
              links[l] \in [type : {"verify", "reset"}, state : {"open", "used", "over", "gone"}]
<1>1. /\ rows \in Seq([family : Nat, epoch : Nat, why : Whys, expired : BOOLEAN])
      /\ links \in Seq([type : {"verify", "reset"}, state : {"open", "used", "over", "gone"}])
  BY DEF DataInv
<1>2. ASSUME NEW S, NEW q \in Seq(S)
      PROVE  Len(q) \in Nat /\ DOMAIN q = 1..Len(q) /\ \A i \in 1..Len(q) : q[i] \in S
  OBVIOUS
<1>3. /\ Len(rows) \in Nat /\ DOMAIN rows = 1..Len(rows)
      /\ \A s \in 1..Len(rows) :
           rows[s] \in [family : Nat, epoch : Nat, why : Whys, expired : BOOLEAN]
  BY <1>1, <1>2
<1>4. PICK S : S = [type : {"verify", "reset"}, state : {"open", "used", "over", "gone"}]
  OBVIOUS
<1>5. /\ Len(links) \in Nat /\ DOMAIN links = 1..Len(links)
      /\ \A l \in 1..Len(links) : links[l] \in S
  BY <1>1, <1>2, <1>4
<1>6. QED
  BY <1>3, <1>4, <1>5

\* New links replace those before them.
LEMMA DropLinksStep ==
  ASSUME IInv, NEW a \in Slot, DoDropLinks(a)
  PROVE  IInv'
<1>1. /\ DataInv /\ RequestsInv /\ Rivalry /\ CountInv /\ LinksInv /\ OrdersFollowLogin
      /\ \A b \in Slot : Claims(b)
  BY DEF IInv
<1> DEFINE type == Step(a).type
<1>2. /\ Busy(a) /\ Step(a).do = "droplinks" /\ Done(a)
      /\ UNCHANGED <<user, rows, orders, jar, access, hist>>
      /\ links' = [l \in DOMAIN links |->
                     IF links[l].type = type THEN [links[l] EXCEPT !.state = "gone"]
                     ELSE links[l]]
  BY DEF DoDropLinks, Next1, Step, Todo
<1>3. PlanInv(req[a].op, req[a].row, Step(a), Left(a), user # NoUser, rows, Len(links))
  BY <1>1, <1>2, ShapeOf
<1>4. /\ req[a].op \in {"register", "mail"} /\ Left(a) = Mailed(type)
      /\ type \in {"verify", "reset"}
  BY <1>2, <1>3 DEF PlanInv
<1> HIDE DEF type
<1>5. /\ Len(links') = Len(links)
      /\ links' \in Seq([type : {"verify", "reset"}, state : {"open", "used", "over", "gone"}])
      /\ \A l \in 1..Len(links) :
           /\ links'[l].type = links[l].type
           /\ links'[l].state = "open" => links[l].state = "open" /\ links[l].type # type
  <2>1. DOMAIN links = 1..Len(links) /\ Len(links) \in Nat
    BY <1>1 DEF DataInv
  <2>2. \A l \in 1..Len(links) :
          links[l] \in [type : {"verify", "reset"}, state : {"open", "used", "over", "gone"}]
    BY <1>1, RowsAndLinks
  <2>3. \A l \in 1..Len(links) :
          /\ links'[l] \in [type : {"verify", "reset"}, state : {"open", "used", "over", "gone"}]
          /\ links'[l].type = links[l].type
          /\ links'[l].state = "open" => links[l].state = "open" /\ links[l].type # type
    BY <1>2, <2>1, <2>2
  <2>4. QED
    BY <1>2, <2>1, <2>3
<1>6. DataInv'
  <2>1. Len(hist'.uses) = Len(links')
    BY <1>1, <1>2, <1>5 DEF DataInv
  <2>2. links' # <<>> => user' # NoUser
    <3>1. links' # <<>> => links # <<>>
      BY <1>2
    <3>2. QED
      BY <1>1, <1>2, <3>1 DEF DataInv
  <2>3. QED
    BY <1>1, <1>2, <1>5, <2>1, <2>2 DEF DataInv
<1>7. /\ OwnStep(a) /\ StepOf(a) /\ Step(a)' = Head(Left(a)) /\ req'[a].row = req[a].row
      /\ Busy(a)' /\ (Alone(a)' <=> Alone(a))
      /\ req'[a].op = req[a].op /\ req'[a].seen = req[a].seen /\ RequestsInv'
  <2>1. Len(rows) <= Len(rows') /\ Len(links) <= Len(links')
    BY <1>1, <1>2, <1>5 DEF DataInv
  <2>2. Step(a).do \in Writing
    BY <1>2 DEF Writing
  <2>3. QED
    BY <1>1, <1>2, <1>6, <2>1, <2>2, StepDone
<1>8. Step(a)' = NewLink(type)
  BY <1>4, <1>7, Lists
<1>9. Step(a)'.do = "newlink" /\ Step(a)'.type = type
  BY <1>8 DEF NewLink
<1>10. \A l \in 1..Len(links') : Usable(l)' =>
          l \in 1..Len(links) /\ Usable(l) /\ links'[l].type = links[l].type
  BY <1>5 DEF Usable
<1>11. ASSUME NEW b \in Slot \ {a}
       PROVE  CountClaim(b)' /\ LinkClaim(b)' /\ OrderClaim(b)'
  <2>1. Stays(b) /\ Claims(b)
    BY <1>1, <1>7 DEF StepOf
  <2>2. CountClaim(b)'
    BY <1>1, <1>2, <2>1, CountKept DEF Claims
  <2>3. LinkClaim(b)'
    BY <1>1, <1>2, <1>10, <2>1, LinkKept DEF Claims
  <2>4. OrderClaim(b)'
    BY <1>1, <1>2, <2>1, OrderKept DEF Claims
  <2>5. QED
    BY <2>2, <2>3, <2>4
<1>12. CountInv' /\ OrdersFollowLogin'
  BY <1>1, <1>2 DEF CountInv, OrdersFollowLogin
<1>13. LinksInv'
  BY <1>1, <1>2, <1>5, <1>10 DEF LinksInv
<1>14. CountClaim(a)' /\ OrderClaim(a)' /\ ResetClaim(a)'
  <2>1. \A o \in req[a].seen : orders[o] # "none"
    BY <1>1, <1>2 DEF Claims, OrderClaim
  <2>2. \A o \in req'[a].seen : orders'[o] # "none"
    BY <1>2, <1>7, <2>1
  <2>3. req'[a].op \notin {"login", "reset", "refresh"}
    BY <1>4, <1>7
  <2>4. QED
    BY <1>9, <2>2, <2>3 DEF CountClaim, OrderClaim, ResetClaim, Opens, Refreshes
<1>15. LinkClaim(a)'
  <2>1. \A l \in 1..Len(links') : links'[l].type # type \/ ~Usable(l)'
    BY <1>5 DEF Usable
  <2>2. ~WillUse(a)'
    BY <1>9 DEF WillUse
  <2>3. QED
    BY <1>9, <2>1, <2>2 DEF LinkClaim
<1>16. ~Opens(a)' /\ ~EndsAll(a)
  BY <1>2, <1>9 DEF Opens, EndsAll
<1>17. Step(a)'.do \notin {"refresh", "reuse"} /\ Step(a).do \notin {"rotated", "reply"}
  BY <1>2, <1>9
<1>18. QED
  BY <1>2, <1>6, <1>7, <1>11, <1>12, <1>13, <1>14, <1>15, <1>16, <1>17, RowsStay

\* What others read of the account and its links holds while a request writes links.
LEMMA ApartFromLinks ==
  ASSUME IInv, NEW a \in Slot, StepOf(a), Busy(a), user' = user, orders' = orders,
         MailLinks \in req[a].about, a \in hist.crossed => MailLinks \in hist'.raced
  PROVE  \A b \in Slot \ {a} : CountClaim(b)' /\ LinkClaim(b)' /\ OrderClaim(b)'
<1>1. /\ DataInv /\ RequestsInv /\ Rivalry /\ \A b \in Slot : Claims(b)
  BY DEF IInv
<1>2. ASSUME NEW b \in Slot \ {a}
      PROVE  CountClaim(b)' /\ LinkClaim(b)' /\ OrderClaim(b)'
  <2>1. Stays(b) /\ Claims(b)
    BY <1>1 DEF StepOf
  <2>2. CountClaim(b)'
    BY <1>1, <2>1, CountKept DEF Claims
  <2>3. LinkClaim(b)'
    <3>1. ~(Alone(b) /\ MailLinks \in req[b].about /\ MailLinks \notin hist'.raced)
      BY <1>1 DEF Rivalry, Alone
    <3>2. QED
      BY <1>1, <2>1, <3>1, LinkKept DEF Claims
  <2>4. OrderClaim(b)'
    BY <1>1, <2>1, OrderKept DEF Claims
  <2>5. QED
    BY <2>2, <2>3, <2>4
<1>3. QED
  BY <1>2

\* A link is created: it is the only one of its type that can be used.
LEMMA NewLinkStep ==
  ASSUME IInv, NEW a \in Slot, DoNewLink(a)
  PROVE  IInv'
<1>1. /\ DataInv /\ RequestsInv /\ Rivalry /\ CountInv /\ LinksInv /\ OrdersFollowLogin
      /\ \A b \in Slot : Claims(b)
  BY DEF IInv
<1>2. PICK type, raced, n : type = Step(a).type /\ raced = Touch(a, {MailLinks}) /\ n = Len(links)
  OBVIOUS
<1>3. /\ Busy(a) /\ Step(a).do = "newlink" /\ Done(a)
      /\ UNCHANGED <<user, rows, orders, jar, access>>
      /\ links' = Append(links, [type |-> type, state |-> "open"])
      /\ hist' = [hist EXCEPT !.uses = Append(@, 0), !.raced = raced]
  BY <1>2 DEF DoNewLink, Next1, Step, Todo
<1>4. /\ PlanInv(req[a].op, req[a].row, Step(a), Left(a), user # NoUser, rows, Len(links))
      /\ AboutInv(req[a].op, req[a].about, Step(a), req[a].row, rows)
  BY <1>1, <1>3, ShapeOf
<1>5. /\ req[a].op \in {"register", "mail"} /\ Left(a) = Finish /\ user # NoUser
      /\ type \in {"verify", "reset"}
  BY <1>2, <1>3, <1>4 DEF PlanInv
<1>6. MailLinks \in req[a].about
  BY <1>4, <1>5 DEF AboutInv
<1>7. n \in Nat /\ Len(links) = n /\ links \in Seq([type : {"verify", "reset"}, state : {"open", "used", "over", "gone"}])
      /\ Len(hist.uses) = n /\ hist.uses \in Seq(Nat)
  BY <1>1, <1>2 DEF DataInv
<1>8. /\ Len(links') = n + 1
      /\ links' \in Seq([type : {"verify", "reset"}, state : {"open", "used", "over", "gone"}])
      /\ links'[n + 1] = [type |-> type, state |-> "open"]
      /\ \A l \in 1..n : links'[l] = links[l]
  BY <1>3, <1>5, <1>7
<1>9. /\ hist'.uses = Append(hist.uses, 0) /\ hist'.raced = raced /\ raced \subseteq Int
      /\ hist.raced \subseteq raced /\ hist'.crossed = hist.crossed
      /\ hist'.epoch = hist.epoch /\ hist'.failures = hist.failures
      /\ hist'.shared = hist.shared /\ hist'.over = hist.over
      /\ hist'.alarms = hist.alarms /\ hist'.claimed = hist.claimed
  <2>1. hist.raced \subseteq Int
    BY <1>1 DEF DataInv
  <2>2. /\ hist'.uses = Append(hist.uses, 0) /\ hist'.raced = raced
        /\ hist'.crossed = hist.crossed
        /\ hist'.epoch = hist.epoch /\ hist'.failures = hist.failures
        /\ hist'.shared = hist.shared /\ hist'.over = hist.over
        /\ hist'.alarms = hist.alarms /\ hist'.claimed = hist.claimed
    BY <1>1, <1>3 DEF DataInv
  <2>3. QED
    BY <1>2, <2>1, <2>2 DEF Touch, MailLinks
<1>10. /\ hist'.uses \in Seq(Nat) /\ Len(hist'.uses) = n + 1
       /\ hist'.uses[n + 1] = 0 /\ \A l \in 1..n : hist'.uses[l] = hist.uses[l]
  <2>1. PICK u : u = hist.uses
    OBVIOUS
  <2>2. u \in Seq(Nat) /\ Len(u) = n /\ n \in Nat
    BY <1>7, <2>1
  <2>3. /\ Append(u, 0) \in Seq(Nat) /\ Len(Append(u, 0)) = n + 1
        /\ Append(u, 0)[n + 1] = 0 /\ \A l \in 1..n : Append(u, 0)[l] = u[l]
    BY <2>2
  <2>4. QED
    BY <1>9, <2>1, <2>3
<1>11. hist' \in [epoch : Nat, crossed : SUBSET Slot, raced : SUBSET Int, shared : SUBSET Int,
                  failures : Nat, uses : Seq(Nat), over : SUBSET Int, alarms : SUBSET Int,
                  claimed : SUBSET Order]
  <2>1. PICK uses, S : uses = Append(hist.uses, 0) /\ S = Seq(Nat)
    OBVIOUS
  <2>2. hist' = [hist EXCEPT !.uses = uses, !.raced = raced]
    BY <1>3, <2>1
  <2>3. uses \in S /\ raced \subseteq Int
    BY <1>9, <1>10, <2>1
  <2>4. hist \in [epoch : Nat, crossed : SUBSET Slot, raced : SUBSET Int, shared : SUBSET Int,
                  failures : Nat, uses : S, over : SUBSET Int, alarms : SUBSET Int,
                  claimed : SUBSET Order]
    BY <1>1, <2>1 DEF DataInv
  <2>5. hist' \in [epoch : Nat, crossed : SUBSET Slot, raced : SUBSET Int, shared : SUBSET Int,
                   failures : Nat, uses : S, over : SUBSET Int, alarms : SUBSET Int,
                   claimed : SUBSET Order]
    BY <2>2, <2>3, <2>4
  <2>6. QED
    BY <2>1, <2>5
<1>12. DataInv'
  BY <1>1, <1>3, <1>5, <1>8, <1>9, <1>10, <1>11 DEF DataInv
<1>13. /\ OwnStep(a) /\ StepOf(a) /\ Step(a)' = Head(Left(a)) /\ req'[a].row = req[a].row
       /\ Busy(a)' /\ (Alone(a)' <=> Alone(a))
       /\ req'[a].op = req[a].op /\ req'[a].seen = req[a].seen /\ RequestsInv'
  <2>1. Len(rows) <= Len(rows') /\ Len(links) <= Len(links')
    BY <1>1, <1>3, <1>7, <1>8 DEF DataInv
  <2>2. Step(a).do \in Writing
    BY <1>3 DEF Writing
  <2>3. QED
    BY <1>1, <1>3, <1>9, <1>12, <2>1, <2>2, StepDone
<1>14. Step(a)' = Say(TRUE)
  BY <1>5, <1>13, Lists
<1>15. Step(a)'.do = "reply"
  BY <1>14 DEF Say
<1>16. a \in hist.crossed => MailLinks \in hist'.raced
  BY <1>2, <1>9 DEF Touch, Crossed
<1>17. \A b \in Slot \ {a} : CountClaim(b)' /\ LinkClaim(b)' /\ OrderClaim(b)'
  BY <1>3, <1>6, <1>13, <1>16, ApartFromLinks
<1>18. CountInv' /\ OrdersFollowLogin'
  BY <1>1, <1>3, <1>9 DEF CountInv, OrdersFollowLogin
<1>19. LinksInv'
  <2>1. SUFFICES ASSUME MailLinks \notin hist'.raced
                 PROVE  LinksInv'
    BY DEF LinksInv
  <2>2. MailLinks \notin hist.raced /\ Alone(a)
    BY <1>3, <1>9, <1>16, <2>1 DEF Alone
  <2>3. \A l \in 1..n : links[l].type # type \/ ~Usable(l)
    BY <1>1, <1>2, <1>3, <2>2 DEF Claims, LinkClaim
  <2>4. \A l \in 1..n : hist.uses[l] <= 1 /\ (Usable(l) => hist.uses[l] = 0)
    BY <1>1, <1>2, <2>2 DEF LinksInv
  <2>5. \A k, l \in 1..n : (links[k].type = links[l].type /\ Usable(k) /\ Usable(l)) => k = l
    BY <1>1, <1>2, <2>2 DEF LinksInv
  <2>6. \A l \in 1..n : (Usable(l)' <=> Usable(l)) /\ links'[l].type = links[l].type
    BY <1>8 DEF Usable
  <2>7. links'[n + 1].type = type
    BY <1>8
  <2>8. \A l \in 1..n + 1 : l \in 1..n \/ l = n + 1
    BY <1>7
  <2>9. \A l \in 1..n + 1 : hist'.uses[l] <= 1 /\ (Usable(l)' => hist'.uses[l] = 0)
    BY <1>10, <2>4, <2>6, <2>8
  <2>10. ASSUME NEW k \in 1..n + 1, NEW l \in 1..n + 1,
                links'[k].type = links'[l].type, Usable(k)', Usable(l)'
         PROVE  k = l
    BY <2>3, <2>5, <2>6, <2>7, <2>8, <2>10
  <2>11. QED
    BY <1>8, <2>9, <2>10 DEF LinksInv
<1>20. CountClaim(a)' /\ LinkClaim(a)' /\ OrderClaim(a)' /\ ResetClaim(a)'
  <2>1. \A o \in req[a].seen : orders[o] # "none"
    BY <1>1, <1>3 DEF Claims, OrderClaim
  <2>2. \A o \in req'[a].seen : orders'[o] # "none"
    BY <1>3, <1>13, <2>1
  <2>3. req'[a].op \notin {"login", "reset", "refresh"}
    BY <1>5, <1>13
  <2>4. QED
    BY <1>15, <2>2, <2>3 DEF CountClaim, LinkClaim, WillUse, OrderClaim, ResetClaim, Opens, Refreshes
<1>21. ~Opens(a)' /\ ~EndsAll(a)
  BY <1>3, <1>15 DEF Opens, EndsAll
<1>22. Step(a)'.do \notin {"refresh", "reuse"} /\ Step(a).do \notin {"rotated", "reply"}
  BY <1>3, <1>15
<1>23. QED
  BY <1>3, <1>9, <1>12, <1>13, <1>17, <1>18, <1>19, <1>20, <1>21, <1>22, RowsStay

\* A request without a row that does nothing more than answer.
LEMMA GivesUp ==
  ASSUME DataInv, DataInv', RequestsInv, Rivalry, NEW a \in Slot, Busy(a), NEW todo,
         Continue(a, todo), todo = Failed \/ (todo = Finish /\ req[a].op # "login"),
         req[a].row = 0, req[a].op # "refresh",
         user # NoUser => user' # NoUser,
         Len(rows) <= Len(rows'), Len(links) <= Len(links'),
         \A s \in 1..Len(rows) :
           rows'[s].family = rows[s].family /\ rows'[s].epoch = rows[s].epoch,
         hist'.crossed = hist.crossed, hist.raced \subseteq hist'.raced
  PROVE  /\ OwnStep(a) /\ StepOf(a)
         /\ Step(a)'.do = "reply" /\ (req[a].op = "login" => ~Step(a)'.ok)
         /\ req'[a].row = req[a].row
         /\ Busy(a)' /\ (Alone(a)' <=> Alone(a))
         /\ req'[a].op = req[a].op /\ req'[a].tab = req[a].tab
         /\ req'[a].about = req[a].about /\ req'[a].seen = req[a].seen
         /\ RequestsInv' /\ Rivalry'
<1>1. RequestInv(req[a], user # NoUser, rows, Len(links))
  BY DEF RequestsInv
<1>2. /\ Len(rows) \in Nat /\ Len(rows') \in Nat
      /\ Len(links) \in Nat /\ Len(links') \in Nat
  BY DEF DataInv
<1>3. RequestInv(req[a], user' # NoUser, rows', Len(links'))
  BY <1>1, <1>2, PlanKept
<1>4. AboutInv(req[a].op, req[a].about, Head(req[a].todo), req[a].row, rows')
  BY <1>3 DEF RequestInv, Busy
<1>5. \E ok \in BOOLEAN : Head(todo) = [do |-> "reply", ok |-> ok] /\ (req[a].op = "login" => ~ok)
  BY Lists DEF Say
<1>6. /\ Head(todo).do = "reply" /\ Head(todo).ok \in BOOLEAN
      /\ req[a].op = "login" => ~Head(todo).ok
  BY <1>5
<1>7. PICK row : row = req[a].row
  OBVIOUS
<1>8. PlanInv(req[a].op, row, Head(todo), Tail(todo), user' # NoUser, rows', Len(links'))
  BY <1>6 DEF PlanInv
<1>9. RowInv(req[a].op, row, Head(todo), rows')
  <2>1. row = 0 /\ 0 \in 0..Len(rows')
    BY <1>2, <1>7
  <2>2. QED
    BY <1>6, <2>1 DEF RowInv
<1>10. AboutInv(req[a].op, req[a].about, Head(todo), row, rows')
  BY <1>4, <1>6, <1>7 DEF AboutInv
<1>11. req' = [req EXCEPT ![a] = Renewed(req[a], row, todo)]
  <2>1. req[a] = Renewed(req[a], req[a].row, req[a].todo)
    BY ShapeOf DEF Renewed
  <2>2. [req[a] EXCEPT !.todo = todo] = Renewed(req[a], req[a].row, todo)
    BY <2>1, Renewal
  <2>3. QED
    BY <1>7, <2>2 DEF Continue
<1>12. /\ OwnStep(a) /\ StepOf(a)
       /\ RequestInv(req'[a], user' # NoUser, rows', Len(links'))
       /\ Step(a)' = Head(todo)
       /\ req'[a].row = row
       /\ Busy(a)' /\ (Alone(a)' <=> Alone(a))
       /\ req'[a].op = req[a].op /\ req'[a].tab = req[a].tab
       /\ req'[a].about = req[a].about /\ req'[a].seen = req[a].seen
  BY <1>3, <1>8, <1>9, <1>10, <1>11, Continues
<1>13. RequestsInv'
  BY <1>2, <1>12, RequestsKept
<1>14. Rivalry'
  BY <1>12, RivalryKept
<1>15. QED
  BY <1>6, <1>7, <1>12, <1>13, <1>14

\* A use of a link is counted; the link may have been dropped meanwhile.
LEMMA UseRecorded ==
  ASSUME DataInv, NEW a \in Slot, Busy(a), DoUseLink(a), NEW l \in 1..Len(links),
         l = Step(a).link
  PROVE  /\ hist'.uses \in Seq(Nat) /\ Len(hist'.uses) = Len(hist.uses)
         /\ hist'.uses[l] = hist.uses[l] + 1
         /\ \A k \in 1..Len(links) : k # l => hist'.uses[k] = hist.uses[k]
         /\ hist.raced \subseteq hist'.raced /\ hist'.crossed = hist.crossed
         /\ a \in hist.crossed => MailLinks \in hist'.raced \/ links[l].state = "gone"
         /\ links[l].state = "gone" => req[a].about \subseteq hist'.raced
         /\ hist'.epoch = hist.epoch /\ hist'.failures = hist.failures
         /\ hist'.shared = hist.shared /\ hist'.over = hist.over
         /\ hist'.alarms = hist.alarms /\ hist'.claimed = hist.claimed
         /\ req[a].about \subseteq Int =>
              hist' \in [epoch : Nat, crossed : SUBSET Slot, raced : SUBSET Int,
                         shared : SUBSET Int, failures : Nat, uses : Seq(Nat),
                         over : SUBSET Int, alarms : SUBSET Int, claimed : SUBSET Order]
<1>1. PICK raced : raced = IF links[l].state = "gone" THEN hist.raced \cup req[a].about
                           ELSE Touch(a, {MailLinks})
  OBVIOUS
<1>2. PICK uses : uses = [hist.uses EXCEPT ![l] = @ + 1]
  OBVIOUS
<1>3. hist' = [hist EXCEPT !.uses = uses, !.raced = raced]
  BY <1>1, <1>2 DEF DoUseLink, Step, Todo
<1>4. /\ hist'.uses = uses /\ hist'.raced = raced
      /\ hist'.crossed = hist.crossed
      /\ hist'.epoch = hist.epoch /\ hist'.failures = hist.failures
      /\ hist'.shared = hist.shared /\ hist'.over = hist.over
      /\ hist'.alarms = hist.alarms /\ hist'.claimed = hist.claimed
  BY <1>3 DEF DataInv
<1>5. /\ uses \in Seq(Nat) /\ Len(uses) = Len(hist.uses)
      /\ uses[l] = hist.uses[l] + 1
      /\ \A k \in 1..Len(links) : k # l => uses[k] = hist.uses[k]
  <2>1. PICK u, n : u = hist.uses /\ n = Len(links)
    OBVIOUS
  <2>2. u \in Seq(Nat) /\ Len(u) = n /\ l \in 1..n /\ n \in Nat
    BY <2>1 DEF DataInv
  <2>3. [u EXCEPT ![l] = @ + 1] \in Seq(Nat)
    BY <2>2
  <2>4. QED
    BY <1>2, <2>1, <2>2, <2>3
<1>6. hist.raced \subseteq raced /\ (a \in hist.crossed => MailLinks \in raced \/ links[l].state = "gone")
      /\ (links[l].state = "gone" => req[a].about \subseteq raced)
  BY <1>1 DEF Touch, Crossed
<1>7. ASSUME req[a].about \subseteq Int
      PROVE  hist' \in [epoch : Nat, crossed : SUBSET Slot, raced : SUBSET Int,
                        shared : SUBSET Int, failures : Nat, uses : Seq(Nat),
                        over : SUBSET Int, alarms : SUBSET Int, claimed : SUBSET Order]
  <2>1. PICK S : S = Seq(Nat)
    OBVIOUS
  <2>2. hist.raced \subseteq Int
    BY DEF DataInv
  <2>3. uses \in S /\ raced \subseteq Int
    BY <1>1, <1>5, <1>7, <2>1, <2>2 DEF Touch, MailLinks
  <2>4. hist \in [epoch : Nat, crossed : SUBSET Slot, raced : SUBSET Int, shared : SUBSET Int,
                  failures : Nat, uses : S, over : SUBSET Int, alarms : SUBSET Int,
                  claimed : SUBSET Order]
    BY <2>1 DEF DataInv
  <2>5. hist' \in [epoch : Nat, crossed : SUBSET Slot, raced : SUBSET Int, shared : SUBSET Int,
                   failures : Nat, uses : S, over : SUBSET Int, alarms : SUBSET Int,
                   claimed : SUBSET Order]
    BY <1>3, <2>3, <2>4
  <2>6. QED
    BY <2>1, <2>5
<1>8. QED
  BY <1>4, <1>5, <1>6, <1>7

\* A link is used, or the save of one that was dropped fails.
LEMMA UseLinkStep ==
  ASSUME IInv, NEW a \in Slot, DoUseLink(a)
  PROVE  IInv'
<1>1. /\ DataInv /\ RequestsInv /\ Rivalry /\ CountInv /\ LinksInv /\ OrdersFollowLogin
      /\ \A b \in Slot : Claims(b)
  BY DEF IInv
<1>2. PICK l : l = Step(a).link
  OBVIOUS
<1>3. /\ Busy(a) /\ Step(a).do = "uselink"
      /\ UNCHANGED <<user, rows, orders, jar, access>>
      /\ IF links[l].state = "gone" THEN Continue(a, Failed) /\ UNCHANGED links
         ELSE links' = [links EXCEPT ![l].state = "used"] /\ Done(a)
  BY <1>2 DEF DoUseLink, Next1, Step, Todo
<1>4. /\ PlanInv(req[a].op, req[a].row, Step(a), Left(a), user # NoUser, rows, Len(links))
      /\ AboutInv(req[a].op, req[a].about, Step(a), req[a].row, rows)
      /\ RowInv(req[a].op, req[a].row, Step(a), rows)
  BY <1>1, <1>3, ShapeOf
<1>5. /\ req[a].op \in {"verify", "reset"} /\ Left(a) = Linked(req[a].op)
      /\ l \in 1..Len(links)
  BY <1>2, <1>3, <1>4 DEF PlanInv
<1>6. Account \in req[a].about /\ MailLinks \in req[a].about /\ req[a].about \subseteq Int
  BY <1>4, <1>5 DEF AboutInv, Account, MailLinks
<1>7. req[a].row = 0
  BY <1>3, <1>4 DEF RowInv
<1>8. /\ hist'.uses \in Seq(Nat) /\ Len(hist'.uses) = Len(hist.uses)
      /\ hist'.uses[l] = hist.uses[l] + 1
      /\ \A k \in 1..Len(links) : k # l => hist'.uses[k] = hist.uses[k]
      /\ hist.raced \subseteq hist'.raced /\ hist'.crossed = hist.crossed
      /\ a \in hist.crossed => MailLinks \in hist'.raced
      /\ links[l].state = "gone" => Account \in hist'.raced /\ MailLinks \in hist'.raced
      /\ hist'.epoch = hist.epoch /\ hist'.failures = hist.failures
      /\ hist'.shared = hist.shared /\ hist'.over = hist.over
      /\ hist'.alarms = hist.alarms /\ hist'.claimed = hist.claimed
      /\ hist' \in [epoch : Nat, crossed : SUBSET Slot, raced : SUBSET Int,
                    shared : SUBSET Int, failures : Nat, uses : Seq(Nat),
                    over : SUBSET Int, alarms : SUBSET Int, claimed : SUBSET Order]
  BY <1>1, <1>2, <1>3, <1>5, <1>6, UseRecorded
<1>9. /\ Len(links') = Len(links) /\ (links' # <<>> => links # <<>>)
      /\ links' \in Seq([type : {"verify", "reset"}, state : {"open", "used", "over", "gone"}])
      /\ \A k \in 1..Len(links) : links'[k].type = links[k].type /\ (k # l => links'[k] = links[k])
      /\ links[l].state # "gone" => links'[l].state = "used"
  <2>1. CASE links[l].state = "gone"
    BY <1>1, <1>3, <2>1 DEF DataInv
  <2>2. CASE links[l].state # "gone"
    <3>1. PICK T, S, n : T = {"verify", "reset"} /\ S = {"open", "used", "over", "gone"}
                         /\ n = Len(links)
      OBVIOUS
    <3>2. links \in Seq([type : T, state : S]) /\ n \in Nat /\ n = Len(links) /\ "used" \in S
          /\ l \in 1..n
      BY <1>1, <1>5, <3>1 DEF DataInv
    <3>3. links' = [links EXCEPT ![l].state = "used"]
      BY <1>3, <2>2
    <3>4. links[l] \in [type : T, state : S]
      BY <1>1, <1>5, <3>1, RowsAndLinks
    <3>5. PICK r : r = [links[l] EXCEPT !.state = "used"]
      OBVIOUS
    <3>6. r \in [type : T, state : S] /\ r.type = links[l].type /\ r.state = "used"
      BY <3>2, <3>4, <3>5
    <3>7. links' = [links EXCEPT ![l] = r]
      BY <3>3, <3>5
    <3>8. /\ links' \in Seq([type : T, state : S]) /\ Len(links') = n
          /\ links'[l] = r /\ \A k \in 1..n : k # l => links'[k] = links[k]
      BY <3>2, <3>6, <3>7
    <3>9. links' # <<>> => links # <<>>
      BY <3>2, <3>8
    <3>10. QED
      BY <3>1, <3>6, <3>8, <3>9
  <2>3. QED
    BY <2>1, <2>2
<1>10. DataInv'
  BY <1>1, <1>3, <1>8, <1>9 DEF DataInv
<1>11. /\ OwnStep(a) /\ StepOf(a) /\ req'[a].row = req[a].row
       /\ Busy(a)' /\ (Alone(a)' <=> Alone(a))
       /\ req'[a].op = req[a].op /\ req'[a].seen = req[a].seen
       /\ req'[a].about = req[a].about /\ RequestsInv'
       /\ links[l].state = "gone" => Step(a)'.do = "reply"
       /\ links[l].state # "gone" => Step(a)'.do = IF req[a].op = "verify" THEN "claim" ELSE "revokeall"
  <2>1. Len(rows) <= Len(rows') /\ Len(links) <= Len(links')
    BY <1>1, <1>3, <1>9 DEF DataInv
  <2>2. CASE links[l].state = "gone"
    <3>1. PICK todo : todo = Failed
      OBVIOUS
    <3>2. Continue(a, todo)
      BY <1>3, <2>2, <3>1
    <3>3. QED
      BY <1>1, <1>3, <1>5, <1>7, <1>8, <1>10, <2>1, <2>2, <3>1, <3>2, GivesUp
  <2>3. CASE links[l].state # "gone"
    <3>1. Step(a).do \in Writing
      BY <1>3 DEF Writing
    <3>2. /\ OwnStep(a) /\ StepOf(a) /\ req'[a].row = req[a].row
          /\ Busy(a)' /\ (Alone(a)' <=> Alone(a))
          /\ req'[a].op = req[a].op /\ req'[a].seen = req[a].seen
          /\ req'[a].about = req[a].about /\ RequestsInv'
          /\ Step(a)' = Head(Left(a))
      BY <1>1, <1>3, <1>8, <1>10, <2>1, <2>3, <3>1, StepDone
    <3>3. Head(Left(a)) = IF req[a].op = "verify" THEN ClaimOrders ELSE [do |-> "revokeall"]
      BY <1>5, Lists
    <3>4. Head(Left(a)).do = IF req[a].op = "verify" THEN "claim" ELSE "revokeall"
      BY <3>3 DEF ClaimOrders
    <3>5. QED
      BY <2>3, <3>2, <3>4
  <2>4. QED
    BY <2>2, <2>3
<1>12. Step(a)'.do \in {"reply", "claim", "revokeall"}
  BY <1>11
<1>13. \A b \in Slot \ {a} : CountClaim(b)' /\ LinkClaim(b)' /\ OrderClaim(b)'
  BY <1>3, <1>6, <1>8, <1>11, ApartFromLinks
<1>14. CountInv' /\ OrdersFollowLogin'
  BY <1>1, <1>3, <1>8 DEF CountInv, OrdersFollowLogin
<1>15. LinksInv'
  <2>1. SUFFICES ASSUME MailLinks \notin hist'.raced
                 PROVE  LinksInv'
    BY DEF LinksInv
  <2>2. MailLinks \notin hist.raced /\ Alone(a) /\ links[l].state # "gone"
    BY <1>3, <1>8, <2>1 DEF Alone
  <2>3. hist.uses[l] = 0
    BY <1>1, <1>2, <1>3, <2>2 DEF Claims, LinkClaim, WillUse, Pending
  <2>4. \A k \in 1..Len(links) : hist.uses[k] <= 1 /\ (Usable(k) => hist.uses[k] = 0)
    BY <1>1, <2>2 DEF LinksInv
  <2>5. \A j, k \in 1..Len(links) : (links[j].type = links[k].type /\ Usable(j) /\ Usable(k)) => j = k
    BY <1>1, <2>2 DEF LinksInv
  <2>6. \A k \in 1..Len(links) : Usable(k)' => Usable(k) /\ k # l
    BY <1>9, <2>2 DEF Usable
  <2>7. \A k \in 1..Len(links') : hist'.uses[k] <= 1 /\ (Usable(k)' => hist'.uses[k] = 0)
    BY <1>8, <1>9, <2>3, <2>4, <2>6
  <2>8. \A j, k \in 1..Len(links') : (links'[j].type = links'[k].type /\ Usable(j)' /\ Usable(k)') => j = k
    BY <1>9, <2>5, <2>6
  <2>9. QED
    BY <2>7, <2>8 DEF LinksInv
<1>16. CountClaim(a)' /\ LinkClaim(a)' /\ OrderClaim(a)'
  <2>1. \A o \in req[a].seen : orders[o] # "none"
    BY <1>1, <1>3 DEF Claims, OrderClaim
  <2>2. \A o \in req'[a].seen : orders'[o] # "none"
    BY <1>3, <1>11, <2>1
  <2>3. req'[a].op \notin {"login", "refresh"}
    BY <1>5, <1>11
  <2>4. QED
    BY <1>12, <2>2, <2>3 DEF CountClaim, LinkClaim, WillUse, OrderClaim
<1>17. ResetClaim(a)'
  <2>1. ResetClaim(a)
    BY <1>1 DEF Claims
  <2>2. req'[a].op \notin {"login", "refresh"}
    BY <1>5, <1>11
  <2>3. QED
    BY <1>3, <1>8, <1>11, <2>1, <2>2 DEF ResetClaim, Opens, Refreshes, Old
<1>18. ~Opens(a)'
  BY <1>12 DEF Opens
<1>19. Account \notin hist'.raced => hist'.epoch = hist.epoch /\ (EndsAll(a) => EndsAll(a)')
  BY <1>8, <1>11 DEF EndsAll
<1>20. Step(a)'.do \notin {"refresh", "reuse"} /\ Step(a).do \notin {"rotated", "reply"}
  BY <1>3, <1>12
<1>21. QED
  BY <1>3, <1>8, <1>10, <1>11, <1>13, <1>14, <1>15, <1>16, <1>17, <1>18, <1>19, <1>20, RowsStay

\* What others read of the account and its links holds while a request writes the
\* account.
LEMMA ApartFromAccount ==
  ASSUME IInv, NEW a \in Slot, StepOf(a), Busy(a), links' = links, orders' = orders,
         Account \in req[a].about, hist'.uses = hist.uses
  PROVE  \A b \in Slot \ {a} : CountClaim(b)' /\ LinkClaim(b)' /\ OrderClaim(b)'
<1>1. /\ DataInv /\ RequestsInv /\ Rivalry /\ \A b \in Slot : Claims(b)
  BY DEF IInv
<1>2. ASSUME NEW b \in Slot \ {a}
      PROVE  CountClaim(b)' /\ LinkClaim(b)' /\ OrderClaim(b)'
  <2>1. Stays(b) /\ Claims(b)
    BY <1>1 DEF StepOf
  <2>2. ~(Alone(b) /\ Account \in req[b].about)
    BY <1>1 DEF Rivalry, Alone
  <2>3. CountClaim(b)'
    BY <1>1, <2>1, <2>2, CountKept DEF Claims
  <2>4. LinkClaim(b)'
    <3>1. \A l \in 1..Len(links') : Usable(l)' =>
            l \in 1..Len(links) /\ Usable(l) /\ links'[l].type = links[l].type
      BY DEF Usable
    <3>2. QED
      BY <1>1, <2>1, <3>1, LinkKept DEF Claims
  <2>5. OrderClaim(b)'
    BY <1>1, <2>1, <2>2, OrderKept DEF Claims
  <2>6. QED
    BY <2>3, <2>4, <2>5
<1>3. QED
  BY <1>2

\* The account is created; the index on the address refuses a second one.
LEMMA NewUserStep ==
  ASSUME IInv, NEW a \in Slot, DoNewUser(a)
  PROVE  IInv'
<1>1. /\ DataInv /\ RequestsInv /\ Rivalry /\ CountInv /\ LinksInv /\ OrdersFollowLogin
      /\ \A b \in Slot : Claims(b)
  BY DEF IInv
<1>2. /\ Busy(a) /\ Step(a).do = "newuser"
      /\ UNCHANGED <<rows, links, orders, jar, access, hist>>
      /\ IF user = NoUser THEN user' = Step(a).is /\ Done(a)
         ELSE Continue(a, Failed) /\ UNCHANGED user
  BY DEF DoNewUser, Next1, Step, Todo
<1>3. /\ PlanInv(req[a].op, req[a].row, Step(a), Left(a), user # NoUser, rows, Len(links))
      /\ AboutInv(req[a].op, req[a].about, Step(a), req[a].row, rows)
      /\ RowInv(req[a].op, req[a].row, Step(a), rows)
  BY <1>1, <1>2, ShapeOf
<1>4. /\ req[a].op \in {"register", "login"} /\ Step(a).is \in Fields /\ Step(a).is.attempts = 0
      /\ req[a].op = "register" => Left(a) = Mailing("verify")
      /\ req[a].op = "login" => WillOpen(Left(a), Step(a).is.verified)
  BY <1>2, <1>3 DEF PlanInv
<1>5. Account \in req[a].about /\ req[a].row = 0
  BY <1>2, <1>3, <1>4 DEF AboutInv, RowInv
<1>6. Len(rows) <= Len(rows') /\ Len(links) <= Len(links')
  BY <1>1, <1>2 DEF DataInv
<1>7. user' # NoUser /\ (user' = user \/ user' \in Fields)
  BY <1>2, <1>4, NobodyAssumption
<1>8. DataInv'
  <2>1. user' # NoUser => user' \in Fields
    BY <1>1, <1>2, <1>4 DEF DataInv
  <2>2. QED
    BY <1>1, <1>2, <1>7, <2>1 DEF DataInv
<1>9. /\ OwnStep(a) /\ StepOf(a) /\ req'[a].row = req[a].row
      /\ Busy(a)' /\ (Alone(a)' <=> Alone(a))
      /\ req'[a].op = req[a].op /\ req'[a].seen = req[a].seen
      /\ req'[a].about = req[a].about /\ RequestsInv'
      /\ IF user = NoUser THEN Step(a)' = Head(Left(a)) /\ Left(a)' = Tail(Left(a))
         ELSE Step(a)'.do = "reply" /\ (req[a].op = "login" => ~Step(a)'.ok)
  <2>1. CASE user = NoUser
    <3>1. Step(a).do \in Writing
      BY <1>2 DEF Writing
    <3>2. QED
      BY <1>1, <1>2, <1>6, <1>7, <1>8, <2>1, <3>1, StepDone
  <2>2. CASE user # NoUser
    <3>1. PICK todo : todo = Failed
      OBVIOUS
    <3>2. Continue(a, todo) /\ req[a].op # "refresh"
      BY <1>2, <1>4, <2>2, <3>1
    <3>3. QED
      BY <1>1, <1>2, <1>5, <1>6, <1>7, <1>8, <2>2, <3>1, <3>2, GivesUp
  <2>3. QED
    BY <2>1, <2>2
<1>10. \/ user = NoUser /\ req[a].op = "register" /\ Step(a)'.do = "droplinks"
       \/ /\ user = NoUser /\ req[a].op = "login" /\ Step(a)'.do = "open"
          /\ Step(a)' = Head(Left(a)) /\ Left(a) # Failed
          /\ user'.verified => Left(a)' = After(TRUE)
       \/ user # NoUser /\ Step(a)'.do = "reply" /\ (req[a].op = "login" => ~Step(a)'.ok)
  <2>1. CASE user = NoUser /\ req[a].op = "register"
    <3>1. Head(Left(a)) = DropLinks("verify")
      BY <1>4, <2>1, Lists
    <3>2. QED
      BY <1>9, <2>1, <3>1 DEF DropLinks
  <2>2. CASE user = NoUser /\ req[a].op = "login"
    <3>1. PICK c, left : c = Step(a).is.verified /\ left = Left(a)
      OBVIOUS
    <3>2. WillOpen(left, c) /\ c \in BOOLEAN
      BY <1>4, <2>2, <3>1 DEF Fields
    <3>3. PICK e \in Nat : left = Opening(e, c)
      BY <3>2 DEF WillOpen
    <3>4. Head(left) = Open(0, e) /\ Tail(left) = After(c)
      BY <3>2, <3>3, Lists
    <3>5. Head(left).do = "open"
      BY <3>4 DEF Open
    <3>6. left # Failed
      <4>1. Head(Failed) = Say(FALSE)
        BY Lists
      <4>2. Head(Failed).do = "reply"
        BY <4>1 DEF Say
      <4>3. QED
        BY <3>5, <4>2
    <3>7. user'.verified = c
      BY <1>2, <2>2, <3>1
    <3>8. user'.verified => Left(a)' = After(TRUE)
      BY <1>9, <2>2, <3>1, <3>2, <3>4, <3>7
    <3>9. QED
      BY <1>9, <2>2, <3>1, <3>5, <3>6, <3>8
  <2>3. CASE user # NoUser
    BY <1>9, <2>3
  <2>4. QED
    BY <1>4, <2>1, <2>2, <2>3
<1>11. Step(a)'.do \in {"droplinks", "open", "reply"}
  BY <1>10
<1>12. \A b \in Slot \ {a} : CountClaim(b)' /\ LinkClaim(b)' /\ OrderClaim(b)'
  BY <1>2, <1>5, <1>9, ApartFromAccount
<1>13. CountInv'
  <2>1. user = NoUser => user'.attempts = 0
    BY <1>2, <1>4
  <2>2. QED
    BY <1>1, <1>2, <1>7, <2>1, SessionAssumption DEF CountInv
<1>14. LinksInv' /\ OrdersFollowLogin'
  BY <1>1, <1>2 DEF LinksInv, OrdersFollowLogin, Usable
<1>15. CountClaim(a)' /\ LinkClaim(a)'
  BY <1>11 DEF CountClaim, LinkClaim, WillUse
<1>16. OrderClaim(a)'
  <2>1. \A o \in req[a].seen : orders[o] # "none"
    BY <1>1, <1>2 DEF Claims, OrderClaim
  <2>2. \A o \in req'[a].seen : orders'[o] # "none"
    BY <1>2, <1>9, <2>1
  <2>3. (Alone(a)' /\ req'[a].op = "login") =>
          /\ Step(a)'.do # "user"
          /\ Step(a)'.do = "open" => Left(a)' = After(TRUE) \/ ~user'.verified
          /\ Step(a)'.do = "reply" => ~Step(a)'.ok
    BY <1>9, <1>10
  <2>4. QED
    BY <2>2, <2>3 DEF OrderClaim
<1>17. ResetClaim(a)' /\ ~Opens(a)'
  <2>1. ResetClaim(a)
    BY <1>1 DEF Claims
  <2>2. req'[a].op \notin {"reset", "refresh"}
    BY <1>4, <1>9
  <2>3. (Account \notin hist.raced /\ req[a].op = "login" /\ Step(a)'.do = "open") =>
          Step(a)'.epoch = hist.epoch
    BY <1>2, <1>10, <2>1 DEF ResetClaim
  <2>4. Step(a)'.do \notin {"user", "newuser"}
    BY <1>11
  <2>5. QED
    BY <1>2, <1>9, <2>2, <2>3, <2>4 DEF ResetClaim, Opens, Refreshes
<1>18. ~EndsAll(a)
  BY <1>2 DEF EndsAll
<1>19. Step(a)'.do \notin {"refresh", "reuse"} /\ Step(a).do \notin {"rotated", "reply"}
  BY <1>2, <1>11
<1>20. QED
  BY <1>2, <1>8, <1>9, <1>12, <1>13, <1>14, <1>15, <1>16, <1>17, <1>18, <1>19, RowsStay

\* The account after a save of the fields of a patch.
Patch(set) == [f \in DOMAIN user |-> IF f \in DOMAIN set THEN set[f] ELSE user[f]]

\* What a save makes of the account.
LEMMA Patched ==
  ASSUME user \in Fields, NEW fact, NEW set, PatchInv(fact, set), NEW to,
         to = Patch(set)
  PROVE  /\ to \in Fields
         /\ to.attempts = IF "attempts" \in DOMAIN set THEN set.attempts ELSE user.attempts
         /\ to.locked = IF "locked" \in DOMAIN set THEN set.locked ELSE user.locked
         /\ to.verified = IF "verified" \in DOMAIN set THEN TRUE ELSE user.verified
         /\ fact \in {"failure", "success", "google", "verify", "reset"}
         /\ fact \in {"google", "verify"} => "attempts" \notin DOMAIN set
<1>1. DOMAIN user = {"pw", "google", "privileged", "verified", "attempts", "locked"}
  BY DEF Fields
<1>2. /\ user.pw \in Password \cup {NoPassword} /\ user.google \in BOOLEAN
      /\ user.privileged \in BOOLEAN /\ user.verified \in BOOLEAN
      /\ user.attempts \in 0..MaxAttempts - 1 /\ user.locked \in {"no", "on", "over"}
  BY DEF Fields
<1>3. /\ "attempts" \in DOMAIN set => set.attempts \in 0..MaxAttempts - 1
      /\ "locked" \in DOMAIN set => set.locked \in {"no", "on", "over"}
      /\ "google" \in DOMAIN set => set.google = TRUE
      /\ "verified" \in DOMAIN set => set.verified = TRUE
      /\ "pw" \in DOMAIN set => set.pw \in Password
  BY DEF PatchInv
<1>4. "privileged" \notin DOMAIN set
  BY DEF PatchInv, Writable
<1>5. DOMAIN to = {"pw", "google", "privileged", "verified", "attempts", "locked"}
  BY <1>1 DEF Patch
<1>6. /\ to.attempts = IF "attempts" \in DOMAIN set THEN set.attempts ELSE user.attempts
      /\ to.locked = IF "locked" \in DOMAIN set THEN set.locked ELSE user.locked
      /\ to.pw = IF "pw" \in DOMAIN set THEN set.pw ELSE user.pw
      /\ to.google = IF "google" \in DOMAIN set THEN set.google ELSE user.google
      /\ to.verified = IF "verified" \in DOMAIN set THEN set.verified ELSE user.verified
      /\ to.privileged = IF "privileged" \in DOMAIN set THEN set.privileged ELSE user.privileged
  BY <1>1 DEF Patch
<1>7. /\ to.pw \in Password \cup {NoPassword} /\ to.privileged \in BOOLEAN
      /\ to.attempts \in 0..MaxAttempts - 1 /\ to.locked \in {"no", "on", "over"}
  BY <1>2, <1>3, <1>4, <1>6
<1>8. to.verified = (IF "verified" \in DOMAIN set THEN TRUE ELSE user.verified)
  <2>1. CASE "verified" \in DOMAIN set
    BY <1>3, <1>6, <2>1
  <2>2. CASE "verified" \notin DOMAIN set
    BY <1>6, <2>2
  <2>3. QED
    BY <2>1, <2>2
<1>9. to.google \in BOOLEAN
  <2>1. CASE "google" \in DOMAIN set
    BY <1>3, <1>6, <2>1
  <2>2. CASE "google" \notin DOMAIN set
    BY <1>2, <1>6, <2>2
  <2>3. QED
    BY <2>1, <2>2
<1>10. to.verified \in BOOLEAN
  BY <1>2, <1>8
<1>11. to = [pw |-> to.pw, google |-> to.google, privileged |-> to.privileged,
             verified |-> to.verified, attempts |-> to.attempts, locked |-> to.locked]
  BY <1>5 DEF Patch
<1>12. to \in Fields
  BY <1>7, <1>9, <1>10, <1>11 DEF Fields
<1>13. /\ fact \in {"failure", "success", "google", "verify", "reset"}
       /\ fact \in {"google", "verify"} => "attempts" \notin DOMAIN set
  BY DEF PatchInv, Writable
<1>14. QED
  BY <1>6, <1>8, <1>12, <1>13

\* A save is counted.
LEMMA SaveRecorded ==
  ASSUME DataInv, NEW a \in Slot, DoUser(a), NEW fact, fact = Step(a).fact
  PROVE  /\ hist.raced \subseteq hist'.raced /\ hist'.crossed = hist.crossed
         /\ a \in hist.crossed => Account \in hist'.raced
         /\ hist'.failures = IF fact = "failure" THEN IF user'.locked = "on" THEN 0
                                                      ELSE hist.failures + 1
                             ELSE IF fact \in {"success", "reset"} THEN 0 ELSE hist.failures
         /\ hist'.epoch = IF fact = "reset" THEN hist.epoch + 1 ELSE hist.epoch
         /\ hist'.uses = hist.uses
         /\ hist'.shared = hist.shared /\ hist'.over = hist.over
         /\ hist'.alarms = hist.alarms /\ hist'.claimed = hist.claimed
         /\ hist' \in [epoch : Nat, crossed : SUBSET Slot, raced : SUBSET Int,
                       shared : SUBSET Int, failures : Nat, uses : Seq(Nat),
                       over : SUBSET Int, alarms : SUBSET Int, claimed : SUBSET Order]
<1>1. PICK raced : raced = Touch(a, {Account})
  OBVIOUS
<1>2. PICK failures : failures = IF fact = "failure" THEN IF user'.locked = "on" THEN 0
                                                          ELSE hist.failures + 1
                                 ELSE IF fact \in {"success", "reset"} THEN 0
                                 ELSE hist.failures
  OBVIOUS
<1>3. PICK epoch : epoch = IF fact = "reset" THEN hist.epoch + 1 ELSE hist.epoch
  OBVIOUS
<1>4. hist' = [hist EXCEPT !.raced = raced, !.failures = failures, !.epoch = epoch]
  BY <1>1, <1>2, <1>3 DEF DoUser, Step, Todo
<1>5. hist.raced \subseteq Int /\ hist.failures \in Nat /\ hist.epoch \in Nat
  BY DEF DataInv
<1>6. raced \subseteq Int /\ failures \in Nat /\ epoch \in Nat
  BY <1>1, <1>2, <1>3, <1>5 DEF Touch, Account
<1>7. hist.raced \subseteq raced /\ (a \in hist.crossed => Account \in raced)
  BY <1>1 DEF Touch, Crossed
<1>8. PICK S : S = Seq(Nat)
  OBVIOUS
<1>9. hist \in [epoch : Nat, crossed : SUBSET Slot, raced : SUBSET Int, shared : SUBSET Int,
                failures : Nat, uses : S, over : SUBSET Int, alarms : SUBSET Int,
                claimed : SUBSET Order]
  BY <1>8 DEF DataInv
<1>10. /\ hist' \in [epoch : Nat, crossed : SUBSET Slot, raced : SUBSET Int,
                     shared : SUBSET Int, failures : Nat, uses : S,
                     over : SUBSET Int, alarms : SUBSET Int, claimed : SUBSET Order]
       /\ hist'.raced = raced /\ hist'.failures = failures /\ hist'.epoch = epoch
       /\ hist'.crossed = hist.crossed /\ hist'.uses = hist.uses
       /\ hist'.shared = hist.shared /\ hist'.over = hist.over
       /\ hist'.alarms = hist.alarms /\ hist'.claimed = hist.claimed
  BY <1>4, <1>6, <1>9
<1>11. QED
  BY <1>2, <1>3, <1>7, <1>8, <1>10

\* A reset nobody disturbed is about every session, so that nobody else is.
LEMMA ResetIsApart ==
  ASSUME IInv, NEW a \in Slot, Alone(a), req[a].op = "reset", Account \notin hist.raced,
         NEW b \in Slot, b # a, Busy(b)
  PROVE  req[b].op \notin {"login", "reset"} /\ ~Opens(b)
<1>1. /\ RequestsInv /\ Rivalry /\ FamiliesInv /\ ResetClaim(a)
  BY DEF IInv, Claims
<1>2. req[a].about \cap req[b].about = {}
  BY <1>1 DEF Rivalry, Alone
<1>3. Busy(a) /\ Account \in req[a].about
  BY <1>1, WhoWrites DEF Alone
<1>4. req[b].op \notin {"login", "reset"}
  BY <1>1, <1>2, <1>3, WhoWrites
<1>5. ASSUME Opens(b)
      PROVE  FALSE
  <2>1. PICK f : f = Step(b).family
    OBVIOUS
  <2>2. PICK s \in 1..Len(rows) : s = Head(Left(b)).row
    BY <1>1, <1>5, WhoWrites
  <2>3. f \in 1..Len(rows) /\ f \in req[b].about /\ f = rows[s].family
    BY <1>1, <1>5, <2>1, <2>2, WhoWrites
  <2>4. rows[f].family = f
    BY <1>1, <2>2, <2>3 DEF FamiliesInv
  <2>5. f \in req[a].about
    BY <1>1, <1>3, <2>3, <2>4 DEF ResetClaim, Alone
  <2>6. QED
    BY <1>2, <2>3, <2>5
<1>6. QED
  BY <1>4, <1>5

\* What follows a save of the account.
LEMMA AfterSave ==
  ASSUME DataInv, RequestsInv, NEW a \in Slot, Busy(a), Step(a).do = "user",
         NEW fact, fact = Step(a).fact, NEW next, next = Head(Left(a))
  PROVE  \/ /\ fact \in {"failure", "google"} /\ req[a].op = "login"
            /\ next.do = "reply" /\ ~next.ok
         \/ /\ fact \in {"success", "google"} /\ req[a].op = "login"
            /\ next.do = "open" /\ Left(a) # Failed
            /\ WillOpen(Left(a), TRUE) => Tail(Left(a)) = After(TRUE)
         \/ /\ fact \in {"verify", "reset"} /\ req[a].op = fact
            /\ next.do = "uselink" /\ next.link = Head(Left(a)).link
<1>1. PlanInv(req[a].op, req[a].row, Step(a), Left(a), user # NoUser, rows, Len(links))
  BY ShapeOf
<1>2. PICK left : left = Left(a)
  OBVIOUS
<1>3. \/ fact \in {"failure", "google"} /\ req[a].op = "login" /\ left = Failed
      \/ /\ fact \in {"success", "google"} /\ req[a].op = "login"
         /\ \E c \in BOOLEAN : WillOpen(left, c)
      \/ /\ fact \in {"verify", "reset"} /\ req[a].op = fact
         /\ Head(left).link \in 1..Len(links) /\ left = Linking(Head(left).link, req[a].op)
  BY <1>1, <1>2 DEF PlanInv
<1>4. CASE fact \in {"failure", "google"} /\ req[a].op = "login" /\ left = Failed
  <2>1. next = Say(FALSE)
    BY <1>2, <1>4, Lists
  <2>2. next.do = "reply" /\ ~next.ok
    BY <2>1 DEF Say
  <2>3. QED
    BY <1>4, <2>2
<1>5. ASSUME fact \in {"success", "google"}, req[a].op = "login",
             NEW c \in BOOLEAN, WillOpen(left, c)
      PROVE  next.do = "open" /\ left # Failed /\ (WillOpen(left, TRUE) => Tail(left) = After(TRUE))
  <2>1. ASSUME NEW d \in BOOLEAN, WillOpen(left, d)
        PROVE  Head(left).do = "open" /\ Tail(left) = After(d)
    <3>1. PICK e \in Nat : left = Opening(e, d)
      BY <2>1 DEF WillOpen
    <3>2. Head(left) = Open(0, e) /\ Tail(left) = After(d)
      BY <2>1, <3>1, Lists
    <3>3. QED
      BY <3>2 DEF Open
  <2>2. next.do = "open"
    BY <1>2, <1>5, <2>1
  <2>3. left # Failed
    <3>1. Head(Failed) = Say(FALSE)
      BY Lists
    <3>2. Head(Failed).do = "reply"
      BY <3>1 DEF Say
    <3>3. QED
      BY <1>2, <2>2, <3>2
  <2>4. QED
    BY <2>1, <2>2, <2>3
<1>6. CASE /\ fact \in {"verify", "reset"} /\ req[a].op = fact
           /\ Head(left).link \in 1..Len(links)
           /\ left = Linking(Head(left).link, req[a].op)
  <2>1. PICK l : l = Head(left).link
    OBVIOUS
  <2>2. Head(left) = UseLink(l)
    <3>1. left = Linking(l, req[a].op)
      BY <1>6, <2>1
    <3>2. Head(Linking(l, req[a].op)) = UseLink(l)
      BY Lists
    <3>3. QED
      BY <3>1, <3>2
  <2>3. next.do = "uselink" /\ next.link = l
    BY <1>2, <2>2 DEF UseLink
  <2>4. QED
    BY <1>2, <1>6, <2>1, <2>3
<1>7. QED
  BY <1>2, <1>3, <1>4, <1>5, <1>6

\* The account is saved: failures are counted, passwords reset, addresses verified.
LEMMA UserStep ==
  ASSUME IInv, NEW a \in Slot, DoUser(a)
  PROVE  IInv'
<1>1. /\ DataInv /\ RequestsInv /\ Rivalry /\ CountInv /\ LinksInv /\ OrdersFollowLogin
      /\ \A b \in Slot : Claims(b)
  BY DEF IInv
<1>2. PICK fact, set : fact = Step(a).fact /\ set = Step(a).set
  OBVIOUS
<1>3. /\ Busy(a) /\ Step(a).do = "user" /\ Done(a)
      /\ UNCHANGED <<rows, links, orders, jar, access>>
      /\ user' = [f \in DOMAIN user |-> IF f \in DOMAIN set THEN set[f] ELSE user[f]]
  BY <1>2 DEF DoUser, Next1, Step, Todo
<1>4. /\ PlanInv(req[a].op, req[a].row, Step(a), Left(a), user # NoUser, rows, Len(links))
      /\ AboutInv(req[a].op, req[a].about, Step(a), req[a].row, rows)
  BY <1>1, <1>3, ShapeOf
<1>5. user # NoUser /\ PatchInv(fact, set)
  BY <1>2, <1>3, <1>4 DEF PlanInv
<1>6. user \in Fields
  BY <1>1, <1>5 DEF DataInv
<1>7. /\ user' \in Fields
      /\ user'.attempts = IF "attempts" \in DOMAIN set THEN set.attempts ELSE user.attempts
      /\ user'.locked = IF "locked" \in DOMAIN set THEN set.locked ELSE user.locked
      /\ user'.verified = IF "verified" \in DOMAIN set THEN TRUE ELSE user.verified
      /\ fact \in {"failure", "success", "google", "verify", "reset"}
      /\ fact \in {"google", "verify"} => "attempts" \notin DOMAIN set
  <2>1. PICK to : to = user'
    OBVIOUS
  <2>2. to = Patch(set)
    BY <1>3, <2>1 DEF Patch
  <2>3. /\ to \in Fields
        /\ to.attempts = IF "attempts" \in DOMAIN set THEN set.attempts ELSE user.attempts
        /\ to.locked = IF "locked" \in DOMAIN set THEN set.locked ELSE user.locked
        /\ to.verified = IF "verified" \in DOMAIN set THEN TRUE ELSE user.verified
        /\ fact \in {"failure", "success", "google", "verify", "reset"}
        /\ fact \in {"google", "verify"} => "attempts" \notin DOMAIN set
    BY <1>5, <1>6, <2>2, Patched
  <2>4. QED
    BY <2>1, <2>3
<1>8. user' # NoUser
  BY <1>7, NobodyAssumption
<1>9. /\ hist.raced \subseteq hist'.raced /\ hist'.crossed = hist.crossed
      /\ a \in hist.crossed => Account \in hist'.raced
      /\ hist'.failures = IF fact = "failure" THEN IF user'.locked = "on" THEN 0
                                                   ELSE hist.failures + 1
                          ELSE IF fact \in {"success", "reset"} THEN 0 ELSE hist.failures
      /\ hist'.epoch = IF fact = "reset" THEN hist.epoch + 1 ELSE hist.epoch
      /\ hist'.uses = hist.uses
      /\ hist'.shared = hist.shared /\ hist'.over = hist.over
      /\ hist'.alarms = hist.alarms /\ hist'.claimed = hist.claimed
      /\ hist' \in [epoch : Nat, crossed : SUBSET Slot, raced : SUBSET Int,
                    shared : SUBSET Int, failures : Nat, uses : Seq(Nat),
                    over : SUBSET Int, alarms : SUBSET Int, claimed : SUBSET Order]
  BY <1>1, <1>2, SaveRecorded
<1>10. DataInv'
  BY <1>1, <1>3, <1>7, <1>8, <1>9 DEF DataInv
<1>11. /\ OwnStep(a) /\ StepOf(a) /\ Step(a)' = Head(Left(a)) /\ Left(a)' = Tail(Left(a))
       /\ req'[a].row = req[a].row
       /\ Busy(a)' /\ (Alone(a)' <=> Alone(a))
       /\ req'[a].op = req[a].op /\ req'[a].seen = req[a].seen
       /\ req'[a].about = req[a].about /\ RequestsInv'
  <2>1. Len(rows) <= Len(rows') /\ Len(links) <= Len(links')
    BY <1>1, <1>3 DEF DataInv
  <2>2. Step(a).do \in Writing
    BY <1>3 DEF Writing
  <2>3. QED
    BY <1>1, <1>3, <1>8, <1>9, <1>10, <2>1, <2>2, StepDone
<1>12. \/ /\ fact \in {"failure", "google"} /\ req[a].op = "login"
          /\ Step(a)'.do = "reply" /\ ~Step(a)'.ok
       \/ /\ fact \in {"success", "google"} /\ req[a].op = "login"
          /\ Step(a)'.do = "open" /\ Left(a) # Failed
          /\ WillOpen(Left(a), TRUE) => Left(a)' = After(TRUE)
       \/ /\ fact \in {"verify", "reset"} /\ req[a].op = fact
          /\ Step(a)'.do = "uselink" /\ Step(a)'.link = Head(Left(a)).link
  <2>1. PICK next : next = Head(Left(a))
    OBVIOUS
  <2>2. \/ /\ fact \in {"failure", "google"} /\ req[a].op = "login"
           /\ next.do = "reply" /\ ~next.ok
        \/ /\ fact \in {"success", "google"} /\ req[a].op = "login"
           /\ next.do = "open" /\ Left(a) # Failed
           /\ WillOpen(Left(a), TRUE) => Tail(Left(a)) = After(TRUE)
        \/ /\ fact \in {"verify", "reset"} /\ req[a].op = fact
           /\ next.do = "uselink" /\ next.link = Head(Left(a)).link
    BY <1>1, <1>2, <1>3, <2>1, AfterSave
  <2>3. Step(a)' = next /\ Left(a)' = Tail(Left(a))
    BY <1>11, <2>1
  <2>4. QED
    BY <2>2, <2>3
<1>13. Step(a)'.do \in {"reply", "open", "uselink"} /\ req[a].op \in {"login", "verify", "reset"}
  BY <1>12
<1>14. Account \in req[a].about
  BY <1>4, <1>13 DEF AboutInv
<1>15. \A b \in Slot \ {a} : CountClaim(b)' /\ LinkClaim(b)' /\ OrderClaim(b)'
  BY <1>3, <1>9, <1>11, <1>14, ApartFromAccount
<1>16. CountInv'
  <2>1. SUFFICES ASSUME Account \notin hist'.raced
                 PROVE  user'.attempts = hist'.failures /\ hist'.failures < MaxAttempts
    BY <1>8 DEF CountInv
  <2>2. Alone(a) /\ Account \notin hist.raced
    BY <1>3, <1>9, <2>1 DEF Alone
  <2>3. user.attempts = hist.failures /\ hist.failures < MaxAttempts /\ hist.failures \in Nat
    BY <1>1, <1>5, <2>2 DEF CountInv, DataInv
  <2>4. MaxAttempts \in Nat \ {0}
    BY SessionAssumption
  <2>5. CountClaim(a)
    BY <1>1 DEF Claims
  <2>6. CASE fact = "failure"
    <3>1. /\ user.locked # "on"
          /\ IF user.attempts + 1 >= MaxAttempts
             THEN /\ "locked" \in DOMAIN set /\ set.locked = "on"
                  /\ IF "attempts" \in DOMAIN set THEN set.attempts = 0 ELSE user.attempts = 0
             ELSE DOMAIN set = {"attempts"} /\ set.attempts = user.attempts + 1
      BY <1>2, <1>3, <2>2, <2>5, <2>6 DEF CountClaim
    <3>2. CASE user.attempts + 1 >= MaxAttempts
      BY <1>7, <1>9, <2>4, <2>6, <3>1, <3>2
    <3>3. CASE ~(user.attempts + 1 >= MaxAttempts)
      <4>1. user'.attempts = user.attempts + 1 /\ user'.locked = user.locked
        BY <1>7, <3>1, <3>3
      <4>2. hist'.failures = hist.failures + 1
        BY <1>9, <2>6, <3>1, <4>1
      <4>3. QED
        BY <2>3, <2>4, <3>3, <4>1, <4>2
    <3>4. QED
      BY <3>2, <3>3
  <2>7. CASE fact \in {"success", "reset"}
    <3>1. IF "attempts" \in DOMAIN set THEN set.attempts = 0 ELSE user.attempts = 0
      BY <1>2, <1>3, <2>2, <2>5, <2>7 DEF CountClaim
    <3>2. QED
      BY <1>7, <1>9, <2>4, <2>7, <3>1
  <2>8. CASE fact \in {"google", "verify"}
    BY <1>7, <1>9, <2>3, <2>8
  <2>9. QED
    BY <1>7, <2>6, <2>7, <2>8
<1>17. LinksInv' /\ OrdersFollowLogin'
  BY <1>1, <1>3, <1>9 DEF LinksInv, OrdersFollowLogin, Usable
<1>18. CountClaim(a)'
  BY <1>13 DEF CountClaim
<1>19. LinkClaim(a)'
  <2>1. SUFFICES ASSUME Alone(a)', MailLinks \notin hist'.raced, WillUse(a)'
                 PROVE  hist'.uses[Pending(a)'] = 0
    BY <1>13 DEF LinkClaim
  <2>2. Alone(a) /\ MailLinks \notin hist.raced
    BY <1>9, <1>11, <2>1
  <2>3. Step(a)'.do = "uselink" /\ Step(a)'.link = Head(Left(a)).link
        /\ req[a].op \in {"verify", "reset"}
    BY <1>12, <1>13, <2>1 DEF WillUse
  <2>4. hist.uses[Head(Left(a)).link] = 0
    BY <1>1, <1>3, <2>2, <2>3 DEF Claims, LinkClaim, WillUse, Pending
  <2>5. QED
    BY <1>9, <2>3, <2>4 DEF Pending
<1>20. OrderClaim(a)'
  <2>1. OrderClaim(a)
    BY <1>1 DEF Claims
  <2>2. \A o \in req'[a].seen : orders'[o] # "none"
    BY <1>3, <1>11, <2>1 DEF OrderClaim
  <2>3. ASSUME Alone(a)', req'[a].op = "login"
        PROVE  /\ Step(a)'.do # "user"
               /\ Step(a)'.do = "open" => Left(a)' = After(TRUE) \/ ~user'.verified
               /\ Step(a)'.do = "reply" => ~Step(a)'.ok
    <3>1. Alone(a) /\ req[a].op = "login"
      BY <1>11, <2>3
    <3>2. Left(a) # Failed => WillOpen(Left(a), TRUE) \/ (~user.verified /\ "verified" \notin DOMAIN set)
      BY <1>2, <1>3, <2>1, <3>1 DEF OrderClaim
    <3>3. QED
      BY <1>7, <1>12, <3>1, <3>2
  <2>4. QED
    BY <2>2, <2>3 DEF OrderClaim
<1>21. ResetClaim(a)'
  <2>1. SUFFICES ASSUME Account \notin hist'.raced
                 PROVE  ResetClaim(a)'
    BY DEF ResetClaim
  <2>2. Account \notin hist.raced /\ ResetClaim(a) /\ Alone(a)
    BY <1>1, <1>3, <1>9, <2>1 DEF Claims, Alone
  <2>3. ASSUME req[a].op = "login", Step(a)'.do = "open"
        PROVE  Step(a)'.epoch = hist'.epoch
    <3>1. Left(a) # Failed /\ fact # "reset"
      BY <1>12, <2>3
    <3>2. Head(Left(a)).epoch = hist.epoch
      BY <1>3, <2>2, <2>3, <3>1 DEF ResetClaim
    <3>3. QED
      BY <1>9, <1>11, <3>1, <3>2
  <2>4. req[a].op = "reset" =>
          \A f \in 1..Len(rows) : ~(rows[f].family = f /\ f \notin req[a].about)
    BY <1>3, <2>2 DEF ResetClaim, Alone
  <2>5. Step(a)'.do \notin {"user", "newuser"} /\ req'[a].op # "refresh"
    BY <1>11, <1>13
  <2>6. QED
    BY <1>3, <1>11, <2>3, <2>4, <2>5 DEF ResetClaim, Opens, Refreshes
<1>22. ~Opens(a)' /\ ~EndsAll(a)
  BY <1>3, <1>11, <1>13 DEF Opens, Refreshes, EndsAll
<1>23. \/ Account \notin hist'.raced => hist'.epoch = hist.epoch /\ (EndsAll(a) => EndsAll(a)')
       \/ ResetInv' /\ \A b \in Slot \ {a} : ResetClaim(b)'
  <2>1. CASE fact # "reset" \/ Account \in hist'.raced
    BY <1>9, <1>22, <2>1
  <2>2. CASE fact = "reset" /\ Account \notin hist'.raced
    <3>1. req[a].op = "reset" /\ Step(a)'.do = "uselink"
      BY <1>12, <2>2
    <3>2. EndsAll(a)'
      BY <1>11, <3>1 DEF EndsAll
    <3>3. ResetInv'
      BY <3>2 DEF ResetInv
    <3>4. Alone(a) /\ Account \notin hist.raced
      BY <1>3, <1>9, <2>2 DEF Alone
    <3>5. ASSUME NEW b \in Slot \ {a}
          PROVE  ResetClaim(b)'
      <4>1. Stays(b)
        BY <1>11 DEF StepOf
      <4>2. req'[b] = req[b] /\ (Busy(b)' <=> Busy(b)) /\ (Opens(b)' <=> Opens(b))
        BY <4>1, Others
      <4>3. Busy(b) => req[b].op \notin {"login", "reset"} /\ ~Opens(b)
        BY <3>1, <3>4, ResetIsApart
      <4>4. QED
        BY <4>2, <4>3 DEF ResetClaim
    <3>6. QED
      BY <3>3, <3>5
  <2>3. QED
    BY <2>1, <2>2
<1>24. Step(a)'.do \notin {"refresh", "reuse"} /\ Step(a).do \notin {"rotated", "reply"}
  BY <1>3, <1>13
<1>25. QED
  BY <1>3, <1>9, <1>10, <1>11, <1>15, <1>16, <1>17, <1>18, <1>19, <1>20, <1>21, <1>22, <1>23,
     <1>24, RowsStay

\* Rows that only end.
OnlyEnds ==
    /\ Len(rows') = Len(rows)
    /\ rows' \in Seq([family : Nat, epoch : Nat, why : Whys, expired : BOOLEAN])
    /\ \A s \in 1..Len(rows) :
         /\ rows'[s].family = rows[s].family /\ rows'[s].epoch = rows[s].epoch
         /\ Replaced(s)' => Replaced(s)
    /\ \A f : LiveRows(f)' \subseteq LiveRows(f) /\ RowsOf(f)' \subseteq RowsOf(f)

\* A function on an interval that starts at one is a sequence.
LEMMA IsSequence ==
  ASSUME NEW n \in Nat, NEW S, NEW q \in [1..n -> S]
  PROVE  q \in Seq(S) /\ Len(q) = n
OBVIOUS

\* Rows changed one by one, none of them revived or replaced, only end.
LEMMA Ending ==
  ASSUME DataInv, NEW new, rows' = [s \in DOMAIN rows |-> new[s]],
         \A s \in 1..Len(rows) :
           /\ new[s] \in [family : Nat, epoch : Nat, why : Whys, expired : BOOLEAN]
           /\ new[s].family = rows[s].family /\ new[s].epoch = rows[s].epoch
           /\ new[s].why = "rotated" => rows[s].why = "rotated"
           /\ (new[s].why = "" /\ ~new[s].expired) => Live(s)
  PROVE  OnlyEnds
<1>1. DOMAIN rows = 1..Len(rows) /\ Len(rows) \in Nat
  BY RowsAndLinks
<1>2. \A s \in 1..Len(rows) : rows'[s] = new[s]
  BY <1>1
<1>3. /\ rows' \in Seq([family : Nat, epoch : Nat, why : Whys, expired : BOOLEAN])
      /\ Len(rows') = Len(rows)
  <2>1. PICK S, n : S = [family : Nat, epoch : Nat, why : Whys, expired : BOOLEAN] /\ n = Len(rows)
    OBVIOUS
  <2>2. \A s \in 1..n : new[s] \in S
    BY <2>1
  <2>3. rows' = [s \in 1..n |-> new[s]] /\ n \in Nat
    BY <1>1, <2>1
  <2>4. PICK q : q = rows'
    OBVIOUS
  <2>5. q \in [1..n -> S]
    BY <2>2, <2>3, <2>4
  <2>6. q \in Seq(S) /\ Len(q) = n
    BY <2>3, <2>5, IsSequence
  <2>7. QED
    BY <2>1, <2>4, <2>6
<1>4. \A s \in 1..Len(rows) :
        /\ rows'[s].family = rows[s].family /\ rows'[s].epoch = rows[s].epoch
        /\ Replaced(s)' => Replaced(s)
        /\ Live(s)' => Live(s)
  BY <1>2 DEF Replaced, Live
<1>5. \A f : LiveRows(f)' \subseteq LiveRows(f) /\ RowsOf(f)' \subseteq RowsOf(f)
  BY <1>3, <1>4 DEF LiveRows, RowsOf
<1>6. QED
  BY <1>3, <1>4, <1>5 DEF OnlyEnds

\* Revoked rows have ended.
LEMMA Revoked ==
  ASSUME DataInv, NEW set, NEW why \in Whys \ {"", "rotated"}, Revoke(set, why)
  PROVE  OnlyEnds /\ \A s \in 1..Len(rows) : s \in set => ~Live(s)'
<1> DEFINE new == [s \in 1..Len(rows) |->
                     IF s \in set /\ rows[s].why = "" THEN [rows[s] EXCEPT !.why = why]
                     ELSE rows[s]]
<1>1. DOMAIN rows = 1..Len(rows)
  BY RowsAndLinks
<1>2. ASSUME NEW s \in 1..Len(rows)
      PROVE  /\ new[s] \in [family : Nat, epoch : Nat, why : Whys, expired : BOOLEAN]
             /\ new[s].family = rows[s].family /\ new[s].epoch = rows[s].epoch
             /\ new[s].why = "rotated" => rows[s].why = "rotated"
             /\ (new[s].why = "" /\ ~new[s].expired) => Live(s)
             /\ s \in set => new[s].why # ""
  <2>1. rows[s] \in [family : Nat, epoch : Nat, why : Whys, expired : BOOLEAN]
    BY RowsAndLinks
  <2>2. CASE s \in set /\ rows[s].why = ""
    <3>1. new[s] = [rows[s] EXCEPT !.why = why]
      BY <2>2
    <3>2. QED
      BY <2>1, <2>2, <3>1
  <2>3. CASE ~(s \in set /\ rows[s].why = "")
    <3>1. new[s] = rows[s]
      BY <2>3
    <3>2. QED
      BY <2>1, <2>3, <3>1 DEF Live
  <2>4. QED
    BY <2>2, <2>3
<1>3. rows' = [s \in DOMAIN rows |-> new[s]]
  BY <1>1 DEF Revoke
<1> HIDE DEF new
<1>4. OnlyEnds
  BY <1>2, <1>3, Ending
<1>5. \A s \in 1..Len(rows) : s \in set => ~Live(s)'
  BY <1>1, <1>2, <1>3 DEF Live
<1>6. QED
  BY <1>4, <1>5

\* Rows that only end keep their families.
LEMMA FamiliesKept ==
  ASSUME DataInv, FamiliesInv, Len(rows') = Len(rows),
         \A s \in 1..Len(rows) :
           rows'[s].family = rows[s].family /\ rows'[s].epoch = rows[s].epoch
  PROVE  FamiliesInv'
<1>1. Len(rows) \in Nat
  BY DEF DataInv
<1>2. \A s \in 1..Len(rows) : rows[s].family \in 1..Len(rows)
  BY <1>1 DEF FamiliesInv
<1>3. QED
  BY <1>2 DEF FamiliesInv

\* A step that ends rows, after which the handler answers.
LEMMA RowsEnd ==
  ASSUME IInv, NEW a \in Slot, OwnStep(a), RequestsInv', DataInv', NoFalseAlarm',
         UNCHANGED <<user, links, orders, jar>>, OnlyEnds,
         hist'.shared = hist.shared, hist'.epoch = hist.epoch,
         hist'.failures = hist.failures, hist'.uses = hist.uses,
         hist'.claimed = hist.claimed,
         req'[a].row = req[a].row, Step(a).do \notin {"rotated", "reply"},
         Step(a)'.do = "reply", req[a].op # "login",
         \A f \in 1..Len(rows) \ hist'.raced :
           f \in hist'.over => f \in hist.over \/ LiveRows(f)' = {},
         \A b \in Slot \ {a} : (Alone(b) /\ Opens(b)) =>
           (Step(b).family \in hist'.over => Step(b).family \in hist.over),
         \/ ~EndsAll(a)
         \/ \A f : LiveRows(f)' = {}
  PROVE  IInv'
<1>1. /\ DataInv /\ FamiliesInv /\ RequestsInv /\ Rivalry /\ CountInv /\ LinksInv
      /\ OrdersFollowLogin /\ ResetInv /\ \A b \in Slot : Claims(b)
  BY DEF IInv
<1>2. /\ Len(rows') = Len(rows)
      /\ \A s \in 1..Len(rows) :
           rows'[s].family = rows[s].family /\ rows'[s].epoch = rows[s].epoch
      /\ \A f : LiveRows(f)' \subseteq LiveRows(f) /\ RowsOf(f)' \subseteq RowsOf(f)
      /\ \A s \in 1..Len(rows) : Replaced(s)' => Replaced(s)
  BY DEF OnlyEnds
<1>3. /\ TokenInv' /\ HomeInv' /\ JarInv' /\ SharedInv' /\ NewRowClaim(a)'
      /\ \A b \in Slot \ {a} : OpenClaim(b)' /\ NewRowClaim(b)' /\ AlarmClaim(b)'
      /\ (Account \notin hist'.raced => hist'.epoch = hist.epoch) =>
           \A b \in Slot \ {a} : ResetClaim(b)'
  BY <1>2, Settled
<1>4. FamiliesInv' /\ Rivalry'
  BY <1>1, <1>2, FamiliesKept, RivalryKept
<1>5. hist.raced \subseteq hist'.raced /\ StepOf(a)
  BY DEF OwnStep
<1>6. CountInv' /\ LinksInv' /\ OrdersFollowLogin'
  BY <1>1, <1>5 DEF CountInv, LinksInv, OrdersFollowLogin, Usable
<1>7. ResetInv'
  <2>1. CASE \A f : LiveRows(f)' = {}
    BY <2>1 DEF ResetInv
  <2>2. CASE ~EndsAll(a)
    <3>1. \A b \in Slot : EndsAll(b) => EndsAll(b)'
      BY <1>5, <2>2, Others DEF StepOf
    <3>2. QED
      BY <1>1, <1>2, <1>5, <3>1, ResetInvKept
  <2>3. QED
    BY <2>1, <2>2
<1>8. ASSUME NEW b \in Slot \ {a}
      PROVE  CountClaim(b)' /\ LinkClaim(b)' /\ OrderClaim(b)'
  <2>1. Stays(b) /\ Claims(b)
    BY <1>1, <1>5 DEF StepOf
  <2>2. CountClaim(b)'
    BY <1>1, <2>1, CountKept DEF Claims
  <2>3. LinkClaim(b)'
    <3>1. \A l \in 1..Len(links') : Usable(l)' =>
            l \in 1..Len(links) /\ Usable(l) /\ links'[l].type = links[l].type
      BY DEF Usable
    <3>2. QED
      BY <1>1, <2>1, <3>1, LinkKept DEF Claims
  <2>4. OrderClaim(b)'
    BY <1>1, <2>1, OrderKept DEF Claims
  <2>5. QED
    BY <2>2, <2>3, <2>4
<1>9. CountClaim(a)' /\ LinkClaim(a)' /\ OpenClaim(a)' /\ AlarmClaim(a)'
  BY DEF CountClaim, LinkClaim, WillUse, OpenClaim, Opens, AlarmClaim
<1>10. /\ Busy(a) /\ Busy(a)' /\ req'[a].op = req[a].op /\ req'[a].seen = req[a].seen
       /\ req'[a].about = req[a].about /\ hist'.crossed = hist.crossed
  BY DEF OwnStep, Busy
<1>11. OrderClaim(a)'
  BY <1>1, <1>10 DEF Claims, OrderClaim
<1>12. ResetClaim(a)'
  <2>1. ResetClaim(a)
    BY <1>1 DEF Claims
  <2>2. \A f \in 1..Len(rows') : rows'[f].family = rows[f].family /\ (Old(f)' <=> Old(f))
    BY <1>2 DEF Old
  <2>3. ~Opens(a)'
    BY DEF Opens
  <2>4. QED
    BY <1>2, <1>5, <1>10, <2>1, <2>2, <2>3 DEF ResetClaim
<1>13. \A b \in Slot : Claims(b)'
  BY <1>3, <1>8, <1>9, <1>11, <1>12 DEF Claims
<1>14. QED
  BY <1>3, <1>4, <1>6, <1>7, <1>13 DEF IInv

\* revokeAllUserSessions ends every session.
LEMMA RevokeAllStep ==
  ASSUME IInv, NEW a \in Slot, DoRevokeAll(a)
  PROVE  IInv'
<1>1. /\ DataInv /\ RequestsInv /\ Rivalry /\ NoFalseAlarm /\ \A b \in Slot : Claims(b)
  BY DEF IInv
<1>2. PICK set, why : set = DOMAIN rows /\ why = "reset"
  OBVIOUS
<1>3. /\ Busy(a) /\ Step(a).do = "revokeall" /\ Done(a) /\ Revoke(set, why)
      /\ UNCHANGED <<user, links, orders, jar, access, hist>>
  BY <1>2 DEF DoRevokeAll, Next1, Step
<1>4. OnlyEnds /\ \A s \in 1..Len(rows) : s \in set => ~Live(s)'
  BY <1>1, <1>2, <1>3, Revoked DEF Whys
<1>5. \A f : LiveRows(f)' = {}
  BY <1>1, <1>2, <1>4, RowsAndLinks DEF OnlyEnds, LiveRows, RowsOf
<1>6. PlanInv(req[a].op, req[a].row, Step(a), Left(a), user # NoUser, rows, Len(links))
  BY <1>1, <1>3, ShapeOf
<1>7. req[a].op = "reset" /\ Left(a) = Finish
  BY <1>3, <1>6 DEF PlanInv
<1>8. DataInv'
  BY <1>1, <1>3, <1>4 DEF DataInv, OnlyEnds
<1>9. /\ OwnStep(a) /\ Step(a)' = Head(Left(a)) /\ req'[a].row = req[a].row /\ RequestsInv'
  <2>1. Len(rows) <= Len(rows') /\ Len(links) <= Len(links')
    BY <1>1, <1>3, <1>4 DEF DataInv, OnlyEnds
  <2>2. Step(a).do \in Writing
    BY <1>3 DEF Writing
  <2>3. \A s \in 1..Len(rows) :
          rows'[s].family = rows[s].family /\ rows'[s].epoch = rows[s].epoch
    BY <1>4 DEF OnlyEnds
  <2>4. QED
    BY <1>1, <1>3, <1>8, <2>1, <2>2, <2>3, StepDone
<1>10. Step(a)'.do = "reply"
  <2>1. Step(a)' = Say(TRUE)
    BY <1>7, <1>9, Lists
  <2>2. QED
    BY <2>1 DEF Say
<1>11. NoFalseAlarm'
  BY <1>1, <1>3 DEF NoFalseAlarm
<1>12. QED
  BY <1>3, <1>4, <1>5, <1>7, <1>8, <1>9, <1>10, <1>11, RowsEnd

\* A logout revokes the row it was called with.
LEMMA LogoutStep ==
  ASSUME IInv, NEW a \in Slot, DoLogout(a)
  PROVE  IInv'
<1>1. /\ DataInv /\ RequestsInv /\ Rivalry /\ NoFalseAlarm /\ \A b \in Slot : Claims(b)
  BY DEF IInv
<1>2. PICK set, why, todo : set = {Step(a).row} /\ why = "logout" /\ todo = Finish
  OBVIOUS
<1>3. /\ Busy(a) /\ Step(a).do = "logout" /\ Continue(a, todo)
      /\ rows' = rows \/ Revoke(set, why)
      /\ UNCHANGED <<user, links, orders, jar, access, hist>>
  BY <1>2 DEF DoLogout, Next1, Step, Todo
<1>4. OnlyEnds
  <2>1. CASE rows' = rows
    <3>1. \A f : LiveRows(f)' = LiveRows(f) /\ RowsOf(f)' = RowsOf(f)
                 /\ (Replaced(f)' <=> Replaced(f))
      BY <2>1, SameRows
    <3>2. QED
      BY <1>1, <2>1, <3>1 DEF OnlyEnds, DataInv
  <2>2. CASE Revoke(set, why)
    BY <1>1, <1>2, <2>2, Revoked DEF Whys
  <2>3. QED
    BY <1>3, <2>1, <2>2
<1>5. /\ PlanInv(req[a].op, req[a].row, Step(a), Left(a), user # NoUser, rows, Len(links))
      /\ RowInv(req[a].op, req[a].row, Step(a), rows)
  BY <1>1, <1>3, ShapeOf
<1>6. req[a].op = "logout" /\ req[a].row = 0
  BY <1>3, <1>5 DEF PlanInv, RowInv
<1>7. DataInv'
  BY <1>1, <1>3, <1>4 DEF DataInv, OnlyEnds
<1>8. /\ OwnStep(a) /\ Step(a)'.do = "reply" /\ req'[a].row = req[a].row /\ RequestsInv'
  <2>1. Len(rows) <= Len(rows') /\ Len(links) <= Len(links')
    BY <1>1, <1>3, <1>4 DEF DataInv, OnlyEnds
  <2>2. \A s \in 1..Len(rows) :
          rows'[s].family = rows[s].family /\ rows'[s].epoch = rows[s].epoch
    BY <1>4 DEF OnlyEnds
  <2>3. req[a].op \notin {"login", "refresh"}
    BY <1>6
  <2>4. QED
    BY <1>1, <1>2, <1>3, <1>6, <1>7, <2>1, <2>2, <2>3, GivesUp
<1>9. NoFalseAlarm'
  BY <1>1, <1>3 DEF NoFalseAlarm
<1>10. ~EndsAll(a) /\ Step(a).do \notin {"rotated", "reply"} /\ req[a].op # "login"
  BY <1>3, <1>6 DEF EndsAll
<1>11. QED
  BY <1>3, <1>4, <1>7, <1>8, <1>9, <1>10, RowsEnd

\* A reuse of a replaced row ends its family, and is no false alarm.
LEMMA ReuseStep ==
  ASSUME IInv, NEW a \in Slot, DoReuse(a)
  PROVE  IInv'
<1>1. /\ DataInv /\ FamiliesInv /\ RequestsInv /\ Rivalry /\ NoFalseAlarm
      /\ \A b \in Slot : Claims(b)
  BY DEF IInv
<1>2. PICK s, why : s = Step(a).row /\ why = "reuse"
  OBVIOUS
<1>3. PICK f, set, raced : /\ f = rows[s].family /\ set = FamilyOf(s)
                           /\ raced = Touch(a, {f})
  OBVIOUS
<1>4. /\ Busy(a) /\ Step(a).do = "reuse" /\ Done(a) /\ Revoke(set, why)
      /\ UNCHANGED <<user, links, orders, jar, access>>
      /\ hist' = [hist EXCEPT !.raced = raced, !.over = @ \cup {f},
                              !.alarms = IF Explained(s) THEN @ ELSE @ \cup {f}]
  BY <1>2, <1>3 DEF DoReuse, Next1, Step, Todo
<1>5. /\ PlanInv(req[a].op, req[a].row, Step(a), Left(a), user # NoUser, rows, Len(links))
      /\ AboutInv(req[a].op, req[a].about, Step(a), req[a].row, rows)
  BY <1>1, <1>4, ShapeOf
<1>6. req[a].op = "refresh" /\ s \in 1..Len(rows) /\ Left(a) = Failed
  BY <1>2, <1>4, <1>5 DEF PlanInv
<1>7. req[a].about = {f}
  BY <1>2, <1>3, <1>4, <1>5, <1>6 DEF AboutInv
<1>8. f \in 1..Len(rows) /\ Len(rows) \in Nat
  BY <1>1, <1>3, <1>6, RowsAndLinks DEF FamiliesInv
<1>9. OnlyEnds /\ \A r \in 1..Len(rows) : r \in set => ~Live(r)'
  BY <1>1, <1>2, <1>4, Revoked DEF Whys
<1>10. LiveRows(f)' = {}
  <2>1. \A r \in 1..Len(rows) : rows'[r].family = f => r \in set
    BY <1>1, <1>3, <1>9, RowsAndLinks DEF OnlyEnds, FamilyOf
  <2>2. QED
    BY <1>9, <2>1 DEF OnlyEnds, LiveRows, RowsOf
<1>11. Explained(s)
  <2>1. Refreshes(a) /\ Step(a).row # 0 /\ AlarmClaim(a)
    BY <1>1, <1>2, <1>4, <1>6 DEF Refreshes, Claims
  <2>2. QED
    BY <1>2, <1>4, <2>1 DEF AlarmClaim, Explained, Replaced
<1>12. /\ hist'.raced = raced /\ hist'.over = hist.over \cup {f}
       /\ hist'.crossed = hist.crossed /\ hist'.uses = hist.uses
       /\ hist'.epoch = hist.epoch /\ hist'.failures = hist.failures
       /\ hist'.shared = hist.shared /\ hist'.alarms = hist.alarms
       /\ hist'.claimed = hist.claimed
       /\ hist' \in [epoch : Nat, crossed : SUBSET Slot, raced : SUBSET Int,
                     shared : SUBSET Int, failures : Nat, uses : Seq(Nat),
                     over : SUBSET Int, alarms : SUBSET Int, claimed : SUBSET Order]
  <2>1. PICK S, over : S = Seq(Nat) /\ over = hist.over \cup {f}
    OBVIOUS
  <2>2. hist \in [epoch : Nat, crossed : SUBSET Slot, raced : SUBSET Int, shared : SUBSET Int,
                  failures : Nat, uses : S, over : SUBSET Int, alarms : SUBSET Int,
                  claimed : SUBSET Order]
    BY <1>1, <2>1 DEF DataInv
  <2>3. raced \subseteq Int /\ over \subseteq Int
    BY <1>3, <1>8, <2>1, <2>2 DEF Touch
  <2>4. hist' = [hist EXCEPT !.raced = raced, !.over = over, !.alarms = hist.alarms]
    BY <1>4, <1>11, <2>1
  <2>5. QED
    BY <2>1, <2>2, <2>3, <2>4
<1>13. hist.raced \subseteq hist'.raced
  BY <1>3, <1>12 DEF Touch
<1>14. DataInv'
  <2>1. hist'.over \subseteq 1..Len(rows')
    BY <1>1, <1>8, <1>9, <1>12 DEF DataInv, OnlyEnds
  <2>2. QED
    BY <1>1, <1>4, <1>9, <1>12, <2>1 DEF DataInv, OnlyEnds
<1>15. /\ OwnStep(a) /\ Step(a)' = Head(Left(a)) /\ req'[a].row = req[a].row /\ RequestsInv'
  <2>1. Len(rows) <= Len(rows') /\ Len(links) <= Len(links')
    BY <1>1, <1>4, <1>9 DEF DataInv, OnlyEnds
  <2>2. Step(a).do \in Writing
    BY <1>4 DEF Writing
  <2>3. \A r \in 1..Len(rows) :
          rows'[r].family = rows[r].family /\ rows'[r].epoch = rows[r].epoch
    BY <1>9 DEF OnlyEnds
  <2>4. QED
    BY <1>1, <1>4, <1>12, <1>13, <1>14, <2>1, <2>2, <2>3, StepDone
<1>16. Step(a)'.do = "reply"
  <2>1. Step(a)' = Say(FALSE)
    BY <1>6, <1>15, Lists
  <2>2. QED
    BY <2>1 DEF Say
<1>17. NoFalseAlarm'
  BY <1>1, <1>12 DEF NoFalseAlarm
<1>18. \A g \in 1..Len(rows) \ hist'.raced :
         g \in hist'.over => g \in hist.over \/ LiveRows(g)' = {}
  BY <1>10, <1>12
<1>19. ASSUME NEW b \in Slot \ {a}, Alone(b), Opens(b)
       PROVE  Step(b).family # f
  <2>1. req[b].about = {Step(b).family} /\ Busy(b)
    BY <1>1, <1>19, WhoWrites DEF Alone
  <2>2. req[a].about \cap req[b].about = {}
    BY <1>1, <1>4, <1>19, AloneIsApart
  <2>3. QED
    BY <1>7, <2>1, <2>2
<1>20. ~EndsAll(a) /\ Step(a).do \notin {"rotated", "reply"} /\ req[a].op # "login"
  BY <1>4, <1>6 DEF EndsAll
<1>21. \A b \in Slot \ {a} : (Alone(b) /\ Opens(b)) =>
         (Step(b).family \in hist'.over => Step(b).family \in hist.over)
  BY <1>12, <1>19
<1>22. QED
  BY <1>4, <1>9, <1>12, <1>14, <1>15, <1>16, <1>17, <1>18, <1>20, <1>21, RowsEnd

\* The rows after one of them was replaced.
LEMMA RotatedRows ==
  ASSUME DataInv, NEW s \in 1..Len(rows), rows' = [rows EXCEPT ![s].why = "rotated"]
  PROVE  /\ Len(rows') = Len(rows)
         /\ rows' \in Seq([family : Nat, epoch : Nat, why : Whys, expired : BOOLEAN])
         /\ \A r \in 1..Len(rows) :
              /\ rows'[r].family = rows[r].family /\ rows'[r].epoch = rows[r].epoch
              /\ Replaced(r)' <=> Replaced(r) \/ r = s
              /\ Live(r)' => Live(r) /\ r # s
         /\ \A f : LiveRows(f)' \subseteq LiveRows(f) \ {s} /\ RowsOf(f)' = RowsOf(f)
<1> DEFINE new == [r \in 1..Len(rows) |->
                     IF r = s THEN [rows[r] EXCEPT !.why = "rotated"] ELSE rows[r]]
<1>1. DOMAIN rows = 1..Len(rows) /\ Len(rows) \in Nat
  BY RowsAndLinks
<1>2. ASSUME NEW r \in 1..Len(rows)
      PROVE  /\ new[r] \in [family : Nat, epoch : Nat, why : Whys, expired : BOOLEAN]
             /\ new[r].family = rows[r].family /\ new[r].epoch = rows[r].epoch
             /\ new[r].why = IF r = s THEN "rotated" ELSE rows[r].why
             /\ new[r].expired = rows[r].expired
  <2>1. rows[r] \in [family : Nat, epoch : Nat, why : Whys, expired : BOOLEAN]
    BY RowsAndLinks
  <2>2. CASE r = s
    <3>1. new[r] = [rows[r] EXCEPT !.why = "rotated"]
      BY <2>2
    <3>2. QED
      BY <2>1, <2>2, <3>1 DEF Whys
  <2>3. CASE r # s
    BY <2>1, <2>3
  <2>4. QED
    BY <2>2, <2>3
<1>3. rows' = new
  BY <1>1
<1> HIDE DEF new
<1>4. /\ rows' \in Seq([family : Nat, epoch : Nat, why : Whys, expired : BOOLEAN])
      /\ Len(rows') = Len(rows)
  <2>1. PICK S, n, q : /\ S = [family : Nat, epoch : Nat, why : Whys, expired : BOOLEAN]
                       /\ n = Len(rows) /\ q = rows'
    OBVIOUS
  <2>2. n \in Nat /\ q = new
    BY <1>1, <1>3, <2>1
  <2>3. new \in [1..n -> S]
    <3>1. \A r \in 1..n : new[r] \in S
      BY <1>2, <2>1
    <3>2. new = [r \in 1..n |-> new[r]]
      BY <2>1 DEF new
    <3>3. QED
      BY <3>1, <3>2
  <2>4. q \in Seq(S) /\ Len(q) = n
    BY <2>2, <2>3, IsSequence
  <2>5. QED
    BY <2>1, <2>4
<1>5. \A r \in 1..Len(rows) :
        /\ rows'[r].family = rows[r].family /\ rows'[r].epoch = rows[r].epoch
        /\ Replaced(r)' <=> Replaced(r) \/ r = s
        /\ Live(r)' => Live(r) /\ r # s
  BY <1>2, <1>3 DEF Replaced, Live
<1>6. \A f : LiveRows(f)' \subseteq LiveRows(f) \ {s} /\ RowsOf(f)' = RowsOf(f)
  BY <1>4, <1>5 DEF LiveRows, RowsOf
<1>7. QED
  BY <1>4, <1>5, <1>6

\* A row is replaced: the request that did so answers with its successor.
LEMMA RotatedStep ==
  ASSUME IInv, NEW a \in Slot, DoRotated(a)
  PROVE  IInv'
<1>1. /\ DataInv /\ FamiliesInv /\ RequestsInv /\ Rivalry /\ CountInv /\ LinksInv
      /\ OrdersFollowLogin /\ NoFalseAlarm
      /\ TokenInv /\ HomeInv /\ JarInv /\ SharedInv /\ ResetInv
      /\ \A b \in Slot : Claims(b)
  BY DEF IInv
<1>2. PICK s, r : s = Step(a).row /\ r = req[a].row
  OBVIOUS
<1>3. PICK f, raced : f = rows[s].family /\ raced = Touch(a, {f})
  OBVIOUS
<1>4. /\ Busy(a) /\ Step(a).do = "rotated" /\ Done(a)
      /\ UNCHANGED <<user, links, orders, jar, access>>
      /\ rows' = [rows EXCEPT ![s].why = "rotated"]
      /\ hist' = [hist EXCEPT !.raced = raced]
  BY <1>2, <1>3 DEF DoRotated, Next1, Step, Todo
<1>5. /\ PlanInv(req[a].op, req[a].row, Step(a), Left(a), user # NoUser, rows, Len(links))
      /\ AboutInv(req[a].op, req[a].about, Step(a), req[a].row, rows)
      /\ RowInv(req[a].op, req[a].row, Step(a), rows)
      /\ req[a].tab \in Tab
  BY <1>1, <1>4, ShapeOf
<1>6. /\ req[a].op = "refresh" /\ s \in 1..Len(rows) /\ Left(a) = Finish
      /\ s < r /\ rows[r].family = f
  BY <1>2, <1>3, <1>4, <1>5 DEF PlanInv
<1>7. req[a].about = {f}
  BY <1>2, <1>3, <1>4, <1>5, <1>6 DEF AboutInv
<1>8. Len(rows) \in Nat /\ f \in 1..Len(rows) /\ r \in 1..Len(rows) /\ r # s /\ r # 0
  <2>1. Len(rows) \in Nat /\ f \in 1..Len(rows)
    BY <1>1, <1>3, <1>6, RowsAndLinks DEF FamiliesInv
  <2>2. r \in 0..Len(rows)
    BY <1>2, <1>5 DEF RowInv
  <2>3. QED
    BY <1>6, <2>1, <2>2
<1>9. /\ Len(rows') = Len(rows)
      /\ rows' \in Seq([family : Nat, epoch : Nat, why : Whys, expired : BOOLEAN])
      /\ \A x \in 1..Len(rows) :
           /\ rows'[x].family = rows[x].family /\ rows'[x].epoch = rows[x].epoch
           /\ Replaced(x)' <=> Replaced(x) \/ x = s
           /\ Live(x)' => Live(x) /\ x # s
      /\ \A g : LiveRows(g)' \subseteq LiveRows(g) \ {s} /\ RowsOf(g)' = RowsOf(g)
  BY <1>1, <1>4, <1>6, RotatedRows
<1>10. /\ hist'.raced = raced /\ hist'.over = hist.over
       /\ hist'.crossed = hist.crossed /\ hist'.uses = hist.uses
       /\ hist'.epoch = hist.epoch /\ hist'.failures = hist.failures
       /\ hist'.shared = hist.shared /\ hist'.alarms = hist.alarms
       /\ hist'.claimed = hist.claimed /\ hist.raced \subseteq hist'.raced
       /\ hist' \in [epoch : Nat, crossed : SUBSET Slot, raced : SUBSET Int,
                     shared : SUBSET Int, failures : Nat, uses : Seq(Nat),
                     over : SUBSET Int, alarms : SUBSET Int, claimed : SUBSET Order]
  <2>1. PICK S : S = Seq(Nat)
    OBVIOUS
  <2>2. hist \in [epoch : Nat, crossed : SUBSET Slot, raced : SUBSET Int, shared : SUBSET Int,
                  failures : Nat, uses : S, over : SUBSET Int, alarms : SUBSET Int,
                  claimed : SUBSET Order]
    BY <1>1, <2>1 DEF DataInv
  <2>3. raced \subseteq Int /\ hist.raced \subseteq raced
    BY <1>3, <1>8, <2>2 DEF Touch
  <2>4. QED
    BY <1>4, <2>1, <2>2, <2>3
<1>11. DataInv'
  <2>1. hist'.over \subseteq 1..Len(rows')
    BY <1>1, <1>9, <1>10 DEF DataInv
  <2>2. QED
    BY <1>1, <1>4, <1>9, <1>10, <2>1 DEF DataInv
<1>12. /\ OwnStep(a) /\ StepOf(a) /\ Step(a)' = Head(Left(a)) /\ req'[a].row = req[a].row
       /\ Busy(a)' /\ req'[a].op = req[a].op /\ req'[a].tab = req[a].tab
       /\ req'[a].about = req[a].about /\ req'[a].seen = req[a].seen
       /\ RequestsInv' /\ Rivalry'
  <2>1. Len(rows) <= Len(rows') /\ Len(links) <= Len(links')
    BY <1>1, <1>4, <1>9 DEF DataInv
  <2>2. Step(a).do \in Writing
    BY <1>4 DEF Writing
  <2>3. \A x \in 1..Len(rows) :
          rows'[x].family = rows[x].family /\ rows'[x].epoch = rows[x].epoch
    BY <1>9
  <2>4. QED
    BY <1>1, <1>4, <1>10, <1>11, <2>1, <2>2, <2>3, StepDone
<1>13. Step(a)'.do = "reply"
  <2>1. Step(a)' = Say(TRUE)
    BY <1>6, <1>12, Lists
  <2>2. QED
    BY <2>1 DEF Say
<1>14. \A b \in Slot : /\ Busy(b)' <=> Busy(b)
                       /\ req'[b].op = req[b].op /\ req'[b].tab = req[b].tab
                       /\ req'[b].about = req[b].about /\ req'[b].row = req[b].row
                       /\ Refreshes(b)' <=> Refreshes(b)
  BY <1>4, <1>12 DEF StepOf, Stays, Busy, Refreshes
<1>15. ASSUME NEW b \in Slot, b # a
       PROVE  Stays(b) /\ Step(b)' = Step(b) /\ (Replaces(b)' <=> Replaces(b)) /\ (EndsAll(b)' <=> EndsAll(b))
  BY <1>12, <1>15, Others DEF StepOf
<1>16. Refreshes(a) /\ ~EndsAll(a)
  BY <1>4, <1>6 DEF Refreshes, EndsAll
<1>17. \A b \in Slot \ {a} : (Refreshes(b) /\ f \in req[b].about) => f \in hist.shared
  BY <1>1, <1>7, <1>16 DEF SharedInv
<1>18. TokenInv'
  <2>1. ASSUME NEW g \in 1..Len(rows) \ hist'.raced, NEW b \in Slot, Replaces(b),
               Step(b).row \in LiveRows(g)', req[b].row \in LiveRows(g)'
        PROVE  Replaces(b)' /\ Step(b)'.row = Step(b).row /\ req'[b].row = req[b].row
    <3>1. b # a
      BY <1>2, <1>9, <2>1
    <3>2. QED
      BY <1>14, <1>15, <2>1, <3>1
  <2>2. \A g \in 1..Len(rows) \ hist'.raced :
          g \notin hist.raced /\ LiveRows(g)' \subseteq LiveRows(g)
          /\ (g \in hist'.over => g \in hist.over)
    BY <1>9, <1>10
  <2>3. QED
    BY <1>1, <1>9, <2>1, <2>2, TokenKept
<1>19. HomeInv'
  BY <1>1, <1>4, <1>9, <1>14, HoldsKept, HomeKept
<1>20. \A b \in Browser : jar[b].cookie \in 0..Len(rows)
  BY <1>1 DEF DataInv
<1>21. JarInv'
  <2>1. SUFFICES ASSUME NEW b \in Browser, NEW c, c = jar[b].cookie, c # 0, Replaced(c)',
                        rows'[c].family \notin hist'.shared
                 PROVE  \E d \in Slot : /\ Refreshes(d)' /\ req'[d].row # 0
                                        /\ Step(d)'.do = "reply"
                                        /\ rows'[c].family \in req'[d].about
                                        /\ BrowserOf[req'[d].tab] = b
    BY <1>4 DEF JarInv
  <2>2. c \in 1..Len(rows) /\ rows'[c].family = rows[c].family
    BY <1>8, <1>9, <1>20, <2>1
  <2>3. CASE c = s
    <3>1. Holds(f, b)
      BY <1>3, <2>1, <2>3 DEF Holds
    <3>2. PICK d : d = BrowserOf[req[a].tab]
      OBVIOUS
    <3>3. d \in Browser /\ Holds(f, d)
      BY <1>4, <1>5, <1>6, <1>7, <3>2, SessionAssumption DEF Holds
    <3>4. b = d
      BY <1>1, <1>8, <3>1, <3>3 DEF HomeInv
    <3>5. /\ Refreshes(a)' /\ req'[a].row # 0 /\ Step(a)'.do = "reply"
          /\ rows'[c].family \in req'[a].about /\ BrowserOf[req'[a].tab] = b
      BY <1>2, <1>3, <1>7, <1>8, <1>12, <1>13, <1>14, <1>16, <2>2, <2>3, <3>2, <3>4
    <3>6. QED
      BY <3>5
  <2>4. CASE c # s
    <3>1. Replaced(c) /\ rows[c].family \notin hist.shared
      BY <1>9, <1>10, <2>1, <2>2, <2>4
    <3>2. PICK d \in Slot : /\ Refreshes(d) /\ req[d].row # 0 /\ Step(d).do = "reply"
                            /\ rows[c].family \in req[d].about
                            /\ BrowserOf[req[d].tab] = b
      BY <1>1, <2>1, <3>1 DEF JarInv
    <3>3. d # a
      BY <1>4, <3>2
    <3>4. Step(d)' = Step(d)
      BY <1>15, <3>3
    <3>5. QED
      BY <1>14, <2>2, <3>2, <3>4
  <2>5. QED
    BY <2>3, <2>4
<1>22. SharedInv'
  BY <1>1, <1>10, <1>14, SharedKept
<1>23. ResetInv'
  BY <1>1, <1>9, <1>10, <1>15, <1>16, ResetInvKept
<1>24. FamiliesInv' /\ NoFalseAlarm'
  BY <1>1, <1>9, <1>10, FamiliesKept DEF NoFalseAlarm
<1>25. CountInv' /\ LinksInv' /\ OrdersFollowLogin'
  BY <1>1, <1>4, <1>10 DEF CountInv, LinksInv, OrdersFollowLogin, Usable
<1>26. NewRowClaim(a)'
  <2>1. /\ \A b \in Browser : jar[b].cookie # r
        /\ \A b \in Slot \ {a} : Busy(b) => req[b].row # r
        /\ rows[r].family \notin hist.shared => ~Replaced(r)
    BY <1>1, <1>2, <1>4, <1>6, <1>8 DEF Claims, NewRowClaim
  <2>2. rows'[r].family \notin hist'.shared => ~Replaced(r)'
    BY <1>8, <1>9, <1>10, <2>1
  <2>3. req'[a].row = r /\ req'[a].op = "refresh"
    BY <1>2, <1>6, <1>12
  <2>4. QED
    BY <1>4, <1>14, <2>1, <2>2, <2>3 DEF NewRowClaim
<1>27. ASSUME NEW b \in Slot \ {a}
       PROVE  Claims(b)'
  <2>1. Claims(b) /\ Stays(b) /\ Step(b)' = Step(b)
    BY <1>1, <1>15
  <2>2. CountClaim(b)'
    BY <1>1, <1>4, <2>1, CountKept DEF Claims
  <2>3. LinkClaim(b)'
    <3>1. \A l \in 1..Len(links') : Usable(l)' =>
            l \in 1..Len(links) /\ Usable(l) /\ links'[l].type = links[l].type
      BY <1>4 DEF Usable
    <3>2. QED
      BY <1>1, <1>10, <2>1, <3>1, LinkKept DEF Claims
  <2>4. OrderClaim(b)'
    BY <1>1, <1>4, <2>1, OrderKept DEF Claims
  <2>5. OpenClaim(b)'
    <3>1. PICK g : g = Step(b).family
      OBVIOUS
    <3>2. Step(b)'.family = g
      BY <2>1, <3>1
    <3>3. LiveRows(Step(b).family)' = LiveRows(g)'
      BY <3>2 DEF LiveRows, RowsOf, Live
    <3>4. LiveRows(Step(b).family)' \subseteq LiveRows(g)
      BY <1>9, <3>3
    <3>5. QED
      BY <1>1, <1>10, <2>1, <3>1, <3>4, OpenKept DEF Claims
  <2>6. NewRowClaim(b)'
    <3>1. PICK x : x = req[b].row
      OBVIOUS
    <3>2. NewRowClaim(b)
      BY <2>1 DEF Claims
    <3>3. \A c \in Browser : jar'[c].cookie = x /\ x # 0 => jar[c].cookie = x
      BY <1>4
    <3>4. \A c \in Slot \ {b} : Busy(c)' /\ req'[c].row = x /\ x # 0 =>
                                  Busy(c) /\ req[c].row = x
      BY <1>14
    <3>5. x \in 1..Len(rows) => rows'[x].family = rows[x].family
      BY <1>9
    <3>6. req[b].op \in {"login", "refresh"} => Busy(b)
      BY DEF Busy, Idle
    <3>7. (Busy(b) /\ x # 0) => x \in 1..Len(rows)
      <4>1. Busy(b) => RowInv(req[b].op, req[b].row, Step(b), rows)
        BY <1>1, ShapeOf
      <4>2. Busy(b) => x \in 0..Len(rows)
        BY <3>1, <4>1 DEF RowInv
      <4>3. QED
        BY <1>8, <4>2
    <3>8. ASSUME req[b].op = "login", x # 0
          PROVE  /\ Replaced(x)' => Replaced(x)
                 /\ RowsOf(x)' \subseteq RowsOf(x)
                 /\ Len(rows) <= Len(rows')
                 /\ \A c \in Slot : Refreshes(c)' /\ x \in req'[c].about =>
                                       Refreshes(c) /\ x \in req[c].about
      <4>1. rows[x].family = x /\ x \notin req[a].about
        BY <1>16, <3>1, <3>2, <3>6, <3>8 DEF NewRowClaim
      <4>2. x # s
        BY <1>3, <1>7, <4>1
      <4>3. QED
        BY <1>8, <1>9, <1>14, <3>6, <3>7, <3>8, <4>2
    <3>9. ASSUME req[b].op = "refresh", x # 0, Replaced(x)'
          PROVE  Replaced(x) \/ rows[x].family \in hist'.shared
      <4>1. x \in 1..Len(rows) /\ Busy(b) /\ Refreshes(b)
        BY <3>6, <3>7, <3>9 DEF Refreshes
      <4>2. AboutInv(req[b].op, req[b].about, Step(b), req[b].row, rows)
        BY <1>1, <4>1, ShapeOf
      <4>3. rows[x].family \in req[b].about
        BY <3>1, <3>9, <4>2 DEF AboutInv
      <4>4. x = s => rows[x].family = f
        BY <1>3
      <4>5. QED
        BY <1>9, <1>10, <1>17, <3>9, <4>1, <4>3, <4>4
    <3>10. QED
      BY <1>1, <1>10, <2>1, <3>1, <3>2, <3>3, <3>4, <3>5, <3>8, <3>9, NewRowKept
  <2>7. AlarmClaim(b)'
    <3>1. PICK x : x = Step(b).row
      OBVIOUS
    <3>2. ASSUME Refreshes(b), Step(b).do \in {"refresh", "reuse"}, x # 0
          PROVE  /\ rows'[x].family = rows[x].family
                 /\ Replaced(x)' => Replaced(x) \/ rows[x].family \in hist'.shared
      <4>1. /\ PlanInv(req[b].op, req[b].row, Step(b), Left(b), user # NoUser, rows, Len(links))
            /\ AboutInv(req[b].op, req[b].about, Step(b), req[b].row, rows)
            /\ req[b].op = "refresh"
        BY <1>1, <3>2, ShapeOf DEF Refreshes
      <4>2. Step(b).row \in 0..Len(rows)
        BY <3>2, <4>1 DEF PlanInv
      <4>3. x \in 1..Len(rows)
        BY <1>8, <3>1, <3>2, <4>2
      <4>4. rows[x].family \in req[b].about
        BY <3>1, <3>2, <4>1 DEF AboutInv
      <4>5. x = s => rows[x].family = f
        BY <1>3
      <4>6. QED
        BY <1>9, <1>10, <1>17, <3>2, <4>3, <4>4, <4>5
    <3>3. QED
      BY <1>1, <1>10, <2>1, <3>1, <3>2, AlarmKept DEF Claims
  <2>8. ResetClaim(b)'
    <3>1. /\ hist'.epoch = hist.epoch
          /\ Len(rows) <= Len(rows') /\ Len(rows') \in Nat
          /\ \A g \in 1..Len(rows) :
               rows'[g].family = rows[g].family /\ rows'[g].epoch = rows[g].epoch
          /\ \A g \in 1..Len(rows') : g \in 1..Len(rows)
      BY <1>8, <1>9, <1>10
    <3>2. ResetClaim(b)
      BY <2>1 DEF Claims
    <3>3. QED
      BY <1>1, <2>1, <3>1, <3>2, ResetKept
  <2>9. QED
    BY <2>2, <2>3, <2>4, <2>5, <2>6, <2>7, <2>8 DEF Claims
<1>28. Claims(a)'
  <2>1. CountClaim(a)' /\ LinkClaim(a)' /\ OpenClaim(a)' /\ AlarmClaim(a)'
    BY <1>13 DEF CountClaim, LinkClaim, WillUse, OpenClaim, Opens, AlarmClaim
  <2>2. OrderClaim(a)'
    <3>1. \A o \in req[a].seen : orders[o] # "none"
      BY <1>1, <1>4 DEF Claims, OrderClaim
    <3>2. QED
      BY <1>4, <1>6, <1>12, <3>1 DEF OrderClaim
  <2>3. ResetClaim(a)'
    BY <1>6, <1>12, <1>13 DEF ResetClaim, Opens
  <2>4. QED
    BY <1>26, <2>1, <2>2, <2>3 DEF Claims
<1>29. QED
  BY <1>11, <1>12, <1>18, <1>19, <1>21, <1>22, <1>23, <1>24, <1>25, <1>27, <1>28 DEF IInv

\* The rows after a new one.
LEMMA NewRow ==
  ASSUME DataInv, NEW f \in Nat, NEW e \in Nat, NEW n, n = Len(rows) + 1,
         rows' = Append(rows, Row(f, e))
  PROVE  /\ n \in Nat /\ n > Len(rows) /\ Len(rows') = n
         /\ \A x \in 1..n : x \in 1..Len(rows) \/ x = n
         /\ rows' \in Seq([family : Nat, epoch : Nat, why : Whys, expired : BOOLEAN])
         /\ \A x \in 1..Len(rows) :
              /\ rows'[x] = rows[x] /\ rows'[x].family = rows[x].family
              /\ rows'[x].epoch = rows[x].epoch
              /\ (Replaced(x)' <=> Replaced(x)) /\ (Live(x)' <=> Live(x))
         /\ rows'[n].family = f /\ rows'[n].epoch = e /\ ~Replaced(n)'
         /\ \A g : /\ g # f => LiveRows(g)' = LiveRows(g) /\ RowsOf(g)' = RowsOf(g)
                   /\ LiveRows(g)' \subseteq LiveRows(g) \cup {n}
                   /\ RowsOf(g)' \subseteq RowsOf(g) \cup {n}
<1>1. PICK S, q, row : /\ S = [family : Nat, epoch : Nat, why : Whys, expired : BOOLEAN]
                       /\ q = rows /\ row = Row(f, e)
  OBVIOUS
<1>2. q \in Seq(S) /\ row \in S
  BY <1>1 DEF DataInv, Row, Whys
<1>3. /\ Append(q, row) \in Seq(S) /\ Len(Append(q, row)) = Len(q) + 1
      /\ Append(q, row)[Len(q) + 1] = row
      /\ \A x \in 1..Len(q) : Append(q, row)[x] = q[x]
      /\ Len(q) \in Nat
  BY <1>2
<1>4. /\ n \in Nat /\ n > Len(rows) /\ Len(rows') = n /\ Len(rows) \in Nat
      /\ \A x \in 1..n : x \in 1..Len(rows) \/ x = n
      /\ rows' \in Seq(S) /\ rows'[n] = row
      /\ \A x \in 1..Len(rows) : rows'[x] = rows[x]
  BY <1>1, <1>3
<1>5. \A x \in 1..Len(rows) :
        /\ rows'[x].family = rows[x].family /\ rows'[x].epoch = rows[x].epoch
        /\ (Replaced(x)' <=> Replaced(x)) /\ (Live(x)' <=> Live(x))
  BY <1>4 DEF Replaced, Live
<1>6. rows'[n].family = f /\ rows'[n].epoch = e /\ ~Replaced(n)'
  <2>1. row.family = f /\ row.epoch = e /\ row.why = ""
    BY <1>1 DEF Row
  <2>2. QED
    BY <1>4, <2>1 DEF Replaced
<1>7. ASSUME NEW g
      PROVE  /\ g # f => LiveRows(g)' = LiveRows(g) /\ RowsOf(g)' = RowsOf(g)
             /\ LiveRows(g)' \subseteq LiveRows(g) \cup {n}
             /\ RowsOf(g)' \subseteq RowsOf(g) \cup {n}
  <2>1. RowsOf(g)' \subseteq RowsOf(g) \cup {n}
    BY <1>4, <1>5 DEF RowsOf
  <2>2. g # f => RowsOf(g)' = RowsOf(g)
    BY <1>4, <1>5, <1>6 DEF RowsOf
  <2>3. RowsOf(g) \subseteq 1..Len(rows)
    BY DEF RowsOf
  <2>4. LiveRows(g)' \subseteq LiveRows(g) \cup {n}
    BY <1>5, <2>1, <2>3 DEF LiveRows
  <2>5. g # f => LiveRows(g)' = LiveRows(g)
    BY <1>5, <2>2, <2>3 DEF LiveRows
  <2>6. QED
    BY <2>1, <2>2, <2>4, <2>5
<1>8. QED
  BY <1>1, <1>4, <1>5, <1>6, <1>7

\* A request that opens a row: of a new family after a login, of the family it
\* refreshes otherwise.
Opened(a, n, f, e) ==
    /\ Busy(a) /\ Step(a).do = "open" /\ n = Len(rows) + 1
    /\ UNCHANGED <<user, links, orders, jar, access>>
    /\ rows' = Append(rows, Row(f, e))
    /\ req' = [req EXCEPT ![a] = Renewed(req[a], n, Left(a))]
    /\ hist' = [hist EXCEPT !.raced = Touch(a, {f})]
    /\ e \in Nat /\ Step(a).epoch = e
    /\ \/ /\ req[a].op = "login" /\ f = n /\ req[a].about = {Account}
          /\ \E c \in BOOLEAN : Left(a) = After(c)
       \/ /\ req[a].op = "refresh" /\ req[a].about = {f} /\ Step(a).family = f
          /\ f \in 1..Len(rows) /\ rows[f].family = f /\ rows[f].epoch = e
          /\ Head(Left(a)).row \in 1..Len(rows)
          /\ rows[Head(Left(a)).row].family = f
          /\ Left(a) = Replacing(Head(Left(a)).row)

\* DoOpen does that.
LEMMA OpensRow ==
  ASSUME IInv, NEW a \in Slot, DoOpen(a)
  PROVE  \E n, f, e : Opened(a, n, f, e) /\ f \in Nat
<1>1. /\ DataInv /\ FamiliesInv /\ RequestsInv
  BY DEF IInv
<1>2. PICK n, e : n = Len(rows) + 1 /\ e = Step(a).epoch
  OBVIOUS
<1>3. PICK f : f = IF Step(a).family = 0 THEN n ELSE Step(a).family
  OBVIOUS
<1>4. /\ Busy(a) /\ Step(a).do = "open"
      /\ UNCHANGED <<user, links, orders, jar, access>>
      /\ rows' = Append(rows, Row(f, e))
      /\ req' = [req EXCEPT ![a].row = n, ![a].todo = Tail(@)]
      /\ hist' = [hist EXCEPT !.raced = Touch(a, {f})]
  BY <1>2, <1>3 DEF DoOpen, Next1, Step, Todo
<1>5. /\ PlanInv(req[a].op, req[a].row, Step(a), Left(a), user # NoUser, rows, Len(links))
      /\ AboutInv(req[a].op, req[a].about, Step(a), req[a].row, rows)
      /\ req[a] = Renewed(req[a], req[a].row, req[a].todo)
  BY <1>1, <1>4, ShapeOf DEF Renewed
<1>6. req' = [req EXCEPT ![a] = Renewed(req[a], n, Left(a))]
  <2>1. PICK q, todo : q = req[a] /\ todo = Left(a)
    OBVIOUS
  <2>2. q = Renewed(q, q.row, q.todo)
    BY <1>5, <2>1
  <2>3. [q EXCEPT !.row = n, !.todo = todo] = Renewed(q, n, todo)
    <3>1. PICK new : new = [q EXCEPT !.row = n, !.todo = todo]
      OBVIOUS
    <3>2. new = Renewed(q, n, todo)
      BY <2>2, <3>1, RenewalOfRow
    <3>3. QED
      BY <3>1, <3>2
  <2>4. req' = [req EXCEPT ![a] = [q EXCEPT !.row = n, !.todo = todo]]
    BY <1>4, <2>1 DEF Left
  <2>5. QED
    BY <2>1, <2>3, <2>4
<1>7. \/ /\ req[a].op = "login" /\ Step(a).family = 0 /\ e \in Nat
         /\ \E c \in BOOLEAN : Left(a) = After(c)
      \/ /\ req[a].op = "refresh" /\ Head(Left(a)).row \in 1..Len(rows)
         /\ Step(a).family = rows[Head(Left(a)).row].family
         /\ e = rows[Head(Left(a)).row].epoch
         /\ Left(a) = Replacing(Head(Left(a)).row)
  BY <1>2, <1>4, <1>5 DEF PlanInv
<1>8. Len(rows) \in Nat
  BY <1>1, RowsAndLinks
<1>9. CASE /\ req[a].op = "login" /\ Step(a).family = 0 /\ e \in Nat
           /\ \E c \in BOOLEAN : Left(a) = After(c)
  <2>1. req[a].about = {Account} /\ f = n /\ f \in Nat
    BY <1>2, <1>3, <1>5, <1>8, <1>9 DEF AboutInv
  <2>2. QED
    BY <1>2, <1>4, <1>6, <1>9, <2>1 DEF Opened
<1>10. CASE /\ req[a].op = "refresh" /\ Head(Left(a)).row \in 1..Len(rows)
            /\ Step(a).family = rows[Head(Left(a)).row].family
            /\ e = rows[Head(Left(a)).row].epoch
            /\ Left(a) = Replacing(Head(Left(a)).row)
  <2>1. PICK s \in 1..Len(rows) : s = Head(Left(a)).row
    BY <1>10
  <2>2. rows[s].family \in 1..s /\ rows[rows[s].family].family = rows[s].family
        /\ rows[s].epoch = rows[rows[s].family].epoch
    BY <1>1 DEF FamiliesInv
  <2>3. f = rows[s].family /\ f = Step(a).family
    BY <1>3, <1>10, <2>1, <2>2
  <2>4. f \in 1..Len(rows) /\ f \in Nat
    BY <1>8, <2>2, <2>3
  <2>5. rows[f].family = f /\ rows[f].epoch = e
    BY <1>10, <2>1, <2>2, <2>3
  <2>6. req[a].about = {f} /\ e \in Nat
    <3>1. rows[s].epoch \in Nat
      BY <1>1, RowsAndLinks
    <3>2. QED
      BY <1>4, <1>5, <1>10, <2>1, <2>3, <3>1 DEF AboutInv
  <2>7. QED
    BY <1>2, <1>4, <1>6, <1>10, <2>1, <2>3, <2>4, <2>5, <2>6 DEF Opened
<1>11. QED
  BY <1>7, <1>9, <1>10

\* Request a, which opened row n of family f, goes on with it.
GoesOnWith(a, n, f) ==
    /\ OwnStep(a) /\ StepOf(a) /\ Busy(a)' /\ (Alone(a)' <=> Alone(a))
    /\ req'[a].op = req[a].op /\ req'[a].tab = req[a].tab /\ req'[a].row = n
    /\ req'[a].about = req[a].about /\ req'[a].seen = req[a].seen
    /\ Step(a)'.do \in {"claim", "rotated", "reply"}
    /\ Left(a) = After(TRUE) => Step(a)'.do # "reply"
    /\ req[a].op = "refresh" => /\ Step(a)'.do = "rotated"
                                /\ Step(a)'.row = Head(Left(a)).row
    /\ hist'.raced = Touch(a, {f}) /\ hist.raced \subseteq hist'.raced
    /\ a \in hist.crossed => f \in hist'.raced
    /\ hist'.over = hist.over /\ hist'.crossed = hist.crossed
    /\ hist'.uses = hist.uses /\ hist'.epoch = hist.epoch
    /\ hist'.failures = hist.failures /\ hist'.shared = hist.shared
    /\ hist'.alarms = hist.alarms /\ hist'.claimed = hist.claimed

\* That is so when a row was opened.
LEMMA OpenedRequest ==
  ASSUME IInv, NEW a \in Slot, NEW n, NEW f \in Nat, NEW e, Opened(a, n, f, e)
  PROVE  /\ DataInv' /\ FamiliesInv' /\ RequestsInv' /\ Rivalry'
         /\ GoesOnWith(a, n, f)
<1>1. /\ DataInv /\ FamiliesInv /\ RequestsInv /\ Rivalry
  BY DEF IInv
<1>2. PICK raced : raced = Touch(a, {f})
  OBVIOUS
<1>3. /\ Busy(a) /\ Step(a).do = "open" /\ n = Len(rows) + 1
      /\ UNCHANGED <<user, links, orders, jar, access>>
      /\ rows' = Append(rows, Row(f, e))
      /\ req' = [req EXCEPT ![a] = Renewed(req[a], n, Left(a))]
      /\ hist' = [hist EXCEPT !.raced = raced]
      /\ e \in Nat
      /\ \/ /\ req[a].op = "login" /\ f = n /\ req[a].about = {Account}
            /\ \E c \in BOOLEAN : Left(a) = After(c)
         \/ /\ req[a].op = "refresh" /\ req[a].about = {f}
            /\ f \in 1..Len(rows) /\ rows[f].family = f /\ rows[f].epoch = e
            /\ Head(Left(a)).row \in 1..Len(rows)
            /\ rows[Head(Left(a)).row].family = f
            /\ Left(a) = Replacing(Head(Left(a)).row)
  BY <1>2 DEF Opened
<1>4. /\ n \in Nat /\ n > Len(rows) /\ Len(rows') = n /\ Len(rows) \in Nat
      /\ \A x \in 1..n : x \in 1..Len(rows) \/ x = n
      /\ rows' \in Seq([family : Nat, epoch : Nat, why : Whys, expired : BOOLEAN])
      /\ \A x \in 1..Len(rows) :
           rows'[x] = rows[x] /\ rows'[x].family = rows[x].family /\ rows'[x].epoch = rows[x].epoch
      /\ rows'[n].family = f /\ rows'[n].epoch = e
  <2>1. DataInv
    BY <1>1
  <2>2. /\ f \in Nat /\ e \in Nat /\ n = Len(rows) + 1
        /\ rows' = Append(rows, Row(f, e))
    BY <1>3
  <2>3. Len(rows) \in Nat
    BY <2>1, RowsAndLinks
  <2>4. /\ n \in Nat /\ n > Len(rows) /\ Len(rows') = n
        /\ \A x \in 1..n : x \in 1..Len(rows) \/ x = n
        /\ rows' \in Seq([family : Nat, epoch : Nat, why : Whys, expired : BOOLEAN])
        /\ \A x \in 1..Len(rows) :
             /\ rows'[x] = rows[x] /\ rows'[x].family = rows[x].family
             /\ rows'[x].epoch = rows[x].epoch
             /\ (Replaced(x)' <=> Replaced(x)) /\ (Live(x)' <=> Live(x))
        /\ rows'[n].family = f /\ rows'[n].epoch = e /\ ~Replaced(n)'
    BY <2>1, <2>2, NewRow
  <2>5. QED
    BY <2>3, <2>4
<1>5. f \in 1..n
  BY <1>3, <1>4
<1>6. /\ hist'.raced = raced /\ hist.raced \subseteq hist'.raced
      /\ a \in hist.crossed => f \in hist'.raced
      /\ hist'.over = hist.over /\ hist'.crossed = hist.crossed
      /\ hist'.uses = hist.uses /\ hist'.epoch = hist.epoch
      /\ hist'.failures = hist.failures /\ hist'.shared = hist.shared
      /\ hist'.alarms = hist.alarms /\ hist'.claimed = hist.claimed
      /\ hist' \in [epoch : Nat, crossed : SUBSET Slot, raced : SUBSET Int,
                    shared : SUBSET Int, failures : Nat, uses : Seq(Nat),
                    over : SUBSET Int, alarms : SUBSET Int, claimed : SUBSET Order]
  <2>1. PICK S : S = Seq(Nat)
    OBVIOUS
  <2>2. hist \in [epoch : Nat, crossed : SUBSET Slot, raced : SUBSET Int, shared : SUBSET Int,
                  failures : Nat, uses : S, over : SUBSET Int, alarms : SUBSET Int,
                  claimed : SUBSET Order]
    BY <1>1, <2>1 DEF DataInv
  <2>3. /\ raced \subseteq Int /\ hist.raced \subseteq raced
        /\ a \in hist.crossed => f \in raced
    BY <1>2, <2>2 DEF Touch, Crossed
  <2>4. QED
    BY <1>3, <2>1, <2>2, <2>3
<1>7. DataInv'
  <2>1. jar' \in [Browser -> [cookie : 0..Len(rows'), hint : BOOLEAN]]
    <3>1. jar \in [Browser -> [cookie : 0..Len(rows), hint : BOOLEAN]]
      BY <1>1 DEF DataInv
    <3>2. 0..Len(rows) \subseteq 0..Len(rows')
      BY <1>4
    <3>3. QED
      BY <1>3, <3>1, <3>2
  <2>2. hist'.over \subseteq 1..Len(rows')
    BY <1>1, <1>4, <1>6 DEF DataInv
  <2>3. QED
    BY <1>1, <1>3, <1>4, <1>6, <2>1, <2>2 DEF DataInv
<1>8. FamiliesInv'
  <2>1. ASSUME NEW x \in 1..n
        PROVE  /\ rows'[x].family \in 1..x
               /\ rows'[rows'[x].family].family = rows'[x].family
               /\ rows'[x].epoch = rows'[rows'[x].family].epoch
    <3>1. CASE x \in 1..Len(rows)
      <4>1. /\ rows[x].family \in 1..x /\ rows[rows[x].family].family = rows[x].family
            /\ rows[x].epoch = rows[rows[x].family].epoch
        BY <1>1, <3>1 DEF FamiliesInv
      <4>2. rows[x].family \in 1..Len(rows)
        BY <1>4, <3>1, <4>1
      <4>3. QED
        BY <1>4, <3>1, <4>1, <4>2
    <3>2. CASE x = n
      BY <1>3, <1>4, <1>5, <3>2
    <3>3. QED
      BY <1>4, <2>1, <3>1, <3>2
  <2>2. QED
    BY <1>4, <2>1 DEF FamiliesInv
<1>9. PICK todo, next : todo = Left(a) /\ next = Head(todo)
  OBVIOUS
<1>10. /\ req[a].op \in {"login", "refresh"} /\ next.do \in {"claim", "rotated", "reply"}
       /\ next.do = "reply" => next.ok = TRUE
       /\ todo = After(TRUE) => next.do # "reply"
       /\ req[a].op = "refresh" => /\ next.do = "rotated" /\ next.row = Head(Left(a)).row
                                   /\ Tail(todo) = Finish
       /\ req[a].op = "login" => /\ next.do \in {"claim", "reply"}
                                 /\ next.do = "claim" => Tail(todo) = Finish
  <2>1. CASE req[a].op = "login" /\ \E c \in BOOLEAN : Left(a) = After(c)
    <3>1. /\ Head(After(TRUE)).do = "claim" /\ Tail(After(TRUE)) = Finish
          /\ Head(After(FALSE)).do = "reply" /\ Head(After(FALSE)).ok = TRUE
      <4>1. PICK x, y : x = Head(After(TRUE)) /\ y = Head(After(FALSE))
        OBVIOUS
      <4>2. x = ClaimOrders /\ Tail(After(TRUE)) = Finish /\ y = Say(TRUE)
        BY <4>1, Lists
      <4>3. x.do = "claim" /\ y.do = "reply" /\ y.ok = TRUE
        BY <4>2 DEF ClaimOrders, Say
      <4>4. QED
        BY <4>1, <4>2, <4>3
    <3>2. After(FALSE) # After(TRUE)
      BY <3>1
    <3>3. todo = After(TRUE) \/ todo = After(FALSE)
      BY <1>9, <2>1
    <3>4. QED
      BY <1>9, <2>1, <3>1, <3>2, <3>3
  <2>2. CASE req[a].op = "refresh" /\ Left(a) = Replacing(Head(Left(a)).row)
    <3>1. PICK s : s = Head(Left(a)).row
      OBVIOUS
    <3>2. todo = Replacing(s)
      BY <1>9, <2>2, <3>1
    <3>3. Head(todo) = [do |-> "rotated", row |-> s] /\ Tail(todo) = Finish
      BY <3>2, Lists
    <3>4. next.do = "rotated" /\ next.row = s
      BY <1>9, <3>3
    <3>5. todo # After(TRUE)
      <4>1. PICK x : x = Head(After(TRUE))
        OBVIOUS
      <4>2. x = ClaimOrders
        BY <4>1, Lists
      <4>3. x.do = "claim"
        BY <4>2 DEF ClaimOrders
      <4>4. QED
        BY <1>9, <3>4, <4>1, <4>3
    <3>6. QED
      BY <2>2, <3>1, <3>3, <3>4
  <2>3. QED
    BY <1>3, <2>1, <2>2
<1>11. PlanInv(req[a].op, n, next, Tail(todo), user' # NoUser, rows', Len(links'))
  <2>1. CASE req[a].op = "login"
    <3>1. next.do = "reply" => next.ok \in BOOLEAN
      BY <1>10
    <3>2. next.do \in {"claim", "reply"} /\ (next.do = "claim" => Tail(todo) = Finish)
      BY <1>10, <2>1
    <3>3. QED
      BY <2>1, <3>1, <3>2 DEF PlanInv
  <2>2. CASE req[a].op = "refresh"
    <3>1. PICK s : s = next.row
      OBVIOUS
    <3>2. s \in 1..Len(rows) /\ rows[s].family = f
      BY <1>3, <1>10, <2>2, <3>1
    <3>3. s \in 1..Len(rows') /\ s < n /\ rows'[s].family = rows'[n].family
      BY <1>4, <3>2
    <3>4. QED
      BY <1>10, <2>2, <3>1, <3>3 DEF PlanInv
  <2>3. QED
    BY <1>10, <2>1, <2>2
<1>12. RowInv(req[a].op, n, next, rows')
  <2>1. n # 0 /\ n \in 0..Len(rows')
    BY <1>4
  <2>2. QED
    BY <1>10, <2>1 DEF RowInv
<1>13. AboutInv(req[a].op, req[a].about, next, n, rows')
  <2>1. CASE req[a].op = "login"
    BY <1>3, <2>1 DEF AboutInv
  <2>2. CASE req[a].op = "refresh"
    <3>1. PICK s : s = next.row
      OBVIOUS
    <3>2. s \in 1..Len(rows) /\ rows[s].family = f /\ req[a].about = {f}
      BY <1>3, <1>10, <2>2, <3>1
    <3>3. rows'[s].family = f /\ s # 0 /\ rows'[n].family = f
      BY <1>4, <3>2
    <3>4. {f} \subseteq 1..Len(rows')
      BY <1>4, <1>5
    <3>5. next.do = "rotated"
      BY <1>10, <2>2
    <3>6. QED
      BY <2>2, <3>1, <3>2, <3>3, <3>4, <3>5 DEF AboutInv
  <2>3. QED
    BY <1>10, <2>1, <2>2
<1>14. RequestInv(req[a], user' # NoUser, rows', Len(links'))
  <2>1. RequestInv(req[a], user # NoUser, rows, Len(links))
    BY <1>1 DEF RequestsInv
  <2>2. Len(links) \in Nat
    BY <1>1 DEF DataInv
  <2>3. /\ (user # NoUser) \in BOOLEAN /\ (user' # NoUser) \in BOOLEAN
        /\ (user # NoUser) => (user' # NoUser)
        /\ Len(links') \in Nat /\ Len(links) <= Len(links')
        /\ Len(rows) \in Nat /\ Len(rows') \in Nat /\ Len(rows) <= Len(rows')
        /\ \A x \in 1..Len(rows) :
             rows'[x].family = rows[x].family /\ rows'[x].epoch = rows[x].epoch
    BY <1>3, <1>4, <2>2
  <2>4. QED
    BY <2>1, <2>2, <2>3, PlanKept
<1>15. /\ OwnStep(a) /\ StepOf(a)
       /\ RequestInv(req'[a], user' # NoUser, rows', Len(links'))
       /\ Step(a)' = next
       /\ req'[a].row = n
       /\ Busy(a)' /\ (Alone(a)' <=> Alone(a))
       /\ req'[a].op = req[a].op /\ req'[a].tab = req[a].tab
       /\ req'[a].about = req[a].about /\ req'[a].seen = req[a].seen
  <2>1. /\ req' = [req EXCEPT ![a] = Renewed(req[a], n, todo)]
        /\ PlanInv(req[a].op, n, Head(todo), Tail(todo), user' # NoUser, rows', Len(links'))
        /\ RowInv(req[a].op, n, Head(todo), rows')
        /\ AboutInv(req[a].op, req[a].about, Head(todo), n, rows')
        /\ DataInv /\ RequestsInv /\ Busy(a)
        /\ hist'.crossed = hist.crossed /\ hist.raced \subseteq hist'.raced
    BY <1>1, <1>3, <1>6, <1>9, <1>11, <1>12, <1>13
  <2>2. /\ OwnStep(a) /\ StepOf(a)
        /\ RequestInv(req'[a], user' # NoUser, rows', Len(links'))
        /\ Step(a)' = Head(todo)
        /\ req'[a].row = n
        /\ Busy(a)' /\ (Alone(a)' <=> Alone(a))
        /\ req'[a].op = req[a].op /\ req'[a].tab = req[a].tab
        /\ req'[a].about = req[a].about /\ req'[a].seen = req[a].seen
    BY <1>14, <2>1, Continues
  <2>3. QED
    BY <1>9, <2>2
<1>16. RequestsInv' /\ Rivalry'
  <2>1. Len(rows) <= Len(rows') /\ Len(links) <= Len(links')
    BY <1>1, <1>3, <1>4 DEF DataInv
  <2>2. QED
    BY <1>1, <1>3, <1>4, <1>7, <1>15, <2>1, RequestsKept, RivalryKept
<1>17. QED
  BY <1>2, <1>6, <1>7, <1>8, <1>9, <1>10, <1>15, <1>16 DEF GoesOnWith

\* Row n is new, in family f, and nothing else changed for other requests.
Grown(a, n, f, e) ==
    /\ Len(rows) \in Nat /\ n \in Nat /\ n > Len(rows) /\ Len(rows') = n
    /\ \A x \in 1..n : x \in 1..Len(rows) \/ x = n
    /\ \A x \in 1..Len(rows) :
         /\ x # n /\ rows'[x].family = rows[x].family /\ rows'[x].epoch = rows[x].epoch
         /\ (Replaced(x)' <=> Replaced(x))
         /\ rows[x].family \in 1..Len(rows)
    /\ rows'[n].family = f /\ rows'[n].epoch = e /\ ~Replaced(n)'
    /\ \A g : /\ g # f => LiveRows(g)' = LiveRows(g) /\ RowsOf(g)' = RowsOf(g)
              /\ LiveRows(g)' \subseteq LiveRows(g) \cup {n}
              /\ RowsOf(g)' \subseteq RowsOf(g) \cup {n}
    /\ RowsOf(n) = {} /\ LiveRows(n) = {}
    /\ jar' = jar /\ \A b \in Browser : jar[b].cookie \in 0..Len(rows)
    /\ \A b \in Slot : /\ Busy(b)' <=> Busy(b)
                       /\ req'[b].op = req[b].op /\ req'[b].tab = req[b].tab
                       /\ req'[b].about = req[b].about
                       /\ Refreshes(b)' <=> Refreshes(b)
                       /\ Refreshes(b) => req[b].about \subseteq 1..Len(rows)
                       /\ Busy(b) => req[b].row \in 0..Len(rows)
    /\ \A b \in Slot \ {a} : /\ Stays(b) /\ req'[b] = req[b] /\ Step(b)' = Step(b)
                             /\ Replaces(b)' <=> Replaces(b)
                             /\ EndsAll(b)' <=> EndsAll(b)

\* That is so when a row was opened.
LEMMA OpenedFacts ==
  ASSUME IInv, NEW a \in Slot, NEW n, NEW f \in Nat, NEW e, Opened(a, n, f, e)
  PROVE  Grown(a, n, f, e)
<1>1. /\ DataInv /\ FamiliesInv /\ RequestsInv
  BY DEF IInv
<1>2. /\ e \in Nat /\ n = Len(rows) + 1 /\ rows' = Append(rows, Row(f, e)) /\ jar' = jar
  BY DEF Opened
<1>3. Len(rows) \in Nat
  BY <1>1, RowsAndLinks
<1>4. /\ n \in Nat /\ n > Len(rows) /\ Len(rows') = n
      /\ \A x \in 1..n : x \in 1..Len(rows) \/ x = n
      /\ \A x \in 1..Len(rows) :
           /\ rows'[x] = rows[x] /\ rows'[x].family = rows[x].family
           /\ rows'[x].epoch = rows[x].epoch
           /\ (Replaced(x)' <=> Replaced(x)) /\ (Live(x)' <=> Live(x))
      /\ rows'[n].family = f /\ rows'[n].epoch = e /\ ~Replaced(n)'
      /\ \A g : /\ g # f => LiveRows(g)' = LiveRows(g) /\ RowsOf(g)' = RowsOf(g)
                /\ LiveRows(g)' \subseteq LiveRows(g) \cup {n}
                /\ RowsOf(g)' \subseteq RowsOf(g) \cup {n}
  <2>1. \A g : /\ g # f => LiveRows(g)' = LiveRows(g) /\ RowsOf(g)' = RowsOf(g)
              /\ LiveRows(g)' \subseteq LiveRows(g) \cup {n}
              /\ RowsOf(g)' \subseteq RowsOf(g) \cup {n}
    BY <1>1, <1>2, NewRow
  <2>2. /\ n \in Nat /\ n > Len(rows) /\ Len(rows') = n
        /\ \A x \in 1..n : x \in 1..Len(rows) \/ x = n
        /\ \A x \in 1..Len(rows) :
             /\ rows'[x] = rows[x] /\ rows'[x].family = rows[x].family
             /\ rows'[x].epoch = rows[x].epoch
             /\ (Replaced(x)' <=> Replaced(x)) /\ (Live(x)' <=> Live(x))
        /\ rows'[n].family = f /\ rows'[n].epoch = e /\ ~Replaced(n)'
    BY <1>1, <1>2, NewRow
  <2>3. QED
    BY <2>1, <2>2
<1>5. \A x \in 1..Len(rows) : x # n /\ rows[x].family \in 1..Len(rows)
  BY <1>1, <1>3, <1>4 DEF FamiliesInv
<1>6. RowsOf(n) = {} /\ LiveRows(n) = {}
  BY <1>5 DEF RowsOf, LiveRows
<1>7. \A b \in Browser : jar[b].cookie \in 0..Len(rows)
  BY <1>1 DEF DataInv
<1>8. /\ OwnStep(a) /\ StepOf(a) /\ Busy(a)' /\ Busy(a)
      /\ req'[a].op = req[a].op /\ req'[a].tab = req[a].tab
      /\ req'[a].about = req[a].about
  BY OpenedRequest DEF Opened, GoesOnWith
<1>9. ASSUME NEW b \in Slot \ {a}
      PROVE  /\ Stays(b) /\ req'[b] = req[b] /\ Step(b)' = Step(b)
             /\ Replaces(b)' <=> Replaces(b)
             /\ EndsAll(b)' <=> EndsAll(b)
  <2>1. Stays(b)
    BY <1>8 DEF StepOf
  <2>2. QED
    BY <2>1, Others
<1>10. \A b \in Slot : /\ Busy(b)' <=> Busy(b)
                       /\ req'[b].op = req[b].op /\ req'[b].tab = req[b].tab
                       /\ req'[b].about = req[b].about
                       /\ Refreshes(b)' <=> Refreshes(b)
  BY <1>8, <1>9 DEF Stays, Busy, Refreshes
<1>11. ASSUME NEW b \in Slot, Busy(b)
       PROVE  /\ Refreshes(b) => req[b].about \subseteq 1..Len(rows)
              /\ req[b].row \in 0..Len(rows)
  <2>1. /\ RowInv(req[b].op, req[b].row, Step(b), rows)
        /\ AboutInv(req[b].op, req[b].about, Step(b), req[b].row, rows)
    BY <1>1, <1>11, ShapeOf
  <2>2. QED
    BY <2>1 DEF RowInv, AboutInv, Refreshes
<1>12. \A b \in Slot : /\ Refreshes(b) => req[b].about \subseteq 1..Len(rows)
                       /\ Busy(b) => req[b].row \in 0..Len(rows)
  BY <1>11 DEF Refreshes
<1>13. QED
  BY <1>2, <1>3, <1>4, <1>5, <1>6, <1>7, <1>9, <1>10, <1>12 DEF Grown

\* A new row is the first of its family, or follows the row it will replace.
LEMMA OpenedTokens ==
  ASSUME IInv, NEW a \in Slot, NEW n, NEW f \in Nat, NEW e, Opened(a, n, f, e)
  PROVE  TokenInv'
<1>1. /\ TokenInv /\ DataInv /\ OpenClaim(a)
  BY DEF IInv, Claims
<1>2. /\ Len(rows) \in Nat /\ n \in Nat /\ n > Len(rows) /\ Len(rows') = n
      /\ \A x \in 1..n : x \in 1..Len(rows) \/ x = n
      /\ \A x \in 1..Len(rows) : x # n
      /\ \A g : /\ g # f => LiveRows(g)' = LiveRows(g)
                /\ LiveRows(g)' \subseteq LiveRows(g) \cup {n}
      /\ LiveRows(n) = {}
      /\ \A b \in Slot \ {a} : /\ req'[b] = req[b] /\ Step(b)' = Step(b)
                               /\ Replaces(b)' <=> Replaces(b)
  <2>1. Grown(a, n, f, e)
    BY OpenedFacts
  <2>2. QED
    BY <2>1 DEF Grown
<1>3. /\ hist.raced \subseteq hist'.raced /\ hist'.over = hist.over
      /\ a \in hist.crossed => f \in hist'.raced
      /\ req'[a].row = n /\ Busy(a)' /\ req'[a].op = req[a].op
      /\ req[a].op = "refresh" => /\ Step(a)'.do = "rotated"
                                  /\ Step(a)'.row = Head(Left(a)).row
  <2>1. GoesOnWith(a, n, f)
    BY OpenedRequest
  <2>2. QED
    BY <2>1 DEF GoesOnWith
<1>4. /\ Busy(a) /\ Step(a).do = "open"
      /\ \/ req[a].op = "login" /\ f = n
         \/ req[a].op = "refresh" /\ Step(a).family = f
  BY DEF Opened
<1>5. n \notin hist.over
  BY <1>1, <1>2 DEF DataInv
<1>6. ASSUME NEW g \in 1..n, g \notin hist'.raced
      PROVE  /\ \A s, r \in LiveRows(g)' :
                  s # r => \E b \in Slot : Replaces(b)' /\ {s, r} = {Step(b)'.row, req'[b].row}
             /\ g \in hist'.over => LiveRows(g)' = {}
  <2>1. CASE g = n
    <3>1. LiveRows(g)' \subseteq {n}
      BY <1>2, <2>1
    <3>2. QED
      BY <1>3, <1>5, <2>1, <3>1
  <2>2. CASE g \in 1..Len(rows) /\ g # f
    <3>1. /\ LiveRows(g)' = LiveRows(g) /\ g \in 1..Len(rows) \ hist.raced
      BY <1>2, <1>3, <1>6, <2>2
    <3>2. /\ \A s, r \in LiveRows(g) :
                s # r => \E b \in Slot : Replaces(b) /\ {s, r} = {Step(b).row, req[b].row}
          /\ g \in hist.over => LiveRows(g) = {}
      BY <1>1, <3>1 DEF TokenInv
    <3>3. ASSUME NEW s \in LiveRows(g)', NEW r \in LiveRows(g)', s # r
          PROVE  \E b \in Slot : Replaces(b)' /\ {s, r} = {Step(b)'.row, req'[b].row}
      <4>1. PICK b \in Slot : Replaces(b) /\ {s, r} = {Step(b).row, req[b].row}
        BY <3>1, <3>2, <3>3
      <4>2. b # a
        BY <1>4, <4>1 DEF Replaces
      <4>3. QED
        BY <1>2, <4>1, <4>2
    <3>4. QED
      BY <1>3, <3>1, <3>2, <3>3
  <2>3. CASE g \in 1..Len(rows) /\ g = f
    <3>1. req[a].op = "refresh" /\ Step(a).family = f /\ a \notin hist.crossed
      BY <1>2, <1>3, <1>4, <1>6, <2>3
    <3>2. Alone(a) /\ Opens(a) /\ f \notin hist.raced
      BY <1>3, <1>4, <1>6, <2>3, <3>1 DEF Alone, Opens, Refreshes
    <3>3. PICK q : q = Head(Left(a)).row
      OBVIOUS
    <3>4. LiveRows(Step(a).family) \subseteq {q} /\ Step(a).family \notin hist.over
      BY <1>1, <3>1, <3>2, <3>3 DEF OpenClaim
    <3>5. LiveRows(g)' \subseteq {q, n} /\ g \notin hist'.over
      BY <1>2, <1>3, <2>3, <3>1, <3>4
    <3>6. Replaces(a)' /\ Step(a)'.row = q /\ req'[a].row = n
      BY <1>3, <3>1, <3>3 DEF Replaces, Refreshes
    <3>7. ASSUME NEW s \in LiveRows(g)', NEW r \in LiveRows(g)', s # r
          PROVE  Replaces(a)' /\ {s, r} = {Step(a)'.row, req'[a].row}
      BY <3>5, <3>6, <3>7
    <3>8. QED
      BY <3>5, <3>7
  <2>4. QED
    BY <1>2, <1>6, <2>1, <2>2, <2>3
<1>7. QED
  BY <1>2, <1>6 DEF TokenInv

\* A new row stays with the browser whose request opened it.
LEMMA OpenedAtHome ==
  ASSUME IInv, NEW a \in Slot, NEW n, NEW f \in Nat, NEW e, Opened(a, n, f, e)
  PROVE  HomeInv'
<1>1. HomeInv /\ Grown(a, n, f, e) /\ GoesOnWith(a, n, f)
  BY OpenedFacts, OpenedRequest DEF IInv
<1>2. /\ Len(rows) \in Nat /\ n > Len(rows) /\ Len(rows') = n /\ n \in Nat
      /\ \A x \in 1..n : x \in 1..Len(rows) \/ x = n
      /\ \A x \in 1..Len(rows) :
           x # n /\ rows'[x].family = rows[x].family /\ rows[x].family \in 1..Len(rows)
      /\ rows'[n].family = f
      /\ jar' = jar /\ \A b \in Browser : jar[b].cookie \in 0..Len(rows)
      /\ \A b \in Slot : /\ Busy(b)' <=> Busy(b)
                         /\ req'[b].op = req[b].op /\ req'[b].tab = req[b].tab
                         /\ req'[b].about = req[b].about
                         /\ Refreshes(b) => req[b].about \subseteq 1..Len(rows)
                         /\ Busy(b) => req[b].row \in 0..Len(rows)
      /\ \A b \in Slot \ {a} : req'[b] = req[b]
  BY <1>1 DEF Grown
<1>3. req'[a].row = n
  BY <1>1 DEF GoesOnWith
<1>4. /\ Busy(a)
      /\ \/ req[a].op = "login" /\ f = n
         \/ req[a].op = "refresh" /\ f \in 1..Len(rows) /\ f \in req[a].about
  BY DEF Opened
<1>5. PICK home : home = BrowserOf[req[a].tab]
  OBVIOUS
<1>6. ASSUME NEW g \in 1..n, NEW b \in Browser, Holds(g, b)'
      PROVE  IF g = n THEN b = home ELSE g \in 1..Len(rows) /\ Holds(g, b)
  <2>1. CASE jar'[b].cookie # 0 /\ rows'[jar'[b].cookie].family = g
    <3>1. PICK c : c = jar[b].cookie
      OBVIOUS
    <3>2. c \in 1..Len(rows) /\ rows'[c].family = g
      BY <1>2, <2>1, <3>1
    <3>3. rows[c].family = g /\ g \in 1..Len(rows) /\ c # 0 /\ g # n
      BY <1>2, <3>2
    <3>4. QED
      BY <3>1, <3>3 DEF Holds
  <2>2. ASSUME NEW d \in Slot, Busy(d)', BrowserOf[req'[d].tab] = b,
               req'[d].op = "refresh" /\ g \in req'[d].about
        PROVE  IF g = n THEN b = home ELSE g \in 1..Len(rows) /\ Holds(g, b)
    <3>1. Busy(d) /\ BrowserOf[req[d].tab] = b /\ req[d].op = "refresh" /\ g \in req[d].about
      BY <1>2, <2>2
    <3>2. g \in 1..Len(rows) /\ g # n
      BY <1>2, <3>1 DEF Refreshes
    <3>3. QED
      BY <3>1, <3>2 DEF Holds
  <2>3. ASSUME NEW d \in Slot, Busy(d)', BrowserOf[req'[d].tab] = b,
               req'[d].row # 0 /\ rows'[req'[d].row].family = g
        PROVE  IF g = n THEN b = home ELSE g \in 1..Len(rows) /\ Holds(g, b)
    <3>1. Busy(d) /\ BrowserOf[req[d].tab] = b
      BY <1>2, <2>3
    <3>2. CASE d = a
      <4>1. g = f /\ b = home
        BY <1>2, <1>3, <1>5, <2>3, <3>1, <3>2
      <4>2. QED
        BY <1>2, <1>4, <3>1, <3>2, <4>1 DEF Holds
    <3>3. CASE d # a
      <4>1. PICK x : x = req[d].row
        OBVIOUS
      <4>2. x \in 1..Len(rows) /\ rows'[x].family = g
        BY <1>2, <2>3, <3>1, <3>3, <4>1
      <4>3. rows[x].family = g /\ g \in 1..Len(rows) /\ x # 0 /\ g # n
        BY <1>2, <4>2
      <4>4. QED
        BY <3>1, <4>1, <4>3 DEF Holds
    <3>4. QED
      BY <3>2, <3>3
  <2>4. QED
    BY <1>6, <2>1, <2>2, <2>3 DEF Holds
<1>7. ASSUME NEW g \in 1..n, NEW b \in Browser, NEW c \in Browser, Holds(g, b)', Holds(g, c)'
      PROVE  b = c
  <2>1. /\ IF g = n THEN b = home ELSE g \in 1..Len(rows) /\ Holds(g, b)
        /\ IF g = n THEN c = home ELSE g \in 1..Len(rows) /\ Holds(g, c)
    BY <1>6, <1>7
  <2>2. QED
    BY <1>1, <2>1 DEF HomeInv
<1>8. QED
  BY <1>2, <1>7 DEF HomeInv

\* A new row disturbs no answer a browser waits for, and ends no reset.
LEMMA OpenedQuietly ==
  ASSUME IInv, NEW a \in Slot, NEW n, NEW f \in Nat, NEW e, Opened(a, n, f, e)
  PROVE  JarInv' /\ SharedInv' /\ ResetInv'
<1>1. /\ JarInv /\ SharedInv /\ ResetInv /\ ResetClaim(a)
      /\ Grown(a, n, f, e) /\ GoesOnWith(a, n, f)
  BY OpenedFacts, OpenedRequest DEF IInv, Claims
<1>2. /\ Len(rows) \in Nat /\ n > Len(rows) /\ Len(rows') = n /\ n \in Nat
      /\ \A x \in 1..n : x \in 1..Len(rows) \/ x = n
      /\ \A x \in 1..Len(rows) :
           /\ x # n /\ rows'[x].family = rows[x].family /\ rows'[x].epoch = rows[x].epoch
           /\ (Replaced(x)' <=> Replaced(x))
      /\ rows'[n].family = f /\ rows'[n].epoch = e
      /\ \A g : g # f => LiveRows(g)' = LiveRows(g)
      /\ jar' = jar /\ \A b \in Browser : jar[b].cookie \in 0..Len(rows)
      /\ \A b \in Slot : /\ req'[b].about = req[b].about /\ req'[b].tab = req[b].tab
                         /\ Refreshes(b)' <=> Refreshes(b)
      /\ \A b \in Slot \ {a} : req'[b] = req[b] /\ Step(b)' = Step(b) /\ (EndsAll(b)' <=> EndsAll(b))
  BY <1>1 DEF Grown
<1>3. /\ hist.raced \subseteq hist'.raced /\ hist'.shared = hist.shared
      /\ hist'.epoch = hist.epoch
      /\ a \in hist.crossed => f \in hist'.raced
  BY <1>1 DEF GoesOnWith
<1>4. /\ Busy(a) /\ Step(a).do = "open" /\ Step(a).epoch = e
      /\ \/ req[a].op = "login" /\ f = n
         \/ req[a].op = "refresh" /\ f \in 1..Len(rows) /\ Step(a).family = f
              /\ rows[f].epoch = e
  BY DEF Opened
<1>5. JarInv'
  <2>1. \A b \in Browser : \A s :
          (/\ s = jar'[b].cookie /\ s # 0 /\ Replaced(s)'
           /\ rows'[s].family \notin hist'.shared) =>
              jar[b].cookie = s /\ Replaced(s) /\ rows[s].family = rows'[s].family
    <3>1. SUFFICES ASSUME NEW b \in Browser, NEW s, s = jar'[b].cookie, s # 0, Replaced(s)'
                   PROVE  jar[b].cookie = s /\ Replaced(s) /\ rows[s].family = rows'[s].family
      OBVIOUS
    <3>2. s = jar[b].cookie /\ s \in 1..Len(rows)
      BY <1>2, <3>1
    <3>3. QED
      BY <1>2, <3>1, <3>2
  <2>2. \A d \in Slot : (Refreshes(d) /\ req[d].row # 0 /\ Step(d).do = "reply") =>
          /\ Refreshes(d)' /\ req'[d].row # 0 /\ Step(d)'.do = "reply"
          /\ req'[d].about = req[d].about /\ req'[d].tab = req[d].tab
    BY <1>2, <1>4
  <2>3. QED
    BY <1>1, <1>3, <2>1, <2>2, JarKept
<1>6. SharedInv'
  BY <1>1, <1>2, <1>3, SharedKept
<1>7. ResetInv'
  <2>1. SUFFICES ASSUME Account \notin hist'.raced, NEW g \in 1..n, g \notin hist'.raced,
                        rows'[g].family = g, rows'[g].epoch # hist.epoch, LiveRows(g)' # {}
                 PROVE  \E d \in Slot : EndsAll(d)'
    BY <1>2, <1>3 DEF ResetInv, Old
  <2>2. Account \notin hist.raced /\ g \notin hist.raced
    BY <1>3, <2>1
  <2>3. CASE g = f
    <3>1. a \notin hist.crossed
      BY <1>3, <2>1, <2>3
    <3>2. CASE req[a].op = "login" /\ f = n
      <4>1. e = hist.epoch
        BY <1>1, <1>4, <2>2, <3>2 DEF ResetClaim
      <4>2. QED
        BY <1>2, <2>1, <2>3, <3>2, <4>1
    <3>3. CASE /\ req[a].op = "refresh" /\ f \in 1..Len(rows) /\ Step(a).family = f
               /\ rows[f].epoch = e
      <4>1. Opens(a) /\ f \notin hist.raced
        BY <1>4, <2>2, <2>3, <3>3 DEF Opens, Refreshes
      <4>2. ~Old(f)
        BY <1>1, <1>4, <2>2, <3>1, <3>3, <4>1 DEF ResetClaim
      <4>3. QED
        BY <1>2, <2>1, <2>3, <3>3, <4>2 DEF Old
    <3>4. QED
      BY <1>4, <3>2, <3>3
  <2>4. CASE g # f
    <3>1. g \in 1..Len(rows)
      BY <1>2, <2>1, <2>4
    <3>2. rows[g].family = g /\ Old(g) /\ LiveRows(g) # {}
      BY <1>2, <2>1, <2>4, <3>1 DEF Old
    <3>3. PICK d \in Slot : EndsAll(d)
      BY <1>1, <2>2, <3>1, <3>2 DEF ResetInv
    <3>4. d # a
      BY <1>4, <3>3 DEF EndsAll
    <3>5. QED
      BY <1>2, <3>3, <3>4
  <2>5. QED
    BY <2>3, <2>4
<1>8. QED
  BY <1>5, <1>6, <1>7

\* What other requests know stays true when a row is opened.
LEMMA OpenedForOthers ==
  ASSUME IInv, NEW a \in Slot, NEW n, NEW f \in Nat, NEW e, Opened(a, n, f, e),
         NEW b \in Slot \ {a}
  PROVE  Claims(b)'
<1>1. /\ DataInv /\ RequestsInv /\ Rivalry /\ Claims(b) /\ ResetClaim(a)
      /\ Grown(a, n, f, e) /\ GoesOnWith(a, n, f)
  BY OpenedFacts, OpenedRequest DEF IInv, Claims
<1>2. /\ Len(rows) \in Nat /\ n > Len(rows) /\ Len(rows') = n /\ n \in Nat
      /\ \A x \in 1..n : x \in 1..Len(rows) \/ x = n
      /\ \A x \in 1..Len(rows) :
           /\ x # n /\ rows'[x].family = rows[x].family /\ rows'[x].epoch = rows[x].epoch
           /\ (Replaced(x)' <=> Replaced(x))
      /\ rows'[n].family = f /\ rows'[n].epoch = e
      /\ \A g : g # f => LiveRows(g)' = LiveRows(g) /\ RowsOf(g)' = RowsOf(g)
      /\ \A c \in Slot : /\ Busy(c)' <=> Busy(c)
                         /\ req'[c].about = req[c].about
                         /\ Refreshes(c)' <=> Refreshes(c)
                         /\ Busy(c) => req[c].row \in 0..Len(rows)
      /\ \A c \in Slot \ {a} : req'[c] = req[c]
      /\ Stays(b) /\ Step(b)' = Step(b)
  BY <1>1 DEF Grown
<1>3. /\ hist'.shared = hist.shared /\ hist'.epoch = hist.epoch
      /\ hist'.over = hist.over /\ hist'.uses = hist.uses
      /\ hist.raced \subseteq hist'.raced
      /\ req'[a].row = n
  BY <1>1 DEF GoesOnWith
<1>4. /\ Busy(a) /\ Step(a).do = "open" /\ Step(a).epoch = e
      /\ UNCHANGED <<user, links, orders, jar>>
      /\ \/ req[a].op = "login" /\ f = n /\ req[a].about = {Account}
         \/ req[a].op = "refresh" /\ f \in 1..Len(rows) /\ req[a].about = {f}
  BY DEF Opened
<1>5. CountClaim(b)'
  BY <1>1, <1>2, <1>4, CountKept DEF Claims
<1>6. LinkClaim(b)'
  <2>1. \A l \in 1..Len(links') : Usable(l)' =>
          l \in 1..Len(links) /\ Usable(l) /\ links'[l].type = links[l].type
    BY <1>4 DEF Usable
  <2>2. QED
    BY <1>1, <1>2, <1>3, <2>1, LinkKept DEF Claims
<1>7. OrderClaim(b)'
  BY <1>1, <1>2, <1>4, OrderKept DEF Claims
<1>8. OpenClaim(b)'
  <2>1. PICK g : g = Step(b).family
    OBVIOUS
  <2>2. ASSUME Alone(b), Opens(b)
        PROVE  g # f
    <3>1. req[b].about = {g} /\ g \in 1..Len(rows)
      BY <1>1, <2>1, <2>2, WhoWrites DEF Alone
    <3>2. req[a].about \cap req[b].about = {}
      BY <1>1, <1>4, <2>2, AloneIsApart
    <3>3. QED
      BY <1>2, <1>4, <3>1, <3>2
  <2>3. Step(b)'.family = g
    BY <1>2, <2>1
  <2>4. LiveRows(Step(b).family)' = LiveRows(g)'
    BY <2>3 DEF LiveRows, RowsOf, Live
  <2>5. (Alone(b) /\ Opens(b)) => LiveRows(Step(b).family)' \subseteq LiveRows(Step(b).family)
    BY <1>2, <2>1, <2>2, <2>4
  <2>6. QED
    BY <1>1, <1>2, <1>3, <2>5, OpenKept DEF Claims
<1>9. NewRowClaim(b)'
  <2>1. PICK r : r = req[b].row
    OBVIOUS
  <2>2. NewRowClaim(b)
    BY <1>1 DEF Claims
  <2>3. \A c \in Browser : jar'[c].cookie = r /\ r # 0 => jar[c].cookie = r
    BY <1>4
  <2>4. req[b].op \in {"login", "refresh"} => Busy(b)
    BY DEF Busy, Idle
  <2>5. Busy(b) => r \in 0..Len(rows) /\ r # n
    BY <1>2, <2>1
  <2>6. CASE Busy(b)
    <3>1. \A c \in Slot \ {b} : Busy(c)' /\ req'[c].row = r /\ r # 0 =>
                                    Busy(c) /\ req[c].row = r
      BY <1>2, <1>3, <2>5, <2>6
    <3>2. r \in 1..Len(rows) => rows'[r].family = rows[r].family
      BY <1>2
    <3>3. r # 0 => (Replaced(r)' <=> Replaced(r))
      BY <1>2, <2>5, <2>6
    <3>4. ASSUME req[b].op = "login", r # 0
          PROVE  r # f
      <4>1. \A c \in Slot : Refreshes(c) => r \notin req[c].about
        BY <2>1, <2>2, <2>6, <3>4 DEF NewRowClaim
      <4>2. req[a].op = "refresh" => Refreshes(a)
        BY <1>4 DEF Refreshes
      <4>3. QED
        BY <1>4, <2>5, <2>6, <4>1, <4>2
    <3>5. req[b].op = "login" /\ r # 0 =>
           /\ Replaced(r)' => Replaced(r)
           /\ RowsOf(r)' \subseteq RowsOf(r)
           /\ Len(rows) <= Len(rows')
           /\ \A c \in Slot : Refreshes(c)' /\ r \in req'[c].about =>
                                 Refreshes(c) /\ r \in req[c].about
      BY <1>2, <3>3, <3>4
    <3>6. QED
      BY <1>1, <1>2, <1>3, <2>1, <2>2, <2>3, <3>1, <3>2, <3>3, <3>5, NewRowKept
  <2>7. CASE ~Busy(b)
    BY <1>2, <2>7 DEF NewRowClaim
  <2>8. QED
    BY <2>6, <2>7
<1>10. AlarmClaim(b)'
  <2>1. PICK s : s = Step(b).row
    OBVIOUS
  <2>2. ASSUME Refreshes(b), Step(b).do \in {"refresh", "reuse"}, s # 0
        PROVE  rows'[s].family = rows[s].family /\ (Replaced(s)' => Replaced(s))
    <3>1. /\ PlanInv(req[b].op, req[b].row, Step(b), Left(b), user # NoUser, rows, Len(links))
          /\ req[b].op = "refresh"
      BY <1>1, <2>2, ShapeOf DEF Refreshes
    <3>2. Step(b).row \in 0..Len(rows)
      BY <1>2, <2>2, <3>1 DEF PlanInv
    <3>3. s \in 1..Len(rows)
      BY <1>2, <2>1, <2>2, <3>2
    <3>4. QED
      BY <1>2, <3>3
  <2>3. QED
    BY <1>1, <1>2, <1>3, <2>1, <2>2, AlarmKept DEF Claims
<1>11. ResetClaim(b)'
  <2>1. ASSUME Account \notin hist'.raced, NEW g \in 1..Len(rows'), g \notin 1..Len(rows),
               rows'[g].family = g, Busy(b), req[b].op = "reset"
        PROVE  rows'[g].epoch = hist.epoch /\ b \in hist.crossed
    <3>1. g = n /\ f = n /\ req[a].op = "login" /\ req[a].about = {Account}
      BY <1>2, <1>4, <2>1
    <3>2. e = hist.epoch
      BY <1>1, <1>3, <1>4, <2>1, <3>1 DEF ResetClaim
    <3>3. Account \in req[b].about
      BY <1>1, <2>1, WhoWrites
    <3>4. b \in hist.crossed
      BY <1>1, <1>4, <2>1, <3>1, <3>3 DEF Rivalry
    <3>5. QED
      BY <1>2, <3>1, <3>2, <3>4
  <2>2. Account \notin hist'.raced =>
           /\ hist'.epoch = hist.epoch
           /\ Len(rows) <= Len(rows') /\ Len(rows') \in Nat
           /\ \A g \in 1..Len(rows) :
                rows'[g].family = rows[g].family /\ rows'[g].epoch = rows[g].epoch
           /\ \A g \in 1..Len(rows') :
                (g \notin 1..Len(rows) /\ rows'[g].family = g /\ Busy(b)
                 /\ req[b].op = "reset" /\ g \notin req[b].about) =>
                    rows'[g].epoch = hist.epoch /\ b \in hist.crossed
    BY <1>2, <1>3, <2>1
  <2>3. ResetClaim(b)
    BY <1>1 DEF Claims
  <2>4. QED
    BY <1>1, <1>2, <2>2, <2>3, ResetKept
<1>12. QED
  BY <1>5, <1>6, <1>7, <1>8, <1>9, <1>10, <1>11 DEF Claims

\* Nobody else knows the row a request just opened.
LEMMA OpenedForItself ==
  ASSUME IInv, NEW a \in Slot, NEW n, NEW f \in Nat, NEW e, Opened(a, n, f, e)
  PROVE  Claims(a)'
<1>1. /\ OrderClaim(a) /\ Grown(a, n, f, e) /\ GoesOnWith(a, n, f)
  BY OpenedFacts, OpenedRequest DEF IInv, Claims
<1>2. /\ Len(rows) \in Nat /\ n > Len(rows) /\ Len(rows') = n /\ n \in Nat
      /\ \A x \in 1..Len(rows) : x # n
      /\ rows'[n].family = f /\ ~Replaced(n)'
      /\ RowsOf(n)' \subseteq RowsOf(n) \cup {n} /\ RowsOf(n) = {}
      /\ jar' = jar /\ \A b \in Browser : jar[b].cookie \in 0..Len(rows)
      /\ \A b \in Slot : /\ Busy(b)' <=> Busy(b)
                         /\ req'[b].about = req[b].about
                         /\ Refreshes(b)' <=> Refreshes(b)
                         /\ Refreshes(b) => req[b].about \subseteq 1..Len(rows)
                         /\ Busy(b) => req[b].row \in 0..Len(rows)
      /\ \A b \in Slot \ {a} : req'[b] = req[b]
  BY <1>1 DEF Grown
<1>3. /\ req'[a].op = req[a].op /\ req'[a].row = n /\ req'[a].seen = req[a].seen
      /\ Busy(a)' /\ (Alone(a)' <=> Alone(a))
      /\ Step(a)'.do \in {"claim", "rotated", "reply"}
      /\ Left(a) = After(TRUE) => Step(a)'.do # "reply"
  BY <1>1 DEF GoesOnWith
<1>4. /\ Busy(a) /\ Step(a).do = "open"
      /\ user' = user /\ orders' = orders
      /\ \/ req[a].op = "login" /\ f = n
         \/ req[a].op = "refresh"
  BY DEF Opened
<1>5. CountClaim(a)' /\ OpenClaim(a)' /\ AlarmClaim(a)' /\ ResetClaim(a)'
  BY <1>3, <1>4 DEF CountClaim, OpenClaim, Opens, AlarmClaim, ResetClaim
<1>6. LinkClaim(a)'
  <2>1. ~WillUse(a)' /\ Step(a)'.do # "newlink"
    BY <1>3 DEF WillUse
  <2>2. QED
    BY <2>1 DEF LinkClaim
<1>7. OrderClaim(a)'
  <2>1. \A o \in req'[a].seen : orders'[o] # "none"
    BY <1>1, <1>3, <1>4 DEF OrderClaim
  <2>2. ASSUME Alone(a)', req'[a].op = "login", Step(a)'.do = "reply"
        PROVE  ~user'.verified
    BY <1>1, <1>3, <1>4, <2>2 DEF OrderClaim
  <2>3. Step(a)'.do \notin {"user", "open"}
    BY <1>3
  <2>4. QED
    BY <2>1, <2>2, <2>3 DEF OrderClaim
<1>8. NewRowClaim(a)'
  <2>1. \A b \in Browser : jar'[b].cookie # n
    BY <1>2
  <2>2. \A b \in Slot \ {a} : Busy(b)' => req'[b].row # n
    BY <1>2
  <2>3. ASSUME req[a].op = "login"
        PROVE  /\ rows'[n].family = n /\ ~Replaced(n)' /\ RowsOf(n)' = {n}
               /\ \A b \in Slot : Refreshes(b)' => n \notin req'[b].about
    <3>1. rows'[n].family = n
      BY <1>2, <1>4, <2>3
    <3>2. n \in RowsOf(n)'
      BY <1>2, <3>1 DEF RowsOf
    <3>3. QED
      BY <1>2, <3>1, <3>2
  <2>4. PICK r : r = req'[a].row
    OBVIOUS
  <2>5. r = n
    BY <1>3, <2>4
  <2>6. RowsOf(req[a].row)' = RowsOf(n)' /\ (Replaced(req[a].row)' <=> Replaced(n)')
    BY <1>3 DEF RowsOf, Replaced
  <2>7. QED
    BY <1>2, <1>3, <2>1, <2>2, <2>3, <2>6 DEF NewRowClaim
<1>9. QED
  BY <1>5, <1>6, <1>7, <1>8 DEF Claims

\* A row is opened.
LEMMA OpenStep ==
  ASSUME IInv, NEW a \in Slot, DoOpen(a)
  PROVE  IInv'
<1>1. PICK n, f, e : Opened(a, n, f, e) /\ f \in Nat
  BY OpensRow
<1>2. /\ DataInv' /\ FamiliesInv' /\ RequestsInv' /\ Rivalry' /\ GoesOnWith(a, n, f)
  BY <1>1, OpenedRequest
<1>3. TokenInv' /\ HomeInv' /\ JarInv' /\ SharedInv' /\ ResetInv'
  BY <1>1, OpenedTokens, OpenedAtHome, OpenedQuietly
<1>4. CountInv' /\ LinksInv' /\ OrdersFollowLogin' /\ NoFalseAlarm'
  <2>1. CountInv /\ LinksInv /\ OrdersFollowLogin /\ NoFalseAlarm
    BY DEF IInv
  <2>2. user' = user /\ links' = links /\ orders' = orders
    BY <1>1 DEF Opened
  <2>3. /\ hist.raced \subseteq hist'.raced /\ hist'.uses = hist.uses
        /\ hist'.failures = hist.failures /\ hist'.alarms = hist.alarms
        /\ hist'.claimed = hist.claimed
    BY <1>2 DEF GoesOnWith
  <2>4. QED
    BY <2>1, <2>2, <2>3 DEF CountInv, LinksInv, OrdersFollowLogin, NoFalseAlarm, Usable
<1>5. \A b \in Slot : Claims(b)'
  BY <1>1, OpenedForOthers, OpenedForItself
<1>6. QED
  BY <1>2, <1>3, <1>4, <1>5 DEF IInv

\* A step that writes keeps everything.
LEMMA WritesStep ==
  ASSUME IInv, NEW a \in Slot, Writes(a)
  PROVE  IInv'
<1>1. CASE DoNewUser(a)
  BY <1>1, NewUserStep
<1>2. CASE DoUser(a)
  BY <1>2, UserStep
<1>3. CASE DoOpen(a)
  BY <1>3, OpenStep
<1>4. CASE DoClaim(a)
  BY <1>4, ClaimStep
<1>5. CASE DoRotated(a)
  BY <1>5, RotatedStep
<1>6. CASE DoReuse(a)
  BY <1>6, ReuseStep
<1>7. CASE DoLogout(a)
  BY <1>7, LogoutStep
<1>8. CASE DoRevokeAll(a)
  BY <1>8, RevokeAllStep
<1>9. CASE DoDropLinks(a)
  BY <1>9, DropLinksStep
<1>10. CASE DoNewLink(a)
  BY <1>10, NewLinkStep
<1>11. CASE DoUseLink(a)
  BY <1>11, UseLinkStep
<1>12. QED
  BY <1>1, <1>2, <1>3, <1>4, <1>5, <1>6, <1>7, <1>8, <1>9, <1>10, <1>11 DEF Writes

-----------------------------------------------------------------------------
(* Answers, and requests that end without one. *)

\* Request a is over: its browser has its row, or what it was about is on record.
IsOver(a) ==
    /\ Busy(a) /\ UNCHANGED <<user, rows, links, orders>>
    /\ req' = [req EXCEPT ![a] = Idle]
    /\ access' \in [Tab -> BOOLEAN]
    /\ jar' \in [Browser -> [cookie : 0..Len(rows), hint : BOOLEAN]]
    /\ \A b \in Browser :
         \/ jar'[b].cookie \in {jar[b].cookie, 0}
         \/ /\ b = BrowserOf[req[a].tab] /\ req[a].row # 0
            /\ jar'[b].cookie = req[a].row
    /\ \/ req[a].about \subseteq hist'.shared
       \/ /\ Step(a).do = "reply"
          /\ (Refreshes(a) /\ req[a].row # 0) =>
               jar'[BrowserOf[req[a].tab]].cookie = req[a].row
    /\ Step(a).do # "reply" => req[a].about \subseteq hist'.raced
    /\ hist'.crossed = hist.crossed \ {a}
    /\ hist.raced \subseteq hist'.raced /\ hist.shared \subseteq hist'.shared
    /\ hist'.over = hist.over /\ hist'.uses = hist.uses /\ hist'.epoch = hist.epoch
    /\ hist'.failures = hist.failures /\ hist'.alarms = hist.alarms
    /\ \A o \in hist'.claimed : o \in hist.claimed \/ orders[o] = "linked"
    /\ hist' \in [epoch : Nat, crossed : SUBSET Slot, raced : SUBSET Int,
                  shared : SUBSET Int, failures : Nat, uses : Seq(Nat),
                  over : SUBSET Int, alarms : SUBSET Int, claimed : SUBSET Order]

\* The other requests are as they were when one is over.
LEMMA OverForRequests ==
  ASSUME IInv, NEW a \in Slot, IsOver(a)
  PROVE  /\ DataInv' /\ FamiliesInv' /\ RequestsInv' /\ Rivalry'
         /\ ~Busy(a)' /\ req'[a] = Idle
         /\ \A b \in Slot : Busy(b)' => b # a /\ Busy(b)
         /\ \A b \in Slot \ {a} : /\ Stays(b) /\ req'[b] = req[b] /\ Step(b)' = Step(b)
                                  /\ Busy(b)' <=> Busy(b)
                                  /\ Refreshes(b)' <=> Refreshes(b)
                                  /\ Replaces(b)' <=> Replaces(b)
                                  /\ EndsAll(b)' <=> EndsAll(b)
<1>1. DataInv /\ FamiliesInv /\ RequestsInv /\ Rivalry
  BY DEF IInv
<1>2. /\ UNCHANGED <<user, rows, links, orders>>
      /\ req' = [req EXCEPT ![a] = Idle]
      /\ access' \in [Tab -> BOOLEAN]
      /\ jar' \in [Browser -> [cookie : 0..Len(rows), hint : BOOLEAN]]
      /\ hist'.crossed = hist.crossed \ {a} /\ hist.raced \subseteq hist'.raced
      /\ hist'.over = hist.over /\ hist'.uses = hist.uses
      /\ hist' \in [epoch : Nat, crossed : SUBSET Slot, raced : SUBSET Int,
                    shared : SUBSET Int, failures : Nat, uses : Seq(Nat),
                    over : SUBSET Int, alarms : SUBSET Int, claimed : SUBSET Order]
  BY DEF IsOver
<1>3. DataInv' /\ FamiliesInv'
  BY <1>1, <1>2 DEF DataInv, FamiliesInv
<1>4. /\ req'[a] = Idle /\ \A b \in Slot \ {a} : req'[b] = req[b]
      /\ req' = [b \in Slot |-> req'[b]]
  BY <1>1, <1>2 DEF RequestsInv
<1>5. \A b \in Slot \ {a} : Stays(b)
  BY <1>2, <1>4 DEF Stays
<1>6. RequestsInv'
  <2>1. StepOf(a)
    BY <1>4, <1>5 DEF StepOf
  <2>2. RequestInv(req'[a], user' # NoUser, rows', Len(links'))
    BY <1>4 DEF RequestInv
  <2>3. Len(rows) <= Len(rows') /\ Len(links) <= Len(links')
    BY <1>1, <1>2 DEF DataInv
  <2>4. QED
    BY <1>1, <1>2, <1>3, <2>1, <2>2, <2>3, RequestsKept
<1>7. ~Busy(a)' /\ \A b \in Slot \ {a} : Busy(b)' <=> Busy(b)
  BY <1>4 DEF Busy
<1>8. Rivalry'
  BY <1>1, <1>2, <1>4, <1>7 DEF Rivalry
<1>9. ASSUME NEW b \in Slot \ {a}
      PROVE  /\ Step(b)' = Step(b)
             /\ Refreshes(b)' <=> Refreshes(b)
             /\ Replaces(b)' <=> Replaces(b)
             /\ EndsAll(b)' <=> EndsAll(b)
  BY <1>5, Others
<1>10. QED
  BY <1>3, <1>4, <1>5, <1>6, <1>7, <1>8, <1>9

\* No browser learns of a family it did not know when a request is over.
LEMMA OverAtHome ==
  ASSUME IInv, NEW a \in Slot, IsOver(a)
  PROVE  HomeInv' /\ JarInv'
<1>1. /\ DataInv /\ HomeInv /\ JarInv /\ NewRowClaim(a) /\ RequestsInv
  BY DEF IInv, Claims
<1>2. /\ Busy(a) /\ rows' = rows
      /\ jar' \in [Browser -> [cookie : 0..Len(rows), hint : BOOLEAN]]
      /\ \A b \in Browser :
           \/ jar'[b].cookie \in {jar[b].cookie, 0}
           \/ /\ b = BrowserOf[req[a].tab] /\ req[a].row # 0
              /\ jar'[b].cookie = req[a].row
      /\ \/ req[a].about \subseteq hist'.shared
         \/ /\ Step(a).do = "reply"
            /\ (Refreshes(a) /\ req[a].row # 0) =>
                 jar'[BrowserOf[req[a].tab]].cookie = req[a].row
      /\ hist.shared \subseteq hist'.shared
  BY DEF IsOver
<1>3. /\ ~Busy(a)'
      /\ \A b \in Slot : Busy(b)' => b # a /\ Busy(b)
      /\ \A b \in Slot \ {a} : /\ req'[b] = req[b] /\ Step(b)' = Step(b)
                               /\ Refreshes(b)' <=> Refreshes(b)
  BY OverForRequests
<1>4. ASSUME NEW g \in 1..Len(rows), NEW b \in Browser, Holds(g, b)'
      PROVE  Holds(g, b)
  <2>1. CASE jar'[b].cookie # 0 /\ rows'[jar'[b].cookie].family = g
    <3>1. CASE jar'[b].cookie \in {jar[b].cookie, 0}
      BY <1>2, <2>1, <3>1 DEF Holds
    <3>2. CASE /\ b = BrowserOf[req[a].tab] /\ req[a].row # 0
               /\ jar'[b].cookie = req[a].row
      BY <1>2, <2>1, <3>2 DEF Holds
    <3>3. QED
      BY <1>2, <3>1, <3>2
  <2>2. ASSUME NEW d \in Slot, Busy(d)', BrowserOf[req'[d].tab] = b,
               \/ req'[d].op = "refresh" /\ g \in req'[d].about
               \/ req'[d].row # 0 /\ rows'[req'[d].row].family = g
        PROVE  Holds(g, b)
    <3>1. Busy(d) /\ req'[d] = req[d]
      BY <1>3, <2>2
    <3>2. QED
      BY <1>2, <2>2, <3>1 DEF Holds
  <2>3. QED
    BY <1>4, <2>1, <2>2 DEF Holds
<1>5. HomeInv'
  BY <1>1, <1>2, <1>4, HomeKept
<1>6. /\ RowInv(req[a].op, req[a].row, Step(a), rows)
      /\ AboutInv(req[a].op, req[a].about, Step(a), req[a].row, rows)
  BY <1>1, <1>2, ShapeOf
<1>7. JarInv'
  <2>1. SUFFICES ASSUME NEW b \in Browser, NEW s, s = jar'[b].cookie, s # 0, Replaced(s)',
                        rows'[s].family \notin hist'.shared
                 PROVE  \E d \in Slot : /\ Refreshes(d)' /\ req'[d].row # 0
                                        /\ Step(d)'.do = "reply"
                                        /\ rows'[s].family \in req'[d].about
                                        /\ BrowserOf[req'[d].tab] = b
    BY DEF JarInv
  <2>2. Replaced(s) /\ rows[s].family \notin hist.shared
    BY <1>2, <2>1 DEF Replaced
  <2>3. s # req[a].row
    <3>1. SUFFICES ASSUME s = req[a].row
                   PROVE  FALSE
      OBVIOUS
    <3>2. req[a].op \in {"login", "refresh"}
      BY <1>6, <2>1, <3>1 DEF RowInv
    <3>3. QED
      BY <1>1, <1>2, <2>1, <2>2, <3>1, <3>2 DEF NewRowClaim
  <2>4. jar[b].cookie = s
    BY <1>2, <2>1, <2>3
  <2>5. PICK d \in Slot : /\ Refreshes(d) /\ req[d].row # 0 /\ Step(d).do = "reply"
                          /\ rows[s].family \in req[d].about
                          /\ BrowserOf[req[d].tab] = b
    BY <1>1, <2>1, <2>2, <2>4 DEF JarInv
  <2>6. d # a
    BY <1>2, <2>1, <2>3, <2>5
  <2>7. QED
    BY <1>2, <1>3, <2>5, <2>6
<1>8. QED
  BY <1>5, <1>7

\* Everything stays true when a request is over.
LEMMA OverStep ==
  ASSUME IInv, NEW a \in Slot, IsOver(a)
  PROVE  IInv'
<1>1. /\ DataInv /\ RequestsInv /\ CountInv /\ LinksInv /\ OrdersFollowLogin /\ NoFalseAlarm
      /\ TokenInv /\ SharedInv /\ ResetInv
      /\ \A b \in Slot : Claims(b)
  BY DEF IInv
<1>2. /\ Busy(a) /\ UNCHANGED <<user, rows, links, orders>>
      /\ \A b \in Browser :
           \/ jar'[b].cookie \in {jar[b].cookie, 0}
           \/ req[a].row # 0 /\ jar'[b].cookie = req[a].row
      /\ Step(a).do # "reply" => req[a].about \subseteq hist'.raced
      /\ hist'.crossed = hist.crossed \ {a}
      /\ hist.raced \subseteq hist'.raced /\ hist.shared \subseteq hist'.shared
      /\ hist'.over = hist.over /\ hist'.uses = hist.uses /\ hist'.epoch = hist.epoch
      /\ hist'.failures = hist.failures /\ hist'.alarms = hist.alarms
      /\ \A o \in hist'.claimed : o \in hist.claimed \/ orders[o] = "linked"
  BY DEF IsOver
<1>3. /\ DataInv' /\ FamiliesInv' /\ RequestsInv' /\ Rivalry'
      /\ ~Busy(a)'
      /\ \A b \in Slot : Busy(b)' => b # a /\ Busy(b)
      /\ \A b \in Slot \ {a} : /\ Stays(b) /\ req'[b] = req[b] /\ Step(b)' = Step(b)
                               /\ Refreshes(b)' <=> Refreshes(b)
                               /\ Replaces(b)' <=> Replaces(b)
                               /\ EndsAll(b)' <=> EndsAll(b)
  BY OverForRequests
<1>4. HomeInv' /\ JarInv'
  BY OverAtHome
<1>5. CountInv' /\ LinksInv' /\ OrdersFollowLogin' /\ NoFalseAlarm'
  BY <1>1, <1>2 DEF CountInv, LinksInv, OrdersFollowLogin, NoFalseAlarm, Usable
<1>6. \A g : LiveRows(g)' = LiveRows(g) /\ RowsOf(g)' = RowsOf(g)
             /\ (Replaced(g)' <=> Replaced(g))
  BY <1>2, SameRows
<1>7. /\ AboutInv(req[a].op, req[a].about, Step(a), req[a].row, rows)
      /\ PlanInv(req[a].op, req[a].row, Step(a), Left(a), user # NoUser, rows, Len(links))
      /\ RowInv(req[a].op, req[a].row, Step(a), rows)
  BY <1>1, <1>2, ShapeOf
<1>8. Len(rows) \in Nat
  BY <1>1, RowsAndLinks
<1>9. TokenInv'
  <2>1. ASSUME NEW g \in 1..Len(rows) \ hist'.raced, NEW b \in Slot, Replaces(b),
               Step(b).row \in LiveRows(g)', req[b].row \in LiveRows(g)'
        PROVE  Replaces(b)' /\ Step(b)'.row = Step(b).row /\ req'[b].row = req[b].row
    <3>1. b # a
      <4>1. SUFFICES ASSUME b = a
                     PROVE  FALSE
        OBVIOUS
      <4>2. req[a].op = "refresh" /\ Step(a).do = "rotated" /\ req[a].row \in LiveRows(g)
        BY <1>6, <2>1, <4>1 DEF Replaces, Refreshes
      <4>3. rows[req[a].row].family = g /\ req[a].row \in 1..Len(rows)
        BY <4>2 DEF LiveRows, RowsOf
      <4>4. req[a].row # 0
        BY <1>8, <4>3
      <4>5. req[a].about = {g}
        BY <1>7, <4>2, <4>3, <4>4 DEF AboutInv
      <4>6. QED
        BY <1>2, <2>1, <4>2, <4>5
    <3>2. QED
      BY <1>3, <2>1, <3>1
  <2>2. \A g \in 1..Len(rows) \ hist'.raced :
          g \notin hist.raced /\ LiveRows(g)' \subseteq LiveRows(g)
          /\ (g \in hist'.over => g \in hist.over)
    BY <1>2, <1>6
  <2>3. Len(rows') = Len(rows)
    BY <1>2
  <2>4. QED
    BY <1>1, <2>1, <2>2, <2>3, TokenKept
<1>10. SharedInv'
  <2>1. \A b \in Slot : Refreshes(b)' => Refreshes(b) /\ req'[b].about = req[b].about
    BY <1>3 DEF Refreshes
  <2>2. QED
    BY <1>1, <1>2, <2>1, SharedKept
<1>11. ResetInv'
  <2>1. ASSUME Account \notin hist'.raced, NEW b \in Slot, EndsAll(b)
        PROVE  EndsAll(b)'
    <3>1. b # a
      <4>1. SUFFICES ASSUME b = a
                     PROVE  FALSE
        OBVIOUS
      <4>2. req[a].op = "reset" /\ Step(a).do # "reply"
        BY <2>1, <4>1 DEF EndsAll
      <4>3. Account \in req[a].about
        BY <1>7, <4>2 DEF AboutInv
      <4>4. QED
        BY <1>2, <2>1, <4>2, <4>3
    <3>2. QED
      BY <1>3, <2>1, <3>1
  <2>2. Account \notin hist'.raced =>
           /\ hist'.epoch = hist.epoch /\ Len(rows') = Len(rows)
           /\ \A f \in 1..Len(rows) :
                /\ rows'[f].family = rows[f].family /\ rows'[f].epoch = rows[f].epoch
                /\ LiveRows(f)' \subseteq LiveRows(f)
           /\ \A b \in Slot : EndsAll(b) => EndsAll(b)'
    BY <1>2, <1>6, <2>1
  <2>3. QED
    BY <1>1, <1>2, <2>2, ResetInvKept
<1>12. ASSUME NEW b \in Slot \ {a}
       PROVE  Claims(b)'
  <2>1. Claims(b) /\ Stays(b) /\ Step(b)' = Step(b)
    BY <1>1, <1>3
  <2>2. CountClaim(b)'
    BY <1>1, <1>2, <2>1, CountKept DEF Claims
  <2>3. LinkClaim(b)'
    <3>1. \A l \in 1..Len(links') : Usable(l)' =>
            l \in 1..Len(links) /\ Usable(l) /\ links'[l].type = links[l].type
      BY <1>2 DEF Usable
    <3>2. QED
      BY <1>1, <1>2, <2>1, <3>1, LinkKept DEF Claims
  <2>4. OrderClaim(b)'
    BY <1>1, <1>2, <2>1, OrderKept DEF Claims
  <2>5. OpenClaim(b)'
    <3>1. PICK g : g = Step(b).family
      OBVIOUS
    <3>2. Step(b)'.family = g
      BY <2>1, <3>1
    <3>3. LiveRows(Step(b).family)' = LiveRows(g)'
      BY <3>2 DEF LiveRows, RowsOf, Live
    <3>4. LiveRows(Step(b).family)' \subseteq LiveRows(g)
      BY <1>6, <3>3
    <3>5. QED
      BY <1>1, <1>2, <2>1, <3>1, <3>4, OpenKept DEF Claims
  <2>6. NewRowClaim(b)'
    <3>1. PICK r : r = req[b].row
      OBVIOUS
    <3>2. NewRowClaim(b)
      BY <2>1 DEF Claims
    <3>3. CASE Busy(b)
      <4>1. r # 0 => req[a].row # r
        BY <1>2, <3>1, <3>2, <3>3 DEF NewRowClaim
      <4>2. \A c \in Browser : jar'[c].cookie = r /\ r # 0 => jar[c].cookie = r
        BY <1>2, <4>1
      <4>3. \A c \in Slot \ {b} : Busy(c)' /\ req'[c].row = r /\ r # 0 =>
                                      Busy(c) /\ req[c].row = r
        BY <1>3
      <4>4. r \in 1..Len(rows) => rows'[r].family = rows[r].family
        BY <1>2
      <4>5. req[b].op = "login" /\ r # 0 =>
              /\ Replaced(r)' => Replaced(r)
              /\ RowsOf(r)' \subseteq RowsOf(r)
              /\ Len(rows) <= Len(rows')
              /\ \A c \in Slot : Refreshes(c)' /\ r \in req'[c].about =>
                                    Refreshes(c) /\ r \in req[c].about
        <5>1. \A c \in Slot : Refreshes(c)' => Refreshes(c) /\ req'[c] = req[c]
          BY <1>3 DEF Refreshes
        <5>2. QED
          BY <1>2, <1>6, <1>8, <5>1
      <4>6. req[b].op = "refresh" /\ r # 0 =>
              (Replaced(r)' => Replaced(r) \/ rows[r].family \in hist'.shared)
        BY <1>6
      <4>7. QED
        BY <1>1, <1>2, <2>1, <3>1, <3>2, <4>2, <4>3, <4>4, <4>5, <4>6, NewRowKept
    <3>4. CASE ~Busy(b)
      BY <1>3, <3>4 DEF NewRowClaim
    <3>5. QED
      BY <3>3, <3>4
  <2>7. AlarmClaim(b)'
    <3>1. PICK x : x = Step(b).row
      OBVIOUS
    <3>2. rows'[x].family = rows[x].family /\ (Replaced(x)' => Replaced(x))
      BY <1>2, <1>6
    <3>3. QED
      BY <1>1, <1>2, <2>1, <3>1, <3>2, AlarmKept DEF Claims
  <2>8. ResetClaim(b)'
    <3>1. /\ hist'.epoch = hist.epoch
          /\ Len(rows) <= Len(rows') /\ Len(rows') \in Nat
          /\ \A g \in 1..Len(rows) :
               rows'[g].family = rows[g].family /\ rows'[g].epoch = rows[g].epoch
          /\ \A g \in 1..Len(rows') : g \in 1..Len(rows)
      BY <1>2, <1>8
    <3>2. ResetClaim(b)
      BY <2>1 DEF Claims
    <3>3. QED
      BY <1>1, <2>1, <3>1, <3>2, ResetKept
  <2>9. QED
    BY <2>2, <2>3, <2>4, <2>5, <2>6, <2>7, <2>8 DEF Claims
<1>13. Claims(a)'
  BY <1>3 DEF Claims, CountClaim, LinkClaim, OrderClaim, OpenClaim, NewRowClaim, AlarmClaim,
              ResetClaim, Alone, Refreshes
<1>14. QED
  BY <1>3, <1>4, <1>5, <1>9, <1>10, <1>11, <1>12, <1>13 DEF IInv

\* What is on record after a request is over.
LEMMA OverRecorded ==
  ASSUME DataInv, NEW a \in Slot, NEW claimed, NEW shared, NEW raced, NEW h,
         claimed \subseteq Order, shared \subseteq Int, raced \subseteq Int,
         h = [hist EXCEPT !.claimed = claimed, !.shared = shared, !.raced = raced],
         hist' = [h EXCEPT !.crossed = @ \ {a}]
  PROVE  /\ hist'.crossed = hist.crossed \ {a}
         /\ hist'.claimed = claimed /\ hist'.shared = shared /\ hist'.raced = raced
         /\ hist'.over = hist.over /\ hist'.uses = hist.uses /\ hist'.epoch = hist.epoch
         /\ hist'.failures = hist.failures /\ hist'.alarms = hist.alarms
         /\ hist' \in [epoch : Nat, crossed : SUBSET Slot, raced : SUBSET Int,
                       shared : SUBSET Int, failures : Nat, uses : Seq(Nat),
                       over : SUBSET Int, alarms : SUBSET Int, claimed : SUBSET Order]
<1>1. PICK S : S = Seq(Nat)
  OBVIOUS
<1>2. hist \in [epoch : Nat, crossed : SUBSET Slot, raced : SUBSET Int, shared : SUBSET Int,
                failures : Nat, uses : S, over : SUBSET Int, alarms : SUBSET Int,
                claimed : SUBSET Order]
  BY <1>1 DEF DataInv
<1>3. /\ h.crossed = hist.crossed /\ h.claimed = claimed /\ h.shared = shared /\ h.raced = raced
      /\ h.over = hist.over /\ h.uses = hist.uses /\ h.epoch = hist.epoch
      /\ h.failures = hist.failures /\ h.alarms = hist.alarms
      /\ h \in [epoch : Nat, crossed : SUBSET Slot, raced : SUBSET Int, shared : SUBSET Int,
                failures : Nat, uses : S, over : SUBSET Int, alarms : SUBSET Int,
                claimed : SUBSET Order]
  BY <1>2
<1>4. /\ hist'.crossed = h.crossed \ {a}
      /\ hist'.claimed = h.claimed /\ hist'.shared = h.shared /\ hist'.raced = h.raced
      /\ hist'.over = h.over /\ hist'.uses = h.uses /\ hist'.epoch = h.epoch
      /\ hist'.failures = h.failures /\ hist'.alarms = h.alarms
      /\ hist' \in [epoch : Nat, crossed : SUBSET Slot, raced : SUBSET Int, shared : SUBSET Int,
                    failures : Nat, uses : S, over : SUBSET Int, alarms : SUBSET Int,
                    claimed : SUBSET Order]
  BY <1>3
<1>5. QED
  BY <1>1, <1>3, <1>4

\* The cookie and the mark of one browser change.
LEMMA JarAfter ==
  ASSUME DataInv, NEW b \in Browser,
         NEW new \in [cookie : 0..Len(rows), hint : BOOLEAN], jar' = [jar EXCEPT ![b] = new]
  PROVE  /\ jar' \in [Browser -> [cookie : 0..Len(rows), hint : BOOLEAN]]
         /\ jar'[b] = new
         /\ \A d \in Browser : d # b => jar'[d].cookie = jar[d].cookie
<1>1. jar \in [Browser -> [cookie : 0..Len(rows), hint : BOOLEAN]]
  BY DEF DataInv
<1>2. QED
  BY <1>1

\* A tab is signed out.
LEMMA SignsOut ==
  ASSUME DataInv, NEW t \in Tab, SignedOut(t)
  PROVE  /\ access' \in [Tab -> BOOLEAN]
         /\ jar' \in [Browser -> [cookie : 0..Len(rows), hint : BOOLEAN]]
         /\ \A b \in Browser : jar'[b].cookie = jar[b].cookie
<1>1. PICK b \in Browser : b = BrowserOf[t]
  BY SessionAssumption
<1>2. /\ access \in [Tab -> BOOLEAN] /\ access' = [access EXCEPT ![t] = FALSE]
      /\ jar \in [Browser -> [cookie : 0..Len(rows), hint : BOOLEAN]]
      /\ jar' = [jar EXCEPT ![b].hint = FALSE]
  BY <1>1 DEF DataInv, SignedOut
<1>3. access' \in [Tab -> BOOLEAN]
  BY <1>2
<1>4. QED
  BY <1>1, <1>2, <1>3

\* A request has its answer.
LEMMA ReplyStep ==
  ASSUME IInv, NEW a \in Slot, DoReply(a)
  PROVE  IInv'
<1>1. DataInv /\ RequestsInv /\ OrderClaim(a) /\ OrdersFollowLogin
  BY DEF IInv, Claims
<1>2. PICK t, b, row, ok : /\ t = req[a].tab /\ b = BrowserOf[t] /\ row = req[a].row
                           /\ ok = Step(a).ok
  OBVIOUS
<1>3. PICK claimed : claimed = IF user # NoUser /\ user.verified /\ ok /\ ~Crossed(a)
                               THEN hist.claimed \cup req[a].seen ELSE hist.claimed
  OBVIOUS
<1>4. PICK h : h = [hist EXCEPT !.claimed = claimed]
  OBVIOUS
<1>5. /\ Busy(a) /\ Step(a).do = "reply"
      /\ IF req[a].op = "logout"
         THEN /\ access' = [access EXCEPT ![t] = FALSE]
              /\ jar' = [jar EXCEPT ![b] = [cookie |-> 0, hint |-> FALSE]]
         ELSE IF req[a].op = "refresh" /\ ~ok THEN SignedOut(t)
         ELSE IF req[a].op \in {"refresh", "login"} /\ ok
         THEN /\ access' = [access EXCEPT ![t] = TRUE]
              /\ jar' = [jar EXCEPT ![b] = [cookie |-> row, hint |-> @.hint \/ req[a].op = "login"]]
         ELSE UNCHANGED <<access, jar>>
      /\ req' = [req EXCEPT ![a] = Idle]
      /\ hist' = [h EXCEPT !.crossed = @ \ {a}]
      /\ UNCHANGED <<user, rows, links, orders>>
  BY <1>2, <1>3, <1>4 DEF DoReply, Next1, Ended, Step, Todo
<1>6. /\ PlanInv(req[a].op, req[a].row, Step(a), Left(a), user # NoUser, rows, Len(links))
      /\ RowInv(req[a].op, req[a].row, Step(a), rows)
      /\ t \in Tab /\ req[a].seen \subseteq Order
      /\ req[a].op # "login" => req[a].seen = {}
  BY <1>1, <1>2, <1>5, ShapeOf
<1>7. ok \in BOOLEAN /\ row \in 0..Len(rows)
  BY <1>2, <1>5, <1>6 DEF PlanInv, RowInv
<1>8. row # 0 <=> req[a].op \in {"login", "refresh"} /\ ok
  BY <1>2, <1>5, <1>6 DEF RowInv
<1>9. claimed \subseteq Order /\ hist.shared \subseteq Int /\ hist.raced \subseteq Int
  BY <1>1, <1>3, <1>6 DEF DataInv
<1>10. h = [hist EXCEPT !.claimed = claimed, !.shared = hist.shared, !.raced = hist.raced]
  BY <1>1, <1>4 DEF DataInv
<1>11. /\ hist'.crossed = hist.crossed \ {a}
       /\ hist'.claimed = claimed /\ hist'.shared = hist.shared /\ hist'.raced = hist.raced
       /\ hist'.over = hist.over /\ hist'.uses = hist.uses /\ hist'.epoch = hist.epoch
       /\ hist'.failures = hist.failures /\ hist'.alarms = hist.alarms
       /\ hist' \in [epoch : Nat, crossed : SUBSET Slot, raced : SUBSET Int,
                     shared : SUBSET Int, failures : Nat, uses : Seq(Nat),
                     over : SUBSET Int, alarms : SUBSET Int, claimed : SUBSET Order]
  BY <1>1, <1>5, <1>9, <1>10, OverRecorded
<1>12. \A o \in claimed : o \in hist.claimed \/ orders[o] = "linked"
  <2>1. SUFFICES ASSUME NEW o \in claimed, o \notin hist.claimed
                 PROVE  orders[o] = "linked"
    OBVIOUS
  <2>2. user.verified /\ ok /\ a \notin hist.crossed /\ o \in req[a].seen
    BY <1>3, <2>1 DEF Crossed
  <2>3. req[a].op = "login" /\ Alone(a)
    BY <1>5, <1>6, <2>2 DEF Alone
  <2>4. QED
    BY <1>1, <1>2, <1>5, <2>2, <2>3 DEF OrderClaim
<1>13. /\ access' \in [Tab -> BOOLEAN]
       /\ jar' \in [Browser -> [cookie : 0..Len(rows), hint : BOOLEAN]]
       /\ \A d \in Browser :
            \/ jar'[d].cookie \in {jar[d].cookie, 0}
            \/ d = b /\ row # 0 /\ jar'[d].cookie = row
       /\ (Refreshes(a) /\ row # 0) => jar'[b].cookie = row
  <2>1. /\ access \in [Tab -> BOOLEAN]
        /\ jar \in [Browser -> [cookie : 0..Len(rows), hint : BOOLEAN]]
        /\ b \in Browser
    BY <1>1, <1>2, <1>6, SessionAssumption DEF DataInv
  <2>2. CASE req[a].op = "logout"
    <3>1. /\ access' = [access EXCEPT ![t] = FALSE]
          /\ jar' = [jar EXCEPT ![b] = [cookie |-> 0, hint |-> FALSE]]
      BY <1>5, <2>2
    <3>2. 0 \in 0..Len(rows)
      BY <1>1, RowsAndLinks
    <3>3. PICK new : new = [cookie |-> 0, hint |-> FALSE]
      OBVIOUS
    <3>4. /\ new \in [cookie : 0..Len(rows), hint : BOOLEAN] /\ new.cookie = 0
          /\ jar' = [jar EXCEPT ![b] = new]
      BY <3>1, <3>2, <3>3
    <3>5. /\ jar' \in [Browser -> [cookie : 0..Len(rows), hint : BOOLEAN]]
          /\ jar'[b] = new
          /\ \A d \in Browser : d # b => jar'[d].cookie = jar[d].cookie
      BY <1>1, <2>1, <3>4, JarAfter
    <3>6. access' \in [Tab -> BOOLEAN] /\ ~Refreshes(a)
      BY <2>1, <2>2, <3>1 DEF Refreshes
    <3>7. QED
      BY <3>4, <3>5, <3>6
  <2>3. CASE req[a].op = "refresh" /\ ~ok
    <3>1. SignedOut(t)
      BY <1>5, <2>3
    <3>2. QED
      BY <1>1, <1>6, <1>8, <2>3, <3>1, SignsOut
  <2>4. CASE req[a].op \in {"refresh", "login"} /\ ok
    <3>1. PICK hint : hint = (jar[b].hint \/ req[a].op = "login")
      OBVIOUS
    <3>2. /\ access' = [access EXCEPT ![t] = TRUE]
          /\ jar' = [jar EXCEPT ![b] = [cookie |-> row, hint |-> hint]]
      BY <1>5, <2>1, <2>4, <3>1
    <3>3. hint \in BOOLEAN
      BY <3>1
    <3>4. PICK new : new = [cookie |-> row, hint |-> hint]
      OBVIOUS
    <3>5. /\ new \in [cookie : 0..Len(rows), hint : BOOLEAN] /\ new.cookie = row
          /\ jar' = [jar EXCEPT ![b] = new]
      BY <1>7, <3>2, <3>3, <3>4
    <3>6. /\ jar' \in [Browser -> [cookie : 0..Len(rows), hint : BOOLEAN]]
          /\ jar'[b] = new
          /\ \A d \in Browser : d # b => jar'[d].cookie = jar[d].cookie
      BY <1>1, <2>1, <3>5, JarAfter
    <3>7. access' \in [Tab -> BOOLEAN]
      BY <2>1, <3>2
    <3>8. QED
      BY <1>8, <2>4, <3>5, <3>6, <3>7
  <2>5. CASE ~(req[a].op = "logout") /\ ~(req[a].op = "refresh" /\ ~ok)
             /\ ~(req[a].op \in {"refresh", "login"} /\ ok)
    <3>1. access' = access /\ jar' = jar /\ ~Refreshes(a)
      BY <1>5, <2>5 DEF Refreshes
    <3>2. QED
      BY <2>1, <3>1
  <2>6. QED
    BY <2>2, <2>3, <2>4, <2>5
<1>14. IsOver(a)
  BY <1>2, <1>5, <1>11, <1>12, <1>13 DEF IsOver
<1>15. QED
  BY <1>14, OverStep

\* The tab is left without an answer, and what the request was about is on record.
LEMMA UnansweredStep ==
  ASSUME IInv, NEW a \in Slot, Busy(a), NEW raced, NEW h, Unanswered(a, h),
         h = [hist EXCEPT !.shared = hist.shared \cup req[a].about, !.raced = raced],
         raced = IF Step(a).do = "reply" THEN hist.raced ELSE hist.raced \cup req[a].about
  PROVE  IInv'
<1>1. DataInv /\ RequestsInv
  BY DEF IInv
<1>2. PICK t, shared : t = req[a].tab /\ shared = hist.shared \cup req[a].about
  OBVIOUS
<1>3. /\ IF req[a].op \in {"refresh", "logout"} THEN SignedOut(t) ELSE UNCHANGED <<access, jar>>
      /\ req' = [req EXCEPT ![a] = Idle]
      /\ hist' = [h EXCEPT !.crossed = @ \ {a}]
      /\ UNCHANGED <<user, rows, links, orders>>
  BY <1>2 DEF Unanswered, Ended
<1>4. /\ AboutInv(req[a].op, req[a].about, Step(a), req[a].row, rows)
      /\ t \in Tab
  BY <1>1, <1>2, ShapeOf
<1>5. req[a].about \subseteq Int
  <2>1. req[a].op \in {"register", "login", "verify", "reset", "mail", "refresh", "logout"}
    BY <1>1 DEF RequestsInv, RequestInv, Busy
  <2>2. Len(rows) \in Nat
    BY <1>1, RowsAndLinks
  <2>3. QED
    BY <1>4, <2>1, <2>2 DEF AboutInv, Account, MailLinks
<1>6. /\ hist.claimed \subseteq Order /\ shared \subseteq Int /\ raced \subseteq Int
      /\ hist.raced \subseteq raced
  <2>1. hist.claimed \subseteq Order /\ hist.shared \subseteq Int /\ hist.raced \subseteq Int
    BY <1>1 DEF DataInv
  <2>2. QED
    BY <1>2, <1>5, <2>1
<1>7. Step(a).do # "reply" => req[a].about \subseteq raced
  OBVIOUS
<1>8. /\ hist'.crossed = hist.crossed \ {a}
      /\ hist'.claimed = hist.claimed /\ hist'.shared = shared /\ hist'.raced = raced
      /\ hist'.over = hist.over /\ hist'.uses = hist.uses /\ hist'.epoch = hist.epoch
      /\ hist'.failures = hist.failures /\ hist'.alarms = hist.alarms
      /\ hist' \in [epoch : Nat, crossed : SUBSET Slot, raced : SUBSET Int,
                    shared : SUBSET Int, failures : Nat, uses : Seq(Nat),
                    over : SUBSET Int, alarms : SUBSET Int, claimed : SUBSET Order]
  <2>1. PICK S : S = Seq(Nat)
    OBVIOUS
  <2>2. hist \in [epoch : Nat, crossed : SUBSET Slot, raced : SUBSET Int, shared : SUBSET Int,
                  failures : Nat, uses : S, over : SUBSET Int, alarms : SUBSET Int,
                  claimed : SUBSET Order]
    BY <1>1, <2>1 DEF DataInv
  <2>3. /\ h.crossed = hist.crossed /\ h.claimed = hist.claimed
        /\ h.shared = shared /\ h.raced = raced
        /\ h.over = hist.over /\ h.uses = hist.uses /\ h.epoch = hist.epoch
        /\ h.failures = hist.failures /\ h.alarms = hist.alarms
        /\ h \in [epoch : Nat, crossed : SUBSET Slot, raced : SUBSET Int, shared : SUBSET Int,
                  failures : Nat, uses : S, over : SUBSET Int, alarms : SUBSET Int,
                  claimed : SUBSET Order]
    BY <1>2, <1>6, <2>2
  <2>4. /\ hist'.crossed = hist.crossed \ {a}
        /\ hist'.claimed = hist.claimed /\ hist'.shared = shared /\ hist'.raced = raced
        /\ hist'.over = hist.over /\ hist'.uses = hist.uses /\ hist'.epoch = hist.epoch
        /\ hist'.failures = hist.failures /\ hist'.alarms = hist.alarms
    BY <1>3, <2>3
  <2>5. hist' \in [epoch : Nat, crossed : SUBSET Slot, raced : SUBSET Int,
                   shared : SUBSET Int, failures : Nat, uses : S,
                   over : SUBSET Int, alarms : SUBSET Int, claimed : SUBSET Order]
    BY <1>3, <2>3
  <2>6. hist' \in [epoch : Nat, crossed : SUBSET Slot, raced : SUBSET Int,
                   shared : SUBSET Int, failures : Nat, uses : Seq(Nat),
                   over : SUBSET Int, alarms : SUBSET Int, claimed : SUBSET Order]
    BY <2>1, <2>5
  <2>7. QED
    BY <2>4, <2>6
<1>9. /\ access' \in [Tab -> BOOLEAN]
      /\ jar' \in [Browser -> [cookie : 0..Len(rows), hint : BOOLEAN]]
      /\ \A b \in Browser : jar'[b].cookie = jar[b].cookie
  <2>1. CASE SignedOut(t)
    BY <1>1, <1>4, <2>1, SignsOut
  <2>2. CASE UNCHANGED <<access, jar>>
    BY <1>1, <2>2 DEF DataInv
  <2>3. QED
    BY <1>3, <2>1, <2>2
<1>10. IsOver(a)
  BY <1>2, <1>3, <1>6, <1>7, <1>8, <1>9 DEF IsOver
<1>11. QED
  BY <1>10, OverStep

\* The end of a request keeps everything.
LEMMA EndsStep ==
  ASSUME IInv, NEW a \in Slot, Ends(a)
  PROVE  IInv'
<1>1. CASE DoReply(a)
  BY <1>1, ReplyStep
<1>2. DataInv
  BY DEF IInv
<1>3. CASE LoseReply(a)
  <2>1. PICK h : h = [hist EXCEPT !.shared = hist.shared \cup req[a].about]
    OBVIOUS
  <2>2. Busy(a) /\ Step(a).do = "reply" /\ Unanswered(a, h)
    BY <1>3, <2>1 DEF LoseReply, Next1, Step
  <2>3. h = [hist EXCEPT !.shared = hist.shared \cup req[a].about, !.raced = hist.raced]
    BY <1>2, <2>1 DEF DataInv
  <2>4. QED
    BY <2>2, <2>3, UnansweredStep
<1>4. CASE Dies(a)
  <2>1. PICK h, raced : /\ raced = hist.raced \cup req[a].about
                        /\ h = [hist EXCEPT !.shared = hist.shared \cup req[a].about,
                                            !.raced = raced]
    OBVIOUS
  <2>2. Busy(a) /\ Step(a).do # "reply" /\ Unanswered(a, h)
    BY <1>4, <2>1 DEF Dies, Next1, Step
  <2>3. QED
    BY <2>1, <2>2, UnansweredStep
<1>5. QED
  BY <1>1, <1>3, <1>4 DEF Ends

-----------------------------------------------------------------------------
(* Time, guests and page loads. *)

\* Rows as they were, too, only end.
LEMMA NothingEnds ==
  ASSUME DataInv, rows' = rows
  PROVE  OnlyEnds
<1>1. \A f : LiveRows(f)' = LiveRows(f) /\ RowsOf(f)' = RowsOf(f) /\ (Replaced(f)' <=> Replaced(f))
  BY SameRows
<1>2. rows \in Seq([family : Nat, epoch : Nat, why : Whys, expired : BOOLEAN])
  BY DEF DataInv
<1>3. QED
  BY <1>1, <1>2 DEF OnlyEnds

\* Rows, links and the lock may end, and orders be placed, without any request.
LEMMA OutsideStep ==
  ASSUME IInv, DataInv', req' = req, hist' = hist, jar' = jar, OnlyEnds,
         Len(links') = Len(links),
         \A l \in 1..Len(links) : links'[l].type = links[l].type /\ (Usable(l)' => Usable(l)),
         user = NoUser <=> user' = NoUser,
         user'.attempts = user.attempts, user'.verified = user.verified,
         user'.locked = user.locked \/ user'.locked # "on",
         \A o \in Order : /\ orders[o] # "none" => orders'[o] # "none"
                          /\ orders[o] = "linked" => orders'[o] = "linked"
  PROVE  IInv'
<1>1. /\ DataInv /\ FamiliesInv /\ RequestsInv /\ Rivalry /\ CountInv /\ LinksInv
      /\ OrdersFollowLogin /\ NoFalseAlarm
      /\ TokenInv /\ HomeInv /\ JarInv /\ SharedInv /\ ResetInv
      /\ \A b \in Slot : Claims(b)
  BY DEF IInv
<1>2. /\ Len(rows') = Len(rows)
      /\ \A s \in 1..Len(rows) :
           /\ rows'[s].family = rows[s].family /\ rows'[s].epoch = rows[s].epoch
           /\ Replaced(s)' => Replaced(s)
      /\ \A f : LiveRows(f)' \subseteq LiveRows(f) /\ RowsOf(f)' \subseteq RowsOf(f)
  BY DEF OnlyEnds
<1>3. Len(rows) \in Nat /\ Len(links) \in Nat
  BY <1>1, RowsAndLinks
<1>4. \A b \in Slot : Stays(b)
  BY DEF Stays
<1>5. \A b \in Slot : /\ Busy(b)' <=> Busy(b)
                      /\ Step(b)' = Step(b)
                      /\ Refreshes(b)' <=> Refreshes(b)
                      /\ Replaces(b)' <=> Replaces(b)
                      /\ EndsAll(b)' <=> EndsAll(b)
  BY <1>4, Others
<1>6. FamiliesInv' /\ Rivalry' /\ NoFalseAlarm'
  BY <1>1, <1>2, FamiliesKept DEF Rivalry, Busy, NoFalseAlarm
<1>7. RequestsInv'
  <2>1. ASSUME NEW b \in Slot
        PROVE  RequestInv(req'[b], user' # NoUser, rows', Len(links'))
    <3>1. RequestInv(req[b], user # NoUser, rows, Len(links))
      BY <1>1 DEF RequestsInv
    <3>2. /\ (user # NoUser) \in BOOLEAN /\ (user' # NoUser) \in BOOLEAN
          /\ (user # NoUser) => (user' # NoUser)
          /\ Len(links') \in Nat /\ Len(links) \in Nat /\ Len(links) <= Len(links')
          /\ Len(rows) \in Nat /\ Len(rows') \in Nat /\ Len(rows) <= Len(rows')
          /\ \A x \in 1..Len(rows) :
               rows'[x].family = rows[x].family /\ rows'[x].epoch = rows[x].epoch
      BY <1>2, <1>3
    <3>3. RequestInv(req[b], user' # NoUser, rows', Len(links'))
      BY <3>1, <3>2, PlanKept
    <3>4. QED
      BY <3>3
  <2>2. QED
    BY <1>1, <2>1 DEF RequestsInv
<1>8. CountInv'
  BY <1>1 DEF CountInv
<1>9. LinksInv'
  BY <1>1 DEF LinksInv
<1>10. OrdersFollowLogin'
  <2>1. hist.claimed \subseteq Order
    BY <1>1 DEF DataInv
  <2>2. QED
    BY <1>1, <2>1 DEF OrdersFollowLogin
<1>11. TokenInv'
  <2>1. \A g \in 1..Len(rows) \ hist'.raced :
          /\ g \notin hist.raced /\ LiveRows(g)' \subseteq LiveRows(g)
          /\ g \in hist'.over => g \in hist.over
          /\ \A b \in Slot : (/\ Replaces(b) /\ Step(b).row \in LiveRows(g)'
                              /\ req[b].row \in LiveRows(g)') =>
                Replaces(b)' /\ Step(b)'.row = Step(b).row /\ req'[b].row = req[b].row
    BY <1>2, <1>5
  <2>2. QED
    BY <1>1, <1>2, <2>1, TokenKept
<1>12. HomeInv'
  <2>1. \A b \in Slot : Busy(b)' =>
           /\ Busy(b) /\ req'[b].op = req[b].op /\ req'[b].tab = req[b].tab
           /\ req'[b].about = req[b].about /\ req'[b].row = req[b].row
    BY <1>5
  <2>2. QED
    BY <1>1, <1>2, <2>1, HoldsKept, HomeKept
<1>13. JarInv'
  <2>1. \A b \in Browser : jar[b].cookie \in 0..Len(rows)
    BY <1>1 DEF DataInv
  <2>2. \A b \in Browser : \A s :
          (/\ s = jar'[b].cookie /\ s # 0 /\ Replaced(s)'
           /\ rows'[s].family \notin hist'.shared) =>
              jar[b].cookie = s /\ Replaced(s) /\ rows[s].family = rows'[s].family
    <3>1. SUFFICES ASSUME NEW b \in Browser, NEW s, s = jar'[b].cookie, s # 0, Replaced(s)'
                   PROVE  jar[b].cookie = s /\ Replaced(s) /\ rows[s].family = rows'[s].family
      OBVIOUS
    <3>2. s = jar[b].cookie /\ s \in 1..Len(rows)
      BY <1>3, <2>1, <3>1
    <3>3. QED
      BY <1>2, <3>1, <3>2
  <2>3. \A d \in Slot : (Refreshes(d) /\ req[d].row # 0 /\ Step(d).do = "reply") =>
          /\ Refreshes(d)' /\ req'[d].row # 0 /\ Step(d)'.do = "reply"
          /\ req'[d].about = req[d].about /\ req'[d].tab = req[d].tab
    BY <1>5
  <2>4. QED
    BY <1>1, <2>2, <2>3, JarKept
<1>14. SharedInv'
  BY <1>1, <1>5, SharedKept
<1>15. ResetInv'
  BY <1>1, <1>2, <1>5, ResetInvKept
<1>16. ASSUME NEW b \in Slot
       PROVE  Claims(b)'
  <2>1. Claims(b) /\ Stays(b) /\ Step(b)' = Step(b)
    BY <1>1, <1>4, <1>5
  <2>2. CountClaim(b)'
    BY <1>1, <2>1, CountKept DEF Claims
  <2>3. LinkClaim(b)'
    BY <1>1, <2>1, LinkKept DEF Claims
  <2>4. OrderClaim(b)'
    <3>1. (Alone(b) /\ Account \in req[b].about /\ user' # user) =>
            user # NoUser /\ user'.verified = user.verified
      OBVIOUS
    <3>2. OrderClaim(b)
      BY <2>1 DEF Claims
    <3>3. QED
      BY <1>1, <2>1, <3>1, <3>2, OrderKept
  <2>5. OpenClaim(b)'
    <3>1. PICK g : g = Step(b).family
      OBVIOUS
    <3>2. Step(b)'.family = g
      BY <2>1, <3>1
    <3>3. LiveRows(Step(b).family)' = LiveRows(g)'
      BY <3>2 DEF LiveRows, RowsOf, Live
    <3>4. LiveRows(Step(b).family)' \subseteq LiveRows(g)
      BY <1>2, <3>3
    <3>5. QED
      BY <1>1, <2>1, <3>1, <3>4, OpenKept DEF Claims
  <2>6. NewRowClaim(b)'
    <3>1. PICK r : r = req[b].row
      OBVIOUS
    <3>2. NewRowClaim(b)
      BY <2>1 DEF Claims
    <3>3. CASE Busy(b)
      <4>1. RowInv(req[b].op, req[b].row, Step(b), rows)
        BY <1>1, <3>3, ShapeOf
      <4>2. r # 0 => r \in 1..Len(rows)
        BY <1>3, <3>1, <4>1 DEF RowInv
      <4>3. r # 0 => (Replaced(r)' => Replaced(r))
        BY <1>2, <4>2
      <4>4. r \in 1..Len(rows) => rows'[r].family = rows[r].family
        BY <1>2
      <4>5. \A c \in Slot \ {b} : Busy(c)' /\ req'[c].row = r /\ r # 0 =>
                                      Busy(c) /\ req[c].row = r
        BY <1>5
      <4>6. req[b].op = "login" /\ r # 0 =>
              /\ Replaced(r)' => Replaced(r)
              /\ RowsOf(r)' \subseteq RowsOf(r)
              /\ Len(rows) <= Len(rows')
              /\ \A c \in Slot : Refreshes(c)' /\ r \in req'[c].about =>
                                    Refreshes(c) /\ r \in req[c].about
        BY <1>2, <1>3, <1>5, <4>3
      <4>7. QED
        BY <1>1, <2>1, <3>1, <3>2, <4>3, <4>4, <4>5, <4>6, NewRowKept
    <3>4. CASE ~Busy(b)
      BY <1>5, <3>4 DEF NewRowClaim
    <3>5. QED
      BY <3>3, <3>4
  <2>7. AlarmClaim(b)'
    <3>1. PICK x : x = Step(b).row
      OBVIOUS
    <3>2. ASSUME Refreshes(b), Step(b).do \in {"refresh", "reuse"}, x # 0
          PROVE  rows'[x].family = rows[x].family /\ (Replaced(x)' => Replaced(x))
      <4>1. /\ PlanInv(req[b].op, req[b].row, Step(b), Left(b), user # NoUser, rows, Len(links))
            /\ req[b].op = "refresh"
        BY <1>1, <3>2, ShapeOf DEF Refreshes
      <4>2. Step(b).row \in 0..Len(rows)
        BY <1>3, <3>2, <4>1 DEF PlanInv
      <4>3. x \in 1..Len(rows)
        BY <1>3, <3>1, <3>2, <4>2
      <4>4. QED
        BY <1>2, <4>3
    <3>3. QED
      BY <1>1, <2>1, <3>1, <3>2, AlarmKept DEF Claims
  <2>8. ResetClaim(b)'
    <3>1. /\ hist'.epoch = hist.epoch
          /\ Len(rows) <= Len(rows') /\ Len(rows') \in Nat
          /\ \A g \in 1..Len(rows) :
               rows'[g].family = rows[g].family /\ rows'[g].epoch = rows[g].epoch
          /\ \A g \in 1..Len(rows') : g \in 1..Len(rows)
      BY <1>2, <1>3
    <3>2. ResetClaim(b)
      BY <2>1 DEF Claims
    <3>3. QED
      BY <1>1, <2>1, <3>1, <3>2, ResetKept
  <2>9. QED
    BY <2>2, <2>3, <2>4, <2>5, <2>6, <2>7, <2>8 DEF Claims
<1>17. QED
  BY <1>6, <1>7, <1>8, <1>9, <1>10, <1>11, <1>12, <1>13, <1>14, <1>15, <1>16 DEF IInv

\* A tab loses its access token.
LEMMA AccessStep ==
  ASSUME IInv, NEW t \in Tab, AccessExpires(t) \/ Reload(t)
  PROVE  IInv'
<1>1. /\ UNCHANGED <<user, rows, links, orders, jar, req, hist>>
      /\ access' = [access EXCEPT ![t] = FALSE]
  BY DEF AccessExpires, Reload
<1>2. DataInv
  BY DEF IInv
<1>3. DataInv' /\ OnlyEnds
  BY <1>1, <1>2, NothingEnds DEF DataInv
<1>4. \A l \in 1..Len(links) : links'[l].type = links[l].type /\ (Usable(l)' => Usable(l))
  BY <1>1 DEF Usable
<1>5. QED
  BY <1>1, <1>3, <1>4, OutsideStep

\* A row runs out.
LEMMA RowExpiresStep ==
  ASSUME IInv, NEW s \in DOMAIN rows, RowExpires(s)
  PROVE  IInv'
<1>1. /\ UNCHANGED <<user, links, orders, jar, access, req, hist>>
      /\ rows' = [rows EXCEPT ![s].expired = TRUE]
  BY DEF RowExpires
<1>2. DataInv
  BY DEF IInv
<1>3. /\ Len(rows) \in Nat /\ DOMAIN rows = 1..Len(rows)
      /\ \A x \in 1..Len(rows) :
           rows[x] \in [family : Nat, epoch : Nat, why : Whys, expired : BOOLEAN]
  BY <1>2, RowsAndLinks
<1>4. OnlyEnds
  <2> DEFINE new == [x \in 1..Len(rows) |->
                       IF x = s THEN [rows[x] EXCEPT !.expired = TRUE] ELSE rows[x]]
  <2>1. ASSUME NEW x \in 1..Len(rows)
        PROVE  /\ new[x] \in [family : Nat, epoch : Nat, why : Whys, expired : BOOLEAN]
               /\ new[x].family = rows[x].family /\ new[x].epoch = rows[x].epoch
               /\ new[x].why = "rotated" => rows[x].why = "rotated"
               /\ (new[x].why = "" /\ ~new[x].expired) => Live(x)
    <3>1. rows[x] \in [family : Nat, epoch : Nat, why : Whys, expired : BOOLEAN]
      BY <1>3
    <3>2. CASE x = s
      <4>1. new[x] = [rows[x] EXCEPT !.expired = TRUE]
        BY <3>2
      <4>2. QED
        BY <3>1, <4>1
    <3>3. CASE x # s
      <4>1. new[x] = rows[x]
        BY <3>3
      <4>2. QED
        BY <3>1, <4>1 DEF Live
    <3>4. QED
      BY <3>2, <3>3
  <2>2. rows' = [x \in DOMAIN rows |-> new[x]]
    BY <1>1, <1>3
  <2> HIDE DEF new
  <2>3. QED
    BY <1>2, <2>1, <2>2, Ending
<1>5. DataInv'
  <2>1. Len(rows') = Len(rows)
        /\ rows' \in Seq([family : Nat, epoch : Nat, why : Whys, expired : BOOLEAN])
    BY <1>4 DEF OnlyEnds
  <2>2. QED
    BY <1>1, <1>2, <2>1 DEF DataInv
<1>6. \A l \in 1..Len(links) : links'[l].type = links[l].type /\ (Usable(l)' => Usable(l))
  BY <1>1 DEF Usable
<1>7. QED
  BY <1>1, <1>4, <1>5, <1>6, OutsideStep

\* A link runs out.
LEMMA LinkExpiresStep ==
  ASSUME IInv, NEW l \in DOMAIN links, LinkExpires(l)
  PROVE  IInv'
<1>1. /\ UNCHANGED <<user, rows, orders, jar, access, req, hist>>
      /\ links' = [links EXCEPT ![l].state = "over"]
  BY DEF LinkExpires
<1>2. DataInv
  BY DEF IInv
<1>3. PICK S : S = [type : {"verify", "reset"}, state : {"open", "used", "over", "gone"}]
  OBVIOUS
<1>4. links \in Seq(S) /\ l \in 1..Len(links) /\ links[l] \in S
  BY <1>2, <1>3, RowsAndLinks DEF DataInv
<1>5. PICK new : new = [links[l] EXCEPT !.state = "over"]
  OBVIOUS
<1>6. new \in S /\ new.type = links[l].type /\ new.state = "over"
  BY <1>3, <1>4, <1>5
<1>7. PICK q : q = links
  OBVIOUS
<1>8. links' = [q EXCEPT ![l] = new]
  BY <1>1, <1>5, <1>7
<1>9. /\ links' \in Seq(S) /\ Len(links') = Len(links)
      /\ links'[l] = new
      /\ \A x \in 1..Len(links) : x # l => links'[x] = links[x]
  BY <1>4, <1>6, <1>7, <1>8
<1>10. DataInv'
  <2>1. links' # <<>> => user # NoUser
    <3>1. links # <<>>
      BY <1>4
    <3>2. QED
      BY <1>2, <3>1 DEF DataInv
  <2>2. Len(hist.uses) = Len(links')
    BY <1>2, <1>9 DEF DataInv
  <2>3. QED
    BY <1>1, <1>2, <1>3, <1>9, <2>1, <2>2 DEF DataInv
<1>11. \A x \in 1..Len(links) : links'[x].type = links[x].type /\ (Usable(x)' => Usable(x))
  BY <1>6, <1>9 DEF Usable
<1>12. OnlyEnds
  BY <1>1, <1>2, NothingEnds
<1>13. QED
  BY <1>1, <1>9, <1>10, <1>11, <1>12, OutsideStep

\* A lock ends.
LEMMA LockEndsStep ==
  ASSUME IInv, LockEnds
  PROVE  IInv'
<1>1. /\ UNCHANGED <<rows, links, orders, jar, access, req, hist>>
      /\ user # NoUser /\ user' = [user EXCEPT !.locked = "over"]
  BY DEF LockEnds
<1>2. DataInv
  BY DEF IInv
<1>3. user \in Fields
  BY <1>1, <1>2 DEF DataInv
<1>4. /\ user' \in Fields /\ user'.attempts = user.attempts
      /\ user'.verified = user.verified /\ user'.locked = "over"
  BY <1>1, <1>3 DEF Fields
<1>5. user' # NoUser
  BY <1>4, NobodyAssumption
<1>6. DataInv' /\ OnlyEnds
  BY <1>1, <1>2, <1>4, <1>5, NothingEnds DEF DataInv
<1>7. \A l \in 1..Len(links) : links'[l].type = links[l].type /\ (Usable(l)' => Usable(l))
  BY <1>1 DEF Usable
<1>8. QED
  BY <1>1, <1>4, <1>5, <1>6, <1>7, OutsideStep

\* A guest places an order.
LEMMA GuestStep ==
  ASSUME IInv, NEW o \in Order, PlaceGuestOrder(o)
  PROVE  IInv'
<1>1. /\ UNCHANGED <<user, rows, links, jar, access, req, hist>>
      /\ orders[o] = "none" /\ orders' = [orders EXCEPT ![o] = "guest"]
  BY DEF PlaceGuestOrder
<1>2. DataInv
  BY DEF IInv
<1>3. DataInv' /\ OnlyEnds
  BY <1>1, <1>2, NothingEnds DEF DataInv
<1>4. orders \in [Order -> {"none", "guest", "linked"}]
  BY <1>2 DEF DataInv
<1>5. \A d \in Order : /\ orders[d] # "none" => orders'[d] # "none"
                       /\ orders[d] = "linked" => orders'[d] = "linked"
  BY <1>1, <1>4
<1>6. \A l \in 1..Len(links) : links'[l].type = links[l].type /\ (Usable(l)' => Usable(l))
  BY <1>1 DEF Usable
<1>7. QED
  BY <1>1, <1>3, <1>5, <1>6, OutsideStep

-----------------------------------------------------------------------------
(* The invariant. *)

\* Every step keeps it.
LEMMA NextIInv ==
  ASSUME IInv, [Next]_vars
  PROVE  IInv'
<1>1. CASE UNCHANGED vars
  <2>1. UNCHANGED <<user, rows, links, orders, jar, access, req, hist>>
    BY <1>1 DEF vars
  <2>2. DataInv
    BY DEF IInv
  <2>3. DataInv' /\ OnlyEnds
    BY <2>1, <2>2, NothingEnds DEF DataInv
  <2>4. \A l \in 1..Len(links) : links'[l].type = links[l].type /\ (Usable(l)' => Usable(l))
    BY <2>1 DEF Usable
  <2>5. QED
    BY <2>1, <2>3, <2>4, OutsideStep
<1>2. CASE \E a \in Slot, t \in Tab : Requests(a, t)
  BY <1>2, RequestsStep
<1>3. CASE \E a \in Slot : Reads(a) \/ Writes(a) \/ Ends(a)
  BY <1>3, ReadsStep, WritesStep, EndsStep
<1>4. CASE \E t \in Tab : AccessExpires(t) \/ Reload(t)
  BY <1>4, AccessStep
<1>5. CASE \E s \in DOMAIN rows : RowExpires(s)
  BY <1>5, RowExpiresStep
<1>6. CASE \E l \in DOMAIN links : LinkExpires(l)
  BY <1>6, LinkExpiresStep
<1>7. CASE LockEnds
  BY <1>7, LockEndsStep
<1>8. CASE \E o \in Order : PlaceGuestOrder(o)
  BY <1>8, GuestStep
<1>9. QED
  BY <1>1, <1>2, <1>3, <1>4, <1>5, <1>6, <1>7, <1>8 DEF Next

\* In the beginning nothing is in flight, and at most one browser is signed in.
LEMMA InitIInv == Init => IInv
<1> SUFFICES ASSUME Init PROVE IInv
  OBVIOUS
<1>1. /\ links = <<>> /\ orders = [o \in Order |-> "none"]
      /\ access = [t \in Tab |-> FALSE] /\ req = [a \in Slot |-> Idle]
      /\ hist = NoHistory
  BY DEF Init
<1>2. /\ hist.epoch = 0 /\ hist.crossed = {} /\ hist.raced = {} /\ hist.shared = {}
      /\ hist.failures = 0 /\ hist.uses = <<>> /\ hist.over = {} /\ hist.alarms = {}
      /\ hist.claimed = {}
      /\ hist \in [epoch : Nat, crossed : SUBSET Slot, raced : SUBSET Int, shared : SUBSET Int,
                   failures : Nat, uses : Seq(Nat), over : SUBSET Int, alarms : SUBSET Int,
                   claimed : SUBSET Order]
  <2>1. PICK S : S = Seq(Nat)
    OBVIOUS
  <2>2. <<>> \in S
    BY <2>1
  <2>3. QED
    BY <1>1, <2>1, <2>2 DEF NoHistory
<1>3. /\ user # NoUser => user \in Fields /\ user.attempts = 0
      /\ \/ rows = <<>> /\ jar = NoJar
         \/ \E b \in Browser :
              /\ rows = <<Row(1, 0)>>
              /\ jar = [NoJar EXCEPT ![b] = [cookie |-> 1, hint |-> TRUE]]
  <2>1. ASSUME NEW pw \in Password
        PROVE  /\ NewUser(pw, FALSE, TRUE) \in Fields
               /\ NewUser(pw, FALSE, TRUE).attempts = 0
               /\ [NewUser(pw, FALSE, TRUE) EXCEPT !.privileged = TRUE] \in Fields
               /\ [NewUser(pw, FALSE, TRUE) EXCEPT !.privileged = TRUE].attempts = 0
    <3>1. PICK u : u = NewUser(pw, FALSE, TRUE)
      OBVIOUS
    <3>2. 0 \in 0..MaxAttempts - 1 /\ pw \in Password \cup {NoPassword}
      BY SessionAssumption
    <3>3. u \in Fields /\ u.attempts = 0
      BY <3>1, <3>2 DEF NewUser, Fields
    <3>4. PICK v : v = [u EXCEPT !.privileged = TRUE]
      OBVIOUS
    <3>5. v \in Fields /\ v.attempts = 0
      BY <3>3, <3>4 DEF Fields
    <3>6. QED
      BY <3>1, <3>3, <3>4, <3>5
  <2>2. QED
    BY <2>1 DEF Init
<1>4. /\ Len(rows) \in {0, 1}
      /\ rows \in Seq([family : Nat, epoch : Nat, why : Whys, expired : BOOLEAN])
      /\ \A s \in 1..Len(rows) :
           s = 1 /\ rows[s].family = 1 /\ rows[s].epoch = 0 /\ rows[s].why = ""
      /\ jar \in [Browser -> [cookie : 0..Len(rows), hint : BOOLEAN]]
      /\ \A b, c \in Browser : jar[b].cookie # 0 /\ jar[c].cookie # 0 => b = c
  <2>1. CASE rows = <<>> /\ jar = NoJar
    <3>1. Len(rows) = 0 /\ \A b \in Browser : jar[b].cookie = 0
      BY <2>1 DEF NoJar
    <3>2. rows \in Seq([family : Nat, epoch : Nat, why : Whys, expired : BOOLEAN])
      BY <2>1
    <3>3. jar \in [Browser -> [cookie : 0..Len(rows), hint : BOOLEAN]]
      BY <2>1, <3>1 DEF NoJar
    <3>4. QED
      BY <3>1, <3>2, <3>3
  <2>2. ASSUME NEW b \in Browser, rows = <<Row(1, 0)>>,
               jar = [NoJar EXCEPT ![b] = [cookie |-> 1, hint |-> TRUE]]
        PROVE  /\ Len(rows) \in {0, 1}
               /\ rows \in Seq([family : Nat, epoch : Nat, why : Whys, expired : BOOLEAN])
               /\ \A s \in 1..Len(rows) :
                    s = 1 /\ rows[s].family = 1 /\ rows[s].epoch = 0 /\ rows[s].why = ""
               /\ jar \in [Browser -> [cookie : 0..Len(rows), hint : BOOLEAN]]
               /\ \A d, c \in Browser : jar[d].cookie # 0 /\ jar[c].cookie # 0 => d = c
    <3>1. PICK S, row : /\ row = Row(1, 0)
                        /\ S = [family : Nat, epoch : Nat, why : Whys, expired : BOOLEAN]
      OBVIOUS
    <3>2. /\ row \in [family : Nat, epoch : Nat, why : Whys, expired : BOOLEAN]
          /\ row.family = 1 /\ row.epoch = 0 /\ row.why = ""
      BY <3>1 DEF Row, Whys
    <3>3. Len(rows) = 1 /\ rows[1] = row
      BY <2>2, <3>1
    <3>4. rows \in Seq([family : Nat, epoch : Nat, why : Whys, expired : BOOLEAN])
      <4>1. row \in S
        BY <3>1, <3>2
      <4>2. <<row>> \in Seq(S)
        BY <4>1
      <4>3. QED
        BY <2>2, <3>1, <4>2
    <3>5. /\ jar \in [Browser -> [cookie : 0..Len(rows), hint : BOOLEAN]]
          /\ \A d \in Browser : jar[d].cookie # 0 => d = b
      <4>1. PICK none, one : none = [cookie |-> 0, hint |-> FALSE]
                             /\ one = [cookie |-> 1, hint |-> TRUE]
        OBVIOUS
      <4>2. /\ none \in [cookie : 0..1, hint : BOOLEAN] /\ none.cookie = 0
            /\ one \in [cookie : 0..1, hint : BOOLEAN]
        BY <4>1
      <4>3. jar = [d \in Browser |-> IF d = b THEN one ELSE none]
        BY <2>2, <4>1 DEF NoJar
      <4>4. QED
        BY <3>3, <4>2, <4>3
    <3>6. \A s \in 1..Len(rows) :
            s = 1 /\ rows[s].family = 1 /\ rows[s].epoch = 0 /\ rows[s].why = ""
      <4>1. \A s \in 1..Len(rows) : s = 1
        BY <3>3
      <4>2. rows[1].family = 1 /\ rows[1].epoch = 0 /\ rows[1].why = ""
        BY <3>2, <3>3
      <4>3. QED
        BY <4>1, <4>2
    <3>7. QED
      BY <3>3, <3>4, <3>5, <3>6
  <2>3. QED
    BY <1>3, <2>1, <2>2
<1>5. \A a \in Slot : req[a] = Idle /\ ~Busy(a)
  BY <1>1 DEF Busy
<1>6. DataInv
  <2>1. links \in Seq([type : {"verify", "reset"}, state : {"open", "used", "over", "gone"}])
    BY <1>1
  <2>2. Len(hist.uses) = Len(links) /\ hist.over \subseteq 1..Len(rows)
    BY <1>1, <1>2
  <2>3. /\ orders \in [Order -> {"none", "guest", "linked"}] /\ access \in [Tab -> BOOLEAN]
    BY <1>1
  <2>4. QED
    BY <1>1, <1>2, <1>3, <1>4, <2>1, <2>2, <2>3 DEF DataInv
<1>7. FamiliesInv
  <2>1. ASSUME NEW s \in 1..Len(rows)
        PROVE  /\ rows[s].family \in 1..s
               /\ rows[rows[s].family].family = rows[s].family
               /\ rows[s].epoch = rows[rows[s].family].epoch
    <3>1. s = 1 /\ rows[1].family = 1
      BY <1>4, <2>1
    <3>2. QED
      BY <3>1
  <2>2. QED
    BY <2>1 DEF FamiliesInv
<1>8. RequestsInv /\ Rivalry
  BY <1>1, <1>5 DEF RequestsInv, RequestInv, Rivalry
<1>9. CountInv /\ LinksInv /\ OrdersFollowLogin /\ NoFalseAlarm
  <2>1. Len(links) = 0
    BY <1>1
  <2>2. 0 < MaxAttempts
    BY SessionAssumption
  <2>3. QED
    BY <1>2, <1>3, <2>1, <2>2 DEF CountInv, LinksInv, OrdersFollowLogin, NoFalseAlarm
<1>10. TokenInv
  <2>1. \A f : \A s \in LiveRows(f) : s = 1
    BY <1>4 DEF LiveRows, RowsOf
  <2>2. QED
    BY <1>2, <2>1 DEF TokenInv
<1>11. HomeInv
  BY <1>4, <1>5 DEF HomeInv, Holds
<1>12. JarInv
  <2>1. ASSUME NEW b \in Browser, jar[b].cookie # 0
        PROVE  ~Replaced(jar[b].cookie)
    <3>1. PICK c : c = jar[b].cookie
      OBVIOUS
    <3>2. c \in 0..Len(rows) /\ c # 0
      BY <1>4, <2>1, <3>1
    <3>3. c \in 1..Len(rows)
      <4>1. Len(rows) = 0 \/ Len(rows) = 1
        BY <1>4
      <4>2. QED
        BY <3>2, <4>1
    <3>4. rows[c].why = ""
      BY <1>4, <3>3
    <3>5. QED
      BY <3>1, <3>4 DEF Replaced
  <2>2. QED
    BY <2>1 DEF JarInv
<1>13. SharedInv
  BY <1>5 DEF SharedInv, Refreshes
<1>14. ResetInv
  BY <1>2, <1>4 DEF ResetInv, Old
<1>15. \A a \in Slot : Claims(a)
  BY <1>5 DEF Claims, CountClaim, LinkClaim, OrderClaim, OpenClaim, NewRowClaim, AlarmClaim,
              ResetClaim, Opens, Alone, Refreshes
<1>16. QED
  BY <1>6, <1>7, <1>8, <1>9, <1>10, <1>11, <1>12, <1>13, <1>14, <1>15 DEF IInv

\* The invariant of the sessions: what every request in flight found still holds,
\* unless another one got in its way and that is on record.
THEOREM SessionsInvariant == Spec => []IInv
<1>1. Init => IInv
  BY InitIInv
<1>2. IInv /\ [Next]_vars => IInv'
  BY NextIInv
<1>3. QED
  BY <1>1, <1>2, PTL DEF Spec

\* The account's books are right, in every reachable state: auth.service.ts counts
\* failed logins and locks at the limit, uses a link once, and links the guest's
\* orders, unless requests about them overlapped.
THEOREM AccountBooks == Spec => []AccountInv
<1>1. IInv => AccountInv
  <2> SUFFICES ASSUME IInv PROVE AccountInv
    OBVIOUS
  <2>1. DataInv /\ FamiliesInv /\ CountInv /\ LinksInv /\ OrdersFollowLogin
    BY DEF IInv
  <2>2. /\ DOMAIN rows = 1..Len(rows) /\ DOMAIN links = 1..Len(links)
        /\ \A s \in 1..Len(rows) :
             rows[s] \in [family : Nat, epoch : Nat, why : Whys, expired : BOOLEAN]
        /\ \A l \in 1..Len(links) :
             links[l] \in [type : {"verify", "reset"}, state : {"open", "used", "over", "gone"}]
    BY <2>1, RowsAndLinks
  <2>3. TypeOK
    <3>1. user # NoUser => user \in Fields
      BY <2>1 DEF DataInv
    <3>2. \A s \in DOMAIN rows :
            /\ rows[s].family \in 1..s
            /\ rows[s].why \in {"", "rotated", "logout", "reset", "reuse"}
      BY <2>1, <2>2 DEF FamiliesInv, Whys
    <3>3. \A l \in DOMAIN links : links[l].state \in {"open", "used", "over", "gone"}
      BY <2>2
    <3>4. \A b \in Browser : jar[b].cookie \in 0..Len(rows)
      BY <2>1 DEF DataInv
    <3>5. \A t \in Tab : access[t] \in BOOLEAN
      BY <2>1 DEF DataInv
    <3>6. QED
      BY <3>1, <3>2, <3>3, <3>4, <3>5 DEF TypeOK
  <2>4. FailuresCounted
    BY <2>1 DEF CountInv, FailuresCounted
  <2>5. LinksUsedOnce
    BY <2>1, <2>2 DEF LinksInv, LinksUsedOnce
  <2>6. QED
    BY <2>1, <2>3, <2>4, <2>5 DEF AccountInv
<1>2. QED
  BY <1>1, SessionsInvariant, PTL

\* A refresh never forks a session: in token.service.ts the successor is created
\* before the row it replaces is marked, yet a family has one live row when no
\* request about it is in flight.
THEOREM RotationNeverForks == Spec => []OneLiveToken
<1>1. IInv => OneLiveToken
  <2> SUFFICES ASSUME IInv, NEW f \in DOMAIN rows \ hist.raced,
                      \A a \in Slot : Busy(a) => f \notin req[a].about
               PROVE  Cardinality({s \in DOMAIN rows : rows[s].family = f /\ Live(s)}) <= 1
    BY DEF OneLiveToken
  <2>1. DataInv /\ RequestsInv /\ TokenInv
    BY DEF IInv
  <2>2. DOMAIN rows = 1..Len(rows) /\ Len(rows) \in Nat
    BY <2>1, RowsAndLinks
  <2>3. PICK S : S = {s \in DOMAIN rows : rows[s].family = f /\ Live(s)}
    OBVIOUS
  <2>4. S = LiveRows(f)
    BY <2>2, <2>3 DEF LiveRows, RowsOf
  <2>5. ASSUME NEW s \in S, NEW r \in S, s # r
        PROVE  FALSE
    <3>1. PICK a \in Slot : Replaces(a) /\ {s, r} = {Step(a).row, req[a].row}
      <4>1. f \in 1..Len(rows) \ hist.raced
        BY <2>2
      <4>2. \A u, v \in LiveRows(f) :
              u # v => \E a \in Slot : Replaces(a) /\ {u, v} = {Step(a).row, req[a].row}
        BY <2>1, <4>1 DEF TokenInv
      <4>3. s \in LiveRows(f) /\ r \in LiveRows(f)
        BY <2>4
      <4>4. QED
        BY <2>5, <4>2, <4>3
    <3>2. PICK x : x = req[a].row
      OBVIOUS
    <3>3. x \in LiveRows(f)
      <4>1. x \in {s, r}
        BY <3>1, <3>2
      <4>2. s \in LiveRows(f) /\ r \in LiveRows(f)
        BY <2>4
      <4>3. QED
        BY <4>1, <4>2
    <3>4. x \in 1..Len(rows) /\ rows[x].family = f
      BY <3>3 DEF LiveRows, RowsOf
    <3>5. Busy(a) /\ req[a].op = "refresh"
      BY <3>1 DEF Replaces, Refreshes
    <3>6. AboutInv(req[a].op, req[a].about, Step(a), req[a].row, rows)
      BY <2>1, <3>5, ShapeOf
    <3>7. req[a].about = {f}
      BY <2>2, <3>2, <3>4, <3>5, <3>6 DEF AboutInv
    <3>8. QED
      BY <3>5, <3>7
  <2>6. CASE S = {}
    <3>1. Cardinality(S) = 0
      BY <2>6, FS_EmptySet
    <3>2. QED
      BY <2>3, <3>1
  <2>7. CASE S # {}
    <3>1. PICK x : x \in S
      BY <2>7
    <3>2. S = {x}
      BY <2>5, <3>1
    <3>3. Cardinality(S) = 1
      BY <3>2, FS_Singleton
    <3>4. QED
      BY <2>3, <3>3
  <2>8. QED
    BY <2>6, <2>7
<1>2. QED
  BY <1>1, SessionsInvariant, PTL

\* A family ended by a reuse, and a session opened before a password reset, stay
\* ended: no refresh that began earlier brings them back.
THEOREM SessionsStayEnded == Spec => []EndedStaysEnded
<1>1. IInv => EndedStaysEnded
  <2> SUFFICES ASSUME IInv PROVE EndedStaysEnded
    OBVIOUS
  <2>1. DataInv /\ FamiliesInv /\ TokenInv /\ ResetInv
    BY DEF IInv
  <2>2. DOMAIN rows = 1..Len(rows) /\ Len(rows) \in Nat
    BY <2>1, RowsAndLinks
  <2>3. ReuseEndsFamily
    <3>1. SUFFICES ASSUME NEW f \in hist.over \ hist.raced, NEW s \in DOMAIN rows,
                          rows[s].family = f, Live(s)
                   PROVE  FALSE
      BY DEF ReuseEndsFamily
    <3>2. f \in 1..Len(rows) \ hist.raced
      BY <2>1, <3>1 DEF DataInv
    <3>3. LiveRows(f) = {}
      BY <2>1, <3>1, <3>2 DEF TokenInv
    <3>4. QED
      BY <2>2, <3>1, <3>3 DEF LiveRows, RowsOf
  <2>4. ResetEndsSessions
    <3>1. SUFFICES ASSUME NEW s \in 1..Len(rows), Live(s), rows[s].epoch # hist.epoch,
                          rows[s].family \notin hist.raced, Account \notin hist.raced
                   PROVE  \E a \in Slot : Busy(a) /\ req[a].op = "reset"
      BY <2>2 DEF ResetEndsSessions
    <3>2. PICK f : f = rows[s].family
      OBVIOUS
    <3>3. f \in 1..s /\ rows[f].family = f /\ rows[s].epoch = rows[f].epoch
      BY <2>1, <3>2 DEF FamiliesInv
    <3>4. f \in 1..Len(rows) \ hist.raced /\ Old(f)
      BY <2>2, <3>1, <3>2, <3>3 DEF Old
    <3>5. s \in LiveRows(f)
      BY <3>1, <3>2 DEF LiveRows, RowsOf
    <3>6. \E a \in Slot : EndsAll(a)
      BY <2>1, <3>1, <3>3, <3>4, <3>5 DEF ResetInv
    <3>7. QED
      BY <3>6 DEF EndsAll
  <2>5. QED
    BY <2>3, <2>4 DEF EndedStaysEnded
<1>2. QED
  BY <1>1, SessionsInvariant, PTL

\* A browser whose tabs take turns, and that got its answers, is never taken for a
\* thief: the row it presents was not replaced, because the answer with the
\* successor came first.
THEOREM HonestBrowsersRaiseNoAlarm == Spec => []NoFalseAlarm
<1>1. IInv => NoFalseAlarm
  BY DEF IInv
<1>2. QED
  BY <1>1, SessionsInvariant, PTL
=============================================================================
