------------------------------ MODULE Sessions ------------------------------
(***************************************************************************)
(* One account and the browsers signed in to it: modules/auth/             *)
(* auth.service.ts, services/token.service.ts, services/                   *)
(* orderLinking.service.ts, and their client, frontend/src/lib/api.ts and  *)
(* hooks/useAuth.ts.                                                       *)
(*                                                                         *)
(* A refresh token is a row of a family; a refresh replaces the row by a   *)
(* new one, and a row presented after it was replaced or revoked ends the  *)
(* family.  The tabs of a browser share its cookie.  A handler performs    *)
(* its awaits one after the other: `todo' is what is left.  A save of the  *)
(* account writes the fields that differ from the copy.  Tokens are taken  *)
(* to be unforgeable; mail reaches its owner.                              *)
(***************************************************************************)
EXTENDS Integers, Sequences, FiniteSets

CONSTANTS Tab, Browser,
          BrowserOf,    \* BrowserOf[t]: the browser tab t belongs to
          Slot,         \* requests that can be in flight
          Order,        \* orders placed without an account, with its e-mail
          Password, NoPassword, NoUser,
          MaxAttempts,  \* MAX_LOGIN_ATTEMPTS
          MaxRequests,  \* bound: requests begun
          MaxEvents     \* bound: handlers that die, answers that get lost, and
                        \* sessions, links and locks that run out

ASSUME SessionAssumption ==
    /\ BrowserOf \in [Tab -> Browser]
    /\ MaxAttempts \in Nat \ {0}
    /\ MaxRequests \in Nat /\ MaxEvents \in Nat

VARIABLES
    user,     \* the account, or NoUser
    rows,     \* the refresh tokens ever issued
    links,    \* the e-mailed links ever issued
    orders,   \* orders[o]: "none", "guest" or "linked"
    jar,      \* jar[b]: the cookie (a row, or 0) and the has_session mark
    access,   \* access[t]: the tab has an access token that is still good
    req,      \* req[a]: a request in flight
    bound,    \* requests begun and events so far
    hist      \* history: see NoHistory
vars == <<user, rows, links, orders, jar, access, req, bound, hist>>

\* What is left of a handler: in the end, the answer.
Failed == <<[do |-> "reply", ok |-> FALSE]>>
Finish == <<[do |-> "reply", ok |-> TRUE]>>

Idle == [op |-> "idle"]
Busy(a) == req[a] # Idle

Row(family, epoch) == [family |-> family, epoch |-> epoch, why |-> "", expired |-> FALSE]
Live(s) == rows[s].why = "" /\ ~rows[s].expired

(* What requests are about, to tell which overlap: the account, its links,   *)
(* and families of tokens.                                                   *)
Account == 0
MailLinks == -1

(* Histories.  `crossed' requests overlapped one about the same thing, and    *)
(* `raced' families, or the account or its links, were written by one that    *)
(* did, or by one that stopped half-way.  `shared' families were refreshed by *)
(* two tabs at once, or lost an answer.  `epoch' counts password resets,      *)
(* `failures' the failed logins since a success, a reset or a lock; `uses'    *)
(* how often a link was used; `over' are families ended by a reuse; `alarms'  *)
(* reuses nothing explains; `claimed' orders a finished login must have       *)
(* linked.                                                                    *)
NoHistory == [epoch |-> 0, crossed |-> {}, raced |-> {}, shared |-> {}, failures |-> 0,
              uses |-> <<>>, over |-> {}, alarms |-> {}, claimed |-> {}]

Fields == [pw : Password \cup {NoPassword}, google : BOOLEAN, privileged : BOOLEAN,
           verified : BOOLEAN, attempts : 0..MaxAttempts - 1, locked : {"no", "on", "over"}]

ASSUME NobodyAssumption == NoUser \notin Fields

NewUser(pw, google, verified) ==
    [pw |-> pw, google |-> google, privileged |-> FALSE, verified |-> verified,
     attempts |-> 0, locked |-> "no"]

-----------------------------------------------------------------------------
(* Requests.                                                                *)

Rivals(a, on) == {o \in Slot \ {a} : Busy(o) /\ req[o].about \cap on # {}}
Joined(set, a, others) == IF others = {} THEN set \ {a} ELSE set \cup {a} \cup others
Guests == {o \in Order : orders[o] = "guest"}

Begin(a, t, op, about, first, shared) ==
    /\ ~Busy(a)
    /\ bound.requests < MaxRequests
    /\ bound' = [bound EXCEPT !.requests = @ + 1]
    /\ req' = [req EXCEPT ![a] = [op |-> op, tab |-> t, about |-> about, row |-> 0,
                                  seen |-> IF op = "login" THEN Guests ELSE {},
                                  todo |-> <<first>>]]
    /\ hist' = [hist EXCEPT !.crossed = Joined(@, a, Rivals(a, about)),
                            !.shared = @ \cup shared]
    /\ UNCHANGED <<user, rows, links, orders, jar, access>>

Register(a, t, pw) ==
    Begin(a, t, "register", {Account, MailLinks}, [do |-> "register", pw |-> pw], {})

\* `code': the access code is right; the form asks it of privileged roles only
\* (checkRole).
Login(a, t, pw, code) ==
    /\ code \/ (user # NoUser /\ user.privileged)
    /\ Begin(a, t, "login", {Account}, [do |-> "login", pw |-> pw, code |-> code], {})

\* `ok': Google vouches for the address.
GoogleLogin(a, t, ok) ==
    Begin(a, t, "login", {Account}, [do |-> "google", ok |-> ok], {})

VerifyEmail(a, t, l) ==
    /\ links[l].type = "verify"
    /\ Begin(a, t, "verify", {Account, MailLinks}, [do |-> "verify", link |-> l], {})

ResetPassword(a, t, l, pw) ==
    /\ links[l].type = "reset"
    /\ Begin(a, t, "reset", {Account, MailLinks} \cup DOMAIN rows,
             [do |-> "reset", pw |-> pw, link |-> l], {})

ResendVerification(a, t) ==
    Begin(a, t, "mail", {MailLinks}, [do |-> "resend"], {})
ForgotPassword(a, t) ==
    Begin(a, t, "mail", {MailLinks}, [do |-> "forgot"], {})

Cookie(t) == jar[BrowserOf[t]].cookie
Refreshing(t) == {o \in Slot : Busy(o) /\ req[o].op = "refresh" /\ req[o].tab = t}

\* The request, and the families two tabs refresh at once.
SendRefresh(a, t) ==
    LET s == Cookie(t)
        on == IF s = 0 THEN {} ELSE {rows[s].family}
        others == {o \in Rivals(a, on) : req[o].op = "refresh" /\ req[o].tab # t}
    IN  Begin(a, t, "refresh", on, [do |-> "refresh", row |-> s],
              IF others = {} THEN {} ELSE on)

\* Mutant: every caller sends its own request.
RefreshEach(a, t) == ~access[t] /\ SendRefresh(a, t)

\* refreshSession: a tab without an access token; callers share one request.
RefreshSession(a, t) == ~access[t] /\ Refreshing(t) = {} /\ SendRefresh(a, t)

Logout(a, t) ==
    LET s == Cookie(t)
    IN  Begin(a, t, "logout", IF s = 0 THEN {} ELSE {rows[s].family},
              [do |-> "logout", row |-> s], {})

-----------------------------------------------------------------------------
(* Steps of the handlers.                                                   *)

Next1(a, kind) == Busy(a) /\ Head(req[a].todo).do = kind
Todo(a) == Head(req[a].todo)
Crossed(a) == a \in hist.crossed

Continue(a, more) == req' = [req EXCEPT ![a].todo = more] /\ UNCHANGED bound
Done(a) == Continue(a, Tail(req[a].todo))
Touch(a, things) == IF Crossed(a) THEN hist.raced \cup things ELSE hist.raced

SaveUser(from, to, fact) ==
    [do |-> "user", fact |-> fact,
     set |-> [f \in {g \in DOMAIN from : from[g] # to[g]} |-> to[f]]]
Open(family, epoch) == [do |-> "open", family |-> family, epoch |-> epoch]
DropLinks(type) == [do |-> "droplinks", type |-> type]
NewLink(type) == [do |-> "newlink", type |-> type]
UseLink(l) == [do |-> "uselink", link |-> l]
ClaimOrders == [do |-> "claim"]

\* createVerificationToken: outstanding links of the type go first.
CreateVerificationToken(type) == <<DropLinks(type), NewLink(type)>>

DoRegister(a) ==
    /\ Next1(a, "register")
    /\ Continue(a, IF user # NoUser THEN Failed
                   ELSE <<[do |-> "newuser", is |-> NewUser(Todo(a).pw, FALSE, FALSE)]>>
                        \o CreateVerificationToken("verify") \o Finish)
    /\ UNCHANGED <<user, rows, links, orders, jar, access, hist>>

\* Mutant: one attempt more.
FailedAttemptLate(u) ==
    SaveUser(u, IF u.attempts >= MaxAttempts
                THEN [u EXCEPT !.attempts = 0, !.locked = "on"]
                ELSE [u EXCEPT !.attempts = @ + 1], "failure")

\* registerFailedAttempt: the account locks at the limit, and counts anew.
FailedAttempt(u) ==
    SaveUser(u, IF u.attempts + 1 >= MaxAttempts
                THEN [u EXCEPT !.attempts = 0, !.locked = "on"]
                ELSE [u EXCEPT !.attempts = @ + 1], "failure")

\* A new family, and the orders of a verified address.
Issue(u) == <<Open(0, hist.epoch)>> \o (IF u.verified THEN <<ClaimOrders>> ELSE <<>>) \o Finish

DoLogin(a) ==
    /\ Next1(a, "login")
    /\ LET u == user
       IN  Continue(a,
             IF u = NoUser THEN Failed
             ELSE IF u.locked = "on" THEN Failed
             ELSE IF (u.privileged /\ ~Todo(a).code) \/ u.pw # Todo(a).pw
                  THEN <<FailedAttempt(u)>> \o Failed
             ELSE IF ~u.verified THEN Failed
             ELSE <<SaveUser(u, [u EXCEPT !.attempts = 0, !.locked = "no"], "success")>>
                  \o Issue(u))
    /\ UNCHANGED <<user, rows, links, orders, jar, access, hist>>

\* googleLogin: an unknown address gets an account, a known one the link to
\* Google; a privileged role is refused after that.
DoGoogle(a) ==
    /\ Next1(a, "google")
    /\ LET u == user
           linked == [u EXCEPT !.google = TRUE, !.verified = @ \/ Todo(a).ok]
           new == NewUser(NoPassword, TRUE, Todo(a).ok)
       IN  Continue(a,
             IF u = NoUser THEN <<[do |-> "newuser", is |-> new]>> \o Issue(new)
             ELSE (IF u.google THEN <<>> ELSE <<SaveUser(u, linked, "google")>>)
                  \o (IF u.privileged THEN Failed
                      ELSE Issue(IF u.google THEN u ELSE linked)))
    /\ UNCHANGED <<user, rows, links, orders, jar, access, hist>>

Usable(l) == links[l].state = "open"

DoVerify(a) ==
    /\ Next1(a, "verify")
    /\ LET l == Todo(a).link
       IN  Continue(a, IF Usable(l)
                       THEN <<SaveUser(user, [user EXCEPT !.verified = TRUE], "verify"),
                              UseLink(l), ClaimOrders>> \o Finish
                       ELSE Failed)
    /\ UNCHANGED <<user, rows, links, orders, jar, access, hist>>

DoResend(a) ==
    /\ Next1(a, "resend")
    /\ Continue(a, IF user = NoUser THEN Finish
                   ELSE IF user.verified THEN Finish
                   ELSE CreateVerificationToken("verify") \o Finish)
    /\ UNCHANGED <<user, rows, links, orders, jar, access, hist>>

\* An account that came with Google has no password to forget.
DoForgot(a) ==
    /\ Next1(a, "forgot")
    /\ Continue(a, IF user = NoUser THEN Finish
                   ELSE IF user.pw = NoPassword THEN Finish
                   ELSE CreateVerificationToken("reset") \o Finish)
    /\ UNCHANGED <<user, rows, links, orders, jar, access, hist>>

\* resetPassword: the hash is always new, so the password is always written.
SavePassword(pw) ==
    LET plain == SaveUser(user, [user EXCEPT !.attempts = 0, !.locked = "no"], "reset")
    IN  [plain EXCEPT !.set = [f \in DOMAIN @ \cup {"pw"} |-> IF f = "pw" THEN pw ELSE @[f]]]

ResetSteps(l, pw) == <<SavePassword(pw), UseLink(l), [do |-> "revokeall"]>>

DoReset(a) ==
    /\ Next1(a, "reset")
    /\ Continue(a, IF Usable(Todo(a).link)
                   THEN ResetSteps(Todo(a).link, Todo(a).pw) \o Finish
                   ELSE Failed)
    /\ UNCHANGED <<user, rows, links, orders, jar, access, hist>>

\* The unique index on the address refuses a second account.
DoNewUser(a) ==
    /\ Next1(a, "newuser")
    /\ IF user = NoUser THEN user' = Todo(a).is /\ Done(a)
       ELSE Continue(a, Failed) /\ UNCHANGED user
    /\ UNCHANGED <<rows, links, orders, jar, access, hist>>

DoUser(a) ==
    /\ Next1(a, "user")
    /\ LET set == Todo(a).set
           fact == Todo(a).fact
           to == [f \in DOMAIN user |-> IF f \in DOMAIN set THEN set[f] ELSE user[f]]
           failures == IF fact = "failure" THEN hist.failures + 1
                       ELSE IF fact \in {"success", "reset"} THEN 0 ELSE hist.failures
       IN  /\ user' = to
           /\ hist' = [hist EXCEPT
                !.raced = Touch(a, {Account}),
                !.failures = IF fact = "failure" /\ to.locked = "on" THEN 0 ELSE failures,
                !.epoch = IF fact = "reset" THEN @ + 1 ELSE @]
    /\ Done(a)
    /\ UNCHANGED <<rows, links, orders, jar, access>>

\* issueTokenPair, or the successor of a row: family 0 is a new one.
DoOpen(a) ==
    /\ Next1(a, "open")
    /\ LET s == Len(rows) + 1
           f == IF Todo(a).family = 0 THEN s ELSE Todo(a).family
       IN  /\ rows' = Append(rows, Row(f, Todo(a).epoch))
           /\ req' = [req EXCEPT ![a].row = s, ![a].todo = Tail(@)]
           /\ hist' = [hist EXCEPT !.raced = Touch(a, {f})]
    /\ UNCHANGED <<user, links, orders, jar, access, bound>>

\* linkGuestOrders.
DoClaim(a) ==
    /\ Next1(a, "claim")
    /\ orders' = [o \in Order |-> IF orders[o] = "guest" THEN "linked" ELSE orders[o]]
    /\ Done(a)
    /\ UNCHANGED <<user, rows, links, jar, access, hist>>

\* Mutant: only the row presented is revoked.
FamilyOfOne(s) == {s}
\* revokeFamily: the rows a reuse of row s ends.
FamilyOf(s) == {r \in DOMAIN rows : rows[r].family = rows[s].family}

\* Mutant: the row is not marked as replaced.
RotateKeeping(s) == <<Open(rows[s].family, rows[s].epoch)>>
\* The successor first, then the row itself.
Rotate(s) == <<Open(rows[s].family, rows[s].epoch), [do |-> "rotated", row |-> s]>>

\* rotateRefreshToken.
DoRefresh(a) ==
    /\ Next1(a, "refresh")
    /\ LET s == Todo(a).row
       IN  Continue(a,
             IF s = 0 THEN Failed
             ELSE IF rows[s].why # "" THEN <<[do |-> "reuse", row |-> s]>> \o Failed
             ELSE IF rows[s].expired THEN Failed
             ELSE Rotate(s) \o Finish)
    /\ UNCHANGED <<user, rows, links, orders, jar, access, hist>>

\* An expired row may have been purged already: the session is not found.
RefreshPurged(a) ==
    /\ Next1(a, "refresh")
    /\ Todo(a).row # 0
    /\ rows[Todo(a).row].expired
    /\ Continue(a, Failed)
    /\ UNCHANGED <<user, rows, links, orders, jar, access, hist>>

DoRotated(a) ==
    /\ Next1(a, "rotated")
    /\ LET s == Todo(a).row
       IN  /\ rows' = [rows EXCEPT ![s].why = "rotated"]
           /\ hist' = [hist EXCEPT !.raced = Touch(a, {rows[s].family})]
    /\ Done(a)
    /\ UNCHANGED <<user, links, orders, jar, access>>

Revoke(set, why) ==
    rows' = [s \in DOMAIN rows |->
               IF s \in set /\ rows[s].why = "" THEN [rows[s] EXCEPT !.why = why] ELSE rows[s]]

\* The alarm has an explanation if the row was revoked by a logout, a reset or
\* an earlier alarm, or if two tabs or a lost answer made the browser repeat it.
Explained(s) == rows[s].why # "rotated" \/ rows[s].family \in hist.shared

DoReuse(a) ==
    /\ Next1(a, "reuse")
    /\ LET s == Todo(a).row
           f == rows[s].family
       IN  /\ Revoke(FamilyOf(s), "reuse")
           /\ hist' = [hist EXCEPT !.raced = Touch(a, {f}),
                                   !.over = @ \cup {f},
                                   !.alarms = IF Explained(s) THEN @ ELSE @ \cup {f}]
    /\ Done(a)
    /\ UNCHANGED <<user, links, orders, jar, access>>

\* revokeRefreshToken.
DoLogout(a) ==
    /\ Next1(a, "logout")
    /\ IF Todo(a).row = 0 THEN UNCHANGED rows ELSE Revoke({Todo(a).row}, "logout")
    /\ Continue(a, Finish)
    /\ UNCHANGED <<user, links, orders, jar, access, hist>>

\* revokeAllUserSessions.
DoRevokeAll(a) ==
    /\ Next1(a, "revokeall")
    /\ Revoke(DOMAIN rows, "reset")
    /\ Done(a)
    /\ UNCHANGED <<user, links, orders, jar, access, hist>>

DoDropLinks(a) ==
    /\ Next1(a, "droplinks")
    /\ links' = [l \in DOMAIN links |->
                   IF links[l].type = Todo(a).type THEN [links[l] EXCEPT !.state = "gone"]
                   ELSE links[l]]
    /\ Done(a)
    /\ UNCHANGED <<user, rows, orders, jar, access, hist>>

\* The link is created and mailed.
DoNewLink(a) ==
    /\ Next1(a, "newlink")
    /\ links' = Append(links, [type |-> Todo(a).type, state |-> "open"])
    /\ hist' = [hist EXCEPT !.uses = Append(@, 0), !.raced = Touch(a, {MailLinks})]
    /\ Done(a)
    /\ UNCHANGED <<user, rows, orders, jar, access>>

\* The save of a link that was dropped meanwhile fails, and the rest is not done.
DoUseLink(a) ==
    /\ Next1(a, "uselink")
    /\ LET l == Todo(a).link
           gone == links[l].state = "gone"
       IN  /\ hist' = [hist EXCEPT !.uses[l] = @ + 1,
                                   !.raced = IF gone THEN @ \cup req[a].about
                                             ELSE Touch(a, {MailLinks})]
           /\ IF gone THEN Continue(a, Failed) /\ UNCHANGED links
              ELSE links' = [links EXCEPT ![l].state = "used"] /\ Done(a)
    /\ UNCHANGED <<user, rows, orders, jar, access>>

-----------------------------------------------------------------------------
(* The answers.                                                             *)

Event == bound.events < MaxEvents /\ bound' = [bound EXCEPT !.events = @ + 1]
Ended(a, h) == /\ req' = [req EXCEPT ![a] = Idle]
               /\ hist' = [h EXCEPT !.crossed = @ \ {a}]
SignedOut(t) == /\ access' = [access EXCEPT ![t] = FALSE]
                /\ jar' = [jar EXCEPT ![BrowserOf[t]].hint = FALSE]

\* The tab takes the answer; the cookie is set by the browser.
DoReply(a) ==
    /\ Next1(a, "reply")
    /\ LET t == req[a].tab
           b == BrowserOf[t]
           op == req[a].op
       IN  IF op = "logout"
           THEN /\ access' = [access EXCEPT ![t] = FALSE]
                /\ jar' = [jar EXCEPT ![b] = [cookie |-> 0, hint |-> FALSE]]
           ELSE IF op = "refresh" /\ ~Todo(a).ok THEN SignedOut(t)
           ELSE IF op \in {"refresh", "login"} /\ Todo(a).ok
           THEN /\ access' = [access EXCEPT ![t] = TRUE]
                /\ jar' = [jar EXCEPT ![b] = [cookie |-> req[a].row,
                                              hint |-> @.hint \/ op = "login"]]
           ELSE UNCHANGED <<access, jar>>
    /\ LET claims == user # NoUser /\ user.verified /\ Todo(a).ok /\ ~Crossed(a)
       IN  Ended(a, [hist EXCEPT !.claimed = IF claims THEN @ \cup req[a].seen ELSE @])
    /\ UNCHANGED <<user, rows, links, orders, bound>>

\* The tab is left without an answer: the handler died, or the network did.
Unanswered(a, h) ==
    /\ Event
    /\ IF req[a].op \in {"refresh", "logout"} THEN SignedOut(req[a].tab)
       ELSE UNCHANGED <<access, jar>>
    /\ Ended(a, h)
    /\ UNCHANGED <<user, rows, links, orders>>

LoseReply(a) ==
    /\ Next1(a, "reply")
    /\ Unanswered(a, [hist EXCEPT !.shared = @ \cup req[a].about])

Dies(a) ==
    /\ Busy(a)
    /\ ~Next1(a, "reply")
    /\ Unanswered(a, [hist EXCEPT !.shared = @ \cup req[a].about,
                                  !.raced = @ \cup req[a].about])

-----------------------------------------------------------------------------
(* Time, guests and page loads.                                             *)

AccessExpires(t) ==
    /\ access[t]
    /\ access' = [access EXCEPT ![t] = FALSE]
    /\ UNCHANGED <<user, rows, links, orders, jar, req, bound, hist>>

\* bootstrap without the has_session mark: the tab starts signed out.
Reload(t) ==
    /\ access[t]
    /\ ~jar[BrowserOf[t]].hint
    /\ access' = [access EXCEPT ![t] = FALSE]
    /\ UNCHANGED <<user, rows, links, orders, jar, req, bound, hist>>

RowExpires(s) ==
    /\ ~rows[s].expired
    /\ Event
    /\ rows' = [rows EXCEPT ![s].expired = TRUE]
    /\ UNCHANGED <<user, links, orders, jar, access, req, hist>>

LinkExpires(l) ==
    /\ links[l].state = "open"
    /\ Event
    /\ links' = [links EXCEPT ![l].state = "over"]
    /\ UNCHANGED <<user, rows, orders, jar, access, req, hist>>

LockEnds ==
    /\ user # NoUser
    /\ user.locked = "on"
    /\ Event
    /\ user' = [user EXCEPT !.locked = "over"]
    /\ UNCHANGED <<rows, links, orders, jar, access, req, hist>>

PlaceGuestOrder(o) ==
    /\ orders[o] = "none"
    /\ orders' = [orders EXCEPT ![o] = "guest"]
    /\ UNCHANGED <<user, rows, links, jar, access, req, bound, hist>>

-----------------------------------------------------------------------------
NoJar == [b \in Browser |-> [cookie |-> 0, hint |-> FALSE]]

\* A new system, one with a customer signed in on a browser, or one with a
\* privileged account from the seed.
Init == /\ \/ user = NoUser /\ rows = <<>> /\ jar = NoJar
           \/ \E pw \in Password, b \in Browser :
                /\ user = NewUser(pw, FALSE, TRUE)
                /\ rows = <<Row(1, 0)>>
                /\ jar = [NoJar EXCEPT ![b] = [cookie |-> 1, hint |-> TRUE]]
           \/ \E pw \in Password :
                /\ user = [NewUser(pw, FALSE, TRUE) EXCEPT !.privileged = TRUE]
                /\ rows = <<>> /\ jar = NoJar
        /\ links = <<>>
        /\ orders = [o \in Order |-> "none"]
        /\ access = [t \in Tab |-> FALSE]
        /\ req = [a \in Slot |-> Idle]
        /\ bound = [requests |-> 0, events |-> 0]
        /\ hist = NoHistory

Requests(a, t) ==
    \/ \E pw \in Password : Register(a, t, pw)
    \/ \E pw \in Password, code \in BOOLEAN : Login(a, t, pw, code)
    \/ \E ok \in BOOLEAN : GoogleLogin(a, t, ok)
    \/ \E l \in DOMAIN links : VerifyEmail(a, t, l)
    \/ \E l \in DOMAIN links, pw \in Password : ResetPassword(a, t, l, pw)
    \/ ResendVerification(a, t)
    \/ ForgotPassword(a, t)
    \/ RefreshSession(a, t)
    \/ Logout(a, t)

Reads(a) == \/ DoRegister(a) \/ DoLogin(a) \/ DoGoogle(a) \/ DoVerify(a) \/ DoResend(a)
            \/ DoForgot(a) \/ DoReset(a) \/ DoRefresh(a) \/ RefreshPurged(a)
Writes(a) == \/ DoNewUser(a) \/ DoUser(a) \/ DoOpen(a) \/ DoClaim(a) \/ DoRotated(a)
             \/ DoReuse(a) \/ DoLogout(a) \/ DoRevokeAll(a) \/ DoDropLinks(a)
             \/ DoNewLink(a) \/ DoUseLink(a)
Ends(a) == DoReply(a) \/ LoseReply(a) \/ Dies(a)

Next == \/ \E a \in Slot, t \in Tab : Requests(a, t)
        \/ \E a \in Slot : Reads(a) \/ Writes(a) \/ Ends(a)
        \/ \E t \in Tab : AccessExpires(t) \/ Reload(t)
        \/ \E s \in DOMAIN rows : RowExpires(s)
        \/ \E l \in DOMAIN links : LinkExpires(l)
        \/ LockEnds
        \/ \E o \in Order : PlaceGuestOrder(o)

Spec == Init /\ [][Next]_vars

-----------------------------------------------------------------------------
(* Properties.                                                              *)

\* The account, tokens, links and cookies have the shapes of their schemas, and a
\* browser's cookie names a token that was issued.
TypeOK ==
    /\ user # NoUser => user \in Fields
    /\ \A s \in DOMAIN rows :
         /\ rows[s].family \in 1..s
         /\ rows[s].why \in {"", "rotated", "logout", "reset", "reuse"}
    /\ \A l \in DOMAIN links : links[l].state \in {"open", "used", "over", "gone"}
    /\ \A b \in Browser : jar[b].cookie \in 0..Len(rows)
    /\ \A t \in Tab : access[t] \in BOOLEAN

\* A family has one live token, two while a refresh replaces one, unless requests
\* about it overlapped or one died half-way: rotation never forks a session.
OneLiveToken ==
    \A f \in DOMAIN rows \ hist.raced :
        (\A a \in Slot : Busy(a) => f \notin req[a].about) =>
            Cardinality({s \in DOMAIN rows : rows[s].family = f /\ Live(s)}) <= 1

\* A family ended by the reuse of a token stays ended, "revoke the whole family",
\* unless a request about it overlapped.
ReuseEndsFamily ==
    \A f \in hist.over \ hist.raced :
        \A s \in DOMAIN rows : rows[s].family = f => ~Live(s)

\* A browser whose tabs take turns, and that got its answers, is never taken for a
\* thief: the comment at refreshSession, "everyone must go through this one
\* promise".
NoFalseAlarm == hist.alarms = {}

\* After a password reset every session opened before it is over, "a reset should
\* log out all devices", unless requests overlapped the reset or it stopped
\* half-way: a link asked for meanwhile makes the save of the used one fail.
ResetEndsSessions ==
    \A s \in DOMAIN rows :
        \/ ~Live(s)
        \/ rows[s].epoch = hist.epoch
        \/ rows[s].family \in hist.raced
        \/ Account \in hist.raced
        \/ \E a \in Slot : Busy(a) /\ req[a].op = "reset"

\* The account counts every failed login since the last success, reset or lock,
\* and locks at the limit, unless requests about it overlapped.
FailuresCounted ==
    (user # NoUser /\ Account \notin hist.raced) =>
        /\ user.attempts = hist.failures
        /\ hist.failures < MaxAttempts

\* Links are "single-use", and a new one replaces those before it, unless requests
\* about them overlapped or died.
LinksUsedOnce ==
    MailLinks \notin hist.raced =>
        /\ \A l \in DOMAIN links : hist.uses[l] <= 1
        /\ \A k, l \in DOMAIN links :
             (links[k].type = links[l].type /\ Usable(k) /\ Usable(l)) => k = l

\* An order placed with the address before a login of the verified account began
\* is linked when the login has its answer, unless a request about the account
\* overlapped it.
OrdersFollowLogin == \A o \in hist.claimed : orders[o] = "linked"

\* The account's books are right: types, failed logins, links and orders.
AccountInv == TypeOK /\ FailuresCounted /\ LinksUsedOnce /\ OrdersFollowLogin

\* A session that a reuse or a reset ended stays ended.
EndedStaysEnded == ReuseEndsFamily /\ ResetEndsSessions
=============================================================================
