------------------------------- MODULE Screen -------------------------------
(***************************************************************************)
(* The vocabulary of the screens of the web application.                   *)
(*                                                                         *)
(* A screen is what it asks the server for and under which key of the      *)
(* query cache, what its user may press, in which displayed status of the  *)
(* record and with which queries renewed on success, and which events of   *)
(* the socket it hears.  Layout, wording, filters and the checks of form   *)
(* fields are abstracted.                                                  *)
(***************************************************************************)
EXTENDS TLC

Part(do, key, call) ==
    [do |-> do, key |-> key, call |-> call, when |-> {}, to |-> "same",
     renews |-> {}, copies |-> FALSE]

\* useQuery; with a refetchInterval; with enabled: false; and data that a
\* component fetches into its own state, outside the cache.
Ask(key, call) == {Part("ask", key, call)}
Poll(key, call) == {Part("poll", key, call)}
AskByHand(key, call) == {Part("byHand", key, call)}
Load(key, call) == {Part("load", key, call)}

\* A button or a form that sends `call' and renews the keys on success.
Act(call, renews) == {[Part("act", <<>>, call) EXCEPT !.renews = renews]}

\* One that is shown for records in these statuses only, and asks for `to'.
ActIn(when, call, to, renews) ==
    {[Part("act", <<>>, call) EXCEPT !.when = when, !.to = to, !.renews = renews]}

\* A press that renews nothing: it leaves the screen, or shows a message.
Send(call) == Act(call, {})

\* A listener of the socket.
Hear(events, renews) == {[Part("hear", <<>>, e) EXCEPT !.renews = renews] : e \in events}

\* setQueryData: the answer or the event is itself put on display, when
\* something is on display already.
Copies(parts) == {[p EXCEPT !.copies = TRUE] : p \in parts}

\* A file fetched by a press, shown nowhere.
Fetch(calls) == UNION {Act(c, {}) : c \in calls}

\* Who may open a screen: the gates of the portals, which send every other
\* role to its own home; AuthGate, or a page's own redirect to the sign-in.
AdminGate == {"SUPER_ADMIN"}
KitchenGate == {"KITCHEN_OWNER"}
ValetGate == {"SUPER_ADMIN", "VALET_MANAGER"}
AuthGate == {"SUPER_ADMIN", "KITCHEN_OWNER", "VALET_MANAGER", "CUSTOMER"}
NoGate == AuthGate \cup {"nobody"}

\* A screen, its gate, and what is on it.
Page(at, opens, parts) == {[at |-> at, opens |-> opens, parts |-> parts]}
=============================================================================
