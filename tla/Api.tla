-------------------------------- MODULE Api --------------------------------
(***************************************************************************)
(* The vocabulary of the server's interface: routes, controllers, and what *)
(* the services read, write and announce.                                  *)
(*                                                                         *)
(* A route admits some roles and runs a handler of a controller; the       *)
(* handler performs operations of the services; an operation reads and     *)
(* writes collections, named as their Mongoose models, and announces       *)
(* events to rooms of sockets.  What an operation decides on and how it    *)
(* writes is in the modules of the components; here it only matters which  *)
(* displayed data it outdates and in which status it refuses a record.     *)
(***************************************************************************)
EXTENDS TLC

Roles == {"SUPER_ADMIN", "KITCHEN_OWNER", "VALET_MANAGER", "CUSTOMER"}
Nobody == "nobody"             \* no session
Everyone == Roles \cup {Nobody}

Admin == {"SUPER_ADMIN"}
Staff == {"SUPER_ADMIN", "KITCHEN_OWNER"}
Valets == {"SUPER_ADMIN", "VALET_MANAGER"}
Guests == {"CUSTOMER"}

\* Routes for `roles': pairs of a call and the handler it runs.
Allow(roles, pairs) == {[call |-> p[1], runs |-> p[2], by |-> roles] : p \in pairs}

\* Handlers that perform the operation they are named for; and others.
Handlers(ops) == {[runs |-> o, does |-> {o}, caught |-> TRUE] : o \in ops}
Runs(name, ops) == {[runs |-> name, does |-> ops, caught |-> TRUE]}

\* auditFromRequest, recordAudit: a record in the audit log, not awaited.
Logged(handlers) == {[h EXCEPT !.does = @ \cup {"recordAudit"}] : h \in handlers}

\* Handlers without asyncHandler: an error they throw answers nobody.
Uncaught(handlers) == {[h EXCEPT !.caught = FALSE] : h \in handlers}

\* Operations: what they read, write and announce, and to which sockets.
Op(name, reads, writes, tells) ==
    {[op |-> name, reads |-> reads, writes |-> writes, tells |-> tells]}
Reads(ops, collections) == UNION {Op(o, collections, {}, {}) : o \in ops}
Writes(ops, collections) == UNION {Op(o, {}, collections, {}) : o \in ops}
Tell(room, event) == {[to |-> room, event |-> event]}
Announces(ops, collections, tells) == UNION {Op(o, {}, collections, tells) : o \in ops}

\* Operations that refuse records in other statuses than `from'; `to' is the
\* status they set, "same" or the one the caller asks for.
Life(ops, of, from, to) ==
    {[op |-> o, of |-> of, from |-> from, to |-> to] : o \in ops}
=============================================================================
