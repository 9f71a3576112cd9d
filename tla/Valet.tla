------------------------------- MODULE Valet -------------------------------
(***************************************************************************)
(* Valet parking: cars that are checked in, asked for, brought and         *)
(* delivered, and the slots they stand in.  A request reads a document,    *)
(* decides, and writes later; check-in and status changes write in a       *)
(* MongoDB transaction that the driver repeats after a transient error.    *)
(*                                                                         *)
(* A step that leaves a slot in doubt is recorded in the ghost variable    *)
(* disturbed, and the invariants say that nothing else does.               *)
(***************************************************************************)
EXTENDS Naturals, Sequences, FiniteSets

CONSTANTS Requests,    \* requests the server works on at a time
          Plates,      \* number plates, blanks and letter case aside
          Forms,       \* how a plate is typed: "plain", or "spaced" with blanks
          SlotNames,   \* numbers of parking slots
          NoSlot,      \* a car that is parked without a slot
          MaxCars,     \* bound: check-ins
          MaxSlotDocs, \* bound: slot documents ever created
          MaxRepeats   \* bound: transactions repeated by the driver

ASSUME ValetAssumption ==
    /\ NoSlot \notin SlotNames
    /\ Forms \subseteq {"plain", "spaced"}
    /\ MaxCars \in Nat \ {0} /\ MaxSlotDocs \in Nat /\ MaxRepeats \in Nat

VARIABLES cars,      \* the Vehicle collection, in the order of creation
          slots,     \* slot number -> its ParkingSlot document (id 0: none)
          docs,      \* slot documents created so far
          job,       \* request -> what it does and what it has read
          repeats,   \* transactions repeated so far
          disturbed, \* ghost: slots whose mark may be wrong
          revived    \* ghost: cars whose delivery was overwritten

vars == <<cars, slots, docs, job, repeats, disturbed, revived>>

----------------------------------------------------------------------------
(* The requests, named by what they wait to do. *)
Idle == [do |-> "idle"]
Ids == 1..Len(cars)
Statuses == {"PARKED", "REQUESTED", "BRINGING", "READY", "DELIVERED"}

(* The statuses staff may move a car to; setting the same again is allowed. *)
Transitions(s) ==
    CASE s = "PARKED" -> {"REQUESTED", "BRINGING"}
      [] s = "REQUESTED" -> {"BRINGING", "READY"}
      [] s = "BRINGING" -> {"READY"}
      [] s = "READY" -> {"DELIVERED"}
      [] s = "DELIVERED" -> {}
\* Mutant: the move is not checked.
MayBecomeAny(s, to) == TRUE
MayBecome(s, to) == to \in Transitions(s) \cup {s}

(* The one button a car's card shows for its status. *)
Button(s) ==
    CASE s = "PARKED" -> {"BRINGING"}
      [] s = "REQUESTED" -> {"BRINGING"}
      [] s = "BRINGING" -> {"READY"}
      [] s = "READY" -> {"DELIVERED"}
      [] s = "DELIVERED" -> {}

(* A screen reloads its queue on an event that may come late or not at     *)
(* all: its card may show any status the car has had.                      *)
Offered(c) == UNION {Button(s) : s \in cars[c].had}

(* The queries strip the blanks from the plate they are given, not from    *)
(* the plates they compare it with.                                        *)
Found(plate) == {c \in Ids : cars[c].plate = plate /\ cars[c].form = "plain"}
\* Mutant: only parked cars count as being in the house.
ActiveParked(plate) == {c \in Found(plate) : cars[c].status = "PARKED"}
Active(plate) == {c \in Found(plate) : cars[c].status # "DELIVERED"}
Parked(plate) == {c \in Found(plate) : cars[c].status = "PARKED"}

SlotDoc(n) == IF n = NoSlot THEN 0 ELSE slots[n].id
Marked(n) == n # NoSlot /\ slots[n].taken
At(n) == {c \in Ids : cars[c].slot = n /\ cars[c].status # "DELIVERED"}

Free(r) == job[r].do = "idle"
End(r) == job' = [job EXCEPT ![r] = Idle]
Disturb(n, when) == disturbed' = IF when THEN disturbed \cup {n} ELSE disturbed

----------------------------------------------------------------------------
\* Mutant: check-in does not look whether the slot is taken.
CheckInAnySlot(r) ==
    /\ Free(r)
    /\ \E plate \in Plates, form \in Forms, n \in SlotNames \cup {NoSlot} :
        /\ Active(plate) = {} /\ n # NoSlot => slots[n].id # 0
        /\ job' = [job EXCEPT ![r] = [do |-> "checkIn", plate |-> plate,
                     form |-> form, slot |-> n, id |-> SlotDoc(n),
                     taken |-> Marked(n), cars |-> Len(cars)]]
    /\ UNCHANGED <<cars, slots, docs, repeats, disturbed, revived>>

(* Check-in: the plate must not be in the house, the slot must be free;    *)
(* the photographs are uploaded between these reads and the transaction.   *)
CheckInVehicle(r) ==
    /\ Free(r)
    /\ \E plate \in Plates, form \in Forms, n \in SlotNames \cup {NoSlot} :
        /\ Active(plate) = {}
        /\ n # NoSlot => slots[n].id # 0 /\ ~slots[n].taken
        /\ job' = [job EXCEPT ![r] = [do |-> "checkIn", plate |-> plate,
                     form |-> form, slot |-> n, id |-> SlotDoc(n),
                     taken |-> Marked(n), cars |-> Len(cars)]]
    /\ UNCHANGED <<cars, slots, docs, repeats, disturbed, revived>>

NewCar(j) == [plate |-> j.plate, form |-> j.form, slot |-> j.slot,
              status |-> "PARKED", had |-> {"PARKED"}, since |-> j.cars]

(* The transaction: the slot is marked and the car is filed together.      *)
CheckInCommits(r) ==
    LET j == job[r] IN
    /\ j.do = "checkIn" /\ Len(cars) < MaxCars
    /\ SlotDoc(j.slot) = j.id
    /\ cars' = Append(cars, NewCar(j))
    /\ slots' = IF j.slot = NoSlot THEN slots ELSE [slots EXCEPT ![j.slot].taken = TRUE]
    /\ Disturb(j.slot, Marked(j.slot) /\ ~j.taken)
    /\ End(r)
    /\ UNCHANGED <<docs, repeats, revived>>

(* The driver repeats the transaction after its writes were made and       *)
(* rolled back.  The copy of the slot says that it is marked and saved, so *)
(* the second time the mark is not written.                                *)
CheckInRepeated(r) ==
    LET j == job[r] IN
    /\ j.do = "checkIn" /\ Len(cars) < MaxCars /\ repeats < MaxRepeats
    /\ SlotDoc(j.slot) = j.id
    /\ cars' = Append(cars, NewCar(j))
    /\ repeats' = repeats + 1
    /\ Disturb(j.slot, j.slot # NoSlot)
    /\ End(r)
    /\ UNCHANGED <<slots, docs, revived>>

----------------------------------------------------------------------------
(* A status change: staff press the button of a card that may be old; the  *)
(* request reads the car and checks the move against its copy.             *)
UpdateValetStatus(r) ==
    /\ Free(r)
    /\ \E c \in Ids : \E to \in Offered(c) :
        /\ MayBecome(cars[c].status, to)
        /\ job' = [job EXCEPT ![r] = [do |-> "status", car |-> c, to |-> to,
                     read |-> cars[c].status]]
    /\ UNCHANGED <<cars, slots, docs, repeats, disturbed, revived>>

(* Saving a car writes the status only when it differs from the copy.      *)
Written(c, read, to) == IF to = read THEN cars[c].status ELSE to
SaveCar(c, read, to) ==
    /\ cars' = [cars EXCEPT ![c].status = Written(c, read, to), ![c].had = @ \cup {to}]
    /\ revived' = IF cars[c].status = "DELIVERED" /\ Written(c, read, to) # "DELIVERED"
                  THEN revived \cup {c} ELSE revived

UpdateCommits(r) ==
    LET j == job[r] IN
    /\ j.do = "status" /\ j.to # "DELIVERED"
    /\ SaveCar(j.car, j.read, j.to)
    /\ Disturb(cars[j.car].slot, cars[j.car].status = "DELIVERED" /\ cars[j.car].slot # NoSlot)
    /\ End(r)
    /\ UNCHANGED <<slots, docs, repeats>>

(* Delivery reads the slot inside the transaction but outside its session. *)
ReadSlot(r) ==
    LET j == job[r]  n == cars[j.car].slot IN
    /\ j.do = "status" /\ j.to = "DELIVERED"
    /\ job' = [job EXCEPT ![r] = [do |-> "deliver", car |-> j.car, read |-> j.read,
                 id |-> SlotDoc(n), taken |-> Marked(n)]]
    /\ UNCHANGED <<cars, slots, docs, repeats, disturbed, revived>>

FreeSlot(n, copyTaken) ==
    slots' = IF n # NoSlot /\ copyTaken THEN [slots EXCEPT ![n].taken = FALSE] ELSE slots

(* A slot that others hold by now is freed under them.                     *)
DeliverCommits(r) ==
    LET j == job[r]  n == cars[j.car].slot IN
    /\ j.do = "deliver"
    /\ j.id # 0 => SlotDoc(n) = j.id
    /\ SaveCar(j.car, j.read, "DELIVERED")
    /\ FreeSlot(n, j.id # 0 /\ j.taken)
    /\ Disturb(n, n # NoSlot /\ (cars[j.car].status = "DELIVERED" \/ Marked(n) # j.taken))
    /\ End(r)
    /\ UNCHANGED <<docs, repeats>>

(* A repeated transaction finds the copy of the car already changed: the   *)
(* status is not written again, but the slot, read again, is freed.        *)
StatusRepeated(r) ==
    LET j == job[r]  n == cars[j.car].slot IN
    /\ j.do \in {"status", "deliver"} /\ repeats < MaxRepeats
    /\ j.do = "status" => j.to # "DELIVERED"
    /\ cars' = [cars EXCEPT ![j.car].had =
                  @ \cup {IF j.do = "deliver" THEN "DELIVERED" ELSE j.to}]
    /\ FreeSlot(n, j.do = "deliver" /\ SlotDoc(n) # 0)
    /\ Disturb(n, n # NoSlot /\ j.do = "deliver")
    /\ repeats' = repeats + 1
    /\ End(r)
    /\ UNCHANGED <<docs, revived>>

----------------------------------------------------------------------------
(* The guest asks for the car, by its plate or from the link in the mail;  *)
(* both look for a parked car with that plate.                             *)
RequestVehicleByGuest(r) ==
    /\ Free(r)
    /\ \E plate \in Plates : \E c \in Parked(plate) :
        job' = [job EXCEPT ![r] = [do |-> "request", car |-> c]]
    /\ UNCHANGED <<cars, slots, docs, repeats, disturbed, revived>>

RequestVehicleByToken(r) ==
    /\ Free(r)
    /\ \E own \in Ids :
        /\ cars[own].status # "DELIVERED"
        /\ \E c \in Parked(cars[own].plate) :
            job' = [job EXCEPT ![r] = [do |-> "request", car |-> c]]
    /\ UNCHANGED <<cars, slots, docs, repeats, disturbed, revived>>

(* The request is saved without asking what happened to the car meanwhile. *)
RequestSaves(r) ==
    LET j == job[r] IN
    /\ j.do = "request"
    /\ SaveCar(j.car, "PARKED", "REQUESTED")
    /\ Disturb(cars[j.car].slot,
               cars[j.car].status = "DELIVERED" /\ cars[j.car].slot # NoSlot)
    /\ End(r)
    /\ UNCHANGED <<slots, docs, repeats>>

----------------------------------------------------------------------------
(* The administrator's slots. *)
CreateParkingSlot(r) ==
    /\ Free(r) /\ docs < MaxSlotDocs
    /\ \E n \in SlotNames :
        /\ slots[n].id = 0
        /\ slots' = [slots EXCEPT ![n] = [id |-> docs + 1, taken |-> FALSE]]
    /\ docs' = docs + 1
    /\ UNCHANGED <<cars, job, repeats, disturbed, revived>>

DeleteParkingSlot(r) ==
    /\ Free(r)
    /\ \E n \in SlotNames :
        /\ slots[n].id # 0 /\ ~slots[n].taken
        /\ job' = [job EXCEPT ![r] = [do |-> "delete", slot |-> n, id |-> slots[n].id,
                     taken |-> Marked(n)]]
    /\ UNCHANGED <<cars, slots, docs, repeats, disturbed, revived>>

DeleteCommits(r) ==
    LET j == job[r] IN
    /\ j.do = "delete"
    /\ slots' = IF slots[j.slot].id = j.id
                THEN [slots EXCEPT ![j.slot] = [id |-> 0, taken |-> FALSE]] ELSE slots
    /\ Disturb(j.slot, slots[j.slot].id = j.id /\ Marked(j.slot) /\ ~j.taken)
    /\ End(r)
    /\ UNCHANGED <<cars, docs, repeats, revived>>

(* An upload fails, a save finds its slot gone, or the process stops: the  *)
(* transaction has written nothing.                                        *)
Dies(r) ==
    /\ ~Free(r)
    /\ End(r)
    /\ UNCHANGED <<cars, slots, docs, repeats, disturbed, revived>>

----------------------------------------------------------------------------
Init ==
    /\ cars = << >>
    /\ slots \in [SlotNames -> [id : {1}, taken : {FALSE}]]
    /\ docs = 1
    /\ job = [r \in Requests |-> Idle]
    /\ repeats = 0 /\ disturbed = {} /\ revived = {}

Next == \E r \in Requests :
    \/ CheckInVehicle(r) \/ CheckInCommits(r) \/ CheckInRepeated(r)
    \/ UpdateValetStatus(r) \/ UpdateCommits(r) \/ ReadSlot(r)
    \/ DeliverCommits(r) \/ StatusRepeated(r)
    \/ RequestVehicleByGuest(r) \/ RequestVehicleByToken(r) \/ RequestSaves(r)
    \/ CreateParkingSlot(r) \/ DeleteParkingSlot(r) \/ DeleteCommits(r)
    \/ Dies(r)

Spec == Init /\ [][Next]_vars

----------------------------------------------------------------------------
(* Requests that work on a car. *)
OnCar == {"status", "deliver", "request"}

(* Every car stands where a slot exists or once existed, and every request *)
(* works on a document that was there when it began.                       *)
TypeOK ==
    /\ \A c \in Ids :
        /\ cars[c].plate \in Plates /\ cars[c].form \in Forms
        /\ cars[c].slot \in SlotNames \cup {NoSlot}
        /\ cars[c].status \in Statuses /\ cars[c].had \subseteq Statuses
        /\ cars[c].status \in cars[c].had /\ cars[c].since < c
    /\ slots \in [SlotNames -> [id : 0..docs, taken : BOOLEAN]]
    /\ \A r \in Requests : job[r].do \in OnCar => job[r].car \in Ids
    /\ docs \in 1..(MaxSlotDocs + 1) /\ repeats \in 0..MaxRepeats
    /\ disturbed \subseteq SlotNames /\ revived \subseteq Ids

(* A slot is marked exactly when one undelivered car is filed in it, except *)
(* where two check-ins met in it, a delivery was pressed twice or          *)
(* overwritten, a transaction was repeated, or it was deleted meanwhile    *)
(* (valet.service.ts, checkInVehicle and updateValetStatus).               *)
SlotsAccounted ==
    \A n \in SlotNames \ disturbed :
        Cardinality(At(n)) = IF slots[n].taken THEN 1 ELSE 0

(* Two files of one car are open only when the first has a plate typed     *)
(* with blanks, which no later check-in finds, however that one is typed;  *)
(* when the second check-in looked before the first was filed; or when a   *)
(* late request brought the first, delivered, back (checkInVehicle's       *)
(* VEHICLE_ALREADY_EXISTS).                                                *)
OpenTwice(c, d) ==
    /\ c < d /\ cars[c].plate = cars[d].plate
    /\ cars[c].status # "DELIVERED" /\ cars[d].status # "DELIVERED"
OneFilePerCar ==
    \A c, d \in Ids :
        OpenTwice(c, d) =>
            cars[c].form = "spaced" \/ cars[d].since < c \/ c \in revived

(* A car's status goes back only when a request saves over a change made   *)
(* since it read the car (transitions in updateValetStatus).               *)
Rank(s) == CASE s = "PARKED" -> 1 [] s = "REQUESTED" -> 2 [] s = "BRINGING" -> 3
             [] s = "READY" -> 4 [] s = "DELIVERED" -> 5
Overtaken(r, c) ==
    /\ job[r].do \in OnCar /\ job[r].car = c /\ job'[r] = Idle
    /\ IF job[r].do = "request" THEN cars[c].status # "PARKED"
                                ELSE job[r].read # cars[c].status
ForwardUnlessOvertaken ==
    [][\A c \in Ids : Rank(cars'[c].status) < Rank(cars[c].status) =>
         \E r \in Requests : Overtaken(r, c)]_vars

\* Cars and slots have the shape of their schemas, and a car has one file.
CarInv == TypeOK /\ OneFilePerCar
=============================================================================
