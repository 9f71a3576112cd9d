---------------------------- MODULE ValetProofs ----------------------------
(***************************************************************************)
(* Theorems about Valet, for any number of requests, plates and slots and  *)
(* any bounds.  The invariant says of every request that what it has read  *)
(* is still true or that the exception is on record in a ghost variable:   *)
(* cars are only appended, and a car changes only as CarsGrow allows.      *)
(***************************************************************************)
EXTENDS Valet, SequenceTheorems, FiniteSetTheorems, TLAPS

Car == [plate : Plates, form : Forms, slot : SlotNames \cup {NoSlot},
        status : Statuses, had : SUBSET Statuses, since : Nat]

\* The collections have the shapes of their schemas.
Shape ==
    /\ cars \in Seq(Car)
    /\ job = [r \in Requests |-> job[r]]

\* A file is closed, or was brought back by a late save.
Gone(c) == cars[c].status = "DELIVERED" \/ c \in revived

\* A delivered car claims no slot whose mark is relied on.
Settled(c) ==
    \/ cars[c].status = "DELIVERED"
    \/ cars[c].slot = NoSlot
    \/ cars[c].slot \in disturbed

\* A check-in that waits to commit has seen every file open at its look.
CheckInJob(j) ==
    /\ j.plate \in Plates /\ j.form \in Forms /\ j.slot \in SlotNames \cup {NoSlot}
    /\ j.cars \in 0..Len(cars) /\ ~j.taken
    /\ j.slot # NoSlot => j.id # 0
    /\ \A c \in 1..j.cars :
         cars[c].form = "plain" /\ cars[c].plate = j.plate => Gone(c)

\* A status change works on a car it has read.
CarJob(j) ==
    /\ j.car \in Ids /\ j.read \in Statuses
    /\ j.read = "DELIVERED" => Settled(j.car)
StatusJob(j) == CarJob(j) /\ j.to \in Statuses /\ MayBecome(j.read, j.to)
DeliverJob(j) == CarJob(j) /\ j.taken \in BOOLEAN /\ (j.taken => j.id # 0)

JobInv(j) ==
    /\ j.do \in {"idle", "checkIn", "status", "deliver", "request", "delete"}
    /\ j.do = "checkIn" => CheckInJob(j)
    /\ j.do = "status" => StatusJob(j)
    /\ j.do = "deliver" => DeliverJob(j)
    /\ j.do = "request" => j.car \in Ids
    /\ j.do = "delete" => j.slot \in SlotNames /\ ~j.taken

\* OneFilePerCar without asking whether the second file is closed.
FileInv ==
    \A c, d \in Ids :
        c < d /\ cars[c].plate = cars[d].plate /\ cars[c].form = "plain"
        => Gone(c) \/ cars[d].since < c

\* The mark of an undisturbed slot names its car.
OneAt(n) == IF slots[n].taken THEN \E c \in Ids : At(n) = {c} ELSE At(n) = {}
SlotInv ==
    \A n \in SlotNames :
        /\ slots[n].taken => slots[n].id # 0
        /\ n \notin disturbed => OneAt(n)

JobsInv == \A r \in Requests : JobInv(job[r])
IInv == Shape /\ TypeOK /\ JobsInv /\ FileInv /\ SlotInv

----------------------------------------------------------------------------
(* How cars change. *)

\* No car is taken out, and a file that is brought back is on record.
CarsGrow ==
    /\ Len(cars) <= Len(cars')
    /\ \A c \in Ids :
        /\ cars'[c].plate = cars[c].plate /\ cars'[c].form = cars[c].form
        /\ cars'[c].slot = cars[c].slot /\ cars'[c].since = cars[c].since
        /\ cars[c].status = "DELIVERED" /\ cars'[c].status # "DELIVERED" =>
             /\ c \in revived'
             /\ cars[c].slot # NoSlot => cars[c].slot \in disturbed'
    /\ revived \subseteq revived' /\ disturbed \subseteq disturbed'

\* The number of cars is a natural number, and every car is a record of Car.
LEMMA CarTypes ==
  ASSUME Shape
  PROVE  /\ Len(cars) \in Nat
         /\ \A c \in Ids : cars[c] \in Car
<1>1. cars \in Seq(Car)
  BY DEF Shape
<1>2. QED
  BY <1>1, LenProperties, ElementOfSeq DEF Ids

\* Writing the status and the history of one car leaves the rest alone.
LEMMA OneCarWritten ==
  ASSUME Shape, NEW c \in Ids, NEW s \in Statuses, NEW h \in Statuses,
         cars' = [cars EXCEPT ![c] = [cars[c] EXCEPT !.status = s, !.had = @ \cup {h}]]
  PROVE  /\ cars' \in Seq(Car)
         /\ Len(cars') = Len(cars)
         /\ \A d \in Ids : d # c => cars'[d] = cars[d]
         /\ cars'[c].plate = cars[c].plate /\ cars'[c].form = cars[c].form
         /\ cars'[c].slot = cars[c].slot /\ cars'[c].since = cars[c].since
         /\ cars'[c].status = s /\ cars'[c].had = cars[c].had \cup {h}
<1> DEFINE e == [cars[c] EXCEPT !.status = s, !.had = @ \cup {h}]
<1>1. cars[c] \in Car
  BY CarTypes
<1>2. /\ e \in Car
      /\ e.plate = cars[c].plate /\ e.form = cars[c].form
      /\ e.slot = cars[c].slot /\ e.since = cars[c].since
      /\ e.status = s /\ e.had = cars[c].had \cup {h}
  BY <1>1 DEF Car
<1> HIDE DEF e
<1>3. cars' = [cars EXCEPT ![c] = e]
  BY DEF e
<1>4. c \in 1..Len(cars)
  BY DEF Ids
<1>5. cars \in Seq(Car)
  BY DEF Shape
<1>6. /\ cars' \in Seq(Car)
      /\ Len(cars') = Len(cars)
      /\ \A d \in 1..Len(cars) : cars'[d] = IF d = c THEN e ELSE cars[d]
  BY <1>2, <1>3, <1>4, <1>5, ExceptSeq
<1>7. QED
  BY <1>2, <1>4, <1>6 DEF Ids

\* SaveCar writes the status it is given or leaves the one there is.
LEMMA SaveCarWrites ==
  ASSUME Shape, TypeOK, NEW c \in Ids, NEW read \in Statuses, NEW to \in Statuses,
         SaveCar(c, read, to)
  PROVE  /\ cars' \in Seq(Car)
         /\ Len(cars') = Len(cars)
         /\ \A d \in Ids : d # c => cars'[d] = cars[d]
         /\ cars'[c].plate = cars[c].plate /\ cars'[c].form = cars[c].form
         /\ cars'[c].slot = cars[c].slot /\ cars'[c].since = cars[c].since
         /\ cars'[c].status = Written(c, read, to)
         /\ cars'[c].had = cars[c].had \cup {to}
         /\ revived \subseteq revived' /\ revived' \subseteq Ids
         /\ cars[c].status = "DELIVERED" /\ cars'[c].status # "DELIVERED" => c \in revived'
<1>1. cars[c] \in Car
  BY CarTypes
<1>2. Written(c, read, to) \in Statuses
  BY <1>1 DEF Written, Car
<1>3. cars' = [cars EXCEPT ![c] = [cars[c] EXCEPT !.status = Written(c, read, to),
                                                  !.had = @ \cup {to}]]
  BY <1>1 DEF SaveCar
<1>4. /\ cars' \in Seq(Car)
      /\ Len(cars') = Len(cars)
      /\ \A d \in Ids : d # c => cars'[d] = cars[d]
      /\ cars'[c].plate = cars[c].plate /\ cars'[c].form = cars[c].form
      /\ cars'[c].slot = cars[c].slot /\ cars'[c].since = cars[c].since
      /\ cars'[c].status = Written(c, read, to)
      /\ cars'[c].had = cars[c].had \cup {to}
  BY <1>2, <1>3, OneCarWritten
<1>5. /\ revived \subseteq revived' /\ revived' \subseteq Ids
      /\ cars[c].status = "DELIVERED" /\ Written(c, read, to) # "DELIVERED" => c \in revived'
  BY DEF SaveCar, TypeOK
<1>6. QED
  BY <1>4, <1>5

----------------------------------------------------------------------------
(* What survives a step in which cars grow. *)

\* A file that is gone stays gone.
LEMMA GoneStays ==
  ASSUME CarsGrow, NEW c \in Ids, Gone(c)
  PROVE  Gone(c)'
<1> QED
  BY DEF CarsGrow, Gone

\* A settled car stays settled.
LEMMA SettledStays ==
  ASSUME CarsGrow, NEW c \in Ids, Settled(c)
  PROVE  Settled(c)'
<1> QED
  BY DEF CarsGrow, Settled

\* A number of a car stays the number of a car.
LEMMA IdsStay ==
  ASSUME Shape, CarsGrow, Len(cars') \in Nat
  PROVE  Ids \subseteq Ids'
<1> QED
  BY CarTypes DEF CarsGrow, Ids

\* What a waiting request knows stays true.
LEMMA JobKept ==
  ASSUME Shape, CarsGrow, Len(cars') \in Nat, NEW j, JobInv(j)
  PROVE  JobInv(j)'
<1>1. Ids \subseteq Ids'
  BY IdsStay
<1>3. ASSUME j.do = "checkIn"
      PROVE  CheckInJob(j)'
  <2>1. CheckInJob(j)
    BY <1>3 DEF JobInv
  <2>2. j.cars \in 0..Len(cars')
    BY <2>1, CarTypes DEF CarsGrow, CheckInJob
  <2>3. ASSUME NEW c \in 1..j.cars, cars'[c].form = "plain",
               cars'[c].plate = j.plate
        PROVE  Gone(c)'
    <3>1. c \in Ids
      BY <2>1, CarTypes DEF CheckInJob, Ids
    <3>2. Gone(c)
      BY <2>1, <2>3, <3>1 DEF CheckInJob, CarsGrow
    <3>3. QED
      BY <3>1, <3>2, GoneStays
  <2>4. QED
    BY <2>1, <2>2, <2>3 DEF CheckInJob
<1>4. CarJob(j) => CarJob(j)'
  <2>1. ASSUME CarJob(j), j.read = "DELIVERED"
        PROVE  Settled(j.car)'
    BY <2>1, SettledStays DEF CarJob
  <2>2. QED
    BY <1>1, <2>1 DEF CarJob
<1>5. j.do = "status" => StatusJob(j)'
  BY <1>4 DEF JobInv, StatusJob
<1>6. j.do = "deliver" => DeliverJob(j)'
  BY <1>4 DEF JobInv, DeliverJob
<1>7. QED
  BY <1>1, <1>3, <1>5, <1>6 DEF JobInv

\* A step that files no car keeps the files' invariant.
LEMMA FilesKept ==
  ASSUME Shape, CarsGrow, Len(cars') = Len(cars), FileInv
  PROVE  FileInv'
<1>1. Ids' = Ids
  BY DEF Ids
<1>2. SUFFICES ASSUME NEW c \in Ids, NEW d \in Ids, c < d,
                      cars'[c].plate = cars'[d].plate,
                      cars'[c].form = "plain"
               PROVE  Gone(c)' \/ cars'[d].since < c
  BY <1>1 DEF FileInv
<1>3. Gone(c) \/ cars[d].since < c
  BY <1>2 DEF FileInv, CarsGrow
<1>4. QED
  BY <1>3, GoneStays DEF CarsGrow

\* The step of one request leaves the others' jobs; its own is given.
LEMMA JobsKept ==
  ASSUME Shape, JobsInv, CarsGrow, Len(cars') \in Nat, NEW r \in Requests, NEW j,
         job' = [job EXCEPT ![r] = j], JobInv(j)'
  PROVE  JobsInv' /\ job' = [q \in Requests |-> job'[q]]
<1>1. /\ job'[r] = j
      /\ \A q \in Requests \ {r} : job'[q] = job[q]
      /\ job' = [q \in Requests |-> job'[q]]
  BY DEF Shape
<1>2. ASSUME NEW q \in Requests \ {r}
      PROVE  JobInv(job[q])'
  <2>1. PICK k : k = job[q]
    OBVIOUS
  <2>2. JobInv(k)'
    BY <2>1, JobKept DEF JobsInv
  <2>3. QED
    BY <1>1, <2>1, <2>2
<1>3. JobInv(job[r])'
  BY <1>1
<1>4. QED
  BY <1>1, <1>2, <1>3 DEF JobsInv

\* A request that has ended claims nothing.
LEMMA IdleJob ==
  ASSUME NEW r \in Requests, Shape, End(r)
  PROVE  /\ job' = [job EXCEPT ![r] = Idle]
         /\ JobInv(Idle)'
<1> QED
  BY DEF End, Idle, JobInv

\* A step that only reads keeps the invariant if its request does.
LEMMA ReadKeeps ==
  ASSUME IInv, NEW r \in Requests, NEW j,
         UNCHANGED <<cars, slots, docs, repeats, disturbed, revived>>,
         job' = [job EXCEPT ![r] = j], JobInv(j)
  PROVE  IInv'
<1> USE DEF IInv
<1>1. CarsGrow /\ Len(cars') = Len(cars) /\ Len(cars') \in Nat /\ Ids' = Ids
  BY CarTypes DEF CarsGrow, Ids
<1>2. JobInv(j)'
  BY <1>1 DEF JobInv, CheckInJob, StatusJob, DeliverJob, CarJob, Settled, Gone
<1>3. JobsInv' /\ job' = [q \in Requests |-> job'[q]]
  BY <1>1, <1>2, JobsKept
<1>4. \A q \in Requests : job'[q].do \in OnCar => job'[q].car \in Ids'
  BY <1>3 DEF JobsInv, JobInv, OnCar, StatusJob, DeliverJob, CarJob
<1>5. Shape' /\ TypeOK'
  BY <1>1, <1>3, <1>4 DEF Shape, TypeOK
<1>6. FileInv'
  BY <1>1, FilesKept
<1>7. SlotInv'
  BY <1>1 DEF SlotInv, OneAt, At
<1>8. QED
  BY <1>3, <1>5, <1>6, <1>7

\* A step that ends its request is left with the cars and the slots to show.
LEMMA CommitKeeps ==
  ASSUME IInv, NEW r \in Requests, End(r), CarsGrow,
         cars' \in Seq(Car), TypeOK', FileInv', SlotInv'
  PROVE  IInv'
<1>1. Len(cars') \in Nat
  BY LenProperties
<1>2. job' = [job EXCEPT ![r] = Idle] /\ JobInv(Idle)'
  BY IdleJob DEF IInv
<1>3. JobsInv' /\ job' = [q \in Requests |-> job'[q]]
  BY <1>1, <1>2, JobsKept DEF IInv
<1>4. QED
  BY <1>3 DEF IInv, Shape

\* The cars are typed after a step that writes the status of one of them.
LEMMA WrittenTyped ==
  ASSUME Shape, TypeOK, NEW c \in Ids, NEW to \in Statuses, cars' \in Seq(Car),
         Len(cars') = Len(cars), \A d \in Ids : d # c => cars'[d] = cars[d],
         cars'[c].since = cars[c].since, cars'[c].status \in {cars[c].status, to},
         cars'[c].had = cars[c].had \cup {to}
  PROVE  \A d \in Ids' :
           /\ cars'[d].plate \in Plates /\ cars'[d].form \in Forms
           /\ cars'[d].slot \in SlotNames \cup {NoSlot}
           /\ cars'[d].status \in Statuses /\ cars'[d].had \subseteq Statuses
           /\ cars'[d].status \in cars'[d].had /\ cars'[d].since < d
<1>1. Ids' = Ids
  BY DEF Ids
<1>2. \A d \in Ids : cars'[d] \in Car
  BY <1>1, ElementOfSeq DEF Ids
<1>3. QED
  BY <1>1, <1>2 DEF TypeOK, Car

\* Requests on cars stay on cars when one of them ends.
LEMMA EndKeepsCars ==
  ASSUME Shape, TypeOK, NEW r \in Requests, End(r), Ids \subseteq Ids'
  PROVE  \A q \in Requests : job'[q].do \in OnCar => job'[q].car \in Ids'
<1>1. /\ job'[r] = Idle
      /\ \A q \in Requests \ {r} : job'[q] = job[q]
  BY DEF Shape, End
<1>2. job'[r].do \notin OnCar
  BY <1>1 DEF Idle, OnCar
<1>3. QED
  BY <1>1, <1>2 DEF TypeOK

\* Writing the status of one car concerns the slot of that car only, and that
\* only if the car is delivered or brought back.
LEMMA OtherSlots ==
  ASSUME Len(cars') = Len(cars), NEW c \in Ids,
         \A d \in Ids : d # c => cars'[d] = cars[d],
         cars'[c].slot = cars[c].slot
  PROVE  /\ Ids' = Ids
         /\ \A n \in SlotNames : n # cars[c].slot => At(n)' = At(n)
         /\ (cars[c].status = "DELIVERED" <=> cars'[c].status = "DELIVERED")
              => \A n \in SlotNames : At(n)' = At(n)
<1>1. Ids' = Ids
  BY DEF Ids
<1>2. QED
  BY <1>1 DEF At

\* The slots' invariant, when neither marks nor undisturbed claims change.
LEMMA SlotsKept ==
  ASSUME SlotInv, Ids' = Ids, slots' = slots, disturbed \subseteq disturbed',
         \A n \in SlotNames : n \notin disturbed' => At(n)' = At(n)
  PROVE  SlotInv'
<1> QED
  BY DEF SlotInv, OneAt

----------------------------------------------------------------------------
(* The invariant holds initially. *)

\* A record of narrow fields is one of wider fields.
LEMMA RecordsWiden ==
  ASSUME NEW A, NEW B, NEW C, NEW D, A \subseteq C, B \subseteq D,
         NEW x \in [id : A, taken : B]
  PROVE  x \in [id : C, taken : D]
<1> QED
  OBVIOUS

LEMMA InitHolds == Init => IInv
<1> SUFFICES ASSUME Init PROVE IInv
  OBVIOUS
<1>1. cars \in Seq(Car) /\ Ids = {}
  BY EmptySeq DEF Init, Ids
<1>2. /\ \A r \in Requests : job[r] = Idle
      /\ job = [r \in Requests |-> job[r]]
  BY DEF Init
<1>3. Shape
  BY <1>1, <1>2 DEF Shape
<1>4. slots \in [SlotNames -> [id : 0..docs, taken : BOOLEAN]]
      /\ \A n \in SlotNames : slots[n].taken = FALSE
  <2>1. slots \in [SlotNames -> [id : {1}, taken : {FALSE}]] /\ docs = 1
    BY DEF Init
  <2>2. \A n \in SlotNames :
          slots[n] \in [id : 0..1, taken : BOOLEAN] /\ slots[n].taken = FALSE
    <3>1. ASSUME NEW x \in [id : {1}, taken : {FALSE}]
          PROVE  x \in [id : 0..1, taken : BOOLEAN] /\ x.taken = FALSE
      <4>1. {1} \subseteq 0..1
        OBVIOUS
      <4>2. {FALSE} \subseteq BOOLEAN
        BY Zenon
      <4>3. x.taken \in {FALSE}
        OBVIOUS
      <4>4. x.taken = FALSE
        BY <4>3, Zenon
      <4>5. x \in [id : 0..1, taken : BOOLEAN]
        BY <4>1, <4>2, RecordsWiden
      <4>6. QED
        BY <4>4, <4>5
    <3>2. QED
      BY <2>1, <3>1
  <2>3. QED
    BY <2>1, <2>2
<1>5. TypeOK
  BY <1>1, <1>2, <1>4, ValetAssumption DEF Init, TypeOK, Idle, OnCar
<1>6. JobsInv
  BY <1>2 DEF JobsInv, JobInv, Idle
<1>7. FileInv /\ SlotInv
  BY <1>1, <1>4 DEF FileInv, SlotInv, OneAt, At
<1>8. QED
  BY <1>3, <1>5, <1>6, <1>7 DEF IInv

----------------------------------------------------------------------------
(* The requests that read. *)

LEMMA CheckInVehicleKeeps ==
  ASSUME IInv, NEW r \in Requests, CheckInVehicle(r)
  PROVE  IInv'
<1>1. PICK plate \in Plates, form \in Forms, n \in SlotNames \cup {NoSlot} :
        /\ Active(plate) = {}
        /\ n # NoSlot => slots[n].id # 0 /\ ~slots[n].taken
        /\ job' = [job EXCEPT ![r] = [do |-> "checkIn", plate |-> plate,
                     form |-> form, slot |-> n, id |-> SlotDoc(n),
                     taken |-> Marked(n), cars |-> Len(cars)]]
  BY DEF CheckInVehicle
<1> DEFINE j == [do |-> "checkIn", plate |-> plate, form |-> form, slot |-> n,
                 id |-> SlotDoc(n), taken |-> Marked(n), cars |-> Len(cars)]
<1>2. Len(cars) \in Nat
  BY CarTypes DEF IInv
<1>3. ~Marked(n) /\ (n # NoSlot => SlotDoc(n) # 0)
  BY <1>1 DEF Marked, SlotDoc
<1>4. \A c \in 1..Len(cars) :
        cars[c].form = "plain" /\ cars[c].plate = plate => Gone(c)
  BY <1>1 DEF Active, Found, Ids, Gone
<1>5. CheckInJob(j)
  BY <1>2, <1>3, <1>4 DEF CheckInJob
<1>6. JobInv(j)
  BY <1>5 DEF JobInv
<1>7. job' = [job EXCEPT ![r] = j]
  BY <1>1
<1>8. UNCHANGED <<cars, slots, docs, repeats, disturbed, revived>>
  BY DEF CheckInVehicle
<1> HIDE DEF j
<1>9. QED
  BY <1>6, <1>7, <1>8, ReadKeeps

LEMMA UpdateValetStatusKeeps ==
  ASSUME IInv, NEW r \in Requests, UpdateValetStatus(r)
  PROVE  IInv'
<1>1. PICK c \in Ids : \E to \in Offered(c) :
        /\ MayBecome(cars[c].status, to)
        /\ job' = [job EXCEPT ![r] = [do |-> "status", car |-> c, to |-> to,
                     read |-> cars[c].status]]
  BY DEF UpdateValetStatus
<1>2. PICK to \in Offered(c) :
        /\ MayBecome(cars[c].status, to)
        /\ job' = [job EXCEPT ![r] = [do |-> "status", car |-> c, to |-> to,
                     read |-> cars[c].status]]
  BY <1>1
<1> DEFINE j == [do |-> "status", car |-> c, to |-> to, read |-> cars[c].status]
<1>3. cars[c].status \in Statuses
  BY DEF IInv, TypeOK
<1>4. to \in Statuses
  BY <1>2, <1>3 DEF MayBecome, Transitions, Statuses
<1>5. JobInv(j)
  BY <1>2, <1>3, <1>4 DEF JobInv, StatusJob, CarJob, Settled
<1>6. job' = [job EXCEPT ![r] = j]
  BY <1>2
<1>7. UNCHANGED <<cars, slots, docs, repeats, disturbed, revived>>
  BY DEF UpdateValetStatus
<1> HIDE DEF j
<1>8. QED
  BY <1>5, <1>6, <1>7, ReadKeeps

LEMMA ReadSlotKeeps ==
  ASSUME IInv, NEW r \in Requests, ReadSlot(r)
  PROVE  IInv'
<1> DEFINE n == cars[job[r].car].slot
           j == [do |-> "deliver", car |-> job[r].car, read |-> job[r].read,
                 id |-> SlotDoc(n), taken |-> Marked(n)]
<1>1. StatusJob(job[r])
  BY DEF ReadSlot, IInv, JobsInv, JobInv
<1>2. n \in SlotNames \cup {NoSlot}
  BY <1>1 DEF StatusJob, CarJob, IInv, TypeOK
<1>3. Marked(n) \in BOOLEAN /\ (Marked(n) => SlotDoc(n) # 0)
  BY <1>2 DEF Marked, SlotDoc, IInv, SlotInv, TypeOK
<1>4. JobInv(j)
  BY <1>1, <1>3 DEF JobInv, StatusJob, DeliverJob, CarJob
<1>5. job' = [job EXCEPT ![r] = j]
  BY DEF ReadSlot
<1>6. UNCHANGED <<cars, slots, docs, repeats, disturbed, revived>>
  BY DEF ReadSlot
<1> HIDE DEF j
<1>7. QED
  BY <1>4, <1>5, <1>6, ReadKeeps

LEMMA GuestRequestKeeps ==
  ASSUME IInv, NEW r \in Requests, RequestVehicleByGuest(r) \/ RequestVehicleByToken(r)
  PROVE  IInv'
<1>1. PICK c \in Ids : job' = [job EXCEPT ![r] = [do |-> "request", car |-> c]]
  BY DEF RequestVehicleByGuest, RequestVehicleByToken, Parked, Found
<1> DEFINE j == [do |-> "request", car |-> c]
<1>2. JobInv(j)
  BY DEF JobInv
<1>3. UNCHANGED <<cars, slots, docs, repeats, disturbed, revived>>
  BY DEF RequestVehicleByGuest, RequestVehicleByToken
<1>4. QED
  BY <1>1, <1>2, <1>3, ReadKeeps

LEMMA DeleteParkingSlotKeeps ==
  ASSUME IInv, NEW r \in Requests, DeleteParkingSlot(r)
  PROVE  IInv'
<1>1. PICK n \in SlotNames :
        /\ slots[n].id # 0 /\ ~slots[n].taken
        /\ job' = [job EXCEPT ![r] = [do |-> "delete", slot |-> n, id |-> slots[n].id,
                     taken |-> Marked(n)]]
  BY DEF DeleteParkingSlot
<1> DEFINE j == [do |-> "delete", slot |-> n, id |-> slots[n].id, taken |-> Marked(n)]
<1>2. JobInv(j)
  BY <1>1 DEF JobInv, Marked
<1>3. UNCHANGED <<cars, slots, docs, repeats, disturbed, revived>>
  BY DEF DeleteParkingSlot
<1>4. QED
  BY <1>1, <1>2, <1>3, ReadKeeps

LEMMA DiesKeeps ==
  ASSUME IInv, NEW r \in Requests, Dies(r)
  PROVE  IInv'
<1>1. JobInv(Idle)
  BY DEF JobInv, Idle
<1>2. QED
  BY <1>1, ReadKeeps DEF Dies, End

----------------------------------------------------------------------------
(* The requests that write. *)

\* A car is filed: the car's file is new, and so is its claim to the slot.
LEMMA CarFiled ==
  ASSUME IInv, NEW r \in Requests, job[r].do = "checkIn",
         cars' = Append(cars, NewCar(job[r])),
         revived' = revived, disturbed \subseteq disturbed'
  PROVE  /\ cars' \in Seq(Car)
         /\ Len(cars') = Len(cars) + 1
         /\ Len(cars) \in Nat
         /\ Ids' = Ids \cup {Len(cars) + 1}
         /\ Len(cars) + 1 \notin Ids
         /\ \A c \in Ids : cars'[c] = cars[c]
         /\ cars'[Len(cars) + 1] = NewCar(job[r])
         /\ CarsGrow
         /\ FileInv'
<1> DEFINE j == job[r]
           new == Len(cars) + 1
<1>1. CheckInJob(j) /\ Len(cars) \in Nat /\ cars \in Seq(Car)
  BY CarTypes DEF IInv, JobsInv, JobInv, Shape
<1>2. NewCar(j) \in Car
  BY <1>1 DEF CheckInJob, NewCar, Car, Statuses
<1>3. /\ cars' \in Seq(Car)
      /\ Len(cars') = new
      /\ \A c \in 1..Len(cars) : cars'[c] = cars[c]
      /\ cars'[new] = NewCar(j)
  BY <1>1, <1>2, AppendProperties
<1>4. Ids' = Ids \cup {new} /\ new \notin Ids
  BY <1>1, <1>3 DEF Ids
<1>5. \A c \in Ids : cars'[c] = cars[c]
  BY <1>3 DEF Ids
<1>6. CarsGrow
  <2>1. Len(cars) <= Len(cars')
    BY <1>1, <1>3
  <2>2. QED
    BY <1>5, <2>1 DEF CarsGrow
<1>7. FileInv'
  <2>1. SUFFICES ASSUME NEW c \in Ids', NEW d \in Ids', c < d,
                        cars'[c].plate = cars'[d].plate,
                        cars'[c].form = "plain"
                 PROVE  Gone(c)' \/ cars'[d].since < c
    BY DEF FileInv
  <2>2. c \in Ids
    BY <1>1, <1>4, <2>1 DEF Ids
  <2>3. CASE d \in Ids
    <3>1. Gone(c) \/ cars[d].since < c
      BY <1>5, <2>1, <2>2, <2>3 DEF IInv, FileInv
    <3>2. QED
      BY <1>5, <1>6, <2>2, <2>3, <3>1, GoneStays
  <2>4. CASE d = new
    <3>1. cars'[d].since = j.cars /\ cars[c].plate = j.plate
          /\ cars[c].form = "plain"
      <4>1. cars'[d] = NewCar(j) /\ cars'[c] = cars[c]
        BY <1>3, <1>5, <2>2, <2>4
      <4>2. NewCar(j).since = j.cars /\ NewCar(j).form = j.form
            /\ NewCar(j).plate = j.plate
        BY DEF NewCar
      <4>3. QED
        BY <2>1, <4>1, <4>2
    <3>2. CASE c <= j.cars
      <4>1. c \in 1..j.cars
        BY <1>1, <2>2, <3>2 DEF CheckInJob, Ids
      <4>2. Gone(c)
        BY <1>1, <3>1, <4>1 DEF CheckInJob
      <4>3. QED
        BY <1>6, <2>2, <4>2, GoneStays
    <3>3. CASE ~(c <= j.cars)
      BY <1>1, <2>2, <3>1, <3>3 DEF CheckInJob, Ids
    <3>4. QED
      BY <3>2, <3>3
  <2>5. QED
    BY <1>4, <2>3, <2>4
<1>8. QED
  BY <1>1, <1>3, <1>4, <1>5, <1>6, <1>7

\* The types after a check-in that writes its car.
LEMMA FiledTyped ==
  ASSUME IInv, NEW r \in Requests, job[r].do = "checkIn",
         cars' = Append(cars, NewCar(job[r])),
         revived' = revived, disturbed \subseteq disturbed', End(r),
         disturbed' \subseteq SlotNames, docs' = docs, repeats' \in 0..MaxRepeats,
         slots' \in [SlotNames -> [id : 0..docs, taken : BOOLEAN]]
  PROVE  TypeOK'
<1> DEFINE new == Len(cars) + 1
<1>1. /\ Len(cars) \in Nat /\ Ids' = Ids \cup {new}
      /\ \A c \in Ids : cars'[c] = cars[c]
      /\ cars'[new] = NewCar(job[r])
  BY CarFiled
<1>2. CheckInJob(job[r])
  BY DEF IInv, JobsInv, JobInv
<1>3. /\ cars'[new].plate \in Plates /\ cars'[new].form \in Forms
      /\ cars'[new].slot \in SlotNames \cup {NoSlot}
      /\ cars'[new].status \in Statuses /\ cars'[new].had \subseteq Statuses
      /\ cars'[new].status \in cars'[new].had /\ cars'[new].since < new
  BY <1>1, <1>2 DEF CheckInJob, NewCar, Statuses
<1>4. \A q \in Requests : job'[q].do \in OnCar => job'[q].car \in Ids'
  BY <1>1, EndKeepsCars DEF IInv
<1>5. QED
  BY <1>1, <1>3, <1>4 DEF IInv, TypeOK

LEMMA CheckInCommitsKeeps ==
  ASSUME IInv, NEW r \in Requests, CheckInCommits(r)
  PROVE  IInv'
<1> DEFINE j == job[r]
           new == Len(cars) + 1
<1>1. CheckInJob(j) /\ j.do = "checkIn" /\ SlotDoc(j.slot) = j.id
  BY DEF CheckInCommits, IInv, JobsInv, JobInv
<1>2. /\ cars' = Append(cars, NewCar(j)) /\ revived' = revived
      /\ disturbed \subseteq disturbed' /\ End(r)
      /\ docs' = docs /\ repeats' = repeats
      /\ slots' = IF j.slot = NoSlot THEN slots ELSE [slots EXCEPT ![j.slot].taken = TRUE]
      /\ disturbed' = IF Marked(j.slot) THEN disturbed \cup {j.slot} ELSE disturbed
  BY <1>1 DEF CheckInCommits, Disturb, CheckInJob
<1>3. /\ cars' \in Seq(Car) /\ Ids' = Ids \cup {new} /\ new \notin Ids
      /\ \A c \in Ids : cars'[c] = cars[c]
      /\ cars'[new] = NewCar(j)
      /\ CarsGrow /\ FileInv'
  BY <1>1, <1>2, CarFiled
<1>4. /\ slots \in [SlotNames -> [id : 0..docs, taken : BOOLEAN]]
      /\ disturbed \subseteq SlotNames /\ repeats \in 0..MaxRepeats
  BY DEF IInv, TypeOK
<1>5. slots' \in [SlotNames -> [id : 0..docs, taken : BOOLEAN]]
      /\ disturbed' \subseteq SlotNames
  BY <1>1, <1>2, <1>4 DEF CheckInJob, Marked
<1>6. TypeOK'
  BY <1>1, <1>2, <1>4, <1>5, FiledTyped
<1>7. \A n \in SlotNames : n # j.slot => At(n)' = At(n)
  BY <1>3 DEF At, NewCar
<1>8. SlotInv'
  <2>1. SUFFICES ASSUME NEW n \in SlotNames
                 PROVE  /\ slots'[n].taken => slots'[n].id # 0
                        /\ n \notin disturbed' => OneAt(n)'
    BY DEF SlotInv
  <2>2. CASE n # j.slot
    <3>1. slots'[n] = slots[n]
      BY <1>2, <1>4, <2>2
    <3>2. At(n)' = At(n)
      BY <1>7, <2>2
    <3>3. QED
      BY <1>2, <1>3, <3>1, <3>2 DEF IInv, SlotInv, OneAt
  <2>3. CASE n = j.slot
    <3>1. n # NoSlot
      BY ValetAssumption
    <3>2. slots'[n].taken /\ slots'[n].id = slots[n].id /\ slots[n].id # 0
      BY <1>1, <1>2, <1>4, <2>3, <3>1 DEF SlotDoc, CheckInJob
    <3>3. ASSUME n \notin disturbed'
          PROVE  At(n)' = {new}
      <4>1. ~slots[n].taken /\ n \notin disturbed
        BY <1>2, <2>3, <3>1, <3>3 DEF Marked
      <4>2. At(n) = {}
        BY <4>1 DEF IInv, SlotInv, OneAt
      <4>3. QED
        BY <1>3, <2>3, <4>2 DEF At, NewCar
    <3>4. QED
      BY <1>3, <3>2, <3>3 DEF OneAt
  <2>4. QED
    BY <2>2, <2>3
<1>9. QED
  BY <1>2, <1>3, <1>6, <1>8, CommitKeeps

LEMMA CheckInRepeatedKeeps ==
  ASSUME IInv, NEW r \in Requests, CheckInRepeated(r)
  PROVE  IInv'
<1> DEFINE j == job[r]
           new == Len(cars) + 1
<1>1. CheckInJob(j) /\ j.do = "checkIn"
  BY DEF CheckInRepeated, IInv, JobsInv, JobInv
<1>2. /\ cars' = Append(cars, NewCar(j)) /\ revived' = revived
      /\ disturbed \subseteq disturbed' /\ End(r)
      /\ docs' = docs /\ repeats < MaxRepeats /\ repeats' = repeats + 1
      /\ slots' = slots
      /\ disturbed' = IF j.slot # NoSlot THEN disturbed \cup {j.slot} ELSE disturbed
  BY DEF CheckInRepeated, Disturb
<1>3. /\ cars' \in Seq(Car) /\ Ids' = Ids \cup {new} /\ new \notin Ids
      /\ \A c \in Ids : cars'[c] = cars[c]
      /\ cars'[new] = NewCar(j)
      /\ CarsGrow /\ FileInv'
  BY <1>1, <1>2, CarFiled
<1>4. /\ slots' \in [SlotNames -> [id : 0..docs, taken : BOOLEAN]]
      /\ disturbed' \subseteq SlotNames /\ repeats' \in 0..MaxRepeats
  BY <1>1, <1>2, ValetAssumption DEF IInv, TypeOK, CheckInJob
<1>5. TypeOK'
  BY <1>1, <1>2, <1>4, FiledTyped
<1>6. SlotInv'
  <2>1. SUFFICES ASSUME NEW n \in SlotNames
                 PROVE  /\ slots[n].taken => slots[n].id # 0
                        /\ n \notin disturbed' => OneAt(n)'
    BY <1>2 DEF SlotInv
  <2>2. CASE n = j.slot
    BY <1>2, <2>2, ValetAssumption DEF IInv, SlotInv
  <2>3. CASE n # j.slot
    <3>1. At(n)' = At(n)
      BY <1>3, <2>3 DEF At, NewCar
    <3>2. QED
      BY <1>2, <1>3, <3>1 DEF IInv, SlotInv, OneAt
  <2>4. QED
    BY <2>2, <2>3
<1>7. QED
  BY <1>2, <1>3, <1>5, <1>6, CommitKeeps

\* A step that writes one car and ends its request, its slots left to show.
LEMMA OneCarKeeps ==
  ASSUME IInv, NEW r \in Requests, End(r), NEW c \in Ids, NEW to \in Statuses,
         cars' \in Seq(Car), Len(cars') = Len(cars),
         \A d \in Ids : d # c => cars'[d] = cars[d],
         cars'[c].plate = cars[c].plate, cars'[c].form = cars[c].form,
         cars'[c].slot = cars[c].slot, cars'[c].since = cars[c].since,
         cars'[c].status \in {cars[c].status, to},
         cars'[c].had = cars[c].had \cup {to},
         revived \subseteq revived', revived' \subseteq Ids,
         cars[c].status = "DELIVERED" /\ cars'[c].status # "DELIVERED" =>
            c \in revived' /\ (cars[c].slot # NoSlot => cars[c].slot \in disturbed'),
         disturbed \subseteq disturbed', disturbed' \subseteq SlotNames,
         docs' = docs, repeats' \in 0..MaxRepeats,
         slots' \in [SlotNames -> [id : 0..docs, taken : BOOLEAN]],
         SlotInv'
  PROVE  IInv'
<1>1. Ids' = Ids /\ Len(cars) \in Nat
  BY CarTypes DEF Ids, IInv
<1>2. CarsGrow
  BY <1>1 DEF CarsGrow
<1>3. \A q \in Requests : job'[q].do \in OnCar => job'[q].car \in Ids'
  BY <1>1, EndKeepsCars DEF IInv
<1>4. \A d \in Ids' :
        /\ cars'[d].plate \in Plates /\ cars'[d].form \in Forms
        /\ cars'[d].slot \in SlotNames \cup {NoSlot}
        /\ cars'[d].status \in Statuses /\ cars'[d].had \subseteq Statuses
        /\ cars'[d].status \in cars'[d].had /\ cars'[d].since < d
  BY WrittenTyped DEF IInv
<1>5. TypeOK'
  BY <1>1, <1>3, <1>4 DEF IInv, TypeOK
<1>6. FileInv'
  BY <1>2, FilesKept DEF IInv
<1>7. QED
  BY <1>2, <1>5, <1>6, CommitKeeps

\* Saving a status other than DELIVERED moves no car into or out of a slot,
\* unless it brings the car back, which is on record.
LEMMA MoveKeeps ==
  ASSUME IInv, NEW r \in Requests, End(r), NEW c \in Ids,
         NEW read \in Statuses, NEW to \in Statuses, to # "DELIVERED",
         SaveCar(c, read, to),
         Disturb(cars[c].slot, cars[c].status = "DELIVERED" /\ cars[c].slot # NoSlot),
         UNCHANGED <<slots, docs, repeats>>
  PROVE  IInv'
<1>1. /\ cars' \in Seq(Car)
      /\ Len(cars') = Len(cars)
      /\ \A d \in Ids : d # c => cars'[d] = cars[d]
      /\ cars'[c].plate = cars[c].plate /\ cars'[c].form = cars[c].form
      /\ cars'[c].slot = cars[c].slot /\ cars'[c].since = cars[c].since
      /\ cars'[c].status = Written(c, read, to)
      /\ cars'[c].had = cars[c].had \cup {to}
      /\ revived \subseteq revived' /\ revived' \subseteq Ids
      /\ cars[c].status = "DELIVERED" /\ cars'[c].status # "DELIVERED" => c \in revived'
  BY SaveCarWrites DEF IInv
<1>2. Written(c, read, to) \in {cars[c].status, to}
  BY DEF Written
<1>3. /\ slots' \in [SlotNames -> [id : 0..docs, taken : BOOLEAN]]
      /\ repeats' \in 0..MaxRepeats
      /\ cars[c].slot \in SlotNames \cup {NoSlot} /\ disturbed \subseteq SlotNames
  BY DEF IInv, TypeOK
<1>4. /\ disturbed \subseteq disturbed' /\ disturbed' \subseteq SlotNames
      /\ cars[c].status = "DELIVERED" /\ cars[c].slot # NoSlot
           => cars[c].slot \in disturbed'
  BY <1>3 DEF Disturb
<1>5. /\ Ids' = Ids
      /\ \A n \in SlotNames : n # cars[c].slot => At(n)' = At(n)
      /\ (cars[c].status = "DELIVERED" <=> cars'[c].status = "DELIVERED")
           => \A n \in SlotNames : At(n)' = At(n)
  BY <1>1, OtherSlots
<1>6. \A n \in SlotNames : n \notin disturbed' => At(n)' = At(n)
  <2>1. CASE cars[c].status = "DELIVERED"
    BY <1>4, <1>5, <2>1, ValetAssumption
  <2>2. CASE cars[c].status # "DELIVERED"
    BY <1>1, <1>2, <1>5, <2>2
  <2>3. QED
    BY <2>1, <2>2
<1>7. SlotInv'
  BY <1>4, <1>5, <1>6, SlotsKept DEF IInv
<1>8. QED
  BY <1>1, <1>2, <1>3, <1>4, <1>7, OneCarKeeps

LEMMA UpdateCommitsKeeps ==
  ASSUME IInv, NEW r \in Requests, UpdateCommits(r)
  PROVE  IInv'
<1>1. StatusJob(job[r]) /\ job[r].to # "DELIVERED"
  BY DEF UpdateCommits, IInv, JobsInv, JobInv
<1>2. job[r].car \in Ids /\ job[r].read \in Statuses /\ job[r].to \in Statuses
  BY <1>1 DEF StatusJob, CarJob
<1>3. QED
  BY <1>1, <1>2, MoveKeeps DEF UpdateCommits

LEMMA RequestSavesKeeps ==
  ASSUME IInv, NEW r \in Requests, RequestSaves(r)
  PROVE  IInv'
<1>1. job[r].car \in Ids
  BY DEF RequestSaves, IInv, JobsInv, JobInv
<1>2. "PARKED" \in Statuses /\ "REQUESTED" \in Statuses
  BY DEF Statuses
<1>3. QED
  BY <1>1, <1>2, MoveKeeps DEF RequestSaves

\* Freeing a slot keeps the slots' types and frees none but that one.
LEMMA SlotFreed ==
  ASSUME TypeOK, NEW n \in SlotNames \cup {NoSlot}, NEW b \in BOOLEAN, FreeSlot(n, b)
  PROVE  /\ slots' \in [SlotNames -> [id : 0..docs, taken : BOOLEAN]]
         /\ \A m \in SlotNames : /\ slots'[m].id = slots[m].id
                                 /\ m # n => slots'[m] = slots[m]
                                 /\ slots'[m].taken => slots[m].taken
         /\ n # NoSlot /\ b => ~slots'[n].taken
         /\ ~b => slots' = slots
<1>1. slots \in [SlotNames -> [id : 0..docs, taken : BOOLEAN]]
  BY DEF TypeOK
<1>2. CASE n # NoSlot /\ b
  <2>1. n \in SlotNames /\ slots' = [slots EXCEPT ![n].taken = FALSE]
    BY <1>2 DEF FreeSlot
  <2>2. QED
    BY <1>1, <1>2, <2>1
<1>3. CASE ~(n # NoSlot /\ b)
  BY <1>1, <1>3 DEF FreeSlot
<1>4. QED
  BY <1>2, <1>3

LEMMA DeliverCommitsKeeps ==
  ASSUME IInv, NEW r \in Requests, DeliverCommits(r)
  PROVE  IInv'
<1> DEFINE j == job[r]
           c == j.car
           n == cars[c].slot
           b == j.id # 0 /\ j.taken
           when == n # NoSlot /\ (cars[c].status = "DELIVERED" \/ Marked(n) # j.taken)
<1>1. /\ c \in Ids /\ j.read \in Statuses /\ j.taken \in BOOLEAN
      /\ j.taken => j.id # 0
      /\ j.read = "DELIVERED" => Settled(c)
  BY DEF DeliverCommits, IInv, JobsInv, JobInv, DeliverJob, CarJob
<1>2. /\ SaveCar(c, j.read, "DELIVERED") /\ FreeSlot(n, b) /\ End(r)
      /\ disturbed' = IF when THEN disturbed \cup {n} ELSE disturbed
      /\ docs' = docs /\ repeats' = repeats
  BY DEF DeliverCommits, Disturb
<1>3. /\ n \in SlotNames \cup {NoSlot} /\ disturbed \subseteq SlotNames
      /\ repeats \in 0..MaxRepeats /\ "DELIVERED" \in Statuses /\ b \in BOOLEAN
  BY <1>1 DEF IInv, TypeOK, Statuses
<1>4. /\ cars' \in Seq(Car)
      /\ Len(cars') = Len(cars)
      /\ \A d \in Ids : d # c => cars'[d] = cars[d]
      /\ cars'[c].plate = cars[c].plate /\ cars'[c].form = cars[c].form
      /\ cars'[c].slot = n /\ cars'[c].since = cars[c].since
      /\ cars'[c].status = Written(c, j.read, "DELIVERED")
      /\ cars'[c].had = cars[c].had \cup {"DELIVERED"}
      /\ revived \subseteq revived' /\ revived' \subseteq Ids
      /\ cars[c].status = "DELIVERED" /\ cars'[c].status # "DELIVERED" => c \in revived'
  BY <1>1, <1>2, <1>3, SaveCarWrites DEF IInv
<1>5. cars'[c].status \in {cars[c].status, "DELIVERED"}
  BY <1>4 DEF Written
<1>6. disturbed \subseteq disturbed' /\ disturbed' \subseteq SlotNames
  BY <1>2, <1>3
<1>7. /\ slots' \in [SlotNames -> [id : 0..docs, taken : BOOLEAN]]
      /\ \A m \in SlotNames : /\ slots'[m].id = slots[m].id
                              /\ m # n => slots'[m] = slots[m]
                              /\ slots'[m].taken => slots[m].taken
      /\ n # NoSlot /\ b => ~slots'[n].taken
      /\ ~b => slots' = slots
  BY <1>2, <1>3, SlotFreed DEF IInv
<1>8. /\ Ids' = Ids
      /\ \A m \in SlotNames : m # n => At(m)' = At(m)
  BY <1>1, <1>4, OtherSlots
<1>9. SlotInv'
  <2>1. SUFFICES ASSUME NEW m \in SlotNames
                 PROVE  /\ slots'[m].taken => slots'[m].id # 0
                        /\ m \notin disturbed' => OneAt(m)'
    BY DEF SlotInv
  <2>2. slots'[m].taken => slots'[m].id # 0
    BY <1>7 DEF IInv, SlotInv
  <2>3. CASE m # n
    BY <1>6, <1>7, <1>8, <2>2, <2>3 DEF IInv, SlotInv, OneAt
  <2>4. ASSUME m = n, m \notin disturbed'
        PROVE  OneAt(m)'
    <3>1. m # NoSlot /\ m \notin disturbed
      BY <1>6, <2>4, ValetAssumption
    <3>2. cars[c].status # "DELIVERED" /\ Marked(n) = j.taken
      BY <1>2, <2>4, <3>1
    <3>3. c \in At(m)
      BY <1>1, <2>4, <3>2 DEF At
    <3>4. OneAt(m)
      BY <3>1 DEF IInv, SlotInv
    <3>5. slots[m].taken /\ At(m) = {c}
      BY <3>3, <3>4 DEF OneAt
    <3>6. ~slots'[m].taken
      BY <1>1, <1>7, <2>4, <3>1, <3>2, <3>5 DEF Marked
    <3>7. cars'[c].status = "DELIVERED"
      BY <1>1, <1>4, <2>4, <3>1, <3>2 DEF Written, Settled
    <3>8. At(m)' = {}
      BY <1>4, <1>8, <3>5, <3>7 DEF At
    <3>9. QED
      BY <3>6, <3>8 DEF OneAt
  <2>5. QED
    BY <2>2, <2>3, <2>4
<1>10. cars[c].status = "DELIVERED" /\ n # NoSlot => n \in disturbed'
  BY <1>2
<1> HIDE DEF j, c, n, b, when
<1>11. QED
  BY <1>1, <1>2, <1>3, <1>4, <1>5, <1>6, <1>7, <1>9, <1>10, OneCarKeeps DEF n

LEMMA StatusRepeatedKeeps ==
  ASSUME IInv, NEW r \in Requests, StatusRepeated(r)
  PROVE  IInv'
<1> DEFINE j == job[r]
           c == j.car
           n == cars[c].slot
           to == IF j.do = "deliver" THEN "DELIVERED" ELSE j.to
           b == j.do = "deliver" /\ SlotDoc(n) # 0
<1>1. c \in Ids /\ to \in Statuses
  BY DEF StatusRepeated, IInv, JobsInv, JobInv, DeliverJob, StatusJob, CarJob, Statuses
<1>2. /\ cars' = [cars EXCEPT ![c].had = @ \cup {to}]
      /\ FreeSlot(n, b) /\ End(r) /\ revived' = revived
      /\ disturbed' = IF n # NoSlot /\ j.do = "deliver" THEN disturbed \cup {n}
                                                        ELSE disturbed
      /\ docs' = docs /\ repeats' = repeats + 1 /\ repeats < MaxRepeats
  BY DEF StatusRepeated, Disturb
<1>3. /\ n \in SlotNames \cup {NoSlot} /\ disturbed \subseteq SlotNames
      /\ repeats' \in 0..MaxRepeats /\ b \in BOOLEAN
      /\ revived \subseteq Ids
  BY <1>1, <1>2, ValetAssumption DEF IInv, TypeOK
<1>4. cars[c] \in Car /\ cars[c].status \in Statuses
  BY <1>1, CarTypes DEF IInv, Car
<1>5. cars' = [cars EXCEPT ![c] = [cars[c] EXCEPT !.status = cars[c].status,
                                                  !.had = @ \cup {to}]]
  <2>1. [cars[c] EXCEPT !.had = @ \cup {to}]
          = [cars[c] EXCEPT !.status = cars[c].status, !.had = @ \cup {to}]
    BY <1>4 DEF Car
  <2>2. QED
    BY <1>2, <2>1
<1>6. /\ cars' \in Seq(Car)
      /\ Len(cars') = Len(cars)
      /\ \A d \in Ids : d # c => cars'[d] = cars[d]
      /\ cars'[c].plate = cars[c].plate /\ cars'[c].form = cars[c].form
      /\ cars'[c].slot = n /\ cars'[c].since = cars[c].since
      /\ cars'[c].status = cars[c].status
      /\ cars'[c].had = cars[c].had \cup {to}
  BY <1>1, <1>4, <1>5, OneCarWritten DEF IInv
<1>7. disturbed \subseteq disturbed' /\ disturbed' \subseteq SlotNames
  BY <1>2, <1>3
<1>8. /\ slots' \in [SlotNames -> [id : 0..docs, taken : BOOLEAN]]
      /\ \A m \in SlotNames : /\ slots'[m].id = slots[m].id
                              /\ m # n => slots'[m] = slots[m]
                              /\ slots'[m].taken => slots[m].taken
      /\ ~b => slots' = slots
  BY <1>2, <1>3, SlotFreed DEF IInv
<1>9. Ids' = Ids /\ \A m \in SlotNames : At(m)' = At(m)
  BY <1>1, <1>6, OtherSlots
<1>10. \A m \in SlotNames : m \notin disturbed' => slots'[m] = slots[m]
  BY <1>2, <1>8, ValetAssumption
<1>11. SlotInv'
  BY <1>7, <1>8, <1>9, <1>10 DEF IInv, SlotInv, OneAt
<1>12. cars'[c].status \in {cars[c].status, to}
  BY <1>6
<1>13. cars[c].status = "DELIVERED" /\ cars'[c].status # "DELIVERED" =>
         c \in revived' /\ (n # NoSlot => n \in disturbed')
  BY <1>6
<1>14. revived \subseteq revived' /\ revived' \subseteq Ids
  BY <1>2, <1>3
<1>15. docs' = docs /\ End(r)
  BY <1>2
<1> HIDE DEF j, c, n, to, b
<1>16. QED
  BY <1>1, <1>3, <1>6, <1>7, <1>8, <1>11, <1>12, <1>13, <1>14, <1>15,
     OneCarKeeps DEF n

LEMMA CreateParkingSlotKeeps ==
  ASSUME IInv, NEW r \in Requests, CreateParkingSlot(r)
  PROVE  IInv'
<1>1. PICK n \in SlotNames :
        /\ slots[n].id = 0
        /\ slots' = [slots EXCEPT ![n] = [id |-> docs + 1, taken |-> FALSE]]
  BY DEF CreateParkingSlot
<1>2. /\ docs' = docs + 1 /\ docs < MaxSlotDocs
      /\ UNCHANGED <<cars, job, repeats, disturbed, revived>>
  BY DEF CreateParkingSlot
<1>3. CarsGrow /\ Len(cars') = Len(cars) /\ Len(cars') \in Nat /\ Ids' = Ids
  BY <1>2, CarTypes DEF CarsGrow, Ids, IInv
<1>4. ASSUME NEW q \in Requests
      PROVE  JobInv(job[q])'
  <2>1. PICK k : k = job[q]
    OBVIOUS
  <2>2. JobInv(k)'
    BY <1>3, <2>1, JobKept DEF IInv, JobsInv
  <2>3. QED
    BY <1>2, <2>1, <2>2
<1>5. JobsInv'
  BY <1>4 DEF JobsInv
<1>6. docs \in Nat /\ docs' \in 1..(MaxSlotDocs + 1)
  BY <1>2, ValetAssumption DEF IInv, TypeOK
<1>7. slots' \in [SlotNames -> [id : 0..docs', taken : BOOLEAN]]
  <2>1. slots \in [SlotNames -> [id : 0..docs, taken : BOOLEAN]]
    BY DEF IInv, TypeOK
  <2>2. \A m \in SlotNames : slots[m] \in [id : 0..docs', taken : BOOLEAN]
    <3>1. 0..docs \subseteq 0..docs'
      BY <1>2, <1>6
    <3>2. QED
      BY <2>1, <3>1, RecordsWiden
  <2>3. [id |-> docs + 1, taken |-> FALSE] \in [id : 0..docs', taken : BOOLEAN]
    BY <1>2, <1>6
  <2>4. QED
    BY <1>1, <2>1, <2>2, <2>3
<1>8. Shape' /\ TypeOK'
  BY <1>2, <1>3, <1>6, <1>7 DEF IInv, Shape, TypeOK
<1>9. FileInv'
  BY <1>3, FilesKept DEF IInv
<1>10. SlotInv'
  <2>1. \A m \in SlotNames : At(m)' = At(m)
    BY <1>2, <1>3 DEF At
  <2>2. ~slots[n].taken
    BY <1>1 DEF IInv, SlotInv
  <2>3. \A m \in SlotNames :
          /\ slots'[m].taken = slots[m].taken
          /\ slots'[m].taken => slots'[m].id = slots[m].id
    BY <1>1, <2>2 DEF IInv, TypeOK
  <2>4. QED
    BY <1>2, <1>3, <2>1, <2>3 DEF IInv, SlotInv, OneAt
<1>11. QED
  BY <1>5, <1>8, <1>9, <1>10 DEF IInv

LEMMA DeleteCommitsKeeps ==
  ASSUME IInv, NEW r \in Requests, DeleteCommits(r)
  PROVE  IInv'
<1> DEFINE j == job[r]
           gone == slots[j.slot].id = j.id
<1>1. j.slot \in SlotNames /\ ~j.taken
  BY DEF DeleteCommits, IInv, JobsInv, JobInv
<1>2. /\ slots' = IF gone THEN [slots EXCEPT ![j.slot] = [id |-> 0, taken |-> FALSE]]
                          ELSE slots
      /\ disturbed' = IF gone /\ Marked(j.slot) THEN disturbed \cup {j.slot} ELSE disturbed
      /\ End(r)
      /\ UNCHANGED <<cars, docs, repeats, revived>>
  BY <1>1 DEF DeleteCommits, Disturb
<1>3. disturbed \subseteq disturbed' /\ disturbed' \subseteq SlotNames
  BY <1>1, <1>2 DEF IInv, TypeOK
<1>4. CarsGrow /\ Len(cars') = Len(cars) /\ Ids' = Ids /\ cars' \in Seq(Car)
  BY <1>2, <1>3, CarTypes DEF CarsGrow, Ids, IInv, Shape
<1>5. slots \in [SlotNames -> [id : 0..docs, taken : BOOLEAN]] /\ docs \in Nat
  BY DEF IInv, TypeOK
<1>6. slots' \in [SlotNames -> [id : 0..docs, taken : BOOLEAN]]
  <2>1. [id |-> 0, taken |-> FALSE] \in [id : 0..docs, taken : BOOLEAN]
    BY <1>5
  <2>2. QED
    BY <1>2, <1>5, <2>1
<1>7. \A q \in Requests : job'[q].do \in OnCar => job'[q].car \in Ids'
  BY <1>2, <1>4, EndKeepsCars DEF IInv
<1>8. TypeOK'
  BY <1>2, <1>3, <1>4, <1>6, <1>7 DEF IInv, TypeOK
<1>9. FileInv'
  BY <1>4, FilesKept DEF IInv
<1>10. SlotInv'
  <2>1. SUFFICES ASSUME NEW m \in SlotNames
                 PROVE  /\ slots'[m].taken => slots'[m].id # 0
                        /\ m \notin disturbed' => OneAt(m)'
    BY DEF SlotInv
  <2>2. At(m)' = At(m)
    BY <1>2, <1>4 DEF At
  <2>3. CASE gone /\ m = j.slot
    <3>1. slots'[m] = [id |-> 0, taken |-> FALSE]
      BY <1>2, <1>5, <2>3
    <3>2. ASSUME m \notin disturbed'
          PROVE  At(m) = {}
      <4>1. m \notin disturbed /\ ~slots[m].taken
        BY <1>1, <1>2, <1>3, <2>3, <3>2, ValetAssumption DEF Marked
      <4>2. QED
        BY <4>1 DEF IInv, SlotInv, OneAt
    <3>3. QED
      BY <2>2, <3>1, <3>2 DEF OneAt
  <2>4. CASE ~(gone /\ m = j.slot)
    <3>1. slots'[m] = slots[m]
      BY <1>2, <1>5, <2>4
    <3>2. QED
      BY <1>3, <1>4, <2>2, <3>1 DEF IInv, SlotInv, OneAt
  <2>5. QED
    BY <2>3, <2>4
<1>11. QED
  BY <1>2, <1>4, <1>8, <1>9, <1>10, CommitKeeps

----------------------------------------------------------------------------
(* The theorems. *)

LEMMA NextKeeps ==
  ASSUME IInv, [Next]_vars
  PROVE  IInv'
<1>1. CASE Next
  <2>1. PICK r \in Requests :
          \/ CheckInVehicle(r) \/ CheckInCommits(r) \/ CheckInRepeated(r)
          \/ UpdateValetStatus(r) \/ UpdateCommits(r) \/ ReadSlot(r)
          \/ DeliverCommits(r) \/ StatusRepeated(r)
          \/ RequestVehicleByGuest(r) \/ RequestVehicleByToken(r) \/ RequestSaves(r)
          \/ CreateParkingSlot(r) \/ DeleteParkingSlot(r) \/ DeleteCommits(r)
          \/ Dies(r)
    BY <1>1 DEF Next
  <2>2. CASE CheckInVehicle(r) \/ UpdateValetStatus(r) \/ ReadSlot(r)
             \/ RequestVehicleByGuest(r) \/ RequestVehicleByToken(r)
             \/ DeleteParkingSlot(r) \/ Dies(r)
    BY <2>2, CheckInVehicleKeeps, UpdateValetStatusKeeps, ReadSlotKeeps,
       GuestRequestKeeps, DeleteParkingSlotKeeps, DiesKeeps
  <2>3. CASE CheckInCommits(r) \/ CheckInRepeated(r)
    BY <2>3, CheckInCommitsKeeps, CheckInRepeatedKeeps
  <2>4. CASE UpdateCommits(r) \/ DeliverCommits(r) \/ StatusRepeated(r)
             \/ RequestSaves(r)
    BY <2>4, UpdateCommitsKeeps, DeliverCommitsKeeps, StatusRepeatedKeeps,
       RequestSavesKeeps
  <2>5. CASE CreateParkingSlot(r) \/ DeleteCommits(r)
    BY <2>5, CreateParkingSlotKeeps, DeleteCommitsKeeps
  <2>6. QED
    BY <2>1, <2>2, <2>3, <2>4, <2>5
<1>2. CASE UNCHANGED vars
  BY <1>2 DEF vars, IInv, Shape, TypeOK, JobsInv, JobInv, CheckInJob, StatusJob,
     DeliverJob, CarJob, Settled, Gone, FileInv, SlotInv, OneAt, At, Ids
<1>3. QED
  BY <1>1, <1>2

LEMMA IInvHolds == Spec => []IInv
<1>1. Init => IInv
  BY InitHolds
<1>2. IInv /\ [Next]_vars => IInv'
  BY NextKeeps
<1>3. QED
  BY <1>1, <1>2, PTL DEF Spec

\* Cars and slots have their shapes, and while a file whose plate was typed
\* without blanks is open its car is not checked in again, however the plate
\* is typed then, except for two check-ins at once and a late save.
THEOREM CarsFiledOnce == Spec => []CarInv
<1>1. IInv => CarInv
  <2>1. IInv => OneFilePerCar
    <3>1. SUFFICES ASSUME IInv, NEW c \in Ids, NEW d \in Ids, OpenTwice(c, d)
                   PROVE  cars[c].form = "spaced" \/ cars[d].since < c \/ c \in revived
      BY DEF OneFilePerCar
    <3>2. cars[c].form \in {"plain", "spaced"}
      BY <3>1, ValetAssumption DEF IInv, TypeOK
    <3>3. cars[c].form = "plain" => Gone(c) \/ cars[d].since < c
      BY <3>1 DEF IInv, FileInv, OpenTwice
    <3>4. QED
      BY <3>1, <3>2, <3>3 DEF Gone, OpenTwice
  <2>2. QED
    BY <2>1 DEF IInv, CarInv
<1>2. QED
  BY <1>1, IInvHolds, PTL

\* An undisturbed slot is marked exactly when one undelivered car is filed in
\* it: check-in and delivery keep the slots and the cars in step.
THEOREM SlotsHold == Spec => []SlotsAccounted
<1>1. IInv => SlotsAccounted
  <2>1. SUFFICES ASSUME IInv, NEW n \in SlotNames \ disturbed
                 PROVE  Cardinality(At(n)) = IF slots[n].taken THEN 1 ELSE 0
    BY DEF SlotsAccounted
  <2>2. OneAt(n)
    BY <2>1 DEF IInv, SlotInv
  <2>3. QED
    BY <2>2, FS_Singleton, FS_EmptySet DEF OneAt
<1>2. QED
  BY <1>1, IInvHolds, PTL

\* Saving the status goes forward if the request read the status there is.
LEMMA MovesForward ==
  ASSUME NEW s \in Statuses, NEW to \in Statuses, MayBecome(s, to)
  PROVE  Rank(s) <= Rank(to)
<1> QED
  BY DEF MayBecome, Transitions, Rank, Statuses

\* A car's status goes back only by a request that saves over a newer one.
THEOREM StatusesForward == Spec => ForwardUnlessOvertaken
<1> DEFINE Forward == \A c \in Ids : Rank(cars'[c].status) < Rank(cars[c].status) =>
                        \E r \in Requests : Overtaken(r, c)
<1>1. ASSUME IInv, [Next]_vars
      PROVE  [Forward]_vars
  <2>1. SUFFICES ASSUME Next, NEW c \in Ids,
                        Rank(cars'[c].status) < Rank(cars[c].status)
                 PROVE  \E r \in Requests : Overtaken(r, c)
    BY <1>1
  <2>2. cars[c].status \in Statuses /\ Len(cars) \in Nat
    BY <1>1, CarTypes DEF IInv, TypeOK
  <2>3. cars'[c].status # cars[c].status
    BY <2>1, <2>2 DEF Rank, Statuses
  <2>4. PICK r \in Requests :
          \/ CheckInVehicle(r) \/ CheckInCommits(r) \/ CheckInRepeated(r)
          \/ UpdateValetStatus(r) \/ UpdateCommits(r) \/ ReadSlot(r)
          \/ DeliverCommits(r) \/ StatusRepeated(r)
          \/ RequestVehicleByGuest(r) \/ RequestVehicleByToken(r) \/ RequestSaves(r)
          \/ CreateParkingSlot(r) \/ DeleteParkingSlot(r) \/ DeleteCommits(r)
          \/ Dies(r)
    BY <2>1 DEF Next
  <2>5. End(r) => job'[r] = Idle
    BY <1>1 DEF IInv, Shape, End
  <2>6. CASE CheckInVehicle(r) \/ UpdateValetStatus(r) \/ ReadSlot(r)
             \/ RequestVehicleByGuest(r) \/ RequestVehicleByToken(r)
             \/ CreateParkingSlot(r) \/ DeleteParkingSlot(r) \/ DeleteCommits(r)
             \/ Dies(r)
    BY <2>3, <2>6 DEF CheckInVehicle, UpdateValetStatus, ReadSlot,
       RequestVehicleByGuest, RequestVehicleByToken, CreateParkingSlot,
       DeleteParkingSlot, DeleteCommits, Dies
  <2>7. CASE CheckInCommits(r) \/ CheckInRepeated(r)
    <3>1. /\ job[r].do = "checkIn" /\ cars' = Append(cars, NewCar(job[r]))
          /\ revived' = revived /\ disturbed \subseteq disturbed'
      BY <2>7 DEF CheckInCommits, CheckInRepeated, Disturb
    <3>2. cars'[c] = cars[c]
      BY <1>1, <3>1, CarFiled
    <3>3. QED
      BY <2>3, <3>2
  <2>8. CASE StatusRepeated(r)
    <3>1. PICK h : cars' = [cars EXCEPT ![job[r].car].had = h]
      BY <2>8 DEF StatusRepeated
    <3>2. cars[c] \in Car /\ cars \in [1..Len(cars) -> Car]
      BY <1>1, CarTypes, LenProperties DEF IInv, Shape
    <3>3. cars'[c].status = cars[c].status
      BY <3>1, <3>2 DEF Car, Ids
    <3>4. QED
      BY <2>3, <3>3
  <2>9. CASE UpdateCommits(r) \/ DeliverCommits(r)
    <3>1. PICK to \in Statuses :
            /\ SaveCar(job[r].car, job[r].read, to) /\ End(r)
            /\ \/ job[r].do = "status" /\ to = job[r].to
               \/ job[r].do = "deliver" /\ to = "DELIVERED"
      <4>1. CASE UpdateCommits(r)
        <5>1. job[r].do = "status" /\ job[r].to \in Statuses
          BY <1>1, <4>1 DEF UpdateCommits, IInv, JobsInv, JobInv, StatusJob
        <5>2. SaveCar(job[r].car, job[r].read, job[r].to) /\ End(r)
          BY <4>1 DEF UpdateCommits
        <5>3. QED
          BY <5>1, <5>2
      <4>2. CASE DeliverCommits(r)
        <5>1. "DELIVERED" \in Statuses
          BY DEF Statuses
        <5>2. SaveCar(job[r].car, job[r].read, "DELIVERED") /\ End(r)
              /\ job[r].do = "deliver"
          BY <4>2 DEF DeliverCommits
        <5>3. QED
          BY <5>1, <5>2
      <4>3. QED
        BY <2>9, <4>1, <4>2
    <3>2. /\ job[r].car \in Ids /\ job[r].read \in Statuses
          /\ job[r].do = "status" => MayBecome(job[r].read, to)
      BY <1>1, <3>1 DEF IInv, JobsInv, JobInv, StatusJob, DeliverJob, CarJob
    <3>3. /\ c = job[r].car
          /\ cars'[c].status = Written(c, job[r].read, to)
      BY <1>1, <2>3, <3>1, <3>2, SaveCarWrites DEF IInv
    <3>4. to # job[r].read /\ cars'[c].status = to
      BY <2>3, <3>3 DEF Written
    <3>5. job[r].read # cars[c].status
      <4>1. CASE to = "DELIVERED"
        BY <2>1, <2>2, <3>4, <4>1 DEF Rank, Statuses
      <4>2. CASE to # "DELIVERED"
        <5>1. Rank(job[r].read) <= Rank(to)
          BY <3>1, <3>2, <4>2, MovesForward
        <5>2. Rank(to) \in Nat /\ Rank(cars[c].status) \in Nat
          BY <2>2 DEF Rank, Statuses
        <5>3. QED
          BY <2>1, <3>4, <5>1, <5>2
      <4>3. QED
        BY <4>1, <4>2
    <3>6. QED
      BY <2>5, <3>1, <3>3, <3>5 DEF Overtaken, OnCar
  <2>10. CASE RequestSaves(r)
    <3>1. /\ SaveCar(job[r].car, "PARKED", "REQUESTED") /\ End(r)
          /\ job[r].do = "request" /\ job[r].car \in Ids
          /\ "PARKED" \in Statuses /\ "REQUESTED" \in Statuses
      BY <1>1, <2>10 DEF RequestSaves, IInv, JobsInv, JobInv, Statuses
    <3>2. /\ c = job[r].car
          /\ cars'[c].status = "REQUESTED"
      BY <1>1, <2>3, <3>1, SaveCarWrites DEF IInv, Written
    <3>3. cars[c].status # "PARKED"
      BY <2>1, <3>2 DEF Rank
    <3>4. QED
      BY <2>5, <3>1, <3>2, <3>3 DEF Overtaken, OnCar
  <2>11. QED
    BY <2>4, <2>6, <2>7, <2>8, <2>9, <2>10
<1>2. QED
  BY <1>1, IInvHolds, PTL DEF Spec, ForwardUnlessOvertaken
============================================================================
