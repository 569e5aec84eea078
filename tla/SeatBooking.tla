----------------------------- MODULE SeatBooking -----------------------------
(***************************************************************************)
(* The seat inventory of YatraShare: every handler and job that writes the *)
(* journeys or the bookings table, one action per SQL statement (or run of *)
(* statements nothing can separate), interleaved at every await.           *)
(*                                                                         *)
(*   BookingService   createBooking, approveBooking, rejectBooking,        *)
(*                    cancelBooking                                        *)
(*   JourneyService   updateStatus, with the loops that cancel or complete *)
(*                    the bookings of the journey                          *)
(*   BackgroundWorker the two journey transitions and the expiry of        *)
(*                    requests                                             *)
(*   DatabaseManager  transaction(), for both engines.  Serialized = TRUE  *)
(*                    is SQLite: one connection, transactions take turns   *)
(*                    on a mutex, every statement is visible at once, also *)
(*                    to and from requests that are in no transaction.     *)
(*                    Serialized = FALSE is PostgreSQL at READ COMMITTED:  *)
(*                    what a transaction writes is visible when it commits *)
(*                    and the rows it updated are locked until then.       *)
(*                                                                         *)
(* Roles only decide who may call and how much is refunded; money, ride    *)
(* counters, conversations and notifications are not part of this module.  *)
(***************************************************************************)
EXTENDS Integers, FiniteSets, FiniteSetsExt

CONSTANTS
    Journeys, Bookings, Passengers,
    Handlers,      \* HTTP requests in progress
    Workers,       \* runs of the background worker (no guard stops an overlap)
    None,
    Serialized,    \* TRUE: SQLite; FALSE: PostgreSQL
    TotalSeats,    \* journey |-> seats it is published with
    Asked,         \* bound: the journey statuses clients ask for
    AutoAccept,    \* the journeys that confirm bookings by themselves
    JourneyOf,     \* booking id |-> journey its request names
    PassengerOf,   \* booking id |-> passenger who sends the request
    SeatsOf        \* booking id |-> seats requested

Procs == Handlers \cup Workers

ASSUME SeatsAssumption ==
    /\ TotalSeats \in [Journeys -> Nat \ {0}]
    /\ SeatsOf \in [Bookings -> Nat \ {0}]
    /\ IsFiniteSet(Bookings)
    /\ JourneyOf \in [Bookings -> Journeys]
    /\ PassengerOf \in [Bookings -> Passengers]
    /\ AutoAccept \subseteq Journeys
    /\ Asked \subseteq {"DRAFT", "PUBLISHED", "FULL", "STARTING_SOON", "IN_PROGRESS",
                    "COMPLETED", "CANCELLED"}
ASSUME ProcsAssumption ==
    /\ Handlers \cap Workers = {}
    /\ None \notin Procs \cup Bookings \cup Journeys
    /\ Serialized \in BOOLEAN

VARIABLES
    jStatus,       \* journeys.status
    available,     \* journeys.available_seats
    bStatus,       \* bookings.status, "NONE" for a row that is not there yet
    phase,         \* how far journeys.departure_time is, see Departed below
    txOwner,       \* SQLite: who holds txMutex
    savepoint,     \* SQLite: what a ROLLBACK of the open transaction restores
    rowLock,       \* PostgreSQL: who holds the lock on a bookings row
    pc,            \* where each process is
    target,        \* the booking it works on
    ride,          \* the journey whose status it sets
    aim,           \* the status it is going to write
    seen,          \* the available_seats it has read
    restore,       \* whether its transaction gives the seats back
    due,           \* the journeys past departure at the start of a worker run
    todo,          \* what is left of the list its loop goes through
    sold, returned,\* history: seats booked and given back, per journey
    returns        \* history: how many times a booking gave its seats back

rows    == <<jStatus, available, bStatus>>
engine  == <<txOwner, savepoint, rowLock>>
locals  == <<target, ride, aim, seen, restore, due, todo>>
history == <<sold, returned, returns>>
vars    == <<rows, phase, engine, pc, locals, history>>

JourneyStatus ==
    {"DRAFT", "PUBLISHED", "FULL", "STARTING_SOON", "IN_PROGRESS",
     "COMPLETED", "CANCELLED"}
BookingStatus == {"REQUESTED", "CONFIRMED", "REJECTED", "CANCELLED", "COMPLETED"}
Active == {"REQUESTED", "CONFIRMED"}

\* JourneyService.updateStatus's table.
ValidTransitions ==
    [DRAFT         |-> {"PUBLISHED", "CANCELLED"},
     PUBLISHED     |-> {"FULL", "STARTING_SOON", "IN_PROGRESS", "CANCELLED"},
     FULL          |-> {"PUBLISHED", "STARTING_SOON", "IN_PROGRESS", "CANCELLED"},
     STARTING_SOON |-> {"IN_PROGRESS", "CANCELLED"},
     IN_PROGRESS   |-> {"COMPLETED", "CANCELLED"},
     COMPLETED     |-> {},
     CANCELLED     |-> {}]

\* The distance to the departure, in the steps the code tells apart:
\* 0 more than two hours, 1 more than 15 minutes, 2 not yet, 3 departed.
Phases == 0..3
ReminderDue(j)   == phase[j] \in {1, 2}
BookingClosed(j) == phase[j] >= 2
Departed(j)      == phase[j] = 3

Pristine ==
    [journeys |-> [j \in Journeys |-> "PUBLISHED"],
     bookings |-> [b \in Bookings |-> "NONE"]]

Init ==
    /\ jStatus = [j \in Journeys |-> "PUBLISHED"]
    /\ available = TotalSeats
    /\ bStatus = [b \in Bookings |-> "NONE"]
    /\ phase = [j \in Journeys |-> 0]
    /\ txOwner = None
    /\ savepoint = Pristine
    /\ rowLock = [b \in Bookings |-> None]
    /\ pc = [p \in Procs |-> "idle"]
    /\ target = [p \in Procs |-> None]
    /\ ride = [p \in Procs |-> None]
    /\ aim = [p \in Procs |-> None]
    /\ seen = [p \in Procs |-> 0]
    /\ restore = [p \in Procs |-> FALSE]
    /\ due = [p \in Procs |-> {}]
    /\ todo = [p \in Procs |-> {}]
    /\ sold = [j \in Journeys |-> 0]
    /\ returned = [j \in Journeys |-> 0]
    /\ returns = [b \in Bookings |-> 0]

At(p, l)   == pc[p] = l
Goto(p, l) == pc' = [pc EXCEPT ![p] = l]

-----------------------------------------------------------------------------
(* DatabaseManager.transaction and the two updates of a journeys row.      *)

\* Mutant: acquire does not wait.
BeginTxWithoutMutex(p) ==
    IF Serialized
    THEN /\ txOwner' = p
         /\ savepoint' = [journeys |-> jStatus, bookings |-> bStatus]
    ELSE UNCHANGED <<txOwner, savepoint>>

BeginTx(p) ==
    IF Serialized
    THEN /\ txOwner = None
         /\ txOwner' = p
         /\ savepoint' = [journeys |-> jStatus, bookings |-> bStatus]
    ELSE UNCHANGED <<txOwner, savepoint>>

EndTx == txOwner' = None /\ savepoint' = Pristine

\* In SQLite the statements other requests ran meanwhile are in the same
\* transaction and go with it.  The seats are only written in the last step of
\* a transaction, so there are none to take back.
Rollback ==
    /\ IF Serialized
       THEN jStatus' = savepoint.journeys /\ bStatus' = savepoint.bookings
       ELSE UNCHANGED <<jStatus, bStatus>>
    /\ EndTx

UpdateSeats(j, n) ==
    /\ available' = [available EXCEPT ![j] = n]
    /\ jStatus' = [jStatus EXCEPT ![j] = IF n = 0 THEN "FULL" ELSE "PUBLISHED"]

\* An UPDATE of a bookings row waits for the transaction that locked it.
SetBooking(b, s) ==
    /\ rowLock[b] = None
    /\ bStatus' = [bStatus EXCEPT ![b] = s]

\* Where a process goes on when the transaction on its booking is over.
Resume(p) ==
    IF p \in Workers THEN "expire" ELSE IF ride[p] # None THEN "cancel_next"
                                   ELSE "idle"
Leave(p) ==
    /\ Goto(p, Resume(p))
    /\ target' = [target EXCEPT ![p] = None]
    /\ aim' = [aim EXCEPT ![p] = None]
    /\ restore' = [restore EXCEPT ![p] = FALSE]
    /\ seen' = [seen EXCEPT ![p] = 0]

-----------------------------------------------------------------------------
(* BookingService.createBooking                                            *)

CreateCall(p, b) ==
    /\ p \in Handlers /\ At(p, "idle")
    /\ bStatus[b] = "NONE"
    /\ \A q \in Procs : target[q] # b
    /\ target' = [target EXCEPT ![p] = b]
    /\ Goto(p, "create_begin")
    /\ UNCHANGED <<rows, phase, engine, ride, aim, seen, restore, due, todo, history>>

CreateBegin(p) ==
    /\ At(p, "create_begin")
    /\ BeginTx(p)
    /\ Goto(p, "create_lock")
    /\ UNCHANGED <<rows, phase, rowLock, locals, history>>

\* Mutant: a journey that is FULL is accepted, and nobody counts its seats.
AdmissibleByStatus(b) ==
    /\ jStatus[JourneyOf[b]] \in {"PUBLISHED", "FULL"}
    /\ ~BookingClosed(JourneyOf[b])

Admissible(b) ==
    LET j == JourneyOf[b] IN
    /\ jStatus[j] = "PUBLISHED"
    /\ ~BookingClosed(j)
    /\ available[j] >= SeatsOf[b]

AlreadyBooked(b) ==
    \E c \in Bookings :
        /\ JourneyOf[c] = JourneyOf[b]
        /\ PassengerOf[c] = PassengerOf[b]
        /\ bStatus[c] \in Active

\* lockForUpdate is a plain SELECT: what it reads can be stale when used.
CreateLock(p) ==
    /\ At(p, "create_lock")
    /\ Admissible(target[p])
    /\ seen' = [seen EXCEPT ![p] = available[JourneyOf[target[p]]]]
    /\ Goto(p, "create_check")
    /\ UNCHANGED <<rows, phase, engine, target, ride, aim, restore, due, todo, history>>

CreateCheck(p) ==
    /\ At(p, "create_check")
    /\ ~AlreadyBooked(target[p])
    /\ Goto(p, "create_insert")
    /\ UNCHANGED <<rows, phase, engine, locals, history>>

CreateRefuse(p) ==
    /\ \/ At(p, "create_lock") /\ ~Admissible(target[p])
       \/ At(p, "create_check") /\ AlreadyBooked(target[p])
    /\ Rollback
    /\ Leave(p)
    /\ UNCHANGED <<available, phase, rowLock, ride, due, todo, history>>

\* Mutant: the row starts in a status bookings do not have.
InsertedPending(b) ==
    [bStatus EXCEPT ![b] =
        IF JourneyOf[b] \in AutoAccept THEN "CONFIRMED" ELSE "PENDING"]

Inserted(b) ==
    [bStatus EXCEPT ![b] =
        IF JourneyOf[b] \in AutoAccept THEN "CONFIRMED" ELSE "REQUESTED"]

CreateInsert(p) ==
    /\ At(p, "create_insert")
    /\ bStatus' = IF Serialized THEN Inserted(target[p]) ELSE bStatus
    /\ Goto(p, "create_seats")
    /\ UNCHANGED <<jStatus, available, phase, engine, locals, history>>

CreateSeats(p) ==
    LET b == target[p]
        j == JourneyOf[b] IN
    /\ At(p, "create_seats")
    /\ UpdateSeats(j, seen[p] - SeatsOf[b])
    /\ bStatus' = IF Serialized THEN bStatus ELSE Inserted(b)
    /\ sold' = [sold EXCEPT ![j] = @ + SeatsOf[b]]
    /\ EndTx
    /\ Leave(p)
    /\ UNCHANGED <<phase, rowLock, ride, due, todo, returned, returns>>

-----------------------------------------------------------------------------
(* BookingService.approveBooking, rejectBooking, cancelBooking             *)

ApproveRead(p, b) ==
    /\ p \in Handlers /\ At(p, "idle")
    /\ bStatus[b] = "REQUESTED"
    /\ target' = [target EXCEPT ![p] = b]
    /\ Goto(p, "approve_write")
    /\ UNCHANGED <<rows, phase, engine, ride, aim, seen, restore, due, todo, history>>

ApproveWrite(p) ==
    /\ At(p, "approve_write")
    /\ SetBooking(target[p], "CONFIRMED")
    /\ Leave(p)
    /\ UNCHANGED <<jStatus, available, phase, engine, ride, due, todo, history>>

\* The process decided to end booking b, and will do it in a transaction.
WillEnd(p, b, s, giveBack) ==
    /\ target' = [target EXCEPT ![p] = b]
    /\ aim' = [aim EXCEPT ![p] = s]
    /\ restore' = [restore EXCEPT ![p] = giveBack]
    /\ Goto(p, "end_begin")

RejectRead(p, b) ==
    /\ p \in Handlers /\ At(p, "idle")
    /\ bStatus[b] = "REQUESTED"
    /\ WillEnd(p, b, "REJECTED", TRUE)
    /\ UNCHANGED <<rows, phase, engine, ride, seen, due, todo, history>>

CancelRead(p, b) ==
    /\ p \in Handlers /\ At(p, "idle")
    /\ bStatus[b] \notin {"NONE", "CANCELLED"}
    /\ target' = [target EXCEPT ![p] = b]
    /\ Goto(p, "cancel_journey")
    /\ UNCHANGED <<rows, phase, engine, ride, aim, seen, restore, due, todo, history>>

CancelReadJourney(p) ==
    LET b == target[p] IN
    /\ At(p, "cancel_journey")
    /\ WillEnd(p, b, "CANCELLED", jStatus[JourneyOf[b]] \in {"PUBLISHED", "FULL"})
    /\ UNCHANGED <<rows, phase, engine, ride, seen, due, todo, history>>

\* The transaction the three share with the worker: write the booking and, if
\* it gives its seats back, read the journey and write the number of seats.
EndBegin(p) ==
    /\ At(p, "end_begin")
    /\ BeginTx(p)
    /\ Goto(p, "end_update")
    /\ UNCHANGED <<rows, phase, rowLock, locals, history>>

EndUpdate(p) ==
    LET b == target[p] IN
    /\ At(p, "end_update") /\ restore[p]
    /\ IF Serialized
       THEN SetBooking(b, aim[p]) /\ UNCHANGED rowLock
       ELSE /\ rowLock[b] = None
            /\ rowLock' = [rowLock EXCEPT ![b] = p]
            /\ UNCHANGED bStatus
    /\ Goto(p, "end_lock")
    /\ UNCHANGED <<jStatus, available, phase, txOwner, savepoint, locals, history>>

EndKeepingSeats(p) ==
    /\ At(p, "end_update") /\ ~restore[p]
    /\ SetBooking(target[p], aim[p])
    /\ EndTx
    /\ Leave(p)
    /\ UNCHANGED <<jStatus, available, phase, rowLock, ride, due, todo, history>>

EndLock(p) ==
    /\ At(p, "end_lock")
    /\ seen' = [seen EXCEPT ![p] = available[JourneyOf[target[p]]]]
    /\ Goto(p, "end_seats")
    /\ UNCHANGED <<rows, phase, engine, target, ride, aim, restore, due, todo, history>>

EndSeats(p) ==
    LET b == target[p]
        j == JourneyOf[b] IN
    /\ At(p, "end_seats")
    /\ UpdateSeats(j, seen[p] + SeatsOf[b])
    /\ bStatus' = IF Serialized THEN bStatus ELSE [bStatus EXCEPT ![b] = aim[p]]
    /\ rowLock' = [rowLock EXCEPT ![b] = None]
    /\ returned' = [returned EXCEPT ![j] = @ + SeatsOf[b]]
    /\ returns' = [returns EXCEPT ![b] = @ + 1]
    /\ EndTx
    /\ Leave(p)
    /\ UNCHANGED <<phase, ride, due, todo, sold>>

-----------------------------------------------------------------------------
(* JourneyService.updateStatus                                             *)

SetStatusRead(p, j, s) ==
    /\ p \in Handlers /\ At(p, "idle")
    /\ s \in ValidTransitions[jStatus[j]]
    /\ ride' = [ride EXCEPT ![p] = j]
    /\ aim' = [aim EXCEPT ![p] = s]
    /\ Goto(p, "status_write")
    /\ UNCHANGED <<rows, phase, engine, target, seen, restore, due, todo, history>>

SetStatusWrite(p) ==
    /\ At(p, "status_write")
    /\ jStatus' = [jStatus EXCEPT ![ride[p]] = aim[p]]
    /\ IF aim[p] \in {"CANCELLED", "COMPLETED"}
       THEN Goto(p, "status_list") /\ UNCHANGED <<ride, aim>>
       ELSE /\ Goto(p, "idle")
            /\ ride' = [ride EXCEPT ![p] = None]
            /\ aim' = [aim EXCEPT ![p] = None]
    /\ UNCHANGED <<available, bStatus, phase, engine, target, seen, restore,
                   due, todo, history>>

ListBookings(p) ==
    LET wanted == IF aim[p] = "CANCELLED" THEN Active ELSE {"CONFIRMED"} IN
    /\ At(p, "status_list")
    /\ todo' = [todo EXCEPT ![p] =
                  {b \in Bookings : JourneyOf[b] = ride[p] /\ bStatus[b] \in wanted}]
    /\ Goto(p, IF aim[p] = "CANCELLED" THEN "cancel_next" ELSE "complete_next")
    /\ aim' = [aim EXCEPT ![p] = None]
    /\ UNCHANGED <<rows, phase, engine, target, ride, seen, restore, due, history>>

\* cancelBooking on the next listed booking; the loop swallows its error when
\* somebody else has cancelled it since.
CancelNext(p, b) ==
    /\ At(p, "cancel_next") /\ b \in todo[p]
    /\ todo' = [todo EXCEPT ![p] = @ \ {b}]
    /\ IF bStatus[b] = "CANCELLED"
       THEN UNCHANGED <<target, pc>>
       ELSE target' = [target EXCEPT ![p] = b] /\ Goto(p, "cancel_journey")
    /\ UNCHANGED <<rows, phase, engine, ride, aim, seen, restore, due, history>>

CompleteNext(p, b) ==
    /\ At(p, "complete_next") /\ b \in todo[p]
    /\ SetBooking(b, "COMPLETED")
    /\ todo' = [todo EXCEPT ![p] = @ \ {b}]
    /\ UNCHANGED <<jStatus, available, phase, engine, pc, target, ride, aim, seen,
                   restore, due, history>>

StatusDone(p) ==
    /\ pc[p] \in {"cancel_next", "complete_next"} /\ todo[p] = {}
    /\ Goto(p, "idle")
    /\ ride' = [ride EXCEPT ![p] = None]
    /\ UNCHANGED <<rows, phase, engine, target, aim, seen, restore, due, todo, history>>

-----------------------------------------------------------------------------
(* BackgroundWorker.runJobs                                                *)

ListSoon(p) ==
    /\ p \in Workers /\ At(p, "idle")
    /\ todo' = [todo EXCEPT ![p] =
                  {j \in Journeys : jStatus[j] = "PUBLISHED" /\ ReminderDue(j)}]
    /\ due' = [due EXCEPT ![p] = {j \in Journeys : Departed(j)}]
    /\ Goto(p, "soon")
    /\ UNCHANGED <<rows, phase, engine, target, ride, aim, seen, restore, history>>

\* One journey of the list of a loop, whatever its status is by now.
MarkNext(p, l, s) ==
    /\ At(p, l)
    /\ \E j \in todo[p] :
          /\ jStatus' = [jStatus EXCEPT ![j] = s]
          /\ todo' = [todo EXCEPT ![p] = @ \ {j}]
    /\ UNCHANGED <<available, bStatus, phase, engine, pc, target, ride, aim, seen,
                   restore, due, history>>

MarkSoon(p)       == MarkNext(p, "soon", "STARTING_SOON")
MarkInProgress(p) == MarkNext(p, "progress", "IN_PROGRESS")

\* Mutant: a full journey is not started.
ListInProgressUnlessFull(p) ==
    /\ At(p, "soon") /\ todo[p] = {}
    /\ todo' = [todo EXCEPT ![p] =
          {j \in due[p] : jStatus[j] \in {"PUBLISHED", "STARTING_SOON"}}]
    /\ due' = [due EXCEPT ![p] = {}]
    /\ Goto(p, "progress")
    /\ UNCHANGED <<rows, phase, engine, target, ride, aim, seen, restore, history>>

ListInProgress(p) ==
    /\ At(p, "soon") /\ todo[p] = {}
    /\ todo' = [todo EXCEPT ![p] =
          {j \in due[p] : jStatus[j] \in {"PUBLISHED", "FULL", "STARTING_SOON"}}]
    /\ due' = [due EXCEPT ![p] = {}]
    /\ Goto(p, "progress")
    /\ UNCHANGED <<rows, phase, engine, target, ride, aim, seen, restore, history>>

\* Mutant: only the requests on journeys still PUBLISHED, which the loops before
\* have just started.
ListStaleIfPublished(p) ==
    /\ At(p, "progress") /\ todo[p] = {}
    /\ todo' = [todo EXCEPT ![p] =
          {b \in Bookings : /\ bStatus[b] = "REQUESTED" /\ Departed(JourneyOf[b])
                            /\ jStatus[JourneyOf[b]] = "PUBLISHED"}]
    /\ Goto(p, "expire")
    /\ UNCHANGED <<rows, phase, engine, target, ride, aim, seen, restore, due, history>>

ListStale(p) ==
    /\ At(p, "progress") /\ todo[p] = {}
    /\ todo' = [todo EXCEPT ![p] =
          {b \in Bookings : bStatus[b] = "REQUESTED" /\ Departed(JourneyOf[b])}]
    /\ Goto(p, "expire")
    /\ UNCHANGED <<rows, phase, engine, target, ride, aim, seen, restore, due, history>>

ExpireNext(p, b) ==
    /\ At(p, "expire") /\ b \in todo[p]
    /\ todo' = [todo EXCEPT ![p] = @ \ {b}]
    /\ WillEnd(p, b, "REJECTED", TRUE)
    /\ UNCHANGED <<rows, phase, engine, ride, seen, due, history>>

RunDone(p) ==
    /\ At(p, "expire") /\ todo[p] = {}
    /\ Goto(p, "idle")
    /\ UNCHANGED <<rows, phase, engine, locals, history>>

-----------------------------------------------------------------------------
\* Time brings a journey one step closer to its departure.
Tick(j) ==
    /\ ~Departed(j)
    /\ phase' = [phase EXCEPT ![j] = @ + 1]
    /\ UNCHANGED <<rows, engine, pc, locals, history>>

\* A client calls the API.
Request(p) ==
    \/ \E b \in Bookings : CreateCall(p, b) \/ ApproveRead(p, b)
                           \/ RejectRead(p, b) \/ CancelRead(p, b)
    \/ \E j \in Journeys, s \in Asked : SetStatusRead(p, j, s)

\* The event loop goes on with what process p has started.
Step(p) ==
    \/ CreateBegin(p) \/ CreateLock(p) \/ CreateCheck(p) \/ CreateRefuse(p)
    \/ CreateInsert(p) \/ CreateSeats(p)
    \/ ApproveWrite(p) \/ CancelReadJourney(p)
    \/ EndBegin(p) \/ EndUpdate(p) \/ EndKeepingSeats(p) \/ EndLock(p) \/ EndSeats(p)
    \/ SetStatusWrite(p) \/ ListBookings(p) \/ StatusDone(p)
    \/ \E b \in Bookings : CancelNext(p, b) \/ CompleteNext(p, b) \/ ExpireNext(p, b)
    \/ ListSoon(p) \/ MarkSoon(p) \/ ListInProgress(p) \/ MarkInProgress(p)
    \/ ListStale(p) \/ RunDone(p)

Next ==
    \/ \E p \in Procs : Request(p) \/ Step(p)
    \/ \E j \in Journeys : Tick(j)

Spec == Init /\ [][Next]_vars

\* The event loop resumes every continuation, the timer starts the worker again
\* and again, and time passes.  The mutex of SQLite and the row locks of
\* PostgreSQL serve those who wait in turn: strong fairness of what waits.
Fairness ==
    /\ \A p \in Procs : /\ WF_vars(Step(p))
                        /\ SF_vars(CreateBegin(p))
                        /\ SF_vars(EndBegin(p))
                        /\ SF_vars(EndUpdate(p) \/ EndKeepingSeats(p))
                        /\ SF_vars(ApproveWrite(p))
    /\ \A j \in Journeys : WF_vars(Tick(j))

FairSpec == Spec /\ Fairness
-----------------------------------------------------------------------------
Labels ==
    {"idle", "create_begin", "create_lock", "create_check", "create_insert",
     "create_seats", "approve_write", "cancel_journey", "end_begin",
     "end_update", "end_lock", "end_seats", "status_write", "status_list",
     "cancel_next", "complete_next", "soon", "progress", "expire"}

JourneyRows == [Journeys -> JourneyStatus]
BookingRows == [Bookings -> BookingStatus \cup {"NONE"}]

\* Every column and every local variable holds a value of its type.
TypeOK ==
    /\ jStatus \in JourneyRows
    /\ available \in [Journeys -> Int]
    /\ bStatus \in BookingRows
    /\ phase \in [Journeys -> Phases]
    /\ txOwner \in Procs \cup {None}
    /\ savepoint \in [journeys : JourneyRows, bookings : BookingRows]
    /\ rowLock \in [Bookings -> Procs \cup {None}]
    /\ pc \in [Procs -> Labels]
    /\ target \in [Procs -> Bookings \cup {None}]
    /\ ride \in [Procs -> Journeys \cup {None}]
    /\ aim \in [Procs -> JourneyStatus \cup BookingStatus \cup {None}]
    /\ seen \in [Procs -> Int]
    /\ restore \in [Procs -> BOOLEAN]
    /\ due \in [Procs -> SUBSET Journeys]
    /\ todo \in [Procs -> SUBSET (Journeys \cup Bookings)]
    /\ sold \in [Journeys -> Nat]
    /\ returned \in [Journeys -> Nat]
    /\ returns \in [Bookings -> Nat]

\* Whatever requests interleave, on either engine, updateSeats never stores a
\* negative number of available seats.
SeatsNeverNegative == \A j \in Journeys : available[j] >= 0

\* No update of available_seats is lost: the column is at any moment the seats
\* published, less those booked, plus those given back.
SeatLedger ==
    \A j \in Journeys : available[j] = TotalSeats[j] - sold[j] + returned[j]

Seats == INSTANCE AtomicSeats WITH Sizes <- {SeatsOf[b] : b \in Bookings}

\* The reads and writes of the handlers amount to taking and giving back seats
\* atomically: createBooking's check of the seats still holds when it stores
\* the new number.
ImplementsAtomicSeats == Seats!Spec

ActiveOn(j) == {b \in Bookings : JourneyOf[b] = j /\ bStatus[b] \in Active}
SeatsHeld(j) == MapThenSumSet(LAMBDA b : SeatsOf[b], ActiveOn(j))

\* The active bookings of a journey never hold more seats than it has.
NoOverbooking == \A j \in Journeys : SeatsHeld(j) <= TotalSeats[j]

\* Under the mutex, the one way to overbook a journey is a booking that gave
\* its seats back twice, or gave them back and is active again.
OverbookingNeedsDoubleReturn ==
    \A j \in Journeys :
        \/ SeatsHeld(j) <= TotalSeats[j]
        \/ \E b \in Bookings :
              /\ JourneyOf[b] = j
              /\ returns[b] >= (IF bStatus[b] \in Active THEN 1 ELSE 2)

\* A request nobody answered does not outlive the departure: the worker expires
\* it.
StaleRequestsExpire ==
    \A b \in Bookings :
        bStatus[b] = "REQUESTED" /\ Departed(JourneyOf[b])
            ~> bStatus[b] # "REQUESTED"

\* The worker gets a departed journey out of the statuses it would start from,
\* and from some moment on nothing brings it back there.
DepartedJourneysSettle ==
    \A j \in Journeys :
        <>[](Departed(j) =>
                jStatus[j] \notin {"PUBLISHED", "FULL", "STARTING_SOON"})

\* updateStatus's table: a journey that is completed or cancelled stays so.
TerminalJourneysStay ==
    [][\A j \in Journeys :
          jStatus[j] \in {"COMPLETED", "CANCELLED"} => jStatus'[j] = jStatus[j]]_vars
==============================================================================
