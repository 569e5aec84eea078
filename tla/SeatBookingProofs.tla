-------------------------- MODULE SeatBookingProofs --------------------------
(***************************************************************************)
(* What SeatBooking guarantees for any number of journeys, bookings,       *)
(* requests and worker runs.                                               *)
(***************************************************************************)
EXTENDS SeatBooking, Sums, TLAPS

\* Where a process works on a booking, and where it has one to end.
OnBooking ==
    {"create_begin", "create_lock", "create_check", "create_insert",
     "create_seats", "approve_write", "cancel_journey", "end_begin",
     "end_update", "end_lock", "end_seats"}
Ending == {"end_begin", "end_update", "end_lock", "end_seats"}

\* What the labels say of the local variables: a target where one is used, a
\* status of the right table to write, and, once createBooking has checked the
\* seats, a snapshot that has enough of them.
LocalsOK ==
    \A p \in Procs :
        /\ pc[p] \in OnBooking => target[p] \in Bookings
        /\ pc[p] \in Ending => aim[p] \in BookingStatus
        /\ pc[p] \in {"status_write", "status_list"} => ride[p] \in Journeys
        /\ pc[p] \in {"status_write", "status_list"} => aim[p] \in JourneyStatus
        /\ pc[p] \in {"soon", "progress"} => todo[p] \subseteq Journeys
        /\ pc[p] \in {"create_check", "create_insert", "create_seats"}
              => seen[p] >= SeatsOf[target[p]]
        /\ pc[p] = "end_seats" => seen[p] >= 0

Safe == TypeOK /\ LocalsOK /\ SeatsNeverNegative

LEMMA InitSafe == Init => Safe
BY SeatsAssumption, ProcsAssumption
   DEF Init, Safe, TypeOK, LocalsOK, SeatsNeverNegative, Pristine, JourneyRows,
       BookingRows, JourneyStatus, BookingStatus, Phases, Labels, OnBooking,
       Ending, Procs

LEMMA RequestSafe ==
    ASSUME Safe, NEW p \in Procs, Request(p)
    PROVE  Safe'
<1> USE SeatsAssumption, ProcsAssumption
    DEF Safe, TypeOK, LocalsOK, SeatsNeverNegative, JourneyRows, BookingRows,
        Labels, OnBooking, Ending, Procs, At, Goto, WillEnd,
        rows, engine, locals, history
<1>1. ASSUME NEW b \in Bookings, CreateCall(p, b) PROVE Safe'
  BY <1>1 DEF CreateCall
<1>2. ASSUME NEW b \in Bookings, ApproveRead(p, b) PROVE Safe'
  BY <1>2 DEF ApproveRead
<1>3. ASSUME NEW b \in Bookings, RejectRead(p, b) PROVE Safe'
  BY <1>3 DEF RejectRead, BookingStatus
<1>4. ASSUME NEW b \in Bookings, CancelRead(p, b) PROVE Safe'
  BY <1>4 DEF CancelRead
<1>5. ASSUME NEW j \in Journeys, NEW s \in Asked, SetStatusRead(p, j, s) PROVE Safe'
  BY <1>5 DEF SetStatusRead, JourneyStatus
<1> QED  BY <1>1, <1>2, <1>3, <1>4, <1>5 DEF Request

LEMMA CreateSafe ==
    ASSUME Safe, NEW p \in Procs,
           \/ CreateBegin(p) \/ CreateLock(p) \/ CreateCheck(p)
           \/ CreateRefuse(p) \/ CreateInsert(p) \/ CreateSeats(p)
    PROVE  Safe'
<1> USE SeatsAssumption, ProcsAssumption
    DEF Safe, TypeOK, LocalsOK, SeatsNeverNegative, JourneyRows, BookingRows,
        Labels, OnBooking, Ending, Procs, At, Goto, BeginTx, EndTx,
        rows, engine, locals, history
<1>1. CASE CreateBegin(p)
  BY <1>1 DEF CreateBegin
<1>2. CASE CreateLock(p)
  BY <1>2 DEF CreateLock, Admissible
<1>3. CASE CreateCheck(p)
  BY <1>3 DEF CreateCheck
<1>4. CASE CreateRefuse(p)
  BY <1>4 DEF CreateRefuse, Rollback, Leave, Resume, Pristine, JourneyStatus
<1>5. CASE CreateInsert(p)
  BY <1>5 DEF CreateInsert, Inserted, BookingStatus
<1>6. CASE CreateSeats(p)
  BY <1>6 DEF CreateSeats, Inserted, BookingStatus, UpdateSeats, Leave, Resume,
              Pristine, JourneyStatus
<1> QED  BY <1>1, <1>2, <1>3, <1>4, <1>5, <1>6

LEMMA EndSafe ==
    ASSUME Safe, NEW p \in Procs,
           \/ ApproveWrite(p) \/ CancelReadJourney(p) \/ EndBegin(p)
           \/ EndUpdate(p) \/ EndKeepingSeats(p) \/ EndLock(p) \/ EndSeats(p)
    PROVE  Safe'
<1> USE SeatsAssumption, ProcsAssumption
    DEF Safe, TypeOK, LocalsOK, SeatsNeverNegative, JourneyRows, BookingRows,
        Labels, OnBooking, Ending, Procs, At, Goto, BeginTx, EndTx, SetBooking,
        rows, engine, locals, history
<1>1. CASE ApproveWrite(p)
  BY <1>1 DEF ApproveWrite, Leave, Resume, BookingStatus
<1>2. CASE CancelReadJourney(p)
  BY <1>2 DEF CancelReadJourney, WillEnd, BookingStatus
<1>3. CASE EndBegin(p)
  BY <1>3 DEF EndBegin
<1>4. CASE EndUpdate(p)
  <2>1. CASE Serialized
    BY <1>4, <2>1 DEF EndUpdate
  <2>2. CASE ~Serialized
    BY <1>4, <2>2 DEF EndUpdate
  <2> QED  BY <2>1, <2>2
<1>5. CASE EndKeepingSeats(p)
  BY <1>5 DEF EndKeepingSeats, Leave, Resume, Pristine, JourneyStatus
<1>6. CASE EndLock(p)
  BY <1>6 DEF EndLock
<1>7. CASE EndSeats(p)
  BY <1>7 DEF EndSeats, UpdateSeats, Leave, Resume, Pristine, JourneyStatus
<1> QED  BY <1>1, <1>2, <1>3, <1>4, <1>5, <1>6, <1>7

LEMMA StatusSafe ==
    ASSUME Safe, NEW p \in Procs,
           \/ SetStatusWrite(p) \/ ListBookings(p) \/ StatusDone(p)
           \/ \E b \in Bookings : CancelNext(p, b) \/ CompleteNext(p, b)
    PROVE  Safe'
<1> USE SeatsAssumption, ProcsAssumption
    DEF Safe, TypeOK, LocalsOK, SeatsNeverNegative, JourneyRows, BookingRows,
        Labels, OnBooking, Ending, Procs, At, Goto, SetBooking,
        rows, engine, locals, history
<1>1. CASE SetStatusWrite(p)
  <2>1. jStatus' \in JourneyRows
    BY <1>1 DEF SetStatusWrite
  <2>2. TypeOK'
    <3>1. pc' \in [Procs -> Labels]
      <4>1. \E l \in {"status_list", "idle"} : pc' = [pc EXCEPT ![p] = l]
        BY <1>1 DEF SetStatusWrite
      <4> QED  BY <4>1
    <3>2. ride' \in [Procs -> Journeys \cup {None}]
      <4>1. ride' = ride \/ ride' = [ride EXCEPT ![p] = None]
        BY <1>1 DEF SetStatusWrite
      <4> QED  BY <4>1
    <3>3. aim' \in [Procs -> JourneyStatus \cup BookingStatus \cup {None}]
      BY <1>1 DEF SetStatusWrite
    <3>4. UNCHANGED <<available, bStatus, phase, engine, target, seen, restore,
                      due, todo, history>>
      BY <1>1 DEF SetStatusWrite
    <3> QED  BY <2>1, <3>1, <3>2, <3>3, <3>4
  <2>3. LocalsOK'
    BY <1>1 DEF SetStatusWrite
  <2>4. SeatsNeverNegative'
    BY <1>1 DEF SetStatusWrite
  <2> QED  BY <2>2, <2>3, <2>4
<1>2. CASE ListBookings(p)
  BY <1>2 DEF ListBookings
<1>3. CASE StatusDone(p)
  BY <1>3 DEF StatusDone
<1>4. ASSUME NEW b \in Bookings, CancelNext(p, b) PROVE Safe'
  <2>1. CASE bStatus[b] = "CANCELLED"
    BY <1>4, <2>1 DEF CancelNext
  <2>2. CASE bStatus[b] # "CANCELLED"
    BY <1>4, <2>2 DEF CancelNext
  <2> QED  BY <2>1, <2>2
<1>5. ASSUME NEW b \in Bookings, CompleteNext(p, b) PROVE Safe'
  BY <1>5 DEF CompleteNext, BookingStatus
<1> QED  BY <1>1, <1>2, <1>3, <1>4, <1>5

LEMMA WorkerSafe ==
    ASSUME Safe, NEW p \in Procs,
           \/ ListSoon(p) \/ MarkSoon(p) \/ ListInProgress(p)
           \/ MarkInProgress(p) \/ ListStale(p) \/ RunDone(p)
           \/ \E b \in Bookings : ExpireNext(p, b)
    PROVE  Safe'
<1> USE SeatsAssumption, ProcsAssumption
    DEF Safe, TypeOK, LocalsOK, SeatsNeverNegative, JourneyRows, BookingRows,
        Labels, OnBooking, Ending, Procs, At, Goto, MarkNext,
        rows, engine, locals, history
<1>1. CASE ListSoon(p)
  BY <1>1 DEF ListSoon
<1>2. CASE MarkSoon(p)
  BY <1>2 DEF MarkSoon, JourneyStatus
<1>3. CASE ListInProgress(p)
  BY <1>3 DEF ListInProgress
<1>4. CASE MarkInProgress(p)
  BY <1>4 DEF MarkInProgress, JourneyStatus
<1>5. CASE ListStale(p)
  BY <1>5 DEF ListStale
<1>6. CASE RunDone(p)
  BY <1>6 DEF RunDone
<1>7. ASSUME NEW b \in Bookings, ExpireNext(p, b) PROVE Safe'
  BY <1>7 DEF ExpireNext, WillEnd, BookingStatus
<1> QED  BY <1>1, <1>2, <1>3, <1>4, <1>5, <1>6, <1>7

LEMMA NextSafe == Safe /\ [Next]_vars => Safe'
<1> SUFFICES ASSUME Safe, [Next]_vars PROVE Safe'
  OBVIOUS
<1>1. ASSUME NEW p \in Procs, Request(p) PROVE Safe'
  BY <1>1, RequestSafe
<1>2. ASSUME NEW p \in Procs, Step(p) PROVE Safe'
  BY <1>2, CreateSafe, EndSafe, StatusSafe, WorkerSafe DEF Step
<1>3. ASSUME NEW j \in Journeys, Tick(j) PROVE Safe'
  BY <1>3 DEF Tick, Departed, Phases, Safe, TypeOK, LocalsOK, SeatsNeverNegative,
              rows, engine, locals, history
<1>4. CASE UNCHANGED vars
  BY <1>4 DEF vars, rows, engine, locals, history, Safe, TypeOK, LocalsOK,
              SeatsNeverNegative
<1> QED  BY <1>1, <1>2, <1>3, <1>4 DEF Next

\* On either engine, and with no bound on the requests in progress, every row
\* and every local variable of the handlers keeps its type.
THEOREM TypeCorrect == Spec => []TypeOK
<1>1. Safe => TypeOK  BY DEF Safe
<1> QED  BY <1>1, InitSafe, NextSafe, PTL DEF Spec

\* updateSeats never stores a negative number, even on PostgreSQL, where the
\* number it was computed from may be stale.
THEOREM NeverNegative == Spec => []SeatsNeverNegative
<1>1. Safe => SeatsNeverNegative  BY DEF Safe
<1> QED  BY <1>1, InitSafe, NextSafe, PTL DEF Spec

-----------------------------------------------------------------------------
(* SQLite: the mutex makes the snapshots current.                          *)

InTx ==
    {"create_lock", "create_check", "create_insert", "create_seats",
     "end_update", "end_lock", "end_seats"}
WithSnapshot == {"create_check", "create_insert", "create_seats", "end_seats"}

Mutex == \A p \in Procs : pc[p] \in InTx <=> txOwner = p
Fresh ==
    \A p \in Procs :
        pc[p] \in WithSnapshot => seen[p] = available[JourneyOf[target[p]]]

Serial == Safe /\ Mutex /\ Fresh /\ SeatLedger

LEMMA InitSerial == Init => Serial
BY InitSafe, SeatsAssumption, ProcsAssumption
   DEF Init, Serial, Mutex, Fresh, SeatLedger, InTx, WithSnapshot

\* An action that leaves the seats alone and neither enters nor leaves a
\* transaction keeps the ledger, and the snapshots where it takes none.
LEMMA OutsideTx ==
    ASSUME Serial, NEW p \in Procs, Safe',
           UNCHANGED <<available, seen, txOwner, sold, returned>>,
           \A q \in Procs : q # p => pc'[q] = pc[q] /\ target'[q] = target[q],
           pc[p] \notin InTx, pc'[p] \notin InTx
    PROVE  Serial'
BY DEF Serial, Mutex, Fresh, SeatLedger, InTx, WithSnapshot

LEMMA RequestSerial ==
    ASSUME Serial, NEW p \in Procs, Request(p)
    PROVE  Serial'
<1>1. Safe'  BY RequestSafe DEF Serial
<1> USE <1>1, OutsideTx
    DEF Serial, Safe, TypeOK, At, Goto, WillEnd, InTx,
        rows, engine, locals, history
<1>2. ASSUME NEW b \in Bookings, CreateCall(p, b) PROVE Serial'
  BY <1>2 DEF CreateCall
<1>3. ASSUME NEW b \in Bookings, ApproveRead(p, b) PROVE Serial'
  BY <1>3 DEF ApproveRead
<1>4. ASSUME NEW b \in Bookings, RejectRead(p, b) PROVE Serial'
  BY <1>4 DEF RejectRead
<1>5. ASSUME NEW b \in Bookings, CancelRead(p, b) PROVE Serial'
  BY <1>5 DEF CancelRead
<1>6. ASSUME NEW j \in Journeys, NEW s \in Asked, SetStatusRead(p, j, s) PROVE Serial'
  BY <1>6 DEF SetStatusRead
<1> QED  BY <1>2, <1>3, <1>4, <1>5, <1>6 DEF Request

LEMMA OtherSerial ==
    ASSUME Serial, NEW p \in Procs, Safe',
           \/ CancelReadJourney(p) \/ SetStatusWrite(p) \/ ListBookings(p)
           \/ StatusDone(p) \/ ListSoon(p) \/ MarkSoon(p) \/ ListInProgress(p)
           \/ MarkInProgress(p) \/ ListStale(p) \/ RunDone(p)
           \/ \E b \in Bookings :
                 CancelNext(p, b) \/ CompleteNext(p, b) \/ ExpireNext(p, b)
    PROVE  Serial'
<1> USE OutsideTx
    DEF Serial, Safe, TypeOK, At, Goto, WillEnd, InTx, MarkNext,
        rows, engine, locals, history
<1>1. CASE CancelReadJourney(p)
  BY <1>1 DEF CancelReadJourney
<1>2. CASE SetStatusWrite(p)
  <2>1. pc[p] = "status_write" /\ \E l \in {"status_list", "idle"} : Goto(p, l)
    BY <1>2 DEF SetStatusWrite
  <2> QED  BY <1>2, <2>1 DEF SetStatusWrite
<1>3. CASE ListBookings(p)
  BY <1>3 DEF ListBookings
<1>4. CASE StatusDone(p)
  BY <1>4 DEF StatusDone
<1>5. CASE ListSoon(p) \/ ListInProgress(p) \/ ListStale(p) \/ RunDone(p)
  <2>1. CASE ListSoon(p)
    BY <2>1 DEF ListSoon
  <2>2. CASE ListInProgress(p)
    BY <2>2 DEF ListInProgress
  <2>3. CASE ListStale(p) \/ RunDone(p)
    BY <2>3 DEF ListStale, RunDone
  <2> QED  BY <1>5, <2>1, <2>2, <2>3
<1>6. CASE MarkSoon(p) \/ MarkInProgress(p)
  BY <1>6 DEF MarkSoon, MarkInProgress
<1>7. ASSUME NEW b \in Bookings, CancelNext(p, b) PROVE Serial'
  BY <1>7 DEF CancelNext
<1>8. ASSUME NEW b \in Bookings, CompleteNext(p, b) PROVE Serial'
  BY <1>8 DEF CompleteNext
<1>9. ASSUME NEW b \in Bookings, ExpireNext(p, b) PROVE Serial'
  BY <1>9 DEF ExpireNext
<1> QED  BY <1>1, <1>2, <1>3, <1>4, <1>5, <1>6, <1>7, <1>8, <1>9

\* The steps of a transaction: whoever takes one holds the mutex, so no other
\* process has a snapshot that it could make stale.
LEMMA TxSerial ==
    ASSUME Serialized, Serial, NEW p \in Procs, Safe',
           \/ CreateBegin(p) \/ CreateLock(p) \/ CreateCheck(p)
           \/ CreateRefuse(p) \/ CreateInsert(p) \/ CreateSeats(p)
           \/ EndBegin(p) \/ EndUpdate(p) \/ EndKeepingSeats(p)
           \/ EndLock(p) \/ EndSeats(p)
    PROVE  Serial'
<1> USE SeatsAssumption, ProcsAssumption
    DEF Serial, Safe, TypeOK, LocalsOK, OnBooking, Mutex, Fresh, SeatLedger, InTx,
        WithSnapshot, At, Goto, rows, engine, locals, history
<1>1. CASE CreateBegin(p) \/ EndBegin(p)
  BY <1>1 DEF CreateBegin, EndBegin, BeginTx
<1>2. CASE CreateLock(p)
  BY <1>2 DEF CreateLock
<1>3. CASE CreateCheck(p) \/ CreateInsert(p)
  BY <1>3 DEF CreateCheck, CreateInsert
<1>4. CASE CreateRefuse(p)
  BY <1>4 DEF CreateRefuse, Rollback, EndTx, Leave, Resume
<1>5. CASE CreateSeats(p)
  BY <1>5 DEF CreateSeats, UpdateSeats, EndTx, Leave, Resume
<1>6. CASE EndUpdate(p)
  BY <1>6 DEF EndUpdate, SetBooking
<1>7. CASE EndKeepingSeats(p)
  BY <1>7 DEF EndKeepingSeats, EndTx, Leave, Resume
<1>8. CASE EndLock(p)
  BY <1>8 DEF EndLock
<1>9. CASE EndSeats(p)
  BY <1>9 DEF EndSeats, UpdateSeats, EndTx, Leave, Resume
<1> QED  BY <1>1, <1>2, <1>3, <1>4, <1>5, <1>6, <1>7, <1>8, <1>9

\* approveBooking writes outside any transaction.
LEMMA ApproveSerial ==
    ASSUME Serial, NEW p \in Procs, Safe', ApproveWrite(p)
    PROVE  Serial'
BY DEF Serial, Safe, TypeOK, Mutex, Fresh, SeatLedger, InTx, WithSnapshot,
       ApproveWrite, Leave, Resume, At, Goto, rows, engine, locals, history

LEMMA NextSerial ==
    ASSUME Serialized, Serial, [Next]_vars
    PROVE  Serial'
<1>0. Safe'  BY NextSafe DEF Serial
<1>1. ASSUME NEW p \in Procs, Request(p) PROVE Serial'
  BY <1>1, RequestSerial
<1>2. ASSUME NEW p \in Procs, Step(p) PROVE Serial'
  BY <1>0, <1>2, OtherSerial, TxSerial, ApproveSerial DEF Step
<1>3. ASSUME NEW j \in Journeys, Tick(j) PROVE Serial'
  BY <1>0, <1>3 DEF Tick, Serial, Mutex, Fresh, SeatLedger,
                    rows, engine, locals, history
<1>4. CASE UNCHANGED vars
  BY <1>0, <1>4 DEF vars, rows, engine, locals, history,
                    Serial, Mutex, Fresh, SeatLedger
<1> QED  BY <1>1, <1>2, <1>3, <1>4 DEF Next

\* On SQLite no update of the seats is ever lost.
THEOREM LedgerKept == Serialized => (Spec => []SeatLedger)
<1> SUFFICES ASSUME Serialized PROVE Spec => []SeatLedger
  OBVIOUS
<1>1. Serial => SeatLedger  BY DEF Serial
<1>2. Serial /\ [Next]_vars => Serial'  BY NextSerial
<1> QED  BY <1>1, <1>2, InitSerial, PTL DEF Spec

-----------------------------------------------------------------------------
(* SQLite: the handlers implement the atomic inventory.                    *)

LEMMA StepImplements ==
    ASSUME Serialized, Serial, [Next]_vars
    PROVE  [Seats!Next]_(Seats!seatVars)
<1> USE DEF Seats!seatVars
<1>1. ASSUME NEW p \in Procs, CreateSeats(p) PROVE Seats!Next
  <2> DEFINE b == target[p]
  <2>1. b \in Bookings /\ JourneyOf[b] \in Journeys
    BY <1>1, SeatsAssumption DEF CreateSeats, At, Serial, Safe, LocalsOK, OnBooking
  <2>2. seen[p] = available[JourneyOf[b]] /\ seen[p] >= SeatsOf[b]
    BY <1>1 DEF CreateSeats, At, Serial, Safe, LocalsOK, Fresh, WithSnapshot
  <2>3. Seats!Reserve(JourneyOf[b], SeatsOf[b])
    BY <1>1, <2>1, <2>2
       DEF CreateSeats, UpdateSeats, Seats!Reserve, Serial, Safe, TypeOK
  <2> QED  BY <2>1, <2>3 DEF Seats!Next
<1>2. ASSUME NEW p \in Procs, EndSeats(p) PROVE Seats!Next
  <2> DEFINE b == target[p]
  <2>1. b \in Bookings /\ JourneyOf[b] \in Journeys
    BY <1>2, SeatsAssumption DEF EndSeats, At, Serial, Safe, LocalsOK, OnBooking
  <2>2. seen[p] = available[JourneyOf[b]]
    BY <1>2 DEF EndSeats, At, Serial, Fresh, WithSnapshot
  <2>3. Seats!Return(JourneyOf[b], SeatsOf[b])
    BY <1>2, <2>1, <2>2 DEF EndSeats, UpdateSeats, Seats!Return, Serial, Safe, TypeOK
  <2> QED  BY <2>1, <2>3 DEF Seats!Next
<1>3. ASSUME NEW p \in Procs, Step(p), ~CreateSeats(p), ~EndSeats(p)
      PROVE  UNCHANGED <<available, sold, returned>>
  BY <1>3
     DEF Step, CreateBegin, CreateLock, CreateCheck, CreateRefuse, CreateInsert,
         ApproveWrite, CancelReadJourney, EndBegin, EndUpdate, EndKeepingSeats,
         EndLock, SetStatusWrite, ListBookings, StatusDone, CancelNext,
         CompleteNext, ExpireNext, ListSoon, MarkSoon, ListInProgress, MarkNext,
         MarkInProgress, ListStale, RunDone, rows, history
<1>4. ASSUME NEW p \in Procs, Request(p)
      PROVE  UNCHANGED <<available, sold, returned>>
  BY <1>4 DEF Request, CreateCall, ApproveRead, RejectRead, CancelRead,
              SetStatusRead, rows, history
<1>5. ASSUME NEW j \in Journeys, Tick(j)
      PROVE  UNCHANGED <<available, sold, returned>>
  BY <1>5 DEF Tick, rows, history
<1>6. CASE UNCHANGED vars
  BY <1>6 DEF vars, rows, history
<1> QED  BY <1>1, <1>2, <1>3, <1>4, <1>5, <1>6 DEF Next

\* On SQLite, seats are taken and given back as if each request did it in one
\* step: createBooking's check still holds when it writes.
THEOREM Implements == Serialized => (Spec => ImplementsAtomicSeats)
<1> SUFFICES ASSUME Serialized PROVE Spec => Seats!Spec
  BY DEF ImplementsAtomicSeats
<1>1. Init => Seats!Init
  BY DEF Init, Seats!Init
<1>2. Serial /\ [Next]_vars => [Seats!Next]_(Seats!seatVars)
  BY StepImplements
<1>3. Serial /\ [Next]_vars => Serial'
  BY NextSerial
<1> QED  BY <1>1, <1>2, <1>3, InitSerial, PTL DEF Spec, Seats!Spec

-----------------------------------------------------------------------------
(* SQLite: what can overbook a journey.                                    *)

\* A booking counts from the moment its seats are taken off: createBooking
\* inserts the row one statement earlier.
Booked(b) ==
    /\ bStatus[b] # "NONE"
    /\ \A p \in Procs : pc[p] = "create_seats" => target[p] # b

BeforeInsert == {"create_begin", "create_lock", "create_check", "create_insert"}

\* Only createBooking works on a row that is not there, and only one request
\* does; whatever else a process has in hand or on its list is there.
RowsKnown ==
    \A p \in Procs :
        /\ pc[p] \in BeforeInsert =>
              /\ bStatus[target[p]] = "NONE"
              /\ \A q \in Procs : q # p => target[q] # target[p]
        /\ pc[p] \in OnBooking \ BeforeInsert => bStatus[target[p]] # "NONE"
        /\ pc[p] \notin {"soon", "progress"} =>
              \A b \in todo[p] \cap Bookings : bStatus[b] # "NONE"

\* A rollback takes no booking away whose seats are counted, and brings none.
SavepointKnown ==
    txOwner # None =>
        \A b \in Bookings : savepoint.bookings[b] # "NONE" <=> Booked(b)

OfJourney(j) == {b \in Bookings : JourneyOf[b] = j}
Price == [b \in Bookings |-> IF Booked(b) THEN SeatsOf[b] ELSE 0]
Back  == [b \in Bookings |-> returns[b] * SeatsOf[b]]

\* The two sides of the ledger, booking by booking.
Totals ==
    /\ \A b \in Bookings : returns[b] > 0 => Booked(b)
    /\ \A j \in Journeys : /\ sold[j] = SumOver(Price, OfJourney(j))
                           /\ returned[j] = SumOver(Back, OfJourney(j))

Accounts == RowsKnown /\ SavepointKnown /\ Totals

LEMMA OfJourneyFinite == \A j : IsFiniteSet(OfJourney(j))
BY FS_Subset, SeatsAssumption DEF OfJourney

LEMMA InitAccounts == Init => Accounts
<1> SUFFICES ASSUME Init PROVE Accounts
  OBVIOUS
<1> USE SeatsAssumption, ProcsAssumption DEF Init
<1>1. RowsKnown /\ SavepointKnown
  BY DEF RowsKnown, SavepointKnown, BeforeInsert, OnBooking
<1>2. \A b \in Bookings : Price[b] = 0 /\ Back[b] = 0
  BY DEF Price, Back, Booked
<1>3. ASSUME NEW j \in Journeys
      PROVE  SumOver(Price, OfJourney(j)) = 0 /\ SumOver(Back, OfJourney(j)) = 0
  <2> DEFINE S == OfJourney(j)
  <2>1. IsFiniteSet(S) /\ {} \in SUBSET S
    BY OfJourneyFinite
  <2>2. \A x \in S : Price[x] \in Int /\ Back[x] \in Int /\ Price[x] = 0 /\ Back[x] = 0
    BY <1>2 DEF OfJourney
  <2> HIDE DEF S
  <2>3. SumOver(Price, S) = SumOver(Price, {})
    BY <2>1, <2>2, SumIgnoresZeroes
  <2>4. SumOver(Back, S) = SumOver(Back, {})
    BY <2>1, <2>2, SumIgnoresZeroes
  <2> QED  BY <2>3, <2>4, SumEmpty DEF S
<1> QED  BY <1>1, <1>3 DEF Accounts, Totals

\* A step that neither books nor gives back leaves the totals alone.
LEMMA KeepTotals ==
    ASSUME Totals, UNCHANGED <<sold, returned, returns>>,
           \A b \in Bookings : Booked(b)' <=> Booked(b)
    PROVE  Totals'
<1>1. Price' = Price /\ Back' = Back
  BY DEF Price, Back
<1>2. \A j : OfJourney(j)' = OfJourney(j)
  BY DEF OfJourney
<1> QED  BY <1>1, <1>2 DEF Totals

\* A step that neither inserts a row nor counts one.
RowsKept == RowsKnown' /\ \A b \in Bookings : Booked(b)' <=> Booked(b)

\* Most steps keep every row, and leave their own process with a target and a
\* list it may have.
LEMMA KeepRows ==
    ASSUME Serial, RowsKnown, NEW p \in Procs,
           \A b \in Bookings : bStatus'[b] = "NONE" <=> bStatus[b] = "NONE",
           \A q \in Procs \ {p} :
               pc'[q] = pc[q] /\ target'[q] = target[q] /\ todo'[q] = todo[q],
           pc[p] # "create_seats", pc'[p] # "create_seats",
           \/ target'[p] = target[p]
           \/ target'[p] = None
           \/ target'[p] \in Bookings /\ bStatus[target'[p]] # "NONE"
           \/ \A q \in Procs : target[q] # target'[p],
           pc'[p] \in BeforeInsert =>
              /\ target'[p] \in Bookings /\ bStatus[target'[p]] = "NONE"
              /\ \A q \in Procs : q # p => target[q] # target'[p],
           pc'[p] \in OnBooking \ BeforeInsert =>
              target'[p] \in Bookings /\ bStatus[target'[p]] # "NONE",
           pc'[p] \notin {"soon", "progress"} =>
              \A b \in todo'[p] \cap Bookings : bStatus[b] # "NONE"
    PROVE  RowsKept
<1> USE ProcsAssumption
<1>1. \A b \in Bookings : Booked(b)' <=> Booked(b)
  BY DEF Booked
<1>2. ASSUME NEW q \in Procs, q # p, pc[q] \in BeforeInsert
      PROVE  target[q] \in Bookings /\ target'[p] # target[q]
  <2>1. target[q] \in Bookings /\ bStatus[target[q]] = "NONE" /\ target[p] # target[q]
    BY <1>2 DEF RowsKnown, Serial, Safe, LocalsOK, OnBooking, BeforeInsert
  <2> QED  BY <1>2, <2>1
<1>3. RowsKnown'
  <2> SUFFICES ASSUME NEW q \in Procs
               PROVE  /\ pc'[q] \in BeforeInsert =>
                            /\ bStatus'[target'[q]] = "NONE"
                            /\ \A r \in Procs : r # q => target'[r] # target'[q]
                      /\ pc'[q] \in OnBooking \ BeforeInsert =>
                            bStatus'[target'[q]] # "NONE"
                      /\ pc'[q] \notin {"soon", "progress"} =>
                            \A b \in todo'[q] \cap Bookings : bStatus'[b] # "NONE"
    BY DEF RowsKnown, BeforeInsert, OnBooking
  <2>1. CASE q = p
    BY <2>1
  <2>2. CASE q # p
    <3>1. pc[q] \in OnBooking => target[q] \in Bookings
      BY DEF Serial, Safe, LocalsOK
    <3>2. BeforeInsert \subseteq OnBooking
      BY DEF BeforeInsert, OnBooking
    <3> QED  BY <1>2, <2>2, <3>1, <3>2 DEF RowsKnown
  <2> QED  BY <2>1, <2>2
<1> QED  BY <1>1, <1>3 DEF RowsKept

LEMMA RequestRows ==
    ASSUME Serial, RowsKnown, NEW p \in Procs, Request(p)
    PROVE  RowsKept
<1> USE KeepRows
    DEF Serial, Safe, TypeOK, RowsKnown, At, Goto, WillEnd, BeforeInsert, OnBooking,
        rows, engine, locals, history
<1>1. ASSUME NEW b \in Bookings, CreateCall(p, b) PROVE RowsKept
  BY <1>1 DEF CreateCall
<1>2. ASSUME NEW b \in Bookings, ApproveRead(p, b) PROVE RowsKept
  BY <1>2 DEF ApproveRead
<1>3. ASSUME NEW b \in Bookings, RejectRead(p, b) PROVE RowsKept
  BY <1>3 DEF RejectRead
<1>4. ASSUME NEW b \in Bookings, CancelRead(p, b) PROVE RowsKept
  BY <1>4 DEF CancelRead
<1>5. ASSUME NEW j \in Journeys, NEW s \in Asked, SetStatusRead(p, j, s) PROVE RowsKept
  BY <1>5 DEF SetStatusRead
<1> QED  BY <1>1, <1>2, <1>3, <1>4, <1>5 DEF Request

\* The steps outside transactions, approveBooking's write apart.
OtherStep(p) ==
    \/ CancelReadJourney(p) \/ SetStatusWrite(p) \/ ListBookings(p)
    \/ StatusDone(p) \/ ListSoon(p) \/ MarkSoon(p) \/ ListInProgress(p)
    \/ MarkInProgress(p) \/ ListStale(p) \/ RunDone(p)
    \/ \E b \in Bookings :
          CancelNext(p, b) \/ CompleteNext(p, b) \/ ExpireNext(p, b)

LEMMA OtherRows ==
    ASSUME Serial, RowsKnown, NEW p \in Procs,
           ApproveWrite(p) \/ OtherStep(p)
    PROVE  RowsKept
<1> USE KeepRows
    DEF Serial, Safe, TypeOK, RowsKnown, LocalsOK, At, Goto, WillEnd, BeforeInsert,
        OnBooking, MarkNext, rows, engine, locals, history
<1>0. CASE ApproveWrite(p)
  BY <1>0 DEF ApproveWrite, SetBooking, Leave, Resume
<1>1. CASE CancelReadJourney(p)
  BY <1>1 DEF CancelReadJourney
<1>2. CASE SetStatusWrite(p)
  <2>1. pc[p] = "status_write" /\ pc'[p] \in {"status_list", "idle"}
    BY <1>2 DEF SetStatusWrite
  <2>2. /\ \A q \in Procs \ {p} : pc'[q] = pc[q]
        /\ UNCHANGED <<bStatus, target, todo>>
    BY <1>2 DEF SetStatusWrite
  <2> QED  BY <2>1, <2>2
<1>3. CASE ListBookings(p)
  BY <1>3 DEF ListBookings, Active
<1>4. CASE StatusDone(p)
  BY <1>4 DEF StatusDone
<1>5. CASE ListSoon(p) \/ ListInProgress(p)
  <2>1. CASE ListSoon(p)
    BY <2>1 DEF ListSoon
  <2>2. CASE ListInProgress(p)
    BY <2>2 DEF ListInProgress
  <2> QED  BY <1>5, <2>1, <2>2
<1>6. CASE ListStale(p) \/ RunDone(p)
  <2>1. CASE ListStale(p)
    BY <2>1 DEF ListStale
  <2>2. CASE RunDone(p)
    BY <2>2 DEF RunDone
  <2> QED  BY <1>6, <2>1, <2>2
<1>7. CASE MarkSoon(p) \/ MarkInProgress(p)
  BY <1>7 DEF MarkSoon, MarkInProgress
<1>8. ASSUME NEW b \in Bookings, CancelNext(p, b) PROVE RowsKept
  BY <1>8 DEF CancelNext
<1>9. ASSUME NEW b \in Bookings, CompleteNext(p, b) PROVE RowsKept
  BY <1>9 DEF CompleteNext, SetBooking
<1>10. ASSUME NEW b \in Bookings, ExpireNext(p, b) PROVE RowsKept
  BY <1>10 DEF ExpireNext
<1> QED  BY <1>0, <1>1, <1>2, <1>3, <1>4, <1>5, <1>6, <1>7, <1>8, <1>9, <1>10
         DEF OtherStep

\* What holds the mutex: nobody else is in a transaction.
LEMMA TxRows ==
    ASSUME Serialized, Serial, RowsKnown, SavepointKnown, NEW p \in Procs,
           \/ CreateBegin(p) \/ CreateLock(p) \/ CreateCheck(p) \/ CreateRefuse(p)
           \/ EndBegin(p) \/ EndUpdate(p) \/ EndKeepingSeats(p)
           \/ EndLock(p) \/ EndSeats(p)
    PROVE  RowsKept
<1> USE KeepRows, ProcsAssumption
    DEF Serial, Safe, TypeOK, RowsKnown, LocalsOK, At, Goto, BeforeInsert,
        OnBooking, rows, engine, locals, history
<1>1. CASE CreateBegin(p) \/ EndBegin(p)
  BY <1>1 DEF CreateBegin, EndBegin
<1>2. CASE CreateLock(p) \/ CreateCheck(p) \/ EndLock(p)
  <2>1. CASE CreateLock(p)
    BY <2>1 DEF CreateLock
  <2>2. CASE CreateCheck(p)
    BY <2>2 DEF CreateCheck
  <2>3. CASE EndLock(p)
    BY <2>3 DEF EndLock
  <2> QED  BY <1>2, <2>1, <2>2, <2>3
<1>3. CASE CreateRefuse(p)
  <2>1. txOwner = p /\ \A q \in Procs : pc[q] # "create_seats"
    BY <1>3 DEF CreateRefuse, Mutex, InTx
  <2>2. \A b \in Bookings : savepoint.bookings[b] # "NONE" <=> bStatus[b] # "NONE"
    BY <2>1 DEF SavepointKnown, Booked
  <2>3. \A b \in Bookings : bStatus'[b] = "NONE" <=> bStatus[b] = "NONE"
    BY <1>3, <2>2 DEF CreateRefuse, Rollback
  <2>4. /\ pc[p] \in BeforeInsert /\ pc'[p] \in {"expire", "cancel_next", "idle"}
        /\ target'[p] = None
        /\ \A q \in Procs \ {p} : pc'[q] = pc[q] /\ target'[q] = target[q]
        /\ todo' = todo
    BY <1>3 DEF CreateRefuse, Leave, Resume
  <2>5. \A b \in todo'[p] \cap Bookings : bStatus[b] # "NONE"
    BY <2>4
  <2> QED  BY <2>3, <2>4, <2>5
<1>4. CASE EndUpdate(p)
  <2>1. pc[p] = "end_update" /\ aim[p] # "NONE"
    BY <1>4 DEF EndUpdate, Ending, BookingStatus
  <2>2. /\ bStatus' = [bStatus EXCEPT ![target[p]] = aim[p]]
        /\ pc' = [pc EXCEPT ![p] = "end_lock"]
        /\ UNCHANGED <<target, todo>>
    BY <1>4 DEF EndUpdate, SetBooking
  <2> QED  BY <2>1, <2>2
<1>5. CASE EndKeepingSeats(p)
  <2>1. pc[p] = "end_update" /\ aim[p] # "NONE"
    BY <1>5 DEF EndKeepingSeats, Ending, BookingStatus
  <2>2. /\ bStatus' = [bStatus EXCEPT ![target[p]] = aim[p]]
        /\ target' = [target EXCEPT ![p] = None]
        /\ todo' = todo
    BY <1>5 DEF EndKeepingSeats, SetBooking, Leave
  <2>3. \E l \in {"expire", "cancel_next", "idle"} : pc' = [pc EXCEPT ![p] = l]
    BY <1>5 DEF EndKeepingSeats, Leave, Resume
  <2> QED  BY <2>1, <2>2, <2>3
<1>6. CASE EndSeats(p)
  BY <1>6 DEF EndSeats, Leave, Resume
<1> QED  BY <1>1, <1>2, <1>3, <1>4, <1>5, <1>6

\* Such a step also leaves the totals alone, unless it gives seats back.
LEMMA KeepAccounts ==
    ASSUME Accounts, RowsKept,
           UNCHANGED <<sold, returned, returns>>,
           txOwner' = None \/ UNCHANGED <<txOwner, savepoint>>
    PROVE  Accounts'
BY KeepTotals DEF Accounts, RowsKept, SavepointKnown

\* createBooking's row is there, and not counted yet.
LEMMA InsertAccounts ==
    ASSUME Serialized, Serial, Accounts, NEW p \in Procs, CreateInsert(p)
    PROVE  Accounts'
<1> USE ProcsAssumption DEF Serial, Safe, TypeOK
<1>0. PICK t \in Bookings : t = target[p]
  BY DEF CreateInsert, At, LocalsOK, OnBooking
<1>1. /\ bStatus[t] = "NONE" /\ \A q \in Procs : q # p => target[q] # t
      /\ \A q \in Procs : pc[q] # "create_seats"
      /\ pc[p] = "create_insert"
  BY <1>0 DEF CreateInsert, At, Accounts, RowsKnown, BeforeInsert, Mutex, InTx
<1>2. /\ pc' = [pc EXCEPT ![p] = "create_seats"]
      /\ bStatus'[t] # "NONE" /\ \A b \in Bookings : b # t => bStatus'[b] = bStatus[b]
      /\ UNCHANGED <<target, todo, txOwner, savepoint, sold, returned, returns>>
  <2>1. bStatus' = Inserted(t)
    BY <1>0 DEF CreateInsert
  <2>2. bStatus'[t] # "NONE" /\ \A b \in Bookings : b # t => bStatus'[b] = bStatus[b]
    BY <2>1 DEF Inserted, BookingRows
  <2> QED  BY <2>2 DEF CreateInsert, Goto, engine, locals, history
<1>3. \A b \in Bookings : Booked(b)' <=> Booked(b)
  <2> SUFFICES ASSUME NEW b \in Bookings PROVE Booked(b)' <=> Booked(b)
    OBVIOUS
  <2>1. CASE b = t
    BY <1>0, <1>1, <1>2, <2>1 DEF Booked
  <2>2. CASE b # t
    BY <1>0, <1>1, <1>2, <2>2 DEF Booked
  <2> QED  BY <2>1, <2>2
<1>4. RowsKnown'
  <2> SUFFICES ASSUME NEW q \in Procs
               PROVE  /\ pc'[q] \in BeforeInsert =>
                            /\ bStatus'[target'[q]] = "NONE"
                            /\ \A r \in Procs : r # q => target'[r] # target'[q]
                      /\ pc'[q] \in OnBooking \ BeforeInsert =>
                            bStatus'[target'[q]] # "NONE"
                      /\ pc'[q] \notin {"soon", "progress"} =>
                            \A b \in todo'[q] \cap Bookings : bStatus'[b] # "NONE"
    BY DEF RowsKnown, BeforeInsert, OnBooking
  <2>1. pc[q] \in OnBooking => target[q] \in Bookings
    BY DEF LocalsOK
  <2>2. BeforeInsert \subseteq OnBooking /\ "create_seats" \notin BeforeInsert
    BY DEF BeforeInsert, OnBooking
  <2>3. CASE q = p
    BY <1>0, <1>1, <1>2, <2>2, <2>3 DEF Accounts, RowsKnown
  <2>4. CASE q # p
    <3>1. pc'[q] = pc[q] /\ target'[q] = target[q] /\ todo'[q] = todo[q]
      BY <1>2, <2>4
    <3>2. target[q] # t
      BY <1>1, <2>4
    <3> HIDE DEF Serial, Safe, TypeOK
    <3> QED  BY <1>2, <2>1, <2>2, <3>1, <3>2 DEF Accounts, RowsKnown
  <2> QED  BY <2>3, <2>4
<1> QED  BY <1>2, <1>3, <1>4, KeepAccounts DEF RowsKept

LEMMA PriceIsNumber ==
    ASSUME NEW b \in Bookings
    PROVE  Price[b] \in Int /\ (Booked(b) => Price[b] = SeatsOf[b])
                            /\ (~Booked(b) => Price[b] = 0)
BY SeatsAssumption DEF Price

LEMMA BackIsNumber ==
    ASSUME TypeOK, NEW b \in Bookings
    PROVE  Back[b] \in Int /\ Back[b] = returns[b] * SeatsOf[b]
<1>1. returns[b] \in Int /\ SeatsOf[b] \in Int
  BY SeatsAssumption DEF TypeOK
<1>2. \A m, n \in Int : m * n \in Int
  OBVIOUS
<1> QED  BY <1>1, <1>2 DEF Back

\* The sum over a journey's bookings follows the entry of one booking.
LEMMA OneEntry ==
    ASSUME NEW b \in Bookings, NEW j \in Journeys, NEW w, NEW v,
           \A c \in Bookings :
               w[c] \in Int /\ v[c] \in Int /\ (c # b => v[c] = w[c])
    PROVE  SumOver(v, OfJourney(j)) =
               SumOver(w, OfJourney(j)) + IF JourneyOf[b] = j THEN v[b] - w[b] ELSE 0
<1>1. IsFiniteSet(OfJourney(j)) /\ \A c \in OfJourney(j) : c \in Bookings
  BY OfJourneyFinite DEF OfJourney
<1>2. CASE JourneyOf[b] = j
  <2>1. b \in OfJourney(j)
    BY <1>2 DEF OfJourney
  <2>2. SumOver(v, OfJourney(j)) = SumOver(w, OfJourney(j)) + (v[b] - w[b])
    <3> DEFINE S == OfJourney(j)
    <3>1. \A c \in S : w[c] \in Int /\ v[c] \in Int /\ (c # b => v[c] = w[c])
      BY <1>1
    <3> HIDE DEF S
    <3>2. SumOver(v, S) = SumOver(w, S) + (v[b] - w[b])
      BY <1>1, <2>1, <3>1, SumChangeOne DEF S
    <3> QED  BY <3>2 DEF S
  <2> QED  BY <1>2, <2>2
<1>3. CASE JourneyOf[b] # j
  <2>1. \A c \in OfJourney(j) : c # b
    BY <1>3 DEF OfJourney
  <2>2. SumOver(w, OfJourney(j)) = SumOver(v, OfJourney(j))
    BY <1>1, <2>1, SumSame
  <2>3. SumOver(w, OfJourney(j)) \in Int
    BY <1>1, SumType
  <2> QED  BY <1>3, <2>2, <2>3
<1> QED  BY <1>2, <1>3

\* createBooking's last statement counts its booking, and no other.
LEMMA CreateSeatsAccounts ==
    ASSUME Serialized, Serial, Accounts, NEW p \in Procs, CreateSeats(p)
    PROVE  Accounts'
<1> USE ProcsAssumption DEF Serial, Safe, TypeOK
<1>0. PICK t \in Bookings : t = target[p]
  BY DEF CreateSeats, At, LocalsOK, OnBooking
<1> DEFINE k == JourneyOf[t]
<1>1. /\ bStatus[t] # "NONE"
      /\ \A q \in Procs : q # p => pc[q] # "create_seats"
      /\ pc[p] = "create_seats"
      /\ todo[p] \cap Bookings \subseteq {b \in Bookings : bStatus[b] # "NONE"}
  BY <1>0 DEF CreateSeats, At, Accounts, RowsKnown, BeforeInsert, OnBooking, Mutex, InTx
<1>2. /\ pc' = [pc EXCEPT ![p] = Resume(p)] /\ Resume(p) \notin OnBooking
      /\ target' = [target EXCEPT ![p] = None]
      /\ UNCHANGED <<bStatus, todo, returned, returns>>
      /\ txOwner' = None
      /\ sold' = [sold EXCEPT ![k] = @ + SeatsOf[t]]
  BY <1>0 DEF CreateSeats, Leave, Resume, Goto, EndTx, OnBooking
<1>3. /\ Booked(t)' /\ ~Booked(t)
      /\ \A b \in Bookings : b # t => (Booked(b)' <=> Booked(b))
  BY <1>0, <1>1, <1>2 DEF Booked, OnBooking
<1>4. RowsKnown'
  <2> SUFFICES ASSUME NEW q \in Procs
               PROVE  /\ pc'[q] \in BeforeInsert =>
                            /\ bStatus'[target'[q]] = "NONE"
                            /\ \A r \in Procs : r # q => target'[r] # target'[q]
                      /\ pc'[q] \in OnBooking \ BeforeInsert =>
                            bStatus'[target'[q]] # "NONE"
                      /\ pc'[q] \notin {"soon", "progress"} =>
                            \A b \in todo'[q] \cap Bookings : bStatus'[b] # "NONE"
    BY DEF RowsKnown, BeforeInsert, OnBooking
  <2>1. pc[q] \in OnBooking => target[q] \in Bookings
    BY DEF LocalsOK
  <2>2. BeforeInsert \subseteq OnBooking
    BY DEF BeforeInsert, OnBooking
  <2>3. CASE q = p
    BY <1>1, <1>2, <2>2, <2>3
  <2>4. CASE q # p
    BY <1>1, <1>2, <2>1, <2>2, <2>4 DEF Accounts, RowsKnown
  <2> QED  BY <2>3, <2>4
<1>5. \A b \in Bookings : /\ Price[b] \in Int /\ Price'[b] \in Int
                          /\ b # t => Price'[b] = Price[b]
                          /\ b = t => Price'[b] = SeatsOf[b] /\ Price[b] = 0
  <2> SUFFICES ASSUME NEW b \in Bookings
               PROVE  /\ Price[b] \in Int /\ Price'[b] \in Int
                      /\ b # t => Price'[b] = Price[b]
                      /\ b = t => Price'[b] = SeatsOf[b] /\ Price[b] = 0
    OBVIOUS
  <2>1. Price[b] = IF Booked(b) THEN SeatsOf[b] ELSE 0
    BY DEF Price
  <2>2. Price'[b] = IF Booked(b)' THEN SeatsOf[b] ELSE 0
    BY DEF Price
  <2> QED  BY <1>3, <2>1, <2>2, SeatsAssumption
<1>6. ASSUME NEW j \in Journeys PROVE sold'[j] = SumOver(Price', OfJourney(j))
  <2>1. sold[j] = SumOver(Price, OfJourney(j))
    BY DEF Accounts, Totals
  <2>2. SumOver(Price', OfJourney(j)) =
            SumOver(Price, OfJourney(j)) + IF k = j THEN Price'[t] - Price[t] ELSE 0
    <3> HIDE DEF Serial, Safe, TypeOK
    <3> QED  BY <1>5, OneEntry
  <2>3. sold[j] \in Int /\ SeatsOf[t] \in Int
    BY SeatsAssumption
  <2>4. sold'[j] = IF k = j THEN sold[j] + SeatsOf[t] ELSE sold[j]
    BY <1>2
  <2>5. Price'[t] - Price[t] = SeatsOf[t]
    BY <1>5, <2>3
  <2> HIDE DEF Serial, Safe, TypeOK
  <2> QED  BY <2>1, <2>2, <2>3, <2>4, <2>5
<1>7. \A j \in Journeys : returned'[j] = SumOver(Back', OfJourney(j))
  <2>1. Back' = Back
    BY <1>2 DEF Back
  <2> QED  BY <1>2, <2>1 DEF Accounts, Totals
<1>8. \A b \in Bookings : returns'[b] > 0 => Booked(b)'
  BY <1>2, <1>3 DEF Accounts, Totals
<1>9. Totals'
  <2>1. \A j : OfJourney(j)' = OfJourney(j)
    BY DEF OfJourney
  <2> QED  BY <1>6, <1>7, <1>8, <2>1 DEF Totals
<1> QED  BY <1>2, <1>4, <1>9 DEF Accounts, SavepointKnown

\* Giving seats back is entered once for the booking that does it.
LEMMA EndSeatsAccounts ==
    ASSUME Serialized, Serial, Accounts, NEW p \in Procs, EndSeats(p)
    PROVE  Accounts'
<1>0. PICK t \in Bookings : t = target[p]
  BY DEF EndSeats, At, Serial, Safe, LocalsOK, OnBooking
<1>1. RowsKept
  BY TxRows DEF Accounts
<1>2. Booked(t)
  BY <1>0 DEF EndSeats, At, Serial, Accounts, RowsKnown, BeforeInsert, OnBooking,
              Mutex, InTx, Booked
<1>3. /\ returned' = [returned EXCEPT ![JourneyOf[t]] = @ + SeatsOf[t]]
      /\ returns' = [returns EXCEPT ![t] = @ + 1]
      /\ sold' = sold /\ txOwner' = None
  BY <1>0 DEF EndSeats, EndTx
<1>4. /\ sold \in [Journeys -> Nat] /\ returned \in [Journeys -> Nat]
      /\ returns \in [Bookings -> Nat] /\ TypeOK
  BY DEF Serial, Safe, TypeOK
<1>5. /\ \A b \in Bookings : /\ Back[b] \in Int /\ Back'[b] \in Int
                             /\ b # t => Back'[b] = Back[b]
      /\ Back'[t] - Back[t] = SeatsOf[t]
  <2> SUFFICES ASSUME NEW b \in Bookings
               PROVE  /\ Back[b] \in Int /\ Back'[b] \in Int
                      /\ b # t => Back'[b] = Back[b]
                      /\ b = t => Back'[b] - Back[b] = SeatsOf[b]
    BY <1>0
  <2>1. Back[b] = returns[b] * SeatsOf[b] /\ Back'[b] = returns'[b] * SeatsOf[b]
    BY DEF Back
  <2>2. returns[b] \in Nat /\ returns'[b] \in Nat /\ SeatsOf[b] \in Nat
    BY <1>3, <1>4, SeatsAssumption
  <2>3. returns'[b] = IF b = t THEN returns[b] + 1 ELSE returns[b]
    BY <1>3, <1>4
  <2>4. \A m, n \in Nat : m * n \in Int /\ (m + 1) * n = m * n + n
    OBVIOUS
  <2> DEFINE r == returns[b] s == SeatsOf[b] r2 == returns'[b]
  <2> HIDE DEF r, s, r2
  <2>5. r * s \in Int /\ r2 * s \in Int /\ (r + 1) * s = r * s + s
    BY <2>2, <2>4 DEF r, s, r2
  <2> QED  BY <2>1, <2>2, <2>3, <2>5 DEF r, s, r2
<1>6. Price' = Price
  BY <1>1 DEF Price, RowsKept
<1>7. ASSUME NEW j \in Journeys PROVE returned'[j] = SumOver(Back', OfJourney(j))
  <2>1. returned[j] = SumOver(Back, OfJourney(j))
    BY DEF Accounts, Totals
  <2>2. SumOver(Back', OfJourney(j)) =
            SumOver(Back, OfJourney(j))
                + IF JourneyOf[t] = j THEN Back'[t] - Back[t] ELSE 0
    BY <1>5, OneEntry
  <2>3. returned[j] \in Int /\ SeatsOf[t] \in Int
    BY <1>4, SeatsAssumption
  <2>4. returned'[j] = IF JourneyOf[t] = j THEN returned[j] + SeatsOf[t]
                                           ELSE returned[j]
    BY <1>3, <1>4
  <2> QED  BY <1>5, <2>1, <2>2, <2>3, <2>4
<1>8. \A b \in Bookings : returns'[b] > 0 => Booked(b)'
  <2> SUFFICES ASSUME NEW b \in Bookings, returns'[b] > 0 PROVE Booked(b)
    BY <1>1 DEF RowsKept
  <2>1. b # t => returns'[b] = returns[b]
    BY <1>3, <1>4
  <2> QED  BY <1>2, <2>1 DEF Accounts, Totals
<1>9. Totals'
  <2>1. \A j : OfJourney(j)' = OfJourney(j)
    BY DEF OfJourney
  <2>2. \A j \in Journeys : sold'[j] = SumOver(Price', OfJourney(j))
    BY <1>3, <1>6 DEF Accounts, Totals
  <2> QED  BY <1>7, <1>8, <2>1, <2>2 DEF Totals
<1> QED  BY <1>1, <1>3, <1>9 DEF Accounts, RowsKept, SavepointKnown

LEMMA NextAccounts ==
    ASSUME Serialized, Serial, Accounts, [Next]_vars
    PROVE  Accounts'
<1> USE DEF rows, engine, locals, history
<1>1. ASSUME NEW p \in Procs, Request(p) PROVE Accounts'
  <2>1. RowsKept
    BY <1>1, RequestRows DEF Accounts
  <2>2. UNCHANGED <<sold, returned, returns, txOwner, savepoint>>
    BY <1>1 DEF Request, CreateCall, ApproveRead, RejectRead, CancelRead, SetStatusRead
  <2> QED  BY <2>1, <2>2, KeepAccounts
<1>2. ASSUME NEW p \in Procs, ApproveWrite(p) \/ OtherStep(p) PROVE Accounts'
  <2>1. RowsKept
    BY <1>2, OtherRows DEF Accounts, OtherStep
  <2>2. UNCHANGED <<sold, returned, returns, txOwner, savepoint>>
    BY <1>2 DEF OtherStep, ApproveWrite, CancelReadJourney, SetStatusWrite,
                ListBookings, StatusDone, CancelNext, CompleteNext, ExpireNext,
                ListSoon, MarkSoon, ListInProgress, MarkNext, MarkInProgress,
                ListStale, RunDone
  <2> QED  BY <2>1, <2>2, KeepAccounts
<1>3. ASSUME NEW p \in Procs, CreateBegin(p) \/ EndBegin(p) PROVE Accounts'
  <2>1. RowsKept
    BY <1>3, TxRows DEF Accounts
  <2>2. UNCHANGED <<sold, returned, returns>>
    BY <1>3 DEF CreateBegin, EndBegin
  <2>3. txOwner = None /\ savepoint'.bookings = bStatus
    BY <1>3 DEF CreateBegin, EndBegin, BeginTx
  <2>4. \A q \in Procs : pc[q] # "create_seats"
    BY <2>3, ProcsAssumption DEF Serial, Mutex, InTx
  <2>5. SavepointKnown'
    BY <2>1, <2>3, <2>4 DEF SavepointKnown, RowsKept, Booked
  <2> QED  BY <2>1, <2>2, <2>5, KeepTotals DEF Accounts, RowsKept
<1>4. ASSUME NEW p \in Procs,
             \/ CreateLock(p) \/ CreateCheck(p) \/ CreateRefuse(p)
             \/ EndUpdate(p) \/ EndKeepingSeats(p) \/ EndLock(p)
      PROVE  Accounts'
  <2>1. RowsKept
    BY <1>4, TxRows DEF Accounts
  <2>2. UNCHANGED <<sold, returned, returns>>
    BY <1>4 DEF CreateLock, CreateCheck, CreateRefuse, EndUpdate, EndKeepingSeats,
                EndLock
  <2>3. txOwner' = None \/ UNCHANGED <<txOwner, savepoint>>
    BY <1>4 DEF CreateLock, CreateCheck, CreateRefuse, EndUpdate, EndKeepingSeats,
                EndLock, EndTx, Rollback
  <2> QED  BY <2>1, <2>2, <2>3, KeepAccounts
<1>5. ASSUME NEW p \in Procs, CreateInsert(p) \/ CreateSeats(p) \/ EndSeats(p)
      PROVE  Accounts'
  BY <1>5, InsertAccounts, CreateSeatsAccounts, EndSeatsAccounts
<1>6. CASE UNCHANGED <<rows, engine, pc, locals, history>>
  <2>1. \A b \in Bookings : Booked(b)' <=> Booked(b)
    BY <1>6 DEF Booked
  <2>2. RowsKnown'
    BY <1>6 DEF Accounts, RowsKnown
  <2> QED  BY <1>6, <2>1, <2>2, KeepAccounts DEF RowsKept
<1>7. ASSUME NEW p \in Procs, Step(p) PROVE Accounts'
  BY <1>2, <1>3, <1>4, <1>5, <1>7 DEF Step, OtherStep
<1> QED  BY <1>1, <1>6, <1>7 DEF Next, Tick, vars

\* A journey's active bookings hold no more than is sold and not returned, but
\* for the booking whose seats are about to be taken off; and for that one the
\* seats are there.
LEMMA OverbookingExplained ==
    ASSUME Serial, Accounts
    PROVE  OverbookingNeedsDoubleReturn
<1> SUFFICES ASSUME NEW j \in Journeys,
                    \A b \in Bookings : JourneyOf[b] = j =>
                        ~ (returns[b] >= (IF bStatus[b] \in Active THEN 1 ELSE 2))
             PROVE  SeatsHeld(j) <= TotalSeats[j]
  BY DEF OverbookingNeedsDoubleReturn
<1> DEFINE S == OfJourney(j)
<1> DEFINE Net == [b \in Bookings |-> Price[b] - Back[b]]
<1> DEFINE Held == [b \in Bookings |-> IF bStatus[b] \in Active THEN SeatsOf[b] ELSE 0]
<1>1. /\ IsFiniteSet(S) /\ ActiveOn(j) \in SUBSET S
      /\ \A b \in S : b \in Bookings /\ JourneyOf[b] = j
  BY OfJourneyFinite DEF OfJourney, ActiveOn
<1>2. SeatsHeld(j) = SumOver(Held, S)
  <2>1. SumOver(Held, S) = SumOver(Held, ActiveOn(j))
    <3>1. \A b \in S : Held[b] \in Int /\ (b \notin ActiveOn(j) => Held[b] = 0)
      BY <1>1, SeatsAssumption DEF ActiveOn
    <3> HIDE DEF S, Held
    <3> QED  BY <1>1, <3>1, SumIgnoresZeroes
  <2>2. SumOver(SeatsOf, ActiveOn(j)) = SumOver(Held, ActiveOn(j))
    <3>1. IsFiniteSet(ActiveOn(j))
      BY <1>1, FS_Subset
    <3>2. \A b \in ActiveOn(j) : SeatsOf[b] \in Int /\ Held[b] = SeatsOf[b]
      BY SeatsAssumption DEF ActiveOn
    <3> HIDE DEF Held
    <3> QED  BY <3>1, <3>2, SumSame
  <2>3. SeatsHeld(j) = SumOver(SeatsOf, ActiveOn(j))
    BY DEF SeatsHeld, SumOver
  <2> QED  BY <2>1, <2>2, <2>3
<1>3. \A b \in Bookings : /\ Price[b] \in Int /\ Back[b] \in Int
                          /\ Held[b] \in Int /\ Net[b] \in Int
  BY PriceIsNumber, BackIsNumber, SeatsAssumption DEF Serial, Safe
<1>4. SumOver(Net, S) = sold[j] - returned[j]
  <2>1. SumOver(Price, S) = SumOver(Net, S) + SumOver(Back, S)
    <3>1. \A b \in S : /\ Net[b] \in Int /\ Back[b] \in Int
                       /\ Price[b] = Net[b] + Back[b]
      BY <1>1, <1>3
    <3> HIDE DEF S, Net
    <3> QED  BY <1>1, <3>1, SumOfSums
  <2>2. sold[j] = SumOver(Price, S) /\ returned[j] = SumOver(Back, S)
    BY DEF Accounts, Totals
  <2>3. SumOver(Net, S) \in Int /\ SumOver(Back, S) \in Int
    <3> HIDE DEF S, Net
    <3> QED  BY <1>1, <1>3, SumType
  <2> QED  BY <2>1, <2>2, <2>3
<1>5. /\ available[j] \in Int /\ available[j] >= 0
      /\ available[j] = TotalSeats[j] - sold[j] + returned[j]
      /\ sold[j] \in Int /\ returned[j] \in Int /\ TotalSeats[j] \in Int
  BY SeatsAssumption DEF Serial, Safe, TypeOK, SeatsNeverNegative, SeatLedger
\* What is booked of one booking covers what it holds.
<1>6. ASSUME NEW b \in S, Booked(b) \/ bStatus[b] = "NONE" PROVE Held[b] <= Net[b]
  <2>1. returns[b] \in Nat /\ SeatsOf[b] \in Nat /\ b \in Bookings
    BY <1>1, SeatsAssumption DEF Serial, Safe, TypeOK
  <2>2. bStatus[b] \in Active => returns[b] = 0
    BY <1>1, <2>1
  <2>3. returns[b] \in {0, 1} /\ (returns[b] = 1 => Booked(b))
    BY <1>1, <2>1 DEF Accounts, Totals
  <2>4. Back[b] = IF returns[b] = 1 THEN SeatsOf[b] ELSE 0
    BY <2>1, <2>3 DEF Back
  <2>5. Price[b] = IF Booked(b) THEN SeatsOf[b] ELSE 0
    BY <2>1 DEF Price
  <2>6. bStatus[b] \in Active => Booked(b)
    BY <1>6 DEF Active
  <2>7. Held[b] = IF bStatus[b] \in Active THEN SeatsOf[b] ELSE 0
    BY <2>1
  <2>8. Net[b] = Price[b] - Back[b]
    BY <2>1
  <2> HIDE DEF Held, Net
  <2> QED  BY <2>1, <2>2, <2>3, <2>4, <2>5, <2>6, <2>7, <2>8
<1>7. CASE \A b \in S : Booked(b) \/ bStatus[b] = "NONE"
  <2>1. SumOver(Held, S) <= SumOver(Net, S)
    <3>1. \A b \in S : Held[b] \in Int /\ Net[b] \in Int /\ Held[b] <= Net[b]
      BY <1>1, <1>3, <1>6, <1>7
    <3> HIDE DEF S, Held, Net
    <3> QED  BY <1>1, <3>1, SumMonotone
  <2>2. SumOver(Held, S) \in Int
    <3> HIDE DEF S, Held
    <3> QED  BY <1>1, <1>3, SumType
  <2> QED  BY <1>2, <1>4, <1>5, <2>1, <2>2
<1>8. ASSUME NEW c \in S, ~Booked(c), bStatus[c] # "NONE"
      PROVE  SeatsHeld(j) <= TotalSeats[j]
  <2>1. PICK p \in Procs : pc[p] = "create_seats" /\ target[p] = c
    BY <1>8 DEF Booked
  <2>2. \A q \in Procs : pc[q] = "create_seats" => q = p
    BY <2>1 DEF Serial, Mutex, InTx
  <2>3. SeatsOf[c] <= available[j]
    BY <1>1, <2>1 DEF Serial, Safe, LocalsOK, Fresh, WithSnapshot
  <2>4. \A b \in S \ {c} : Booked(b) \/ bStatus[b] = "NONE"
    BY <2>1, <2>2 DEF Booked
  <2> DEFINE Rest == S \ {c}
  <2>5. IsFiniteSet(Rest) /\ \A b \in Rest : b \in S
    BY <1>1, FS_Subset
  <2>6. SumOver(Held, Rest) <= SumOver(Net, Rest)
    <3>1. \A b \in Rest : Held[b] \in Int /\ Net[b] \in Int /\ Held[b] <= Net[b]
      BY <1>1, <1>3, <1>6, <2>4
    <3> HIDE DEF Rest, Held, Net
    <3> QED  BY <2>5, <3>1, SumMonotone
  <2>7. /\ SumOver(Held, S) = Held[c] + SumOver(Held, Rest)
        /\ SumOver(Net, S) = Net[c] + SumOver(Net, Rest)
    <3> HIDE DEF S, Held, Net
    <3> QED  BY <1>1, <1>3, SumTakeOne
  <2>8. SumOver(Held, Rest) \in Int /\ SumOver(Net, Rest) \in Int
    <3>1. \A b \in Rest : Held[b] \in Int /\ Net[b] \in Int
      BY <1>1, <1>3
    <3> HIDE DEF Rest, Held, Net
    <3> QED  BY <2>5, <3>1, SumType
  <2>9. SeatsOf[c] \in Nat /\ Held[c] \in {0, SeatsOf[c]} /\ Net[c] = 0
    <3>1. c \in Bookings /\ returns[c] \in Nat /\ SeatsOf[c] \in Nat
      BY <1>1, SeatsAssumption DEF Serial, Safe, TypeOK
    <3>2. returns[c] = 0 /\ Price[c] = 0
      BY <1>8, <3>1 DEF Accounts, Totals, Price
    <3>3. Back[c] = 0
      BY <3>1, <3>2 DEF Back
    <3> QED  BY <3>1, <3>2, <3>3
  <2> HIDE DEF S, Held, Net, Rest
  <2> QED  BY <1>2, <1>4, <1>5, <2>3, <2>6, <2>7, <2>8, <2>9
<1> QED  BY <1>7, <1>8

\* On SQLite, a journey's active bookings hold more seats than it has only if a
\* booking of it gave its seats back twice, or gave them back and is active
\* again: nothing else that requests and worker runs do can overbook it.
THEOREM OverbookingHasOneCause ==
    Serialized => (Spec => []OverbookingNeedsDoubleReturn)
<1> SUFFICES ASSUME Serialized PROVE Spec => []OverbookingNeedsDoubleReturn
  OBVIOUS
<1>1. Init => Serial /\ Accounts
  BY InitSerial, InitAccounts
<1>2. Serial /\ Accounts /\ [Next]_vars => (Serial /\ Accounts)'
  BY NextSerial, NextAccounts
<1>3. Serial /\ Accounts => OverbookingNeedsDoubleReturn
  BY OverbookingExplained
<1> QED  BY <1>1, <1>2, <1>3, PTL DEF Spec
==============================================================================
