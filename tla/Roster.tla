--------------------------------- MODULE Roster ---------------------------------
(***************************************************************************)
(* The driver's page of rides and passengers, MyJourneysPage: its async    *)
(* functions as calls that overlap, each with the selection of the render  *)
(* it was started from, and the handlers behind them as one step each;     *)
(* what the handlers do in between is SeatBooking's.  Passengers and the   *)
(* worker change bookings and rides at any time.                           *)
(***************************************************************************)
EXTENDS Integers, FiniteSets

CONSTANTS
    Rides,         \* the driver's journeys
    Bookings,
    RideOf,        \* the ride of each booking
    Actions,       \* async functions of the page in progress
    MaxMoves,      \* bound: what passengers and the worker do, and answers that are lost
    Nobody

ASSUME RosterAssumption ==
    /\ RideOf \in [Bookings -> Rides] /\ Nobody \notin Rides \cup Bookings
    /\ Rides \cap Bookings = {} /\ MaxMoves \in Nat

VARIABLES
    booking,       \* bookings.status, "NONE" for a row that is not there yet
    ride,          \* journeys.status
    cards,         \* journeys, the statuses as the page has them, "NONE" before
    passengers,    \* the bookings it has, "NONE" for one it has not
    selectedJourney,
    isLoading, actionLoading,
    doing,         \* of a call: its next step
    subject,       \* the ride or the booking it is about
    then,          \* selectedJourneyId in its render, or the status to set
    brought,       \* the statuses it has read
    moves,         \* bounded by MaxMoves
    \* history
    outdated,      \* bookings and rides changed since they were read, by others or by an
                   \* action that does not load them again, or whose load failed
    muddled        \* calls overlapped since a ride was selected

stored     == <<booking, ride>>
page       == <<cards, passengers, selectedJourney, isLoading, actionLoading>>
calls      == <<doing, subject, then, brought>>
rosterVars == <<stored, page, calls, moves, outdated, muddled>>

RideStatuses    == {"PUBLISHED", "FULL", "STARTING_SOON", "IN_PROGRESS", "COMPLETED",
                     "CANCELLED"}
BookingStatuses == {"REQUESTED", "CONFIRMED", "COMPLETED", "REJECTED", "CANCELLED"}

RosterInit ==
    /\ booking = [b \in Bookings |-> "NONE"]
    /\ ride = [j \in Rides |-> "PUBLISHED"]
    /\ cards = [j \in Rides |-> "NONE"]
    /\ passengers = [b \in Bookings |-> "NONE"]
    /\ selectedJourney = Nobody
    /\ isLoading = TRUE /\ actionLoading = FALSE
    /\ doing = [a \in Actions |-> "idle"]
    /\ subject = [a \in Actions |-> Nobody]
    /\ then = [a \in Actions |-> Nobody]
    /\ brought = [a \in Actions |-> <<>>]
    /\ moves = 0 /\ outdated = {} /\ muddled = FALSE

Busy == {a \in Actions : doing[a] # "idle"}
Of(j) == {b \in Bookings : RideOf[b] = j}

Call(a, l, x, y) ==
    /\ doing' = [doing EXCEPT ![a] = l]
    /\ subject' = [subject EXCEPT ![a] = x]
    /\ then' = [then EXCEPT ![a] = y]
    /\ brought' = [brought EXCEPT ![a] = <<>>]

Bring(a, l, read) ==
    /\ doing' = [doing EXCEPT ![a] = l]
    /\ brought' = [brought EXCEPT ![a] = read]
    /\ UNCHANGED <<subject, then>>

Ended(a) == Call(a, "idle", Nobody, Nobody)

-----------------------------------------------------------------------------
(* Loading                                                                 *)

\* The page is opened: fetchJourneys.
OpenPage(a) ==
    /\ isLoading /\ Busy = {}
    /\ Call(a, "listing", Nobody, Nobody)
    /\ UNCHANGED <<stored, page, moves, outdated, muddled>>

\* GET my-journeys.
ReadRides(a) ==
    /\ doing[a] = "listing"
    /\ Bring(a, "listed", ride)
    /\ outdated' = outdated \ Rides
    /\ UNCHANGED <<stored, page, moves, muddled>>

\* setJourneys; where no ride was selected the first one is, the latest to depart (here,
\* any), and its passengers are asked for.
Listed(a) ==
    /\ doing[a] = "listed"
    /\ cards' = brought[a]
    /\ isLoading' = FALSE /\ actionLoading' = FALSE
    /\ IF selectedJourney = Nobody
       THEN \E j \in Rides : selectedJourney' = j /\ Call(a, "asking", j, Nobody)
       ELSE Ended(a) /\ UNCHANGED selectedJourney
    /\ UNCHANGED <<stored, passengers, moves, outdated, muddled>>

\* A card is clicked; its effect asks for the passengers, those on the page stay.
SelectJourney(a, j) ==
    /\ ~isLoading /\ cards[j] # "NONE" /\ j # selectedJourney /\ doing[a] = "idle"
    /\ selectedJourney' = j
    /\ Call(a, "asking", j, Nobody)
    /\ muddled' = (Busy # {})
    /\ UNCHANGED <<stored, cards, passengers, isLoading, actionLoading, moves, outdated>>

\* GET bookings of a journey.
ReadRoster(a) ==
    /\ doing[a] = "asking"
    /\ Bring(a, "answered", [b \in Bookings |-> IF b \in Of(subject[a]) THEN booking[b] ELSE "NONE"])
    /\ outdated' = outdated \ Of(subject[a])
    /\ UNCHANGED <<stored, page, moves, muddled>>

\* setPassengers, whatever is selected now.
RosterShown(a) ==
    /\ doing[a] = "answered"
    /\ passengers' = brought[a]
    /\ Ended(a)
    /\ UNCHANGED <<stored, cards, selectedJourney, isLoading, actionLoading, moves,
                   outdated, muddled>>

\* An error empties the list of passengers, or leaves that of the rides.
LoadError(a) ==
    /\ doing[a] \in {"listing", "listed", "asking", "answered"}
    /\ moves < MaxMoves /\ moves' = moves + 1
    /\ IF doing[a] \in {"asking", "answered"}
       THEN /\ passengers' = [b \in Bookings |-> "NONE"]
            /\ outdated' = outdated \cup Of(subject[a])
            /\ UNCHANGED <<isLoading, actionLoading>>
       ELSE /\ isLoading' = FALSE /\ actionLoading' = FALSE
            /\ outdated' = outdated \cup Rides
            /\ UNCHANGED passengers
    /\ Ended(a)
    /\ UNCHANGED <<stored, cards, selectedJourney, muddled>>

-----------------------------------------------------------------------------
(* The buttons                                                             *)

CanAct == ~isLoading /\ ~actionLoading

\* handleApproveBooking and handleRejectBooking, of a row that shows REQUESTED.
Answer(a, b, l) ==
    /\ CanAct /\ passengers[b] = "REQUESTED" /\ doing[a] = "idle"
    /\ Call(a, l, b, selectedJourney)
    /\ actionLoading' = TRUE
    /\ muddled' = (muddled \/ Busy # {})
    /\ UNCHANGED <<stored, cards, passengers, selectedJourney, isLoading, moves, outdated>>

\* approveBooking and rejectBooking refuse a booking that is not REQUESTED any more.  A
\* rejection gives the seats back, which publishes the ride; the cards do not show it.
Decided(a) ==
    /\ doing[a] \in {"approve", "reject"} /\ booking[subject[a]] = "REQUESTED"
    /\ booking' = [booking EXCEPT ![subject[a]] =
                      IF doing[a] = "approve" THEN "CONFIRMED" ELSE "REJECTED"]
    /\ IF doing[a] = "reject"
       THEN /\ ride' = [ride EXCEPT ![RideOf[subject[a]]] = "PUBLISHED"]
            /\ outdated' = outdated \cup {subject[a], RideOf[subject[a]]}
       ELSE outdated' = outdated \cup {subject[a]} /\ UNCHANGED ride
    /\ doing' = [doing EXCEPT ![a] = "decided"]
    /\ UNCHANGED <<page, subject, then, brought, moves, muddled>>

\* Mutant: the row stays as it is until the ride is selected again.
NotAskedAgain(a) ==
    /\ doing[a] = "decided"
    /\ actionLoading' = FALSE
    /\ outdated' = outdated \ {subject[a]}
    /\ Ended(a)
    /\ UNCHANGED <<stored, cards, passengers, selectedJourney, isLoading, moves, muddled>>

\* The passengers of the ride selected at the click are asked for, without waiting for
\* them.
Answered(a) ==
    /\ doing[a] = "decided"
    /\ actionLoading' = FALSE
    /\ outdated' = outdated \ {subject[a]}
    /\ Call(a, "asking", then[a], Nobody)
    /\ UNCHANGED <<stored, cards, passengers, selectedJourney, isLoading, moves, muddled>>

\* The buttons of the ride that is selected, by the status on its card: a ride that is
\* full or about to start cannot be started.
Buttons(s) ==
    (IF s = "PUBLISHED" THEN {"IN_PROGRESS"} ELSE {})
    \cup (IF s = "IN_PROGRESS" THEN {"COMPLETED"} ELSE {})
    \cup (IF s \in {"COMPLETED", "CANCELLED", "NONE"} THEN {} ELSE {"CANCELLED"})

\* handleUpdateStatus.
ChangeRide(a, s) ==
    /\ CanAct /\ selectedJourney # Nobody /\ doing[a] = "idle"
    /\ s \in Buttons(cards[selectedJourney])
    /\ Call(a, "update", selectedJourney, s)
    /\ actionLoading' = TRUE
    /\ muddled' = (muddled \/ Busy # {})
    /\ UNCHANGED <<stored, cards, passengers, selectedJourney, isLoading, moves, outdated>>

\* updateStatus's table, and what it does to the bookings of the ride.
Allowed(s) ==
    CASE s \in {"PUBLISHED", "FULL"} -> {"IN_PROGRESS", "CANCELLED"}
    []   s = "STARTING_SOON"         -> {"IN_PROGRESS", "CANCELLED"}
    []   s = "IN_PROGRESS"           -> {"COMPLETED", "CANCELLED"}
    []   OTHER                       -> {}

Settled(s, x) ==
    CASE s = "CANCELLED" /\ x \in {"REQUESTED", "CONFIRMED"} -> "CANCELLED"
    []   s = "COMPLETED" /\ x = "CONFIRMED"                  -> "COMPLETED"
    []   OTHER                                               -> x

UpdateRide(a) ==
    /\ doing[a] = "update" /\ then[a] \in Allowed(ride[subject[a]])
    /\ LET j == subject[a] IN
       /\ ride' = [ride EXCEPT ![j] = then[a]]
       /\ booking' = [b \in Bookings |->
                         IF b \in Of(j) THEN Settled(then[a], booking[b]) ELSE booking[b]]
       /\ outdated' = outdated \cup {j} \cup {b \in Of(j) : booking'[b] # booking[b]}
    /\ doing' = [doing EXCEPT ![a] = "updated"]
    /\ UNCHANGED <<page, subject, then, brought, moves, muddled>>

\* fetchJourneys, waited for; the passengers are not asked for.
Updated(a) ==
    /\ doing[a] = "updated"
    /\ isLoading' = TRUE
    /\ outdated' = outdated \ {subject[a]}
    /\ Call(a, "listing", Nobody, Nobody)
    /\ UNCHANGED <<stored, cards, passengers, selectedJourney, actionLoading, moves, muddled>>

\* The handler refuses, or the answer is lost: nothing is shown, nothing loaded again.
ActionFails(a) ==
    /\ \/ doing[a] \in {"approve", "reject"} /\ booking[subject[a]] # "REQUESTED"
          /\ UNCHANGED moves
       \/ doing[a] = "update" /\ then[a] \notin Allowed(ride[subject[a]]) /\ UNCHANGED moves
       \/ doing[a] \in {"approve", "reject", "update", "decided", "updated"}
          /\ moves < MaxMoves /\ moves' = moves + 1
    /\ actionLoading' = FALSE
    /\ Ended(a)
    /\ UNCHANGED <<stored, cards, passengers, selectedJourney, isLoading, outdated, muddled>>

-----------------------------------------------------------------------------
(* The others                                                              *)

\* A passenger asks for seats or gives them up, or the worker expires the request.
PassengerActs(b) ==
    /\ moves < MaxMoves /\ moves' = moves + 1
    /\ \/ booking[b] = "NONE" /\ ride[RideOf[b]] = "PUBLISHED"
          /\ booking' = [booking EXCEPT ![b] = "REQUESTED"]
       \/ booking[b] \in {"REQUESTED", "CONFIRMED"}
          /\ booking' = [booking EXCEPT ![b] = "CANCELLED"]
    /\ outdated' = outdated \cup {b}
    /\ UNCHANGED <<ride, page, calls, muddled>>

\* Seats are taken or given back, which publishes a ride whatever became of it, or the
\* worker starts it.
RideMoves(j) ==
    /\ moves < MaxMoves /\ moves' = moves + 1
    /\ \E s \in {"PUBLISHED", "FULL"}
                 \cup (IF ride[j] = "PUBLISHED" THEN {"STARTING_SOON"} ELSE {})
                 \cup (IF ride[j] \in {"COMPLETED", "CANCELLED"} THEN {} ELSE {"IN_PROGRESS"}) :
          s # ride[j] /\ ride' = [ride EXCEPT ![j] = s]
    /\ outdated' = outdated \cup {j}
    /\ UNCHANGED <<booking, page, calls, muddled>>

RosterNext ==
    \/ \E a \in Actions :
         \/ OpenPage(a) \/ ReadRides(a) \/ Listed(a) \/ ReadRoster(a) \/ RosterShown(a)
         \/ LoadError(a) \/ Decided(a) \/ Answered(a) \/ UpdateRide(a) \/ Updated(a)
         \/ ActionFails(a)
         \/ \E j \in Rides : SelectJourney(a, j)
         \/ \E b \in Bookings : Answer(a, b, "approve") \/ Answer(a, b, "reject")
         \/ \E s \in RideStatuses : ChangeRide(a, s)
    \/ \E b \in Bookings : PassengerActs(b)
    \/ \E j \in Rides : RideMoves(j)

-----------------------------------------------------------------------------
(* What is true of it                                                      *)

\* Once nothing is under way the page shows the passengers of the ride that is selected,
\* and no other's, in the statuses they have, unless others changed them since, the
\* driver ended the ride, a load failed or calls overlapped.
RosterIsCurrent ==
    Busy = {} /\ ~isLoading /\ ~muddled =>
        \A b \in Bookings :
            IF RideOf[b] # selectedJourney THEN passengers[b] = "NONE"
            ELSE passengers[b] = booking[b] \/ b \in outdated

\* And every card shows the status of its ride, unless others changed it since, a
\* rejection published it, or a load failed.
CardsAreCurrent ==
    Busy = {} /\ ~isLoading =>
        \A j \in Rides : cards[j] = ride[j] \/ j \in outdated

\* The page of the driver shows the rides and their passengers as they are.
PageIsCurrent == RosterIsCurrent /\ CardsAreCurrent
=================================================================================
