------------------------------- MODULE Reviews -------------------------------
(***************************************************************************)
(* Reviews, ratings and ride counters: ReviewController.createReview with  *)
(* UserRepository.updateRating, and the part of JourneyService.updateStatus *)
(* that completes the bookings of a journey and counts the rides.          *)
(*                                                                         *)
(* None of it runs in a transaction: a call is interleaved with the others *)
(* at each of its statements and may fail before any of them (an error of  *)
(* the database, the end of the process), which leaves what it has written.*)
(* A request is sent by ReviewModal, or again by its user when the first   *)
(* answer was late: any number of equal requests may be in progress.       *)
(*                                                                         *)
(* Averages are in hundredths, to which the code rounds them.  A passenger *)
(* has one booking on a journey.  The other steps of a booking, which      *)
(* SeatBooking has in detail, are single actions here, which write what    *)
(* the calls write over whatever the booking has become since they read    *)
(* it; CANCELLED stands for REJECTED too.                                  *)
(***************************************************************************)
EXTENDS Integers, FiniteSets, FiniteSetsExt

CONSTANTS
    Users, Journeys,
    DriverOf,      \* journey |-> user who drives it
    Calls,         \* HTTP requests in progress
    Requests,      \* bound: the reviews users write
    Changers,      \* bound: the passengers whose bookings change by other calls
    MaxAgain,      \* bound: the times a completed journey is published again
    MaxHalfDone,   \* bound: the calls that fail after they have written
    Booked,        \* journey |-> user |-> status of the booking at first
    None

Review == [journey : Journeys, reviewer : Users, reviewed : Users, rating : 1..5]
BookingStatus == {"NONE", "REQUESTED", "CONFIRMED", "COMPLETED", "CANCELLED"}

ASSUME ReviewsAssumption ==
    /\ DriverOf \in [Journeys -> Users]
    /\ Requests \subseteq Review
    /\ Booked \in [Journeys -> [Users -> BookingStatus \ {"COMPLETED"}]]
    /\ None \notin Review \cup Journeys \cup Users
    /\ IsFiniteSet(Requests) /\ MaxHalfDone \in Nat /\ MaxAgain \in Nat

VARIABLES
    reviews,       \* the reviews table
    average,       \* users.rating_average, in hundredths
    count,         \* users.rating_count
    rides,         \* users.completed_rides_count
    completed,     \* the journeys in status COMPLETED; the others are IN_PROGRESS,
                   \* or will be when the worker has started them
    bStatus,       \* bookings.status by journey and passenger
    pc,            \* where each call is
    draft,         \* the review it is to store
    readAverage, readCount,          \* what updateRating has read
    ride, todo, rider,               \* the loop over the bookings of a journey
    applied,       \* history: the reviews some updateRating has counted
    dropped,       \* history: the reviews whose call failed before that
    raced,         \* history: users two updateRatings were busy with at once
    confirmed,     \* history: <<journey, passenger>> of bookings once confirmed
    doubled,       \* history: journeys two calls completed at once
    again,         \* history: the times a journey was published again, completed
    endings,       \* history: <<journey, again>> for each time it was completed
    halfDone,      \* bound: counts those calls
    term           \* history: what again was when the call read its journey

users   == <<average, count, rides>>
locals  == <<draft, readAverage, readCount, ride, todo, rider, term>>
history == <<applied, dropped, raced, confirmed, doubled, again, endings, halfDone>>
vars    == <<reviews, users, completed, bStatus, pc, locals, history>>

Init ==
    /\ reviews = {}
    /\ average = [u \in Users |-> 500]
    /\ count = [u \in Users |-> 0]
    /\ rides = [u \in Users |-> 0]
    /\ completed = {}
    /\ bStatus = Booked
    /\ pc = [c \in Calls |-> "idle"]
    /\ draft = [c \in Calls |-> None]
    /\ readAverage = [c \in Calls |-> 0]
    /\ readCount = [c \in Calls |-> 0]
    /\ ride = [c \in Calls |-> None]
    /\ todo = [c \in Calls |-> {}]
    /\ rider = [c \in Calls |-> None]
    /\ term = [c \in Calls |-> 0]
    /\ again = [j \in Journeys |-> 0] /\ endings = {} /\ halfDone = 0
    /\ applied = {} /\ dropped = {} /\ raced = {} /\ doubled = {}
    /\ confirmed = {k \in Journeys \X Users : Booked[k[1]][k[2]] = "CONFIRMED"}

At(c, l)   == pc[c] = l
Goto(c, l) == pc' = [pc EXCEPT ![c] = l]

\* The call answers and its locals are gone.
Leave(c) ==
    /\ Goto(c, "idle")
    /\ draft' = [draft EXCEPT ![c] = None]
    /\ readAverage' = [readAverage EXCEPT ![c] = 0]
    /\ readCount' = [readCount EXCEPT ![c] = 0]
    /\ ride' = [ride EXCEPT ![c] = None]
    /\ todo' = [todo EXCEPT ![c] = {}]
    /\ rider' = [rider EXCEPT ![c] = None]
    /\ term' = [term EXCEPT ![c] = 0]

Rating(c)   == pc[c] \in {"rate_read", "rate_write"}
Rates(c, u) == Rating(c) /\ draft[c].reviewed = u

-----------------------------------------------------------------------------
(* ReviewController.createReview                                           *)

\* One passes over oneself and over a journey that is not completed.
Submit(c, r) ==
    /\ At(c, "idle")
    /\ r.reviewer # r.reviewed
    /\ r.journey \in completed
    /\ draft' = [draft EXCEPT ![c] = r]
    /\ Goto(c, "eligible")
    /\ UNCHANGED <<reviews, users, completed, bStatus, readAverage, readCount,
                   ride, todo, rider, term, history>>

Travelled(j, u) == bStatus[j][u] \in {"CONFIRMED", "COMPLETED"}

\* The driver reviews a passenger, a passenger the driver.
Eligible(r) ==
    \/ r.reviewer = DriverOf[r.journey] /\ Travelled(r.journey, r.reviewed)
    \/ r.reviewer # DriverOf[r.journey] /\ r.reviewed = DriverOf[r.journey]
       /\ Travelled(r.journey, r.reviewer)

CheckEligible(c) ==
    /\ At(c, "eligible")
    /\ IF Eligible(draft[c])
       THEN Goto(c, "existing") /\ UNCHANGED locals
       ELSE Leave(c)
    /\ UNCHANGED <<reviews, users, completed, bStatus, history>>

Stored(r) == \E q \in reviews : /\ q.journey = r.journey
                                /\ q.reviewer = r.reviewer
                                /\ q.reviewed = r.reviewed

CheckExisting(c) ==
    /\ At(c, "existing")
    /\ IF Stored(draft[c])
       THEN Leave(c)
       ELSE Goto(c, "insert") /\ UNCHANGED locals
    /\ UNCHANGED <<reviews, users, completed, bStatus, history>>

\* A second updateRating of the user begins while one has not ended.
Race(c) == IF \E d \in Calls \ {c} : Rates(d, draft[c].reviewed)
           THEN raced \cup {draft[c].reviewed} ELSE raced

\* The INSERT, which the UNIQUE key of the table refuses to the second of two
\* requests that both found no review.
Insert(c) ==
    /\ At(c, "insert")
    /\ IF Stored(draft[c])
       THEN Leave(c) /\ UNCHANGED <<reviews, raced>>
       ELSE /\ reviews' = reviews \cup {draft[c]}
            /\ raced' = Race(c)
            /\ Goto(c, "rate_read")
            /\ UNCHANGED locals
    /\ UNCHANGED <<users, completed, bStatus, applied, dropped, confirmed, doubled,
                   again, endings, halfDone>>

-----------------------------------------------------------------------------
(* UserRepository.updateRating                                             *)

RateRead(c) ==
    /\ At(c, "rate_read")
    /\ readAverage' = [readAverage EXCEPT ![c] = average[draft[c].reviewed]]
    /\ readCount' = [readCount EXCEPT ![c] = count[draft[c].reviewed]]
    /\ Goto(c, "rate_write")
    /\ UNCHANGED <<reviews, users, completed, bStatus, draft, ride, todo,
                   rider, term, history>>

\* Math.round of a quotient: half up.
Rounded(x, d) == (2 * x + d) \div (2 * d)

\* Mutant: the mean of the average and the new rating.
MeanOfTwo(avg, n, r) == IF n = 0 THEN 100 * r ELSE Rounded(avg + 100 * r, 2)

NewAverage(avg, n, r) == Rounded(avg * n + 100 * r, n + 1)

\* Mutant: the count is written as it was read.
RateKeepingCount(c) ==
    /\ At(c, "rate_write")
    /\ LET u == draft[c].reviewed IN
       /\ average' = [average EXCEPT ![u] =
                         NewAverage(readAverage[c], readCount[c], draft[c].rating)]
       /\ count' = [count EXCEPT ![u] = readCount[c]]
    /\ applied' = applied \cup {draft[c]}
    /\ Leave(c)
    /\ UNCHANGED <<reviews, rides, completed, bStatus, dropped, raced, confirmed,
                   doubled, again, endings, halfDone>>

RateWrite(c) ==
    /\ At(c, "rate_write")
    /\ LET u == draft[c].reviewed IN
       /\ average' = [average EXCEPT ![u] =
                         NewAverage(readAverage[c], readCount[c], draft[c].rating)]
       /\ count' = [count EXCEPT ![u] = readCount[c] + 1]
    /\ applied' = applied \cup {draft[c]}
    /\ Leave(c)
    /\ UNCHANGED <<reviews, rides, completed, bStatus, dropped, raced, confirmed,
                   doubled, again, endings, halfDone>>

-----------------------------------------------------------------------------
(* JourneyService.updateStatus to COMPLETED                                *)

\* Mutant: the transition table allows it again.
FinishAgain(c, j) ==
    /\ At(c, "idle")
    /\ ride' = [ride EXCEPT ![c] = j]
    /\ term' = [term EXCEPT ![c] = again[j]]
    /\ Goto(c, "end_mark")
    /\ UNCHANGED <<reviews, users, completed, bStatus, draft, readAverage,
                   readCount, todo, rider, history>>

\* The journey is read and the transition checked.
Finish(c, j) ==
    /\ At(c, "idle")
    /\ j \notin completed
    /\ ride' = [ride EXCEPT ![c] = j]
    /\ term' = [term EXCEPT ![c] = again[j]]
    /\ doubled' = IF \E d \in Calls : ride[d] = j THEN doubled \cup {j} ELSE doubled
    /\ Goto(c, "end_mark")
    /\ UNCHANGED <<reviews, users, completed, bStatus, draft, readAverage,
                   readCount, todo, rider, applied, dropped, raced, confirmed,
                   again, endings, halfDone>>

FinishMark(c) ==
    /\ At(c, "end_mark")
    /\ completed' = completed \cup {ride[c]}
    /\ endings' = endings \cup {<<ride[c], term[c]>>}
    /\ Goto(c, "end_driver")
    /\ UNCHANGED <<reviews, users, bStatus, locals, applied, dropped, raced, confirmed,
                   doubled, again, halfDone>>

\* incrementRidesCount is one statement.
CountRide(u) == rides' = [rides EXCEPT ![u] = @ + 1]

FinishDriver(c) ==
    /\ At(c, "end_driver")
    /\ CountRide(DriverOf[ride[c]])
    /\ Goto(c, "end_list")
    /\ UNCHANGED <<reviews, average, count, completed, bStatus, locals, history>>

FinishList(c) ==
    /\ At(c, "end_list")
    /\ todo' = [todo EXCEPT ![c] = {u \in Users : bStatus[ride[c]][u] = "CONFIRMED"}]
    /\ Goto(c, "end_loop")
    /\ UNCHANGED <<reviews, users, completed, bStatus, draft, readAverage,
                   readCount, ride, rider, term, history>>

FinishBooking(c, u) ==
    /\ At(c, "end_loop")
    /\ u \in todo[c]
    /\ bStatus' = [bStatus EXCEPT ![ride[c]][u] = "COMPLETED"]
    /\ todo' = [todo EXCEPT ![c] = @ \ {u}]
    /\ rider' = [rider EXCEPT ![c] = u]
    /\ Goto(c, "end_ride")
    /\ UNCHANGED <<reviews, users, completed, draft, readAverage, readCount,
                   ride, term, history>>

FinishRide(c) ==
    /\ At(c, "end_ride")
    /\ CountRide(rider[c])
    /\ rider' = [rider EXCEPT ![c] = None]
    /\ Goto(c, "end_loop")
    /\ UNCHANGED <<reviews, average, count, completed, bStatus, draft,
                   readAverage, readCount, ride, todo, term, history>>

FinishDone(c) ==
    /\ At(c, "end_loop")
    /\ todo[c] = {}
    /\ Leave(c)
    /\ UNCHANGED <<reviews, users, completed, bStatus, history>>

-----------------------------------------------------------------------------
Wrote(c) == pc[c] \in {"rate_read", "rate_write", "end_driver", "end_list", "end_loop", "end_ride"}

\* The call ends in an error; what it has written stays.
Fail(c) ==
    /\ ~At(c, "idle")
    /\ Wrote(c) => halfDone < MaxHalfDone
    /\ halfDone' = IF Wrote(c) THEN halfDone + 1 ELSE halfDone
    /\ dropped' = IF Rating(c)
                  THEN dropped \cup {draft[c]} ELSE dropped
    /\ Leave(c)
    /\ UNCHANGED <<reviews, users, completed, bStatus, applied, raced, confirmed,
                   doubled, again, endings>>

\* BookingService.approveBooking, whose booking was REQUESTED when it was read,
\* and PaymentService.verifyAndCapturePayment, which does not read it.
Confirm(j, u) ==
    /\ u \in Changers
    /\ bStatus[j][u] \notin {"NONE", "CONFIRMED"}
    /\ bStatus' = [bStatus EXCEPT ![j][u] = "CONFIRMED"]
    /\ confirmed' = confirmed \cup {<<j, u>>}
    /\ UNCHANGED <<reviews, users, completed, pc, locals, applied, dropped, raced,
                   doubled, again, endings, halfDone>>

\* cancelBooking of a journey that departed: it keeps the seats.
Cancel(j, u) ==
    /\ u \in Changers
    /\ bStatus[j][u] \notin {"NONE", "CANCELLED"}
    /\ bStatus' = [bStatus EXCEPT ![j][u] = "CANCELLED"]
    /\ UNCHANGED <<reviews, users, completed, pc, locals, history>>

\* rejectBooking and the worker's expiry, and a cancelBooking that had read the
\* journey before it departed: they return the seats, which publishes the journey
\* whatever its status, and the worker's next run starts it once more.
Reject(j, u) ==
    /\ u \in Changers
    /\ bStatus[j][u] # "NONE"
    /\ j \in completed => again[j] < MaxAgain
    /\ bStatus' = [bStatus EXCEPT ![j][u] = "CANCELLED"]
    /\ completed' = completed \ {j}
    /\ again' = IF j \in completed THEN [again EXCEPT ![j] = @ + 1] ELSE again
    /\ UNCHANGED <<reviews, users, pc, locals, applied, dropped, raced, confirmed,
                   doubled, endings, halfDone>>

Next ==
    \/ \E c \in Calls, r \in Requests : Submit(c, r)
    \/ \E c \in Calls :
          \/ CheckEligible(c) \/ CheckExisting(c) \/ Insert(c)
          \/ RateRead(c) \/ RateWrite(c)
    \/ \E c \in Calls, j \in Journeys : Finish(c, j)
    \/ \E c \in Calls :
          \/ FinishMark(c) \/ FinishDriver(c) \/ FinishList(c)
          \/ \E u \in Users : FinishBooking(c, u)
          \/ FinishRide(c) \/ FinishDone(c)
    \/ \E c \in Calls : Fail(c)
    \/ \E j \in Journeys, u \in Users :
          Confirm(j, u) \/ Cancel(j, u) \/ Reject(j, u)

Spec == Init /\ [][Next]_vars

-----------------------------------------------------------------------------
Steps == {"idle", "eligible", "existing", "insert", "rate_read", "rate_write",
          "end_mark", "end_driver", "end_list", "end_loop", "end_ride"}
Reviewing == {"eligible", "existing", "insert", "rate_read", "rate_write"}
Finishing == {"end_mark", "end_driver", "end_list", "end_loop", "end_ride"}

\* Types of the columns and the locals; an average is always one to five stars.
TypeOK ==
    /\ reviews \subseteq Review
    /\ average \in [Users -> 100..500]
    /\ count \in [Users -> Nat] /\ rides \in [Users -> Nat]
    /\ completed \subseteq Journeys
    /\ bStatus \in [Journeys -> [Users -> BookingStatus]]
    /\ pc \in [Calls -> Steps]
    /\ draft \in [Calls -> Review \cup {None}]
    /\ readAverage \in [Calls -> {0} \cup 100..500]
    /\ readCount \in [Calls -> Nat]
    /\ ride \in [Calls -> Journeys \cup {None}]
    /\ todo \in [Calls -> SUBSET Users]
    /\ rider \in [Calls -> Users \cup {None}]
    /\ applied \subseteq reviews /\ dropped \subseteq reviews
    /\ raced \subseteq Users /\ doubled \subseteq Journeys
    /\ confirmed \subseteq Journeys \X Users
    /\ again \in [Journeys -> Nat] /\ endings \subseteq Journeys \X Nat /\ halfDone \in Nat
    /\ term \in [Calls -> Nat]

About(u)   == {r \in reviews : r.reviewed = u}
Applied(u) == {r \in applied : r.reviewed = u}
Stars      == [r \in Review |-> r.rating]
InFlight   == {draft[c] : c \in {d \in Calls : Rating(d)}}

\* However updates of a rating overlap or fail, a user never has more ratings
\* counted than reviews: requests sent twice do not count twice.
CountNeverAhead == \A u \in Users : count[u] <= Cardinality(Applied(u))

\* Unless two updates of one user overlapped (updateRating reads and then writes),
\* his rating_count is the number of his reviews, but for those being counted at
\* this moment and those whose request failed between the two statements.
RatingCountsReviews ==
    \A u \in Users \ raced :
        count[u] = Cardinality(About(u) \ (InFlight \cup dropped))

\* ... and his rating_average is within n (n + 1) / 4 hundredths, summed over
\* the n reviews counted, of their mean: every update adds half a hundredth of
\* rounding at most, which the updates after it carry along.
RatingNearMean ==
    \A u \in Users \ raced :
        LET total == 100 * MapThenSumSet(LAMBDA r : Stars[r], Applied(u))
            shown == average[u] * count[u]
        IN  count[u] > 0 =>
                /\ 4 * (shown - total) <= count[u] * (count[u] + 1)
                /\ 4 * (total - shown) <= count[u] * (count[u] + 1)

\* Whoever writes a review or is the subject of one took part: as the driver, or
\* with a booking that was confirmed at some time.
ReviewersTravelled ==
    \A r \in reviews :
        LET d == DriverOf[r.journey]
        IN  /\ d \in {r.reviewer, r.reviewed} /\ r.reviewer # r.reviewed
            /\ \A u \in {r.reviewer, r.reviewed} \ {d} : <<r.journey, u>> \in confirmed

\* completed_rides_count counts a journey for its driver and for a passenger who
\* was confirmed on it once each time it was completed, at most: a journey that is
\* published again after its end and completed again counts again.  Only requests
\* that complete one journey at the same time may count it more often than that.
RidesCountedOnce ==
    \A u \in Users :
        LET drove == {e \in endings : DriverOf[e[1]] = u}
            rode  == {e \in endings : <<e[1], u>> \in confirmed}
        IN  (\A e \in drove \cup rode : e[1] \notin doubled)
                => rides[u] <= Cardinality(drove) + Cardinality(rode)

\* The rating of a user counts the reviews of those who travelled.
CountsAgree == TypeOK /\ CountNeverAhead /\ RatingCountsReviews /\ ReviewersTravelled
==============================================================================
