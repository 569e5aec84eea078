------------------------------ MODULE ReviewsProofs ------------------------------
(***************************************************************************)
(* What Reviews guarantees for any number of journeys, users, reviews and  *)
(* calls: the counts of reviews and of rides, which are cardinalities of   *)
(* sets of rows, so that each step that counts is shown to count one row,  *)
(* and the average, which stays near a sum over such a set.                *)
(***************************************************************************)
EXTENDS Reviews, Sums, TLAPS

\* Who writes the review or is its subject drove, or had a booking that was confirmed.
TookPart(r) ==
    LET d == DriverOf[r.journey]
    IN  /\ d \in {r.reviewer, r.reviewed} /\ r.reviewer # r.reviewed
        /\ \A u \in {r.reviewer, r.reviewed} \ {d} : <<r.journey, u>> \in confirmed

\* What the locals of a call hold.
LocalsOf(c) ==
    /\ pc[c] \in Reviewing =>
          draft[c] \in Requests /\ draft[c].reviewer # draft[c].reviewed
    /\ pc[c] \in Reviewing \ {"eligible"} => TookPart(draft[c])
    /\ pc[c] = "rate_write" => readAverage[c] # 0
    /\ pc[c] \in Finishing <=> ride[c] # None
    /\ \A u \in todo[c] : pc[c] \in {"end_loop", "end_ride"} /\ <<ride[c], u>> \in confirmed
    /\ pc[c] = "end_ride" => /\ rider[c] \in Users \ todo[c]
                             /\ <<ride[c], rider[c]>> \in confirmed

Held == \A c \in Calls : LocalsOf(c)

\* Whoever travels has been confirmed, and the reviews stored are from and about those.
Rows ==
    /\ reviews \subseteq Requests
    /\ \A j \in Journeys, u \in Users : Travelled(j, u) => <<j, u>> \in confirmed
    /\ ReviewersTravelled

\* Each review is counted by one call; a user of whom no two updates overlapped has one
\* at a time, which has read his count.
Counting ==
    /\ \A c \in Calls : Rating(c) => draft[c] \in reviews \ (applied \cup dropped)
    /\ \A c, d \in Calls : Rating(c) /\ Rating(d) /\ draft[c] = draft[d] => c = d
    /\ \A c, d \in Calls : Rating(c) /\ Rates(d, draft[c].reviewed)
                               => c = d \/ draft[c].reviewed \in raced
    /\ \A c \in Calls : pc[c] = "rate_write" =>
          /\ readCount[c] <= Cardinality(Applied(draft[c].reviewed))
          /\ draft[c].reviewed \in raced \/ readCount[c] = count[draft[c].reviewed]
    /\ CountNeverAhead /\ RatingCountsReviews

\* The types of what a call holds.
LocalTypes ==
    /\ pc \in [Calls -> Steps]
    /\ draft \in [Calls -> Review \cup {None}]
    /\ readAverage \in [Calls -> {0} \cup 100..500]
    /\ readCount \in [Calls -> Nat]
    /\ ride \in [Calls -> Journeys \cup {None}]
    /\ todo \in [Calls -> SUBSET Users]
    /\ rider \in [Calls -> Users \cup {None}]
    /\ term \in [Calls -> Nat]

\* And those of the tables and the history.
RowTypes ==
    /\ reviews \subseteq Review
    /\ average \in [Users -> 100..500]
    /\ count \in [Users -> Nat] /\ rides \in [Users -> Nat]
    /\ completed \subseteq Journeys
    /\ bStatus \in [Journeys -> [Users -> BookingStatus]]
    /\ applied \subseteq reviews /\ dropped \subseteq reviews
    /\ raced \subseteq Users /\ doubled \subseteq Journeys
    /\ confirmed \subseteq Journeys \X Users
    /\ again \in [Journeys -> Nat] /\ endings \subseteq Journeys \X Nat /\ halfDone \in Nat

\* The columns of a request are a journey, two users and one to five stars.
LEMMA RequestFields ==
    \A r \in Requests : /\ r.journey \in Journeys /\ r.reviewer \in Users
                        /\ r.reviewed \in Users /\ r.rating \in 1..5
                        /\ r # None /\ r \in Review
BY ReviewsAssumption DEF Review

\* What stands for nothing is no journey, user or review.
LEMMA NoneApart == None \notin Journeys /\ None \notin Users /\ None \notin Requests
BY ReviewsAssumption

\* What updateRating writes is one to five stars.
LEMMA AverageInRange ==
    ASSUME NEW avg \in 100..500, NEW n \in Nat, NEW r \in 1..5
    PROVE  NewAverage(avg, n, r) \in 100..500
<1> DEFINE x == avg * n + 100 * r
           d == n + 1
<1>1. x \in Int /\ d \in Nat /\ d > 0
  OBVIOUS
<1>2. avg * n >= 100 * n /\ avg * n <= 500 * n
  OBVIOUS
<1>3. x >= 100 * d /\ x <= 500 * d
  BY <1>2
<1>4. \A y \in Int, m \in Nat : m > 0 /\ y >= 100 * m /\ y <= 500 * m =>
         (2 * y + m) \div (2 * m) >= 100 /\ (2 * y + m) \div (2 * m) <= 500
         /\ (2 * y + m) \div (2 * m) \in Int
  OBVIOUS
<1> HIDE DEF x, d
<1>5. NewAverage(avg, n, r) = (2 * x + d) \div (2 * d)
  BY DEF NewAverage, Rounded, x, d
<1> QED  BY <1>1, <1>3, <1>4, <1>5

\* incrementRidesCount adds one for the user, and nothing for the others.
LEMMA RideIsCounted ==
    ASSUME rides \in [Users -> Nat], NEW u, CountRide(u)
    PROVE  /\ rides' \in [Users -> Nat]
           /\ \A v \in Users : rides'[v] = IF v = u THEN rides[v] + 1 ELSE rides[v]
<1>1. rides' = [v \in Users |-> IF v = u THEN rides[v] + 1 ELSE rides[v]]
  BY DEF CountRide
<1> QED  BY <1>1

\* A call that answers keeps nothing.
LEMMA Left ==
    ASSUME TypeOK, NEW c \in Calls, Leave(c)
    PROVE  /\ LocalTypes' /\ pc'[c] = "idle" /\ LocalsOf(c)'
           /\ \A d \in Calls \ {c} :
                 /\ pc'[d] = pc[d] /\ draft'[d] = draft[d] /\ readAverage'[d] = readAverage[d]
                 /\ readCount'[d] = readCount[d] /\ ride'[d] = ride[d] /\ todo'[d] = todo[d]
                 /\ rider'[d] = rider[d] /\ term'[d] = term[d]
<1>1. pc' \in [Calls -> Steps] /\ pc'[c] = "idle"
  BY DEF TypeOK, Leave, Goto, Steps
<1>2. /\ draft' \in [Calls -> Review \cup {None}]
      /\ readAverage' \in [Calls -> {0} \cup 100..500]
      /\ readCount' \in [Calls -> Nat]
  BY DEF TypeOK, Leave
<1>3. /\ ride' \in [Calls -> Journeys \cup {None}] /\ ride'[c] = None
      /\ todo' \in [Calls -> SUBSET Users] /\ todo'[c] = {}
      /\ rider' \in [Calls -> Users \cup {None}] /\ term' \in [Calls -> Nat]
  BY DEF TypeOK, Leave
<1>4. LocalsOf(c)'
  BY <1>1, <1>3 DEF LocalsOf, Reviewing, Finishing
<1>5. \A d \in Calls \ {c} :
         /\ pc'[d] = pc[d] /\ draft'[d] = draft[d] /\ readAverage'[d] = readAverage[d]
         /\ readCount'[d] = readCount[d] /\ ride'[d] = ride[d] /\ todo'[d] = todo[d]
         /\ rider'[d] = rider[d] /\ term'[d] = term[d]
  BY DEF TypeOK, Leave, Goto
<1> QED  BY <1>1, <1>2, <1>3, <1>4, <1>5 DEF LocalTypes

\* What the other calls hold stays true, for a booking that was once confirmed was.
LEMMA OthersHold ==
    ASSUME Held, NEW d \in Calls, confirmed \subseteq confirmed',
           pc'[d] = pc[d], draft'[d] = draft[d], readAverage'[d] = readAverage[d],
           ride'[d] = ride[d], todo'[d] = todo[d], rider'[d] = rider[d]
    PROVE  LocalsOf(d)'
BY DEF Held, LocalsOf, TookPart

\* Every step keeps the types; a rating stays between one and five stars.
LEMMA TypedStep == TypeOK /\ Held /\ Counting /\ [Next]_vars => TypeOK'
<1> SUFFICES ASSUME TypeOK, Held, Counting, [Next]_vars PROVE LocalTypes' /\ RowTypes'
  BY DEF TypeOK, LocalTypes, RowTypes
<1> USE DEF Goto, At, users, locals, history
<1>0. LocalTypes /\ RowTypes
  BY DEF TypeOK, LocalTypes, RowTypes
<1>1. ASSUME NEW c \in Calls, NEW r \in Requests, Submit(c, r) PROVE LocalTypes' /\ RowTypes'
  <2>1. LocalTypes'
    BY <1>0, <1>1, RequestFields DEF Submit, LocalTypes, Steps
  <2>2. RowTypes'
    BY <1>0, <1>1 DEF Submit, RowTypes
  <2> QED  BY <2>1, <2>2
<1>2. ASSUME NEW c \in Calls, CheckEligible(c) PROVE LocalTypes' /\ RowTypes'
  <2>1. LocalTypes'
    BY <1>0, <1>2, Left DEF CheckEligible, LocalTypes, Steps
  <2>2. RowTypes'
    BY <1>0, <1>2 DEF CheckEligible, RowTypes
  <2> QED  BY <2>1, <2>2
<1>3. ASSUME NEW c \in Calls, CheckExisting(c) PROVE LocalTypes' /\ RowTypes'
  <2>1. LocalTypes'
    BY <1>0, <1>3, Left DEF CheckExisting, LocalTypes, Steps
  <2>2. RowTypes'
    BY <1>0, <1>3 DEF CheckExisting, RowTypes
  <2> QED  BY <2>1, <2>2
<1>4. ASSUME NEW c \in Calls, Insert(c) PROVE LocalTypes' /\ RowTypes'
  <2>0. draft[c] \in Review /\ draft[c].reviewed \in Users /\ draft[c].rating \in 1..5
    BY <1>4, RequestFields DEF Insert, Held, LocalsOf, Reviewing
  <2>1. LocalTypes'
    BY <1>0, <1>4, Left DEF Insert, LocalTypes, Steps
  <2>2. RowTypes'
    BY <1>0, <1>4, <2>0 DEF Insert, RowTypes, Race
  <2> QED  BY <2>1, <2>2
<1>5. ASSUME NEW c \in Calls, RateRead(c) PROVE LocalTypes' /\ RowTypes'
  <2>0. draft[c].reviewed \in Users
    BY <1>5, RequestFields DEF RateRead, Held, LocalsOf, Reviewing
  <2>1. LocalTypes'
    <3>1. average[draft[c].reviewed] \in 100..500 /\ count[draft[c].reviewed] \in Nat
      BY <1>0, <2>0 DEF RowTypes
    <3>2. pc' \in [Calls -> Steps]
      BY <1>0, <1>5 DEF RateRead, LocalTypes, Steps
    <3> QED  BY <1>0, <1>5, <3>1, <3>2 DEF RateRead, LocalTypes
  <2>2. RowTypes'
    BY <1>0, <1>5 DEF RateRead, RowTypes
  <2> QED  BY <2>1, <2>2
<1>6. ASSUME NEW c \in Calls, RateWrite(c) PROVE LocalTypes' /\ RowTypes'
  <2>0. draft[c] \in Review /\ draft[c].reviewed \in Users /\ draft[c].rating \in 1..5
    BY <1>6, RequestFields DEF RateWrite, Held, LocalsOf, Reviewing
  <2>1. LocalTypes'
    BY <1>0, <1>6, Left DEF RateWrite, LocalTypes
  <2>2. NewAverage(readAverage[c], readCount[c], draft[c].rating) \in 100..500
    <3>1. readAverage[c] \in 100..500 /\ readCount[c] \in Nat
      <4>1. LocalsOf(c) /\ pc[c] = "rate_write"
        BY <1>0, <1>6, <2>0 DEF RateWrite, Held
      <4>2. readAverage[c] # 0
        BY <4>1 DEF LocalsOf
      <4>3. readAverage[c] \in {0} \cup 100..500 /\ readCount[c] \in Nat
        BY <1>0 DEF LocalTypes
      <4> QED  BY <4>2, <4>3
    <3> QED  BY <2>0, <3>1, AverageInRange
  <2>3. draft[c] \in reviews
    BY <1>6 DEF RateWrite, Counting, Rating
  <2>4. average' \in [Users -> 100..500] /\ count' \in [Users -> Nat]
    <3>1. readCount[c] + 1 \in Nat
      BY <1>0 DEF LocalTypes
    <3> QED  BY <1>0, <1>6, <2>2, <3>1 DEF RateWrite, RowTypes
  <2>5. RowTypes'
    <3>1. applied' \subseteq reviews
      BY <1>0, <1>6, <2>3 DEF RateWrite, RowTypes
    <3>2. UNCHANGED <<reviews, rides, completed, bStatus, dropped, raced, confirmed, doubled,
                      again, endings, halfDone>>
      BY <1>6 DEF RateWrite
    <3> QED  BY <1>0, <2>4, <3>1, <3>2 DEF RowTypes
  <2> QED  BY <2>1, <2>5
<1>7. ASSUME NEW c \in Calls, NEW j \in Journeys, Finish(c, j) PROVE LocalTypes' /\ RowTypes'
  <2>1. LocalTypes'
    <3>1. again[j] \in Nat
      BY <1>0 DEF RowTypes
    <3> QED  BY <1>0, <1>7, <3>1 DEF Finish, LocalTypes, Steps
  <2>2. RowTypes'
    BY <1>0, <1>7 DEF Finish, RowTypes
  <2> QED  BY <2>1, <2>2
<1>8. ASSUME NEW c \in Calls, FinishMark(c) PROVE LocalTypes' /\ RowTypes'
  <2>1. LocalTypes'
    BY <1>0, <1>8 DEF FinishMark, LocalTypes, Steps
  <2>2. ride[c] \in Journeys
    BY <1>0, <1>8 DEF FinishMark, LocalTypes, Held, LocalsOf, Finishing
  <2>3. <<ride[c], term[c]>> \in Journeys \X Nat
    BY <1>0, <2>2 DEF LocalTypes
  <2> QED  BY <1>0, <1>8, <2>1, <2>2, <2>3 DEF FinishMark, RowTypes
<1>9. ASSUME NEW c \in Calls, FinishDriver(c) PROVE LocalTypes' /\ RowTypes'
  <2>1. LocalTypes'
    BY <1>0, <1>9 DEF FinishDriver, LocalTypes, Steps
  <2>2. rides' \in [Users -> Nat]
    BY <1>0, <1>9, RideIsCounted DEF FinishDriver, RowTypes
  <2> QED  BY <1>0, <1>9, <2>1, <2>2 DEF FinishDriver, RowTypes
<1>10. ASSUME NEW c \in Calls, FinishList(c) PROVE LocalTypes' /\ RowTypes'
  <2>1. LocalTypes'
    BY <1>0, <1>10 DEF FinishList, LocalTypes, Steps
  <2>2. RowTypes'
    BY <1>0, <1>10 DEF FinishList, RowTypes
  <2> QED  BY <2>1, <2>2
<1>11. ASSUME NEW c \in Calls, NEW u \in Users, FinishBooking(c, u)
       PROVE  LocalTypes' /\ RowTypes'
  <2>1. LocalTypes'
    BY <1>0, <1>11 DEF FinishBooking, LocalTypes, Steps
  <2>2. RowTypes'
    BY <1>0, <1>11 DEF FinishBooking, RowTypes, BookingStatus
  <2> QED  BY <2>1, <2>2
<1>12. ASSUME NEW c \in Calls, FinishRide(c) PROVE LocalTypes' /\ RowTypes'
  <2>1. LocalTypes'
    BY <1>0, <1>12 DEF FinishRide, LocalTypes, Steps
  <2>2. rides' \in [Users -> Nat]
    BY <1>0, <1>12, RideIsCounted DEF FinishRide, RowTypes
  <2> QED  BY <1>0, <1>12, <2>1, <2>2 DEF FinishRide, RowTypes
<1>13. ASSUME NEW c \in Calls, FinishDone(c) PROVE LocalTypes' /\ RowTypes'
  <2>1. LocalTypes'
    BY <1>0, <1>13, Left DEF FinishDone, LocalTypes, Steps
  <2>2. RowTypes'
    BY <1>0, <1>13 DEF FinishDone, RowTypes
  <2> QED  BY <2>1, <2>2
<1>14. ASSUME NEW c \in Calls, Fail(c) PROVE LocalTypes' /\ RowTypes'
  <2>1. LocalTypes'
    BY <1>0, <1>14, Left DEF Fail, LocalTypes, Steps
  <2>2. RowTypes'
    <3>1. dropped' \subseteq reviews
      BY <1>0, <1>14 DEF Fail, RowTypes, Counting
    <3>2. halfDone' \in Nat
      BY <1>0, <1>14 DEF Fail, RowTypes
    <3>3. UNCHANGED <<reviews, users, completed, bStatus, applied, raced, confirmed, doubled,
                      again, endings>>
      BY <1>14 DEF Fail
    <3> QED  BY <1>0, <3>1, <3>2, <3>3 DEF RowTypes
  <2> QED  BY <2>1, <2>2
<1>15. ASSUME NEW j \in Journeys, NEW u \in Users, Confirm(j, u) PROVE LocalTypes' /\ RowTypes'
  <2>1. LocalTypes'
    BY <1>0, <1>15 DEF Confirm, LocalTypes, Steps
  <2>2. RowTypes'
    BY <1>0, <1>15 DEF Confirm, RowTypes, BookingStatus
  <2> QED  BY <2>1, <2>2
<1>16. ASSUME NEW j \in Journeys, NEW u \in Users, Cancel(j, u) PROVE LocalTypes' /\ RowTypes'
  <2>1. LocalTypes'
    BY <1>0, <1>16 DEF Cancel, LocalTypes, Steps
  <2>2. RowTypes'
    BY <1>0, <1>16 DEF Cancel, RowTypes, BookingStatus
  <2> QED  BY <2>1, <2>2
<1>17. ASSUME NEW j \in Journeys, NEW u \in Users, Reject(j, u) PROVE LocalTypes' /\ RowTypes'
  <2>1. LocalTypes'
    BY <1>0, <1>17 DEF Reject, LocalTypes, Steps
  <2>2. RowTypes'
    <3>1. bStatus' \in [Journeys -> [Users -> BookingStatus]]
      BY <1>0, <1>17 DEF Reject, RowTypes, BookingStatus
    <3>2. completed' \subseteq Journeys /\ again' \in [Journeys -> Nat]
      BY <1>0, <1>17 DEF Reject, RowTypes
    <3>3. UNCHANGED <<reviews, users, applied, dropped, raced, confirmed, doubled, endings,
                      halfDone>>
      BY <1>17 DEF Reject
    <3> QED  BY <1>0, <3>1, <3>2, <3>3 DEF RowTypes
  <2> QED  BY <2>1, <2>2
<1>18. CASE UNCHANGED vars
  BY <1>0, <1>18 DEF vars, LocalTypes, RowTypes
<1> QED
  BY <1>1, <1>2, <1>3, <1>4, <1>5, <1>6, <1>7, <1>8, <1>9, <1>10, <1>11, <1>12, <1>13, <1>14,
     <1>15, <1>16, <1>17, <1>18 DEF Next

\* The bookings, the reviews and the locals stay as they should.
LEMMA HeldStep == TypeOK /\ Held /\ Rows /\ [Next]_vars => Held' /\ Rows'
<1> SUFFICES ASSUME TypeOK, Held, Rows, [Next]_vars PROVE Held' /\ Rows'
  OBVIOUS
<1> USE DEF Goto, At, users, locals, history
<1>0. LocalTypes /\ RowTypes
  BY DEF TypeOK, LocalTypes, RowTypes
<1>1. ASSUME NEW c \in Calls, NEW r \in Requests, Submit(c, r) PROVE Held' /\ Rows'
  <2>1. \A d \in Calls \ {c} : LocalsOf(d)'
    BY <1>0, <1>1, OthersHold DEF Submit, LocalTypes
  <2>2. LocalsOf(c)'
    <3>1. /\ pc[c] = "idle" /\ pc'[c] = "eligible" /\ draft'[c] = r /\ r \in Requests
          /\ r.reviewer # r.reviewed
          /\ UNCHANGED <<ride, todo>>
      BY <1>0, <1>1 DEF Submit, LocalTypes
    <3>2. ride[c] = None /\ todo[c] = {}
      BY <3>1 DEF Held, LocalsOf, Finishing
    <3> QED  BY <3>1, <3>2 DEF LocalsOf, Reviewing, Finishing
  <2>3. Rows'
    BY <1>1 DEF Submit, Rows, Travelled, ReviewersTravelled
  <2> QED  BY <2>1, <2>2, <2>3 DEF Held
<1>2. ASSUME NEW c \in Calls, CheckEligible(c) PROVE Held' /\ Rows'
  <2>1. \A d \in Calls \ {c} : LocalsOf(d)'
    BY <1>0, <1>2, Left, OthersHold DEF CheckEligible, LocalTypes
  <2>2. LocalsOf(c)'
    <3>1. CASE Eligible(draft[c])
      <4>1. draft[c] \in Requests /\ draft[c].reviewer # draft[c].reviewed
        BY <1>2 DEF CheckEligible, Held, LocalsOf, Reviewing
      <4>2. TookPart(draft[c])
        BY <3>1, <4>1, RequestFields DEF Eligible, TookPart, Rows
      <4>3. TookPart(draft[c])'
        BY <1>2, <3>1, <4>2 DEF CheckEligible, TookPart
      <4>4. pc[c] = "eligible" /\ pc'[c] = "existing" /\ UNCHANGED <<draft, ride, todo>>
        BY <1>0, <1>2, <3>1 DEF CheckEligible, LocalTypes
      <4>5. ride[c] = None /\ todo[c] = {}
        BY <4>4 DEF Held, LocalsOf, Finishing
      <4> QED  BY <4>1, <4>3, <4>4, <4>5 DEF LocalsOf, Reviewing, Finishing
    <3>2. CASE ~Eligible(draft[c])
      BY <1>2, <3>2, Left DEF CheckEligible
    <3> QED  BY <3>1, <3>2
  <2>3. Rows'
    BY <1>2 DEF CheckEligible, Rows, Travelled, ReviewersTravelled
  <2> QED  BY <2>1, <2>2, <2>3 DEF Held
<1>3. ASSUME NEW c \in Calls, CheckExisting(c) PROVE Held' /\ Rows'
  <2>1. \A d \in Calls \ {c} : LocalsOf(d)'
    BY <1>0, <1>3, Left, OthersHold DEF CheckExisting, LocalTypes
  <2>2. LocalsOf(c)'
    <3>1. CASE Stored(draft[c])
      BY <1>3, <3>1, Left DEF CheckExisting
    <3>2. CASE ~Stored(draft[c])
      <4>1. LocalsOf(c) /\ pc[c] = "existing"
        BY <1>3 DEF CheckExisting, Held
      <4>2. pc'[c] = "insert" /\ UNCHANGED <<confirmed, locals>>
        BY <1>0, <1>3, <3>2 DEF CheckExisting, LocalTypes
      <4> QED  BY <4>1, <4>2 DEF LocalsOf, Reviewing, Finishing, TookPart
    <3> QED  BY <3>1, <3>2
  <2>3. Rows'
    BY <1>3 DEF CheckExisting, Rows, Travelled, ReviewersTravelled
  <2> QED  BY <2>1, <2>2, <2>3 DEF Held
<1>4. ASSUME NEW c \in Calls, Insert(c) PROVE Held' /\ Rows'
  <2>1. \A d \in Calls \ {c} : LocalsOf(d)'
    BY <1>0, <1>4, Left, OthersHold DEF Insert, LocalTypes
  <2>2. LocalsOf(c)'
    <3>1. CASE Stored(draft[c])
      BY <1>4, <3>1, Left DEF Insert
    <3>2. CASE ~Stored(draft[c])
      <4>1. LocalsOf(c) /\ pc[c] = "insert"
        BY <1>4 DEF Insert, Held
      <4>2. pc'[c] = "rate_read" /\ UNCHANGED <<confirmed, locals>>
        BY <1>0, <1>4, <3>2 DEF Insert, LocalTypes
      <4> QED  BY <4>1, <4>2 DEF LocalsOf, Reviewing, Finishing, TookPart
    <3> QED  BY <3>1, <3>2
  <2>3. Rows'
    <3>1. draft[c] \in Requests /\ TookPart(draft[c])
      BY <1>4 DEF Insert, Held, LocalsOf, Reviewing
    <3> QED  BY <1>4, <3>1 DEF Insert, Rows, Travelled, ReviewersTravelled, TookPart
  <2> QED  BY <2>1, <2>2, <2>3 DEF Held
<1>5. ASSUME NEW c \in Calls, RateRead(c) PROVE Held' /\ Rows'
  <2>1. \A d \in Calls \ {c} : LocalsOf(d)'
    BY <1>0, <1>5, OthersHold DEF RateRead, LocalTypes
  <2>2. LocalsOf(c)'
    <3>1. draft[c] \in Requests
      BY <1>5 DEF RateRead, Held, LocalsOf, Reviewing
    <3>2. readAverage'[c] # 0
      <4>1. draft[c].reviewed \in Users /\ average \in [Users -> 100..500]
        BY <1>0, <3>1, RequestFields DEF RowTypes
      <4>2. readAverage'[c] = average[draft[c].reviewed]
        BY <1>0, <1>5 DEF RateRead, LocalTypes
      <4> QED  BY <4>1, <4>2
    <3>3. /\ pc[c] = "rate_read" /\ pc'[c] = "rate_write"
          /\ UNCHANGED <<bStatus, confirmed, draft, ride, todo>>
      BY <1>0, <1>5 DEF RateRead, LocalTypes
    <3>4. ride[c] = None /\ todo[c] = {} /\ draft[c].reviewer # draft[c].reviewed /\
            TookPart(draft[c])
      BY <3>3 DEF Held, LocalsOf, Reviewing, Finishing
    <3>5. TookPart(draft[c])'
      BY <3>3, <3>4 DEF TookPart
    <3> QED  BY <3>1, <3>2, <3>3, <3>4, <3>5 DEF LocalsOf, Reviewing, Finishing
  <2>3. Rows'
    BY <1>5 DEF RateRead, Rows, Travelled, ReviewersTravelled
  <2> QED  BY <2>1, <2>2, <2>3 DEF Held
<1>6. ASSUME NEW c \in Calls, RateWrite(c) PROVE Held' /\ Rows'
  <2>1. \A d \in Calls \ {c} : LocalsOf(d)'
    BY <1>0, <1>6, Left, OthersHold DEF RateWrite
  <2>2. LocalsOf(c)'
    BY <1>6, Left DEF RateWrite
  <2>3. Rows'
    BY <1>6 DEF RateWrite, Rows, Travelled, ReviewersTravelled
  <2> QED  BY <2>1, <2>2, <2>3 DEF Held
<1>7. ASSUME NEW c \in Calls, NEW j \in Journeys, Finish(c, j) PROVE Held' /\ Rows'
  <2>1. \A d \in Calls \ {c} : LocalsOf(d)'
    BY <1>0, <1>7, OthersHold DEF Finish, LocalTypes
  <2>2. LocalsOf(c)'
    <3>1. pc[c] = "idle" /\ pc'[c] = "end_mark" /\ ride'[c] = j /\ UNCHANGED todo
      BY <1>0, <1>7 DEF Finish, LocalTypes
    <3>2. todo[c] = {}
      BY <3>1 DEF Held, LocalsOf
    <3> QED  BY <3>1, <3>2, NoneApart DEF LocalsOf, Reviewing, Finishing
  <2>3. Rows'
    BY <1>7 DEF Finish, Rows, Travelled, ReviewersTravelled
  <2> QED  BY <2>1, <2>2, <2>3 DEF Held
<1>8. ASSUME NEW c \in Calls, FinishMark(c) PROVE Held' /\ Rows'
  <2>1. \A d \in Calls \ {c} : LocalsOf(d)'
    BY <1>0, <1>8, OthersHold DEF FinishMark, LocalTypes
  <2>2. LocalsOf(c)'
    BY <1>0, <1>8 DEF FinishMark, LocalTypes, Held, LocalsOf, Reviewing, Finishing, TookPart
  <2>3. Rows'
    BY <1>8 DEF FinishMark, Rows, Travelled, ReviewersTravelled
  <2> QED  BY <2>1, <2>2, <2>3 DEF Held
<1>9. ASSUME NEW c \in Calls, FinishDriver(c) PROVE Held' /\ Rows'
  <2>1. \A d \in Calls \ {c} : LocalsOf(d)'
    BY <1>0, <1>9, OthersHold DEF FinishDriver, LocalTypes
  <2>2. LocalsOf(c)'
    BY <1>0, <1>9 DEF FinishDriver, LocalTypes, Held, LocalsOf, Reviewing, Finishing, TookPart
  <2>3. Rows'
    BY <1>9 DEF FinishDriver, Rows, Travelled, ReviewersTravelled
  <2> QED  BY <2>1, <2>2, <2>3 DEF Held
<1>10. ASSUME NEW c \in Calls, FinishList(c) PROVE Held' /\ Rows'
  <2>1. \A d \in Calls \ {c} : LocalsOf(d)'
    BY <1>0, <1>10, OthersHold DEF FinishList, LocalTypes
  <2>0. ride[c] \in Journeys
    BY <1>0, <1>10 DEF FinishList, LocalTypes, Held, LocalsOf, Finishing
  <2>2. LocalsOf(c)'
    <3>1. /\ pc[c] = "end_list" /\ pc'[c] = "end_loop"
          /\ todo'[c] = {u \in Users : bStatus[ride[c]][u] = "CONFIRMED"}
          /\ UNCHANGED <<ride, confirmed>>
      BY <1>0, <1>10 DEF FinishList, LocalTypes
    <3>2. \A u \in todo'[c] : <<ride[c], u>> \in confirmed
      BY <2>0, <3>1 DEF Rows, Travelled
    <3> QED  BY <2>0, <3>1, <3>2, NoneApart DEF LocalsOf, Reviewing, Finishing
  <2>3. Rows'
    BY <1>10 DEF FinishList, Rows, Travelled, ReviewersTravelled
  <2> QED  BY <2>1, <2>2, <2>3 DEF Held
<1>11. ASSUME NEW c \in Calls, NEW u \in Users, FinishBooking(c, u) PROVE Held' /\ Rows'
  <2>1. \A d \in Calls \ {c} : LocalsOf(d)'
    BY <1>0, <1>11, OthersHold DEF FinishBooking, LocalTypes
  <2>2. LocalsOf(c)'
    <3>1. /\ pc[c] = "end_loop" /\ pc'[c] = "end_ride" /\ u \in todo[c]
          /\ todo'[c] = todo[c] \ {u} /\ rider'[c] = u /\ UNCHANGED <<ride, confirmed>>
      BY <1>0, <1>11 DEF FinishBooking, LocalTypes
    <3>2. ride[c] # None /\ todo[c] \subseteq Users /\ \A v \in todo[c] :
                                                           <<ride[c], v>> \in confirmed
      BY <1>0, <3>1 DEF LocalTypes, Held, LocalsOf, Finishing
    <3> QED  BY <3>1, <3>2 DEF LocalsOf, Reviewing, Finishing
  <2>3. Rows'
    <3>1. <<ride[c], u>> \in confirmed
      BY <1>11 DEF FinishBooking, Held, LocalsOf
    <3>2. \A k \in Journeys, v \in Users :
              Travelled(k, v)' => Travelled(k, v) \/ <<k, v>> = <<ride[c], u>>
      BY <1>0, <1>11 DEF FinishBooking, RowTypes, Travelled
    <3> QED  BY <1>11, <3>1, <3>2 DEF FinishBooking, Rows, ReviewersTravelled
  <2> QED  BY <2>1, <2>2, <2>3 DEF Held
<1>12. ASSUME NEW c \in Calls, FinishRide(c) PROVE Held' /\ Rows'
  <2>1. \A d \in Calls \ {c} : LocalsOf(d)'
    BY <1>0, <1>12, OthersHold DEF FinishRide, LocalTypes
  <2>2. LocalsOf(c)'
    BY <1>0, <1>12 DEF FinishRide, LocalTypes, Held, LocalsOf, Reviewing, Finishing, TookPart
  <2>3. Rows'
    BY <1>12 DEF FinishRide, Rows, Travelled, ReviewersTravelled
  <2> QED  BY <2>1, <2>2, <2>3 DEF Held
<1>13. ASSUME NEW c \in Calls, FinishDone(c) PROVE Held' /\ Rows'
  <2>1. \A d \in Calls \ {c} : LocalsOf(d)'
    BY <1>0, <1>13, Left, OthersHold DEF FinishDone
  <2>2. LocalsOf(c)'
    BY <1>13, Left DEF FinishDone
  <2>3. Rows'
    BY <1>13 DEF FinishDone, Rows, Travelled, ReviewersTravelled
  <2> QED  BY <2>1, <2>2, <2>3 DEF Held
<1>14. ASSUME NEW c \in Calls, Fail(c) PROVE Held' /\ Rows'
  <2>1. \A d \in Calls \ {c} : LocalsOf(d)'
    BY <1>0, <1>14, Left, OthersHold DEF Fail
  <2>2. LocalsOf(c)'
    BY <1>14, Left DEF Fail
  <2>3. Rows'
    BY <1>14 DEF Fail, Rows, Travelled, ReviewersTravelled
  <2> QED  BY <2>1, <2>2, <2>3 DEF Held
<1>15. ASSUME NEW j \in Journeys, NEW u \in Users, Confirm(j, u) PROVE Held' /\ Rows'
  <2>1. Held'
    BY <1>15, OthersHold DEF Confirm, Held
  <2>2. Rows'
    BY <1>0, <1>15 DEF Confirm, RowTypes, Rows, Travelled, ReviewersTravelled
  <2> QED  BY <2>1, <2>2
<1>16. ASSUME NEW j \in Journeys, NEW u \in Users, Cancel(j, u) PROVE Held' /\ Rows'
  <2>1. Held'
    BY <1>16, OthersHold DEF Cancel, Held
  <2>2. Rows'
    BY <1>0, <1>16 DEF Cancel, RowTypes, Rows, Travelled, ReviewersTravelled
  <2> QED  BY <2>1, <2>2
<1>17. ASSUME NEW j \in Journeys, NEW u \in Users, Reject(j, u) PROVE Held' /\ Rows'
  <2>1. Held'
    BY <1>17, OthersHold DEF Reject, Held
  <2>2. Rows'
    BY <1>0, <1>17 DEF Reject, RowTypes, Rows, Travelled, ReviewersTravelled
  <2> QED  BY <2>1, <2>2
<1>18. CASE UNCHANGED vars
  BY <1>18, OthersHold DEF vars, Held, Rows, Travelled, ReviewersTravelled
<1> QED
  BY <1>1, <1>2, <1>3, <1>4, <1>5, <1>6, <1>7, <1>8, <1>9, <1>10, <1>11, <1>12, <1>13, <1>14,
     <1>15, <1>16, <1>17, <1>18 DEF Next

\* The reviews are finite in number.
LEMMA FiniteReviews ==
    ASSUME Rows, NEW S \in SUBSET reviews
    PROVE  IsFiniteSet(S) /\ Cardinality(S) \in Nat
<1>1. S \in SUBSET Requests
  BY DEF Rows
<1> QED  BY <1>1, FS_Subset, FS_CardinalityType, ReviewsAssumption

\* Calls that update no rating, before and after a step, do not matter for the counts.
LEMMA CountingKept ==
    ASSUME Counting, UNCHANGED <<reviews, count, applied, dropped, raced>>,
           \A d \in Calls : Rating(d)' <=> Rating(d),
           \A d \in Calls : Rating(d) => /\ pc'[d] = pc[d] /\ draft'[d] = draft[d]
                                         /\ readCount'[d] = readCount[d]
    PROVE  Counting'
<1>1. InFlight' = InFlight
  BY DEF InFlight
<1>2. \A u \in Users : About(u)' = About(u) /\ Applied(u)' = Applied(u)
  BY DEF About, Applied
<1>3. CountNeverAhead' /\ RatingCountsReviews'
  BY <1>1, <1>2 DEF Counting, CountNeverAhead, RatingCountsReviews
<1>4. \A c \in Calls : pc'[c] = "rate_write" => pc[c] = "rate_write" /\ Rating(c)
  BY DEF Rating
<1>5. \A c \in Calls :
          Applied(draft[c].reviewed)' = {r \in applied : r.reviewed = draft'[c].reviewed}
  BY DEF Applied
<1>6. \A c \in Calls : pc'[c] = "rate_write" =>
          /\ readCount'[c] <= Cardinality(Applied(draft[c].reviewed)')
          /\ (draft[c].reviewed)' \in raced' \/ readCount'[c] = count'[(draft[c].reviewed)']
  BY <1>4, <1>5 DEF Counting, Applied
<1> QED  BY <1>3, <1>6 DEF Counting, Rates

\* A call that was to count a review ends; if it was counted the count tells it, and if not
\* it is among those dropped.
LEMMA CountingDone ==
    ASSUME TypeOK, Held, Rows, Counting, NEW c \in Calls, Rating(c), Leave(c),
           UNCHANGED <<reviews, raced>>, NEW r, r = draft[c], NEW u, u = r.reviewed,
           \/ /\ UNCHANGED <<count, applied>> /\ dropped' = dropped \cup {r}
           \/ /\ pc[c] = "rate_write" /\ applied' = applied \cup {r} /\ UNCHANGED dropped
              /\ count' = [count EXCEPT ![u] = readCount[c] + 1]
    PROVE  Counting'
<1> DEFINE counted == applied' = applied \cup {r}
<1>1. /\ ~Rating(c)' /\ pc'[c] = "idle"
      /\ \A d \in Calls \ {c} :
             pc'[d] = pc[d] /\ draft'[d] = draft[d] /\ readCount'[d] = readCount[d]
                              /\ (Rating(d)' <=> Rating(d))
  BY Left DEF Rating
<1>2. r \in Requests /\ u \in Users /\ r \in reviews \ (applied \cup dropped)
  BY RequestFields DEF Held, LocalsOf, Reviewing, Rating, Counting
<1>3. \A d \in Calls \ {c} :
          Rating(d) => draft[d] # r /\ (draft[d].reviewed = u => u \in raced)
  BY DEF Counting, Rates
<1>4. InFlight' = InFlight \ {r} /\ r \in InFlight
  BY <1>1, <1>3 DEF InFlight
<1>5. \A v : About(v)' = About(v)
  BY DEF About
<1>6. count \in [Users -> Nat] /\ applied \subseteq reviews /\ dropped \subseteq reviews
  BY DEF TypeOK
<1>7. applied' \subseteq reviews /\ applied \subseteq applied'
  BY <1>2, <1>6
<1>8. \A v : /\ Applied(v) \in SUBSET reviews /\ Applied(v)' \in SUBSET reviews
             /\ Applied(v) \in SUBSET Applied(v)'
  BY <1>6, <1>7 DEF Applied
<1>9. \A v : Cardinality(Applied(v)) <= Cardinality(Applied(v)')
  BY <1>8, FiniteReviews, FS_Subset
<1>10. \A d \in Calls : Rating(d)' => draft'[d] \in reviews' \ (applied' \cup dropped')
  BY <1>1, <1>3 DEF Counting
<1>11. \A d, e \in Calls : Rating(d)' /\ Rating(e)' /\ draft'[d] = draft'[e] => d = e
  BY <1>1 DEF Counting
<1>12. \A d, e \in Calls : Rating(d)' /\ Rates(e, draft[d].reviewed)'
                            => d = e \/ (draft[d].reviewed)' \in raced'
  BY <1>1 DEF Counting, Rates
<1>13. ASSUME NEW d \in Calls, pc'[d] = "rate_write"
       PROVE  /\ readCount'[d] <= Cardinality(Applied(draft[d].reviewed)')
              /\ (draft[d].reviewed)' \in raced' \/ readCount'[d] = count'[(draft[d].reviewed)']
  <2>1. d # c /\ pc[d] = "rate_write" /\ Rating(d)
    BY <1>1, <1>13 DEF Rating
  <2> DEFINE v == draft[d].reviewed
  <2>2. draft'[d] = draft[d] /\ readCount'[d] = readCount[d] /\ v \in Users
    BY <1>1, <2>1, RequestFields DEF Held, LocalsOf, Reviewing
  <2>3. readCount[d] <= Cardinality(Applied(v)) /\ (v \in raced \/ readCount[d] = count[v])
    BY <2>1 DEF Counting
  <2>4. Applied(draft[d].reviewed)' = Applied(v)'
    BY <2>2
  <2>5. readCount[d] \in Nat /\ Cardinality(Applied(v)) \in Nat /\
          Cardinality(Applied(v)') \in Nat
    BY <1>8, FiniteReviews DEF TypeOK
  <2>6. v = u => v \in raced
    BY <1>3, <2>1
  <2>7. v # u => count'[v] = count[v]
    BY <1>6, <2>2
  <2> QED  BY <1>9, <2>2, <2>3, <2>4, <2>5, <2>6, <2>7
<1>14. CountNeverAhead'
  <2> SUFFICES ASSUME NEW v \in Users PROVE count'[v] <= Cardinality(Applied(v)')
    BY DEF CountNeverAhead
  <2>1. count[v] <= Cardinality(Applied(v)) /\ count[v] \in Nat
        /\ Cardinality(Applied(v)) \in Nat /\ Cardinality(Applied(v)') \in Nat
    BY <1>6, <1>8, FiniteReviews DEF Counting, CountNeverAhead
  <2>2. CASE count'[v] = count[v]
    BY <1>9, <2>1, <2>2
  <2>3. CASE count'[v] # count[v]
    <3>1. v = u /\ count'[u] = readCount[c] + 1 /\ pc[c] = "rate_write" /\ counted
      BY <1>2, <1>6, <2>3
    <3>2. readCount[c] <= Cardinality(Applied(u)) /\ readCount[c] \in Nat
      BY <3>1 DEF Counting, TypeOK
    <3>3. Applied(u)' = Applied(u) \cup {r} /\ r \notin Applied(u)
      BY <1>2, <3>1 DEF Applied
    <3>4. Cardinality(Applied(u)') = Cardinality(Applied(u)) + 1
      BY <1>8, <3>3, FiniteReviews, FS_AddElement
    <3> QED  BY <2>1, <3>1, <3>2, <3>4
  <2> QED  BY <2>2, <2>3
<1>15. RatingCountsReviews'
  <2> SUFFICES ASSUME NEW v \in Users, v \notin raced
               PROVE  count'[v] = Cardinality(About(v)' \ (InFlight' \cup dropped'))
    BY DEF RatingCountsReviews
  <2> DEFINE S == About(v) \ (InFlight \cup dropped)
             T == About(v)' \ (InFlight' \cup dropped')
  <2>1. count[v] = Cardinality(S)
    BY DEF Counting, RatingCountsReviews
  <2>2. CASE ~(v = u /\ counted)
    <3>1. T = S
      BY <1>2, <1>4, <1>5, <2>2 DEF About
    <3>2. count'[v] = count[v]
      BY <1>2, <1>6, <2>2
    <3> QED  BY <2>1, <3>1, <3>2
  <2>3. CASE v = u /\ counted
    <3>1. pc[c] = "rate_write" /\ dropped' = dropped /\ count'[u] = readCount[c] + 1
      BY <1>2, <1>6, <2>3
    <3>2. T = S \cup {r} /\ r \notin S
      BY <1>2, <1>4, <1>5, <2>3, <3>1 DEF About
    <3>3. readCount[c] = count[u]
      BY <2>3, <3>1 DEF Counting
    <3>4. IsFiniteSet(S)
      BY FiniteReviews DEF About
    <3>5. Cardinality(T) = Cardinality(S) + 1
      BY <3>2, <3>4, FS_AddElement
    <3> QED  BY <2>1, <2>3, <3>1, <3>3, <3>5
  <2> QED  BY <2>2, <2>3
<1> QED  BY <1>10, <1>11, <1>12, <1>13, <1>14, <1>15 DEF Counting

\* Every step keeps the counts.
LEMMA CountingStep == TypeOK /\ Held /\ Rows /\ Counting /\ [Next]_vars => Counting'
<1> SUFFICES ASSUME TypeOK, Held, Rows, Counting, [Next]_vars PROVE Counting'
  OBVIOUS
<1> USE DEF Goto, At, users, locals, history
<1>0. LocalTypes /\ RowTypes
  BY DEF TypeOK, LocalTypes, RowTypes
<1>1. ASSUME NEW c \in Calls, NEW r \in Requests, Submit(c, r) PROVE Counting'
  BY <1>0, <1>1, CountingKept DEF Submit, Rating, LocalTypes
<1>2. ASSUME NEW c \in Calls, CheckEligible(c) PROVE Counting'
  BY <1>0, <1>2, Left, CountingKept DEF CheckEligible, Rating, LocalTypes
<1>3. ASSUME NEW c \in Calls, CheckExisting(c) PROVE Counting'
  BY <1>0, <1>3, Left, CountingKept DEF CheckExisting, Rating, LocalTypes
<1>4. ASSUME NEW c \in Calls, Insert(c) PROVE Counting'
  <2>1. CASE Stored(draft[c])
    BY <1>4, <2>1, Left, CountingKept DEF Insert, Rating
  <2>2. CASE ~Stored(draft[c])
    <3> DEFINE r == draft[c]
    <3>1. /\ reviews' = reviews \cup {r} /\ raced' = Race(c) /\ r \notin reviews
          /\ UNCHANGED <<locals, count, applied, dropped>> /\ pc[c] = "insert"
      BY <1>4, <2>2 DEF Insert, Stored
    <3>2. pc'[c] = "rate_read" /\ \A d \in Calls \ {c} : pc'[d] = pc[d]
      BY <1>4, <2>2, <1>0 DEF Insert, LocalTypes
    <3>3. Rating(c)' /\ ~Rating(c) /\ \A d \in Calls \ {c} : Rating(d)' <=> Rating(d)
      BY <3>1, <3>2 DEF Rating
    <3>4. raced \subseteq raced'
          /\ \A d \in Calls \ {c} : Rates(d, r.reviewed) => r.reviewed \in raced'
      BY <3>1 DEF Race
    <3>5. \A d \in Calls : Rating(d)' => draft'[d] \in reviews' \ (applied' \cup dropped')
      BY <1>0, <3>1, <3>3 DEF Counting, RowTypes
    <3>6. \A d, e \in Calls : Rating(d)' /\ Rating(e)' /\ draft'[d] = draft'[e] => d = e
      BY <3>1, <3>3 DEF Counting
    <3>7. \A d, e \in Calls : Rating(d)' /\ Rates(e, draft[d].reviewed)'
                                => d = e \/ (draft[d].reviewed)' \in raced'
      BY <3>1, <3>3, <3>4 DEF Counting, Rates
    <3>8. \A v : Applied(v)' = Applied(v)
      BY <3>1 DEF Applied
    <3>9. \A d \in Calls : pc'[d] = "rate_write" =>
             /\ readCount'[d] <= Cardinality(Applied(draft[d].reviewed)')
             /\ (draft[d].reviewed)' \in raced' \/ readCount'[d] = count'[(draft[d].reviewed)']
      BY <3>1, <3>2, <3>4, <3>8 DEF Counting
    <3>10. CountNeverAhead'
      BY <3>1, <3>8 DEF Counting, CountNeverAhead
    <3>11. InFlight' = InFlight \cup {r}
      BY <3>1, <3>3 DEF InFlight
    <3>12. \A v : About(v)' \ (InFlight' \cup dropped') = About(v) \ (InFlight \cup dropped)
      BY <3>1, <3>11 DEF About
    <3>13. RatingCountsReviews'
      BY <3>1, <3>4, <3>12 DEF Counting, RatingCountsReviews
    <3> QED  BY <3>5, <3>6, <3>7, <3>9, <3>10, <3>13 DEF Counting
  <2> QED  BY <2>1, <2>2
<1>5. ASSUME NEW c \in Calls, RateRead(c) PROVE Counting'
  <2> DEFINE u == draft[c].reviewed
  <2>1. u \in Users
    BY <1>5, RequestFields DEF RateRead, Held, LocalsOf, Reviewing
  <2>2. /\ pc'[c] = "rate_write" /\ readCount'[c] = count[u] /\ pc[c] = "rate_read"
        /\ \A d \in Calls \ {c} : pc'[d] = pc[d] /\ readCount'[d] = readCount[d]
        /\ UNCHANGED <<draft, reviews, count, applied, dropped, raced>>
    BY <1>0, <1>5 DEF RateRead, LocalTypes
  <2>3. \A d \in Calls : Rating(d)' <=> Rating(d)
    BY <2>2 DEF Rating
  <2>4. InFlight' = InFlight
    BY <2>2, <2>3 DEF InFlight
  <2>5. \A v : About(v)' = About(v) /\ Applied(v)' = Applied(v)
    BY <2>2 DEF About, Applied
  <2>6. CountNeverAhead' /\ RatingCountsReviews'
    BY <2>2, <2>4, <2>5 DEF Counting, CountNeverAhead, RatingCountsReviews
  <2>7. count[u] <= Cardinality(Applied(u))
    BY <2>1 DEF Counting, CountNeverAhead
  <2>8. \A d \in Calls : pc'[d] = "rate_write" =>
           /\ readCount'[d] <= Cardinality(Applied(draft[d].reviewed)')
           /\ (draft[d].reviewed)' \in raced' \/ readCount'[d] = count'[(draft[d].reviewed)']
    BY <2>2, <2>5, <2>7 DEF Counting
  <2> QED  BY <2>2, <2>3, <2>6, <2>8 DEF Counting, Rates
<1>6. ASSUME NEW c \in Calls, RateWrite(c) PROVE Counting'
  BY <1>6, CountingDone DEF RateWrite, Rating
<1>7. ASSUME NEW c \in Calls, NEW j \in Journeys, Finish(c, j) PROVE Counting'
  BY <1>0, <1>7, CountingKept DEF Finish, Rating, LocalTypes
<1>8. ASSUME NEW c \in Calls, FinishMark(c) PROVE Counting'
  BY <1>0, <1>8, CountingKept DEF FinishMark, Rating, LocalTypes
<1>9. ASSUME NEW c \in Calls, FinishDriver(c) PROVE Counting'
  BY <1>0, <1>9, CountingKept DEF FinishDriver, Rating, LocalTypes, CountRide
<1>10. ASSUME NEW c \in Calls, FinishList(c) PROVE Counting'
  BY <1>0, <1>10, CountingKept DEF FinishList, Rating, LocalTypes
<1>11. ASSUME NEW c \in Calls, NEW u \in Users, FinishBooking(c, u) PROVE Counting'
  BY <1>0, <1>11, CountingKept DEF FinishBooking, Rating, LocalTypes
<1>12. ASSUME NEW c \in Calls, FinishRide(c) PROVE Counting'
  BY <1>0, <1>12, CountingKept DEF FinishRide, Rating, LocalTypes, CountRide
<1>13. ASSUME NEW c \in Calls, FinishDone(c) PROVE Counting'
  BY <1>0, <1>13, Left, CountingKept DEF FinishDone, Rating, LocalTypes
<1>14. ASSUME NEW c \in Calls, Fail(c) PROVE Counting'
  <2>1. CASE Rating(c)
    BY <1>14, <2>1, CountingDone DEF Fail
  <2>2. CASE ~Rating(c)
    BY <1>14, <2>2, Left, CountingKept DEF Fail, Rating
  <2> QED  BY <2>1, <2>2
<1>15. ASSUME NEW j \in Journeys, NEW u \in Users, Confirm(j, u) PROVE Counting'
  BY <1>0, <1>15, CountingKept DEF Confirm, Rating, LocalTypes
<1>16. ASSUME NEW j \in Journeys, NEW u \in Users, Cancel(j, u) PROVE Counting'
  BY <1>0, <1>16, CountingKept DEF Cancel, Rating, LocalTypes
<1>17. ASSUME NEW j \in Journeys, NEW u \in Users, Reject(j, u) PROVE Counting'
  BY <1>0, <1>17, CountingKept DEF Reject, Rating, LocalTypes
<1>18. CASE UNCHANGED vars
  BY <1>18, CountingKept DEF vars, Rating
<1> QED
  BY <1>1, <1>2, <1>3, <1>4, <1>5, <1>6, <1>7, <1>8, <1>9, <1>10, <1>11, <1>12, <1>13, <1>14,
     <1>15, <1>16, <1>17, <1>18 DEF Next

\* An average of n ratings, times n, is as near to their total as n roundings leave it, the
\* k-th of which counts k times.
Within(avg, n, total) ==
    /\ 4 * (avg * n - total) <= n * (n + 1)
    /\ 4 * (total - avg * n) <= n * (n + 1)

Total(u) == 100 * SumOver(Stars, Applied(u))

\* What an update has read is still the average, and every average is near its mean, of
\* those whose updates did not overlap.
NearMean ==
    /\ \A u \in Users \ raced : Within(average[u], count[u], Total(u))
    /\ \A c \in Calls : pc[c] = "rate_write" =>
          \/ draft[c].reviewed \in raced
          \/ readAverage[c] = average[draft[c].reviewed]

\* Rounding is off by half at most.
LEMMA RoundedNear ==
    ASSUME NEW x \in Int, NEW d \in Nat, d > 0
    PROVE  /\ Rounded(x, d) \in Int
           /\ 2 * (Rounded(x, d) * d - x) <= d
           /\ 2 * (x - Rounded(x, d) * d) <= d
<1> DEFINE q == (2 * x + d) \div (2 * d)
<1>1. q \in Int /\ (2 * d) * q <= 2 * x + d /\ 2 * x + d < (2 * d) * q + 2 * d
  OBVIOUS
<1> HIDE DEF q
<1>2. (2 * d) * q = 2 * (q * d) /\ q * d \in Int
  BY <1>1
<1>3. Rounded(x, d) = q
  BY DEF Rounded, q
<1> QED  BY <1>1, <1>2, <1>3

\* One more update adds its own rounding to those before.
LEMMA UpdateStaysNear ==
    ASSUME NEW avg \in Int, NEW n \in Nat, NEW r \in Int, NEW total \in Int,
           Within(avg, n, total)
    PROVE  Within(NewAverage(avg, n, r), n + 1, total + 100 * r)
<1> DEFINE p == avg * n
           x == p + 100 * r
           d == n + 1
           new == NewAverage(avg, n, r)
           e == new * d
<1>1. p \in Int /\ d \in Nat /\ d > 0 /\ x \in Int
  OBVIOUS
<1>2. new \in Int /\ 2 * (e - x) <= d /\ 2 * (x - e) <= d
  <2>1. new = Rounded(x, d)
    BY DEF NewAverage
  <2> HIDE DEF new, x, d
  <2> QED  BY <1>1, <2>1, RoundedNear
<1>3. e \in Int
  BY <1>1, <1>2
<1>4. n * (n + 1) \in Int /\ (n + 1) * ((n + 1) + 1) = n * (n + 1) + 2 * (n + 1)
  OBVIOUS
<1>5. 4 * (p - total) <= n * (n + 1) /\ 4 * (total - p) <= n * (n + 1)
  BY DEF Within
<1> DEFINE m == n * (n + 1)
<1>6. 4 * (e - (total + 100 * r)) <= m + 2 * d /\ 4 * ((total + 100 * r) - e) <= m + 2 * d
  <2>1. x = p + 100 * r /\ m \in Int /\ 4 * (p - total) <= m /\ 4 * (total - p) <= m
    BY <1>4, <1>5
  <2> HIDE DEF p, x, d, e, m
  <2> QED  BY <1>1, <1>2, <1>3, <2>1
<1>7. m + 2 * d = d * (d + 1)
  BY <1>4
<1> QED  BY <1>6, <1>7 DEF Within

\* The ratings counted of a user are finitely many, of one to five stars each.
LEMMA StarsCounted ==
    ASSUME TypeOK, Rows, NEW u
    PROVE  /\ IsFiniteSet(Applied(u)) /\ \A r \in Applied(u) : Stars[r] \in Int
           /\ Total(u) \in Int
<1>1. Applied(u) \in SUBSET reviews
  BY DEF Applied, TypeOK
<1>2. IsFiniteSet(Applied(u))
  BY <1>1, FiniteReviews, FS_Subset
<1>3. \A r \in Applied(u) : Stars[r] \in Int
  BY <1>1, RequestFields DEF Rows, Stars
<1>4. SumOver(Stars, Applied(u)) \in Int
  BY <1>2, <1>3, SumType
<1> QED  BY <1>2, <1>3, <1>4 DEF Total

\* A step of no update changes neither.
LEMMA NearKept ==
    ASSUME NearMean, UNCHANGED <<average, count, applied>>, raced \subseteq raced',
           \A d \in Calls : pc'[d] = "rate_write" =>
              /\ pc[d] = "rate_write" /\ draft'[d] = draft[d]
              /\ readAverage'[d] = readAverage[d]
    PROVE  NearMean'
<1>1. \A u : Total(u)' = Total(u)
  BY DEF Total, Applied, Stars
<1> QED  BY <1>1 DEF NearMean

\* A call that answers takes no update with it.
LEMMA NearLeft ==
    ASSUME TypeOK, NearMean, NEW c \in Calls, Leave(c),
           UNCHANGED <<average, count, applied, raced>>
    PROVE  NearMean'
BY Left, NearKept

\* Every step keeps the averages near their means: an update adds one rating to those counted
\* and is the only one at work on its user.
LEMMA NearStep ==
    TypeOK /\ Held /\ Rows /\ Counting /\ NearMean /\ [Next]_vars => NearMean'
<1> SUFFICES ASSUME TypeOK, Held, Rows, Counting, NearMean, [Next]_vars PROVE NearMean'
  OBVIOUS
<1> USE DEF Goto, At, users, locals, history
<1>0. LocalTypes /\ RowTypes
  BY DEF TypeOK, LocalTypes, RowTypes
<1>1. ASSUME NEW c \in Calls, NEW r \in Requests, Submit(c, r) PROVE NearMean'
  BY <1>0, <1>1, NearKept DEF Submit, LocalTypes
<1>2. ASSUME NEW c \in Calls, CheckEligible(c) PROVE NearMean'
  BY <1>0, <1>2, NearLeft, NearKept DEF CheckEligible, LocalTypes
<1>3. ASSUME NEW c \in Calls, CheckExisting(c) PROVE NearMean'
  BY <1>0, <1>3, NearLeft, NearKept DEF CheckExisting, LocalTypes
<1>4. ASSUME NEW c \in Calls, Insert(c) PROVE NearMean'
  <2>1. CASE Stored(draft[c])
    BY <1>4, <2>1, NearLeft DEF Insert
  <2>2. CASE ~Stored(draft[c])
    <3>1. raced \subseteq raced'
      BY <1>4, <2>2 DEF Insert, Race
    <3>2. UNCHANGED <<locals, average, count, applied>>
      BY <1>4, <2>2 DEF Insert
    <3>3. \A d \in Calls : pc'[d] = "rate_write" => pc[d] = "rate_write"
      BY <1>0, <1>4, <2>2 DEF Insert, LocalTypes
    <3> QED  BY <3>1, <3>2, <3>3, NearKept
  <2> QED  BY <2>1, <2>2
<1>5. ASSUME NEW c \in Calls, RateRead(c) PROVE NearMean'
  <2>1. readAverage'[c] = average[draft[c].reviewed] /\ UNCHANGED <<draft, average, count>>
    BY <1>0, <1>5 DEF RateRead, LocalTypes
  <2>2. \A d \in Calls \ {c} : pc'[d] = pc[d] /\ readAverage'[d] = readAverage[d]
    BY <1>0, <1>5 DEF RateRead, LocalTypes
  <2>3. UNCHANGED <<applied, raced>>
    BY <1>5 DEF RateRead
  <2>4. \A u : Total(u)' = Total(u)
    BY <2>3 DEF Total, Applied, Stars
  <2> QED  BY <2>1, <2>2, <2>3, <2>4 DEF NearMean
<1>6. ASSUME NEW c \in Calls, RateWrite(c) PROVE NearMean'
  <2>1. PICK r \in Requests : r = draft[c]
    BY <1>6 DEF RateWrite, Held, LocalsOf, Reviewing
  <2>2. PICK u \in Users : u = r.reviewed
    BY RequestFields
  <2>3. PICK n \in Nat : n = readCount[c]
    BY <1>0 DEF LocalTypes
  <2>4. PICK a \in 100..500 : a = readAverage[c]
    BY <1>0, <1>6 DEF RateWrite, LocalTypes, Held, LocalsOf
  <2>5. /\ Rating(c) /\ pc[c] = "rate_write" /\ Leave(c)
        /\ average' = [average EXCEPT ![u] = NewAverage(a, n, r.rating)]
        /\ count' = [count EXCEPT ![u] = n + 1]
        /\ applied' = applied \cup {r} /\ raced' = raced
    BY <1>6, <2>1, <2>2, <2>3, <2>4 DEF RateWrite, Rating
  <2>6. /\ average'[u] = NewAverage(a, n, r.rating) /\ count'[u] = n + 1
        /\ \A v \in Users \ {u} : average'[v] = average[v] /\ count'[v] = count[v]
    BY <1>0, <2>5 DEF RowTypes
  <2>7. r \in reviews \ applied
    BY <2>1, <2>5 DEF Counting
  <2>8. \A v \in Users \ {u} : Total(v)' = Total(v)
    BY <2>2, <2>5 DEF Total, Applied, Stars
  <2>9. \A v \in Users \ raced' : Within(average[v]', count[v]', Total(v)')
    <3>1. ASSUME u \notin raced PROVE Within(average'[u], count'[u], Total(u)')
      <4>1. n = count[u] /\ a = average[u]
        BY <2>1, <2>2, <2>3, <2>4, <2>5, <3>1 DEF Counting, NearMean
      <4>2. Within(a, n, Total(u))
        BY <3>1, <4>1 DEF NearMean
      <4>3. Applied(u)' = Applied(u) \cup {r} /\ r \notin Applied(u)
        BY <2>2, <2>5, <2>7 DEF Applied
      <4>4. Stars[r] = r.rating /\ r.rating \in Int
        BY RequestFields DEF Stars
      <4>5. Stars' = Stars
        BY DEF Stars
      <4>6. SumOver(Stars, Applied(u) \cup {r}) = Stars[r] + SumOver(Stars, Applied(u))
        <5>1. /\ IsFiniteSet(Applied(u)) /\ Stars[r] \in Int
              /\ \A q \in Applied(u) : Stars[q] \in Int
          BY <4>4, StarsCounted
        <5> QED  BY <4>3, <5>1, SumAddOne
      <4>7. SumOver(Stars, Applied(u)) \in Int
        BY StarsCounted, SumType
      <4>8. Total(u)' = Total(u) + 100 * r.rating
        <5>1. Total(u)' = 100 * SumOver(Stars, Applied(u) \cup {r})
          BY <4>3, <4>5 DEF Total
        <5> QED  BY <4>4, <4>6, <4>7, <5>1 DEF Total
      <4>9. Total(u) \in Int /\ a \in Int
        BY StarsCounted
      <4>10. Within(NewAverage(a, n, r.rating), n + 1, Total(u) + 100 * r.rating)
        BY <4>2, <4>4, <4>9, UpdateStaysNear
      <4> QED  BY <2>6, <4>8, <4>10
    <3>2. ASSUME NEW v \in Users \ {u}, v \notin raced
          PROVE  Within(average'[v], count'[v], Total(v)')
      BY <2>6, <2>8, <3>2 DEF NearMean
    <3> QED  BY <2>5, <3>1, <3>2
  <2>10. ASSUME NEW d \in Calls, pc'[d] = "rate_write"
         PROVE  (draft[d].reviewed)' \in raced' \/ readAverage'[d] = average'[(draft[d].reviewed)']
    <3>1. d # c /\ pc[d] = "rate_write" /\ draft'[d] = draft[d]
          /\ readAverage'[d] = readAverage[d]
      BY <2>5, <2>10, Left
    <3>2. draft[d] \in Requests
      BY <3>1 DEF Held, LocalsOf, Reviewing
    <3>3. PICK v \in Users : v = draft[d].reviewed
      BY <3>2, RequestFields
    <3>4. v = u => u \in raced
      BY <2>1, <2>2, <2>5, <3>1, <3>3 DEF Counting, Rates, Rating
    <3>5. v \in raced \/ readAverage[d] = average[v]
      BY <3>1, <3>3 DEF NearMean
    <3> QED  BY <2>5, <2>6, <3>1, <3>3, <3>4, <3>5
  <2> QED  BY <2>9, <2>10 DEF NearMean
<1>7. ASSUME NEW c \in Calls, NEW j \in Journeys, Finish(c, j) PROVE NearMean'
  BY <1>0, <1>7, NearKept DEF Finish, LocalTypes
<1>8. ASSUME NEW c \in Calls, FinishMark(c) PROVE NearMean'
  BY <1>0, <1>8, NearKept DEF FinishMark, LocalTypes
<1>9. ASSUME NEW c \in Calls, FinishDriver(c) PROVE NearMean'
  BY <1>0, <1>9, NearKept DEF FinishDriver, LocalTypes
<1>10. ASSUME NEW c \in Calls, FinishList(c) PROVE NearMean'
  BY <1>0, <1>10, NearKept DEF FinishList, LocalTypes
<1>11. ASSUME NEW c \in Calls, NEW u \in Users, FinishBooking(c, u) PROVE NearMean'
  BY <1>0, <1>11, NearKept DEF FinishBooking, LocalTypes
<1>12. ASSUME NEW c \in Calls, FinishRide(c) PROVE NearMean'
  BY <1>0, <1>12, NearKept DEF FinishRide, LocalTypes
<1>13. ASSUME NEW c \in Calls, FinishDone(c) PROVE NearMean'
  BY <1>13, NearLeft DEF FinishDone
<1>14. ASSUME NEW c \in Calls, Fail(c) PROVE NearMean'
  BY <1>14, NearLeft DEF Fail
<1>15. ASSUME NEW j \in Journeys, NEW u \in Users, Confirm(j, u) PROVE NearMean'
  BY <1>15, NearKept DEF Confirm
<1>16. ASSUME NEW j \in Journeys, NEW u \in Users, Cancel(j, u) PROVE NearMean'
  BY <1>16, NearKept DEF Cancel
<1>17. ASSUME NEW j \in Journeys, NEW u \in Users, Reject(j, u) PROVE NearMean'
  BY <1>17, NearKept DEF Reject
<1>18. CASE UNCHANGED vars
  BY <1>18, NearKept DEF vars
<1> QED
  BY <1>1, <1>2, <1>3, <1>4, <1>5, <1>6, <1>7, <1>8, <1>9, <1>10, <1>11, <1>12, <1>13, <1>14,
     <1>15, <1>16, <1>17, <1>18 DEF Next

\* The ending of a journey that a call is at work on.
Ending(c) == <<ride[c], term[c]>>

\* The endings of the journeys a user drove, and of those he was confirmed on.
Drove(u) == {e \in endings : DriverOf[e[1]] = u}
Rode(u)  == {e \in endings : <<e[1], u>> \in confirmed}

\* A call is still to count the ride of its driver, or of a passenger.
DriverDue(e)   == \E c \in Calls : Ending(c) = e /\ pc[c] = "end_driver"
RiderDue(e, u) == \E c \in Calls :
                     /\ Ending(c) = e
                     /\ \/ pc[c] \in {"end_driver", "end_list"} \/ u \in todo[c]
                        \/ pc[c] = "end_ride" /\ rider[c] = u

CountedDriver(u) == {e \in Drove(u) : ~DriverDue(e)}
CountedRider(u)  == {e \in Rode(u) : ~RiderDue(e, u)}

\* No ride is counted before it is due, unless two calls completed the journey at once.
RidesDue(u) ==
    (\A e \in Drove(u) \cup Rode(u) : e[1] \notin doubled) =>
        rides[u] <= Cardinality(CountedDriver(u)) + Cardinality(CountedRider(u))

\* Where a call is between its steps, and the endings so far.
Ended ==
    /\ IsFiniteSet(endings)
    /\ \A c \in Calls : pc[c] \in Finishing \ {"end_mark"} => Ending(c) \in endings
    /\ \A c \in Calls : pc[c] = "end_mark" => Ending(c) \notin endings \/ ride[c] \in doubled
    /\ \A c, d \in Calls : ride[c] # None /\ ride[c] = ride[d] => c = d \/ ride[c] \in doubled

\* A journey that is not completed has not had the ending it may come to.
Fresh ==
    /\ \A j \in Journeys : <<j, again[j]>> \in endings => j \in completed
    /\ \A j \in Journeys, n \in Nat : n > again[j] => <<j, n>> \notin endings
    /\ \A c \in Calls, j \in Journeys : ride[c] = j => term[c] <= again[j]

Riding == Ended /\ Fresh /\ \A u \in Users : RidesDue(u)

\* Endings are finite in number.
LEMMA FiniteRides ==
    ASSUME IsFiniteSet(endings), NEW u
    PROVE  /\ IsFiniteSet(Drove(u)) /\ IsFiniteSet(Rode(u))
           /\ IsFiniteSet(CountedDriver(u)) /\ IsFiniteSet(CountedRider(u))
           /\ Cardinality(CountedDriver(u)) \in Nat /\ Cardinality(CountedRider(u)) \in Nat
           /\ Cardinality(Drove(u)) \in Nat /\ Cardinality(Rode(u)) \in Nat
<1>1. /\ Drove(u) \in SUBSET endings /\ Rode(u) \in SUBSET endings
      /\ CountedDriver(u) \in SUBSET endings /\ CountedRider(u) \in SUBSET endings
  BY DEF Drove, Rode, CountedDriver, CountedRider
<1> QED  BY <1>1, FS_Subset, FS_CardinalityType

\* A step that counts no ride and makes none due that was counted keeps the bound.
LEMMA NoneCounted ==
    ASSUME TypeOK, Riding, IsFiniteSet(endings'), NEW u \in Users, rides'[u] = rides[u],
           endings \subseteq endings', confirmed \subseteq confirmed',
           doubled \subseteq doubled',
           \A e \in endings :
               /\ DriverDue(e)' => DriverDue(e) \/ e[1] \in doubled'
               /\ RiderDue(e, u)' => RiderDue(e, u) \/ e[1] \in doubled'
    PROVE  RidesDue(u)'
<1> SUFFICES ASSUME \A e \in Drove(u)' \cup Rode(u)' : e[1] \notin doubled'
             PROVE  rides[u] <= Cardinality(CountedDriver(u)') + Cardinality(CountedRider(u)')
  BY DEF RidesDue
<1>1. Drove(u) \subseteq Drove(u)' /\ Rode(u) \subseteq Rode(u)'
  BY DEF Drove, Rode
<1>2. rides[u] <= Cardinality(CountedDriver(u)) + Cardinality(CountedRider(u))
  BY <1>1 DEF Riding, RidesDue
<1>3. CountedDriver(u) \in SUBSET (CountedDriver(u)') /\
        CountedRider(u) \in SUBSET (CountedRider(u)')
  BY <1>1 DEF CountedDriver, CountedRider, Drove, Rode
<1>4. /\ IsFiniteSet(CountedDriver(u)') /\ IsFiniteSet(CountedRider(u)')
      /\ Cardinality(CountedDriver(u)') \in Nat /\ Cardinality(CountedRider(u)') \in Nat
  <2>1. /\ CountedDriver(u)' \in SUBSET endings' /\ CountedRider(u)' \in SUBSET endings'
    BY DEF CountedDriver, CountedRider, Drove, Rode
  <2> QED  BY <2>1, FS_Subset, FS_CardinalityType
<1>5. /\ Cardinality(CountedDriver(u)) <= Cardinality(CountedDriver(u)')
      /\ Cardinality(CountedRider(u)) <= Cardinality(CountedRider(u)')
  BY <1>3, <1>4, FS_Subset
<1>6. rides[u] \in Nat /\ Cardinality(CountedDriver(u)) \in Nat /\
        Cardinality(CountedRider(u)) \in Nat
  BY FiniteRides DEF TypeOK, Riding, Ended
<1> QED  BY <1>2, <1>4, <1>5, <1>6

\* Where each call is, of those that finish a journey.
LEMMA AnswersAreDue ==
    ASSUME TypeOK, Held, NEW c \in Calls, Leave(c)
    PROVE  \A e \in endings, u \in Users : /\ DriverDue(e)' => DriverDue(e)
                                           /\ RiderDue(e, u)' => RiderDue(e, u)
<1>1. pc'[c] = "idle" /\ todo'[c] = {}
  BY Left DEF Leave, TypeOK
<1>2. \A d \in Calls \ {c} : /\ pc'[d] = pc[d] /\ ride'[d] = ride[d] /\ term'[d] = term[d]
                             /\ todo'[d] = todo[d] /\ rider'[d] = rider[d]
  BY Left
<1> QED  BY <1>1, <1>2 DEF DriverDue, RiderDue, Ending

\* A call that answers changes nothing of the rides.
LEMMA RidingLeft ==
    ASSUME TypeOK, Held, Riding, NEW c \in Calls, Leave(c),
           UNCHANGED <<rides, completed, confirmed, doubled, again, endings>>
    PROVE  Riding'
<1>1. ride'[c] = None /\ pc'[c] = "idle"
  BY DEF Leave, Goto, TypeOK
<1>2. \A d \in Calls \ {c} : pc'[d] = pc[d] /\ ride'[d] = ride[d] /\ term'[d] = term[d]
  BY Left
<1>3. \A u \in Users : RidesDue(u)'
  BY AnswersAreDue, NoneCounted DEF Riding, Ended
<1>4. Ended'
  BY <1>1, <1>2 DEF Riding, Ended, Ending, Finishing
<1>5. Fresh'
  BY <1>1, <1>2, NoneApart DEF Riding, Fresh
<1> QED  BY <1>3, <1>4, <1>5 DEF Riding

\* Nor do the steps of a call that reviews, nor those of the others.
LEMMA RidingKept ==
    ASSUME TypeOK, Riding,
           UNCHANGED <<rides, completed, ride, todo, rider, term, doubled, again, endings>>,
           confirmed \subseteq confirmed',
           \A c \in Calls : pc'[c] = pc[c] \/ pc'[c] \notin Finishing
    PROVE  Riding'
<1>1. \A e, u : /\ DriverDue(e)' => DriverDue(e)
                /\ RiderDue(e, u)' => RiderDue(e, u)
  BY DEF DriverDue, RiderDue, Finishing, Ending
<1>2. \A u \in Users : RidesDue(u)'
  BY <1>1, NoneCounted DEF Riding, Ended
<1>3. \A c \in Calls : pc'[c] = "end_mark" => pc[c] = "end_mark"
  BY DEF Finishing
<1> QED  BY <1>2, <1>3 DEF Riding, Ended, Fresh, Ending

\* The next step of a call at work on a journey, which makes nothing due.
LEMMA RidingOn ==
    ASSUME TypeOK, Riding, NEW c \in Calls, pc[c] \in Finishing \ {"end_mark"},
           pc'[c] \in Finishing \ {"end_mark"}, \A d \in Calls \ {c} : pc'[d] = pc[d],
           UNCHANGED <<completed, ride, term, doubled, again, endings>>
    PROVE  Ended' /\ Fresh'
<1>1. Ended'
  BY DEF Riding, Ended, Ending
<1>2. Fresh'
  BY DEF Riding, Fresh
<1> QED  BY <1>1, <1>2

\* Every step keeps the rides counted.
LEMMA RidingStep == TypeOK /\ Held /\ Riding /\ [Next]_vars => Riding'
<1> SUFFICES ASSUME TypeOK, Held, Riding, [Next]_vars PROVE Riding'
  OBVIOUS
<1> USE DEF Goto, At, users, locals, history
<1>0. LocalTypes /\ RowTypes
  BY DEF TypeOK, LocalTypes, RowTypes
<1>1. ASSUME NEW c \in Calls, NEW r \in Requests, Submit(c, r) PROVE Riding'
  BY <1>0, <1>1, RidingKept DEF Submit, LocalTypes, Finishing
<1>2. ASSUME NEW c \in Calls, CheckEligible(c) PROVE Riding'
  <2>1. CASE ~Eligible(draft[c])
    BY <1>2, <2>1, RidingLeft DEF CheckEligible
  <2>2. CASE Eligible(draft[c])
    BY <1>0, <1>2, <2>2, RidingKept DEF CheckEligible, LocalTypes, Finishing
  <2> QED  BY <2>1, <2>2
<1>3. ASSUME NEW c \in Calls, CheckExisting(c) PROVE Riding'
  <2>1. CASE Stored(draft[c])
    BY <1>3, <2>1, RidingLeft DEF CheckExisting
  <2>2. CASE ~Stored(draft[c])
    BY <1>0, <1>3, <2>2, RidingKept DEF CheckExisting, LocalTypes, Finishing
  <2> QED  BY <2>1, <2>2
<1>4. ASSUME NEW c \in Calls, Insert(c) PROVE Riding'
  <2>1. CASE Stored(draft[c])
    BY <1>4, <2>1, RidingLeft DEF Insert
  <2>2. CASE ~Stored(draft[c])
    BY <1>0, <1>4, <2>2, RidingKept DEF Insert, LocalTypes, Finishing
  <2> QED  BY <2>1, <2>2
<1>5. ASSUME NEW c \in Calls, RateRead(c) PROVE Riding'
  BY <1>0, <1>5, RidingKept DEF RateRead, LocalTypes, Finishing
<1>6. ASSUME NEW c \in Calls, RateWrite(c) PROVE Riding'
  BY <1>6, RidingLeft DEF RateWrite
<1>7. ASSUME NEW c \in Calls, NEW j \in Journeys, Finish(c, j) PROVE Riding'
  <2>1. /\ pc'[c] = "end_mark" /\ ride'[c] = j /\ term'[c] = again[j]
        /\ UNCHANGED <<todo, rider, rides, completed, confirmed, again, endings>>
        /\ \A d \in Calls \ {c} : pc'[d] = pc[d] /\ ride'[d] = ride[d] /\ term'[d] = term[d]
    BY <1>0, <1>7 DEF Finish, LocalTypes
  <2>2. todo[c] = {} /\ ride[c] = None
    BY <1>7 DEF Finish, Held, LocalsOf, Finishing
  <2>3. doubled \subseteq doubled' /\ \A d \in Calls : ride[d] = j => j \in doubled'
    BY <1>7 DEF Finish
  <2>4. \A e \in endings, u \in Users : /\ DriverDue(e)' => DriverDue(e)
                                        /\ RiderDue(e, u)' => RiderDue(e, u)
    BY <2>1, <2>2 DEF DriverDue, RiderDue, Ending
  <2>5. \A u \in Users : RidesDue(u)'
    BY <1>0, <2>1, <2>3, <2>4, NoneCounted DEF RowTypes, Riding, Ended
  <2>6. \A d, e \in Calls :
            ride'[d] # None /\ ride'[d] = ride'[e] => d = e \/ ride'[d] \in doubled'
    BY <2>1, <2>3 DEF Riding, Ended
  <2>7. <<j, again[j]>> \notin endings
    BY <1>7 DEF Finish, Riding, Fresh
  <2>8. Ended'
    BY <2>1, <2>3, <2>6, <2>7 DEF Riding, Ended, Ending, Finishing
  <2>9. again[j] \in Nat
    BY <1>0 DEF RowTypes
  <2>10. Fresh'
    BY <2>1, <2>9 DEF Riding, Fresh
  <2> QED  BY <2>5, <2>8, <2>10 DEF Riding
<1>8. ASSUME NEW c \in Calls, FinishMark(c) PROVE Riding'
  <2>1. PICK j \in Journeys : j = ride[c]
    BY <1>0, <1>8 DEF FinishMark, LocalTypes, Held, LocalsOf, Finishing
  <2>2. PICK n \in Nat : n = term[c]
    BY <1>0 DEF LocalTypes
  <2>3. /\ pc[c] = "end_mark" /\ pc'[c] = "end_driver"
        /\ UNCHANGED <<rides, confirmed, doubled, again, ride, term, todo, rider>>
        /\ completed' = completed \cup {j} /\ endings' = endings \cup {<<j, n>>}
        /\ \A d \in Calls \ {c} : pc'[d] = pc[d]
    BY <1>0, <1>8, <2>1, <2>2 DEF FinishMark, LocalTypes
  <2>4. Ending(c) = <<j, n>> /\ \A d \in Calls : Ending(d)' = Ending(d)
    BY <2>1, <2>2, <2>3 DEF Ending
  <2>5. <<j, n>> \notin endings \/ j \in doubled
    BY <2>1, <2>3, <2>4 DEF Riding, Ended
  <2>6. IsFiniteSet(endings')
    BY <2>3, FS_AddElement DEF Riding, Ended
  <2>7. \A u \in Users : \A e \in endings :
           /\ DriverDue(e)' => DriverDue(e) \/ e[1] \in doubled'
           /\ RiderDue(e, u)' => RiderDue(e, u) \/ e[1] \in doubled'
    BY <2>3, <2>4, <2>5 DEF DriverDue, RiderDue
  <2>8. \A u \in Users : RidesDue(u)'
    BY <2>3, <2>6, <2>7, NoneCounted
  <2>9. \A d \in Calls : ride[d] = j => d = c \/ j \in doubled
    BY <2>1, NoneApart DEF Riding, Ended
  <2>10. \A d \in Calls \ {c} :
            pc'[d] = "end_mark" => Ending(d) \notin endings' \/ ride[d] \in doubled
    <3>1. \A d \in Calls : Ending(d) = <<j, n>> => ride[d] = j
      BY DEF Ending
    <3> QED  BY <2>3, <2>9, <3>1 DEF Riding, Ended
  <2>11. Ended'
    BY <2>3, <2>4, <2>6, <2>10 DEF Riding, Ended, Finishing
  <2>12. n <= again[j] /\ again[j] \in Nat
    BY <1>0, <2>1, <2>2 DEF Riding, Fresh, RowTypes
  <2>13. \A k \in Journeys, m \in Nat : m > again[k] => <<k, m>> # <<j, n>>
    BY <2>12
  <2>14. Fresh'
    BY <2>3, <2>13 DEF Riding, Fresh
  <2> QED  BY <2>8, <2>11, <2>14 DEF Riding
<1>9. ASSUME NEW c \in Calls, FinishDriver(c) PROVE Riding'
  <2>1. PICK e \in endings : e = Ending(c)
    BY <1>9 DEF FinishDriver, Riding, Ended, Finishing
  <2>2. ride[c] \in Journeys
    BY <1>0, <1>9 DEF FinishDriver, LocalTypes, Held, LocalsOf, Finishing
  <2>3. PICK v \in Users : v = DriverOf[ride[c]]
    BY <1>9, <2>2, ReviewsAssumption DEF FinishDriver, Held, LocalsOf
  <2>4. /\ pc[c] = "end_driver" /\ pc'[c] = "end_list" /\ CountRide(v)
        /\ UNCHANGED <<confirmed, doubled, completed, again, endings, ride, term, todo>>
        /\ \A d \in Calls \ {c} : pc'[d] = pc[d] /\ rider'[d] = rider[d]
    BY <1>0, <1>9, <2>3 DEF FinishDriver, LocalTypes
  <2>5. rides'[v] = rides[v] + 1 /\ \A u \in Users \ {v} : rides'[u] = rides[u]
    BY <1>0, <2>4, RideIsCounted DEF RowTypes
  <2>6. \A d \in Calls : Ending(d)' = Ending(d)
    BY <2>4 DEF Ending
  <2>7. \A k \in endings, u \in Users : /\ DriverDue(k)' => DriverDue(k)
                                        /\ RiderDue(k, u)' => RiderDue(k, u)
    BY <2>4, <2>6 DEF DriverDue, RiderDue
  <2>8. \A u \in Users \ {v} : RidesDue(u)'
    BY <2>4, <2>5, <2>7, NoneCounted DEF Riding, Ended
  <2>9. RidesDue(v)'
    <3> SUFFICES ASSUME \A k \in Drove(v)' \cup Rode(v)' : k[1] \notin doubled'
                 PROVE  rides'[v] <= Cardinality(CountedDriver(v)') + Cardinality(CountedRider(v)')
      BY DEF RidesDue
    <3>1. Drove(v)' = Drove(v) /\ Rode(v)' = Rode(v)
      BY <2>4 DEF Drove, Rode
    <3>2. rides[v] <= Cardinality(CountedDriver(v)) + Cardinality(CountedRider(v))
      BY <2>4, <3>1 DEF Riding, RidesDue
    <3>3. e \in Drove(v) /\ e[1] = ride[c] /\ ride[c] \notin doubled
      <4>1. e[1] = ride[c]
        BY <2>1 DEF Ending
      <4>2. e \in Drove(v)
        BY <2>1, <2>3, <2>4, <4>1 DEF Drove
      <4> QED  BY <2>4, <3>1, <4>1, <4>2
    <3>4. \A d \in Calls : Ending(d) = e => d = c
      <4>1. \A d \in Calls : Ending(d) = e => ride[d] = ride[c]
        BY <2>1 DEF Ending
      <4> QED  BY <2>2, <3>3, <4>1, NoneApart DEF Riding, Ended
    <3>5. DriverDue(e) /\ ~DriverDue(e)'
      BY <2>1, <2>3, <2>4, <2>6, <3>4 DEF DriverDue, Held, LocalsOf
    <3>6. \A k \in endings \ {e} : DriverDue(k)' <=> DriverDue(k)
      BY <2>1, <2>4, <2>6 DEF DriverDue
    <3>7. CountedDriver(v)' = CountedDriver(v) \cup {e} /\ e \notin CountedDriver(v)
      BY <3>1, <3>3, <3>5, <3>6 DEF CountedDriver, Drove
    <3>8. CountedRider(v)' = CountedRider(v)
      <4>1. \A k \in endings : RiderDue(k, v)' <=> RiderDue(k, v)
        BY <2>4, <2>6 DEF RiderDue
      <4> QED  BY <3>1, <4>1 DEF CountedRider, Drove, Rode
    <3>9. Cardinality(CountedDriver(v)') = Cardinality(CountedDriver(v)) + 1
      BY <3>7, FiniteRides, FS_AddElement DEF Riding, Ended
    <3>10. /\ Cardinality(CountedDriver(v)) \in Nat /\ Cardinality(CountedRider(v)) \in Nat
           /\ rides[v] \in Nat
      BY <1>0, FiniteRides DEF Riding, Ended, RowTypes
    <3> QED  BY <2>5, <3>2, <3>8, <3>9, <3>10
  <2>10. Ended' /\ Fresh'
    BY <2>4, RidingOn DEF Finishing
  <2> QED  BY <2>5, <2>8, <2>9, <2>10 DEF Riding
<1>10. ASSUME NEW c \in Calls, FinishList(c) PROVE Riding'
  <2>1. /\ pc[c] = "end_list" /\ pc'[c] = "end_loop"
        /\ UNCHANGED <<rides, confirmed, doubled, completed, again, endings, ride, term>>
        /\ \A d \in Calls \ {c} : pc'[d] = pc[d] /\ todo'[d] = todo[d] /\ rider'[d] = rider[d]
    BY <1>0, <1>10 DEF FinishList, LocalTypes
  <2>2. \A d \in Calls : Ending(d)' = Ending(d)
    BY <2>1 DEF Ending
  <2>3. \A e \in endings, v \in Users : /\ DriverDue(e)' => DriverDue(e)
                                        /\ RiderDue(e, v)' => RiderDue(e, v)
    BY <1>0, <1>10, <2>1, <2>2 DEF FinishList, DriverDue, RiderDue, LocalTypes
  <2>4. \A v \in Users : RidesDue(v)'
    BY <2>1, <2>3, NoneCounted DEF Riding, Ended
  <2>5. Ended' /\ Fresh'
    BY <2>1, RidingOn DEF Finishing
  <2> QED  BY <2>4, <2>5 DEF Riding
<1>11. ASSUME NEW c \in Calls, NEW u \in Users, FinishBooking(c, u) PROVE Riding'
  <2>1. /\ pc[c] = "end_loop" /\ pc'[c] = "end_ride"
        /\ UNCHANGED <<rides, confirmed, doubled, completed, again, endings, ride, term>>
        /\ \A d \in Calls \ {c} : pc'[d] = pc[d] /\ todo'[d] = todo[d] /\ rider'[d] = rider[d]
    BY <1>0, <1>11 DEF FinishBooking, LocalTypes
  <2>2. \A d \in Calls : Ending(d)' = Ending(d)
    BY <2>1 DEF Ending
  <2>3. \A e \in endings, v \in Users : /\ DriverDue(e)' => DriverDue(e)
                                        /\ RiderDue(e, v)' => RiderDue(e, v)
    BY <1>0, <1>11, <2>1, <2>2 DEF FinishBooking, DriverDue, RiderDue, LocalTypes
  <2>4. \A v \in Users : RidesDue(v)'
    BY <2>1, <2>3, NoneCounted DEF Riding, Ended
  <2>5. Ended' /\ Fresh'
    BY <2>1, RidingOn DEF Finishing
  <2> QED  BY <2>4, <2>5 DEF Riding
<1>12. ASSUME NEW c \in Calls, FinishRide(c) PROVE Riding'
  <2>1. PICK e \in endings : e = Ending(c)
    BY <1>12 DEF FinishRide, Riding, Ended, Finishing
  <2>2. ride[c] \in Journeys
    BY <1>0, <1>12 DEF FinishRide, LocalTypes, Held, LocalsOf, Finishing
  <2>3. PICK v \in Users : v = rider[c]
    BY <1>12, <2>2, ReviewsAssumption DEF FinishRide, Held, LocalsOf
  <2>4. /\ pc[c] = "end_ride" /\ pc'[c] = "end_loop" /\ CountRide(v)
        /\ UNCHANGED <<confirmed, doubled, completed, again, endings, ride, term, todo>>
        /\ \A d \in Calls \ {c} : pc'[d] = pc[d] /\ rider'[d] = rider[d]
    BY <1>0, <1>12, <2>3 DEF FinishRide, LocalTypes
  <2>5. rides'[v] = rides[v] + 1 /\ \A u \in Users \ {v} : rides'[u] = rides[u]
    BY <1>0, <2>4, RideIsCounted DEF RowTypes
  <2>6. \A d \in Calls : Ending(d)' = Ending(d)
    BY <2>4 DEF Ending
  <2>7. \A k \in endings, u \in Users : /\ DriverDue(k)' => DriverDue(k)
                                        /\ RiderDue(k, u)' => RiderDue(k, u)
    BY <2>4, <2>6 DEF DriverDue, RiderDue
  <2>8. \A u \in Users \ {v} : RidesDue(u)'
    BY <2>4, <2>5, <2>7, NoneCounted DEF Riding, Ended
  <2>9. RidesDue(v)'
    <3> SUFFICES ASSUME \A k \in Drove(v)' \cup Rode(v)' : k[1] \notin doubled'
                 PROVE  rides'[v] <= Cardinality(CountedDriver(v)') + Cardinality(CountedRider(v)')
      BY DEF RidesDue
    <3>1. Drove(v)' = Drove(v) /\ Rode(v)' = Rode(v)
      BY <2>4 DEF Drove, Rode
    <3>2. rides[v] <= Cardinality(CountedDriver(v)) + Cardinality(CountedRider(v))
      BY <2>4, <3>1 DEF Riding, RidesDue
    <3>3. e \in Rode(v) /\ e[1] = ride[c] /\ ride[c] \notin doubled
      <4>1. e[1] = ride[c]
        BY <2>1 DEF Ending
      <4>2. e \in Rode(v)
        BY <2>1, <2>3, <2>4, <4>1 DEF Rode, Held, LocalsOf
      <4> QED  BY <2>4, <3>1, <4>1, <4>2
    <3>4. \A d \in Calls : Ending(d) = e => d = c
      <4>1. \A d \in Calls : Ending(d) = e => ride[d] = ride[c]
        BY <2>1 DEF Ending
      <4> QED  BY <2>2, <3>3, <4>1, NoneApart DEF Riding, Ended
    <3>5. RiderDue(e, v) /\ ~RiderDue(e, v)'
      BY <2>1, <2>3, <2>4, <2>6, <3>4 DEF RiderDue, Held, LocalsOf
    <3>6. \A k \in endings \ {e} : RiderDue(k, v)' <=> RiderDue(k, v)
      BY <2>1, <2>4, <2>6 DEF RiderDue
    <3>7. CountedRider(v)' = CountedRider(v) \cup {e} /\ e \notin CountedRider(v)
      BY <3>1, <3>3, <3>5, <3>6 DEF CountedRider, Rode
    <3>8. CountedDriver(v)' = CountedDriver(v)
      <4>1. \A k \in endings : DriverDue(k)' <=> DriverDue(k)
        BY <2>4, <2>6 DEF DriverDue
      <4> QED  BY <3>1, <4>1 DEF CountedDriver, Drove, Rode
    <3>9. Cardinality(CountedRider(v)') = Cardinality(CountedRider(v)) + 1
      BY <3>7, FiniteRides, FS_AddElement DEF Riding, Ended
    <3>10. /\ Cardinality(CountedDriver(v)) \in Nat /\ Cardinality(CountedRider(v)) \in Nat
           /\ rides[v] \in Nat
      BY <1>0, FiniteRides DEF Riding, Ended, RowTypes
    <3> QED  BY <2>5, <3>2, <3>8, <3>9, <3>10
  <2>10. Ended' /\ Fresh'
    BY <2>4, RidingOn DEF Finishing
  <2> QED  BY <2>5, <2>8, <2>9, <2>10 DEF Riding
<1>13. ASSUME NEW c \in Calls, FinishDone(c) PROVE Riding'
  BY <1>13, RidingLeft DEF FinishDone
<1>14. ASSUME NEW c \in Calls, Fail(c) PROVE Riding'
  BY <1>14, RidingLeft DEF Fail
<1>15. ASSUME NEW j \in Journeys, NEW u \in Users, Confirm(j, u) PROVE Riding'
  BY <1>15, RidingKept DEF Confirm
<1>16. ASSUME NEW j \in Journeys, NEW u \in Users, Cancel(j, u) PROVE Riding'
  BY <1>16, RidingKept DEF Cancel
<1>17. ASSUME NEW j \in Journeys, NEW u \in Users, Reject(j, u) PROVE Riding'
  <2>1. /\ UNCHANGED <<rides, pc, ride, todo, rider, term, confirmed, doubled, endings>>
        /\ completed' = completed \ {j}
        /\ again' = IF j \in completed THEN [again EXCEPT ![j] = @ + 1] ELSE again
    BY <1>17 DEF Reject
  <2>2. \A e \in endings, v \in Users : /\ DriverDue(e)' => DriverDue(e)
                                        /\ RiderDue(e, v)' => RiderDue(e, v)
    BY <2>1 DEF DriverDue, RiderDue, Ending
  <2>3. \A v \in Users : RidesDue(v)'
    BY <2>1, <2>2, NoneCounted DEF Riding, Ended
  <2>4. Ended'
    BY <2>1 DEF Riding, Ended, Ending
  <2>5. /\ again \in [Journeys -> Nat] /\ \A k \in Journeys \ {j} : again'[k] = again[k]
        /\ again'[j] = IF j \in completed THEN again[j] + 1 ELSE again[j]
    BY <1>0, <2>1 DEF RowTypes
  <2>6. \A k \in Journeys : again'[k] \in Nat /\ again[k] \in Nat /\ again'[k] >= again[k]
    BY <2>5
  <2>7. <<j, again'[j]>> \notin endings
    <3>1. CASE j \in completed
      BY <2>5, <2>6, <3>1 DEF Riding, Fresh
    <3>2. CASE j \notin completed
      BY <2>5, <3>2 DEF Riding, Fresh
    <3> QED  BY <3>1, <3>2
  <2>8. \A k \in Journeys : <<k, again'[k]>> \in endings => k \in completed'
    BY <2>1, <2>5, <2>7 DEF Riding, Fresh
  <2>9. \A k \in Journeys, n \in Nat : n > again'[k] => <<k, n>> \notin endings
    BY <2>6 DEF Riding, Fresh
  <2>10. \A c \in Calls, k \in Journeys : ride[c] = k => term[c] <= again'[k]
    <3> SUFFICES ASSUME NEW c \in Calls, NEW k \in Journeys, ride[c] = k
                 PROVE  term[c] <= again'[k]
      OBVIOUS
    <3>1. term[c] <= again[k] /\ term[c] \in Nat
      BY <1>0 DEF Riding, Fresh, LocalTypes
    <3> QED  BY <2>6, <3>1
  <2>11. Fresh'
    BY <2>1, <2>8, <2>9, <2>10 DEF Fresh
  <2> QED  BY <2>3, <2>4, <2>11 DEF Riding
<1>18. CASE UNCHANGED vars
  BY <1>18, RidingKept DEF vars
<1> QED
  BY <1>1, <1>2, <1>3, <1>4, <1>5, <1>6, <1>7, <1>8, <1>9, <1>10, <1>11, <1>12, <1>13, <1>14,
     <1>15, <1>16, <1>17, <1>18 DEF Next

Inv == TypeOK /\ Held /\ Rows /\ Counting /\ NearMean /\ Riding

\* Nothing is reviewed or completed at first.
LEMMA InitInv == Init => Inv
<1> SUFFICES ASSUME Init PROVE Inv
  OBVIOUS
<1> USE ReviewsAssumption
<1>1. \A c \in Calls : /\ pc[c] = "idle" /\ draft[c] = None /\ ride[c] = None
                       /\ todo[c] = {} /\ rider[c] = None
  BY DEF Init
<1>2. TypeOK
  <2>1. LocalTypes
    BY DEF Init, LocalTypes, Steps
  <2>2. RowTypes
    BY DEF Init, RowTypes, BookingStatus
  <2> QED  BY <2>1, <2>2 DEF TypeOK, LocalTypes, RowTypes
<1>3. Held
  BY <1>1 DEF Held, LocalsOf, Reviewing, Finishing
<1>4. Rows
  <2>1. \A j \in Journeys, u \in Users :
           Travelled(j, u) => Booked[j][u] = "CONFIRMED"
    BY DEF Init, Travelled
  <2> QED  BY <2>1 DEF Init, Rows, ReviewersTravelled
<1>5. Counting
  <2>1. \A u : About(u) = {} /\ Applied(u) = {}
    BY DEF Init, About, Applied
  <2>2. \A u : About(u) \ (InFlight \cup dropped) = {}
    BY <2>1
  <2>3. CountNeverAhead
    <3> SUFFICES ASSUME NEW u \in Users PROVE count[u] <= Cardinality(Applied(u))
      BY DEF CountNeverAhead
    <3>1. Cardinality(Applied(u)) = 0 /\ count[u] = 0
      BY <2>1, FS_EmptySet DEF Init
    <3> QED  BY <3>1
  <2>4. RatingCountsReviews
    BY <2>2, FS_EmptySet DEF Init, RatingCountsReviews
  <2> QED  BY <1>1, <2>3, <2>4 DEF Counting, Rating, Rates
<1>6. Riding
  <2>1. endings = {} /\ IsFiniteSet(endings)
    BY FS_EmptySet DEF Init
  <2>2. \A u : Cardinality(CountedDriver(u)) \in Nat /\ Cardinality(CountedRider(u)) \in Nat
    BY <2>1, FiniteRides
  <2>3. \A u \in Users : RidesDue(u)
    BY <2>2 DEF Init, RidesDue
  <2>4. Ended
    BY <1>1, <2>1 DEF Ended, Finishing
  <2>5. Fresh
    BY <1>1, <2>1, NoneApart DEF Fresh
  <2> QED  BY <2>3, <2>4, <2>5 DEF Riding
<1>7. NearMean
  <2>1. ASSUME NEW u \in Users PROVE Within(average[u], count[u], Total(u))
    <3>1. Applied(u) = {} /\ count[u] = 0 /\ average[u] = 500
      BY DEF Init, Applied
    <3>2. Total(u) = 0
      BY <3>1, SumEmpty DEF Total
    <3> QED  BY <3>1, <3>2 DEF Within
  <2> QED  BY <1>1, <2>1 DEF NearMean
<1> QED  BY <1>2, <1>3, <1>4, <1>5, <1>6, <1>7 DEF Inv

\* The invariant holds of every behaviour.
THEOREM Correct == Spec => []Inv
<1>1. Inv /\ [Next]_vars => Inv'
  BY TypedStep, HeldStep, CountingStep, NearStep, RidingStep DEF Inv
<1> QED  BY InitInv, <1>1, PTL DEF Spec

\* The count beside a rating never exceeds the reviews stored of the user, and is their
\* number once each was counted, and whoever writes a review or is its subject took part
\* in the journey, for any number of requests at once, but for the overlaps and failures
\* CountsAgree names.
THEOREM RatingsAreCounted == Spec => []CountsAgree
<1>1. Inv => CountsAgree
  BY DEF Inv, Rows, Counting, CountsAgree
<1> QED  BY <1>1, Correct, PTL

\* The average beside a rating is within n (n + 1) / 4 hundredths, summed over the n reviews
\* counted, of their mean, unless two updates of the user overlapped.
THEOREM RatingsAreNearTheirMean == Spec => []RatingNearMean
<1>1. Inv => RatingNearMean
  BY DEF Inv, NearMean, Within, Total, SumOver, RatingNearMean
<1> QED  BY <1>1, Correct, PTL

\* A user's rides are at most the endings of the journeys he drove or was confirmed on, each
\* counted once for every time the journey was completed, unless two requests completed one
\* of them together.
THEOREM RidesAreCountedOnce == Spec => []RidesCountedOnce
<1>1. Inv => RidesCountedOnce
  <2> SUFFICES ASSUME Inv, NEW u \in Users, \A e \in Drove(u) \cup Rode(u) : e[1] \notin doubled
               PROVE  rides[u] <= Cardinality(Drove(u)) + Cardinality(Rode(u))
    BY DEF RidesCountedOnce, Drove, Rode
  <2>1. rides[u] <= Cardinality(CountedDriver(u)) + Cardinality(CountedRider(u))
    BY DEF Inv, Riding, RidesDue
  <2>2. CountedDriver(u) \in SUBSET Drove(u) /\ CountedRider(u) \in SUBSET Rode(u)
    BY DEF CountedDriver, CountedRider
  <2>3. /\ Cardinality(CountedDriver(u)) <= Cardinality(Drove(u))
        /\ Cardinality(CountedRider(u)) <= Cardinality(Rode(u))
    BY <2>2, FiniteRides, FS_Subset DEF Inv, Riding, Ended
  <2>4. rides[u] \in Nat
    BY DEF Inv, TypeOK
  <2> QED  BY <2>1, <2>3, <2>4, FiniteRides DEF Inv, Riding, Ended
<1> QED  BY <1>1, Correct, PTL
================================================================================
