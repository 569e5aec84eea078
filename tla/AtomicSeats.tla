----------------------------- MODULE AtomicSeats -----------------------------
(***************************************************************************)
(* What the seat inventory of a journey promises, as the README of the    *)
(* repository states it: seats are taken and given back one request at a   *)
(* time, each request sees the number the previous one left, and nobody    *)
(* takes seats that are not there.  SeatBooking is the detailed            *)
(* specification, in which a request reads the number in one statement and *)
(* writes a number computed from it in a later one.                        *)
(***************************************************************************)
EXTENDS Integers

CONSTANTS
    Journeys,     \* the journeys on offer
    TotalSeats,   \* TotalSeats[j]: the seats journey j is published with
    Sizes         \* how many seats a booking can ask for

VARIABLES
    available,    \* available[j]: seats that can still be booked
    sold,         \* sold[j]: seats booked so far
    returned      \* returned[j]: seats given back so far

seatVars == <<available, sold, returned>>

Init ==
    /\ available = TotalSeats
    /\ sold = [j \in Journeys |-> 0]
    /\ returned = [j \in Journeys |-> 0]

\* A booking takes n seats that are there at that moment.
Reserve(j, n) ==
    /\ available[j] >= n
    /\ available' = [available EXCEPT ![j] = @ - n]
    /\ sold' = [sold EXCEPT ![j] = @ + n]
    /\ UNCHANGED returned

\* A booking that ends gives its n seats back.
Return(j, n) ==
    /\ available' = [available EXCEPT ![j] = @ + n]
    /\ returned' = [returned EXCEPT ![j] = @ + n]
    /\ UNCHANGED sold

Next == \E j \in Journeys : \E n \in Sizes : Reserve(j, n) \/ Return(j, n)

Spec == Init /\ [][Next]_seatVars
==============================================================================
