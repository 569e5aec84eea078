---------------------------- MODULE MCSeatBooking ----------------------------
(* SeatBooking on a small instance: one journey, two bookings.              *)
EXTENDS SeatBooking, TLC

CONSTANTS j1, b1, b2, asha, ravi, h1, h2, w1

Two == {b1, b2}

OneSeat == (j1 :> 1)

\* b1 and b2 compete for the seat.
ToJourney2 == (b1 :> j1 @@ b2 :> j1)
Rivals     == (b1 :> asha @@ b2 :> ravi)
OneEach    == (b1 :> 1 @@ b2 :> 1)

\* The two handlers are interchangeable, and so are the two rivals together
\* with their bookings.
SwapHandlers == Permutations(Handlers)
SwapRivals   == (b1 :> b2 @@ b2 :> b1 @@ asha :> ravi @@ ravi :> asha)
Symmetry == SwapHandlers \cup {SwapRivals}
                \cup {SwapRivals @@ f : f \in SwapHandlers}
==============================================================================
