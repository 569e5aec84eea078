------------------------------- MODULE MCPages -------------------------------
(* Pages on a small instance.                                               *)
EXTENDS Pages, TLC

CONSTANTS v1, v2, j1, j2, c1, c2, a1, a2, r1, r2, b1, b2, o1, o2, o3, q1, q2,
          t1, t2, p1, p2, s1, asha, u1, m1, m2, k1, k2

\* b1 for r1 and b2 for r2.
OneEach == b1 :> r1 @@ b2 :> r2

\* Three rides on offer, one above the end of the price slider, two at one price.
PriceOf   == o1 :> 6 @@ o2 :> 2 @@ o3 :> 2
DepartsAt == o1 :> 1 @@ o2 :> 2 @@ o3 :> 3
SomeSeats == o1 :> 1 @@ o2 :> 1 @@ o3 :> 2

\* The rides, each with its booking.
Same    == r1 :> r1 @@ r2 :> r2 @@ b1 :> b1 @@ b2 :> b2
Swapped == r1 :> r2 @@ r2 :> r1 @@ b1 :> b2 @@ b2 :> b1

\* The first two presets of the page.
TwoRoutes == {[km |-> 148, tolls |-> 320], [km |-> 145, tolls |-> 280]}

\* Numbers typed, some of which the fields do not take.
TypedTolls == {-10, 5}
Bills      == {-1, 0, 1, 101}

Swap(x, y) == x :> y @@ y :> x
Stay(x, y) == x :> x @@ y :> y

\* Vehicles, journeys, requests, calls, queries, and the rides with their bookings are
\* interchangeable, and tickets, calls, reports and tasks of the staff; as one page is
\* visited in a behaviour, those of two pages change together.
Symmetry ==
    {a @@ b @@ c :
        a \in {Stay(v1, v2) @@ Stay(a1, a2) @@ Stay(t1, t2),
               Swap(v1, v2) @@ Swap(a1, a2) @@ Swap(t1, t2)},
        b \in {Stay(j1, j2) @@ Same @@ Stay(p1, p2) @@ Stay(k1, k2),
               Swap(j1, j2) @@ Swapped @@ Swap(p1, p2) @@ Swap(k1, k2)},
        c \in {Stay(c1, c2) @@ Stay(q1, q2) @@ Stay(m1, m2),
               Swap(c1, c2) @@ Swap(q1, q2) @@ Swap(m1, m2)}}
===============================================================================
