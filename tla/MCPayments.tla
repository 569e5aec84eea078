------------------------------ MODULE MCPayments ------------------------------
(* Payments on a small instance: two bookings, two orders.                  *)
EXTENDS Payments, TLC

CONSTANTS b1, b2, o1, o2, h1, h2

\* Bookings, orders and handlers are interchangeable.
Symmetry ==
    {f @@ g @@ h : f \in Permutations(Bookings), g \in Permutations(Orders),
                   h \in Permutations(Handlers)}
==============================================================================
