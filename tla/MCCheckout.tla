------------------------------ MODULE MCCheckout ------------------------------
(* Checkout on a small instance.                                            *)
EXTENDS Checkout, TLC

CONSTANTS c1, c2, b1, b2

\* The calls are interchangeable; so are the ids the server draws.
Symmetry == {a @@ b : a \in Permutations(Calls), b \in Permutations(Bookings)}
==============================================================================
