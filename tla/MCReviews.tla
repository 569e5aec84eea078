------------------------------ MODULE MCReviews ------------------------------
(* Reviews on a small instance: one journey with three passengers, who all  *)
(* review the driver, while the driver reviews one of them.                 *)
EXTENDS Reviews, TLC

CONSTANTS j1, dev, asha, ravi, mina, c1, c2

DevDrives == (j1 :> dev)
Bookings  == (j1 :> (dev :> "NONE" @@ asha :> "CONFIRMED" @@ ravi :> "CONFIRMED"
                        @@ mina :> "REQUESTED"))
From(a, b, n) == [journey |-> j1, reviewer |-> a, reviewed |-> b, rating |-> n]
AllWrite == {From(asha, dev, 4), From(ravi, dev, 4), From(mina, dev, 5)}

\* The calls are interchangeable, and so are the two confirmed passengers.
Symmetry ==
    {a @@ b : a \in Permutations(Calls), b \in Permutations({asha, ravi})}
==============================================================================
