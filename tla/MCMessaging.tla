------------------------------ MODULE MCMessaging ------------------------------
(* Messaging on a small instance.                                           *)
EXTENDS Messaging, TLC

CONSTANTS v1, v2, m1, m2, m3, l1, l2

\* Conversations, messages and loads are interchangeable.
Symmetry ==
    {(a @@ b) @@ c : a \in Permutations(Convs), b \in Permutations(Messages),
                     c \in Permutations(Loads)}
================================================================================
