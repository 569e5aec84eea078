------------------------------ MODULE MCSessions ------------------------------
(* Sessions on a small instance: one browser, two calls at once,            *)
(* two logins.  The server only sees tokens: it is the families that stand  *)
(* for devices.                                                             *)
EXTENDS Sessions, TLC

CONSTANTS d1, c1, c2, f1, f2, r1, r2

\* Calls, families and rows are interchangeable.
Symmetry ==
    {(a @@ b) @@ c : a \in Permutations(Calls), b \in Permutations(Families),
                     c \in Permutations(RowIds)}
==============================================================================
