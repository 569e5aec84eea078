------------------------------ MODULE MCSqliteTx ------------------------------
(* SqliteTx with two or three transactions and a statement outside them.    *)
EXTENDS SqliteTx

CONSTANTS t1, t2, t3, w1
==============================================================================
