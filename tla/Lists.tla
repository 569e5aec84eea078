-------------------------------- MODULE Lists --------------------------------
(* What lists and queues have in them.                                      *)

Elements(s) == {s[i] : i \in DOMAIN s}
==============================================================================
