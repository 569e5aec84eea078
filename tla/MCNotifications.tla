---------------------------- MODULE MCNotifications ----------------------------
(* Notifications on a small instance.                                       *)
EXTENDS Notifications, TLC

CONSTANTS h1, h2, c1
CallersOf == (h1 :> {"passenger"}) @@ (h2 :> {"driver"})
================================================================================
