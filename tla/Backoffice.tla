------------------------------ MODULE Backoffice ------------------------------
(***************************************************************************)
(* The staff's page as one: the tab that is open decides whether the       *)
(* tickets (Helpdesk) or the users, journeys and reports (Moderation) are  *)
(* worked on.  The tabs share no row and no state but the tab itself, so   *)
(* that one of them per behaviour is enough.                               *)
(***************************************************************************)
EXTENDS Helpdesk, Moderation

VARIABLE activeTab

backVars == <<vars, modVars, activeTab>>

BackInit ==
    /\ activeTab \in {"tickets", "others"}
    /\ Init /\ ModInit

BackNext ==
    /\ \/ activeTab = "tickets" /\ Next /\ UNCHANGED modVars
       \/ activeTab = "others" /\ ModNext /\ UNCHANGED vars
    /\ UNCHANGED activeTab

BackSpec == BackInit /\ [][BackNext]_backVars
===============================================================================
