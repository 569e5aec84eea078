--------------------------------- MODULE Pages ---------------------------------
(***************************************************************************)
(* The pages about vehicles and rides (Hosting) and those of the support   *)
(* and the staff (Backoffice): no call and no row of the one is read by    *)
(* the other, so that a behaviour visits one of them.                      *)
(***************************************************************************)
EXTENDS Hosting, Backoffice

VARIABLE visited

pagesVars == <<hostVars, backVars, visited>>

\* Which tab of the pages that are not visited is open makes no difference.
PagesInit ==
    /\ visited \in {"rides", "support"}
    /\ HostInit /\ BackInit
    /\ visited = "rides" => activeTab = "tickets"
    /\ visited = "support" => open = "garage"

PagesNext ==
    /\ \/ visited = "rides" /\ HostNext /\ UNCHANGED backVars
       \/ visited = "support" /\ BackNext /\ UNCHANGED hostVars
    /\ UNCHANGED visited

PagesSpec == PagesInit /\ [][PagesNext]_pagesVars
===============================================================================
