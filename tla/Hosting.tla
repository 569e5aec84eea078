-------------------------------- MODULE Hosting --------------------------------
(***************************************************************************)
(* Rides from both sides, as one: the vehicles and the publishing          *)
(* (Garage), the driver's page of rides and passengers (Roster), the       *)
(* search (Finding) and two tabs of the calculator (Fares).  They have no  *)
(* page and no call in common, and the rows they share are those each lets *)
(* change at any time, so that one of them per behaviour is enough.        *)
(***************************************************************************)
EXTENDS Garage, Roster, Finding, Fares

VARIABLE open   \* the part of the site that is visited

hostVars == <<gVars, rosterVars, findVars, calcVars, open>>

HostInit ==
    /\ open \in {"garage", "roster", "search", "fare", "split"}
    /\ GarageInit /\ RosterInit /\ FindInit /\ CalcInit

HostNext ==
    /\ \/ open = "garage" /\ GarageNext /\ UNCHANGED <<rosterVars, findVars, calcVars>>
       \/ open = "roster" /\ RosterNext /\ UNCHANGED <<gVars, findVars, calcVars>>
       \/ open = "search" /\ FindNext /\ UNCHANGED <<gVars, rosterVars, calcVars>>
       \/ open = "fare" /\ FareNext /\ UNCHANGED <<gVars, rosterVars, findVars>>
       \/ open = "split" /\ SplitNext /\ UNCHANGED <<gVars, rosterVars, findVars>>
    /\ UNCHANGED open

HostSpec == HostInit /\ [][HostNext]_hostVars
===============================================================================
