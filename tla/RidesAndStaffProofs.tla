-------------------------- MODULE RidesAndStaffProofs --------------------------
(***************************************************************************)
(* What Hosting and Backoffice guarantee, the two compositions of pages    *)
(* that share no state.                                                    *)
(*                                                                         *)
(* Hosting: the vehicles and the publishing, the driver's page, the search *)
(* and the calculator, for any number of vehicles, rides, bookings, calls  *)
(* and queries, and whatever is typed into the calculator.  Backoffice:    *)
(* the tickets, the audit log and the reports, for any number of tickets,  *)
(* users, journeys, reports and requests.  Each part has its own inductive *)
(* invariant, and every step of HostNext or of BackNext is a step of one   *)
(* of the parts and leaves the others.                                     *)
(***************************************************************************)
EXTENDS Hosting, Backoffice, FiniteSetTheorems, TLAPS

-----------------------------------------------------------------------------
(* Garage: vehicles and publishing                                         *)

VehicleOps == {"clear", "insert", "insertDefault", "setDefault", "count", "delete"}
PublishOps == {"publish"} \cup Inserted
GarageOps        == {"idle"} \cup VehicleOps \cup PublishOps

\* The types that GarageTypeOK leaves out, and which of its locals a request has set.
GarageLocals ==
    /\ chosen \in BOOLEAN /\ crossed \in BOOLEAN /\ deleted \subseteq Vehicles
    /\ jSeats \in [Journeys -> Nat] /\ jForm \in [Journeys -> Nat] /\ draft \in Nat \ {0}
    /\ chat \in [Journeys -> {"none", "empty", "driver"}]
    /\ op \in [Calls -> GarageOps] /\ seats \in [Calls -> Nat]
    /\ vehicle \in [Calls -> Vehicles \cup {None}]
    /\ journey \in [Calls -> Journeys \cup {None}]
    /\ \A c \in Calls : /\ op[c] = "idle" <=> vehicle[c] = None
                        /\ op[c] \in PublishOps <=> journey[c] # None

GarageTyped == GarageTypeOK /\ GarageLocals

\* A request that is to insert its vehicle.
AddsVehicle(c) == op[c] \in {"insert", "insertDefault"} \/ (op[c] = "clear" /\ seats[c] # 0)

\* A new vehicle is nobody else's before it is inserted; all the others are or were there.
VehiclesKnown ==
    /\ \A c \in Calls : AddsVehicle(c) =>
          /\ vehicle[c] \notin Kept \cup deleted /\ seats[c] \in Capacities
          /\ \A d \in Calls \ {c} : vehicle[d] # vehicle[c]
    /\ \A c \in Calls : op[c] # "idle" /\ ~AddsVehicle(c) => vehicle[c] \in Kept \cup deleted
    /\ \A j \in Journeys : jVehicle[j] \in {None} \cup Kept \cup deleted

\* The requests between the two statements of a new default.
ClearedDefault == {c \in Calls : op[c] \in {"insertDefault", "setDefault"}}

\* Unless requests overlapped, only one is choosing, and it has no rival row.
DefaultChosen ==
    ~crossed =>
        /\ \A c, d \in Choosing : c = d
        /\ ClearedDefault # {} => default = {}
        /\ chosen /\ ClearedDefault = {} => \E v \in Vehicles : default = {v}

\* A deletion that has counted leaves behind no journey it could have seen, whatever has
\* become of the journey since.
VehiclesUsed ==
    /\ \A j \in Journeys : jStatus[j] # "NONE" => jVehicle[j] \in Kept \/ j \in passedOver \cup late
    /\ \A c \in Calls : op[c] = "delete" =>
          \A j \in Journeys : jVehicle[j] = vehicle[c] => j \in passedOver \cup late

\* The check of the seats still holds when the journey is inserted.
Fitting ==
    /\ SeatsFit
    /\ \A c \in Inserting : vehicle[c] \in Kept =>
          seats[c] < capacity[vehicle[c]] \/ journey[c] \in shrunk

\* One request publishes at a time, and it is the only one at work on the current form.
FormsOut ==
    /\ PublishedOnce
    /\ \A c \in Calls : op[c] \in PublishOps =>
          publishing /\ \A d \in Calls : op[d] \in PublishOps => d = c
    /\ \A c \in Inserting : jStatus[journey[c]] = "NONE"
    /\ \A c \in Calls : op[c] \in Inserted => jStatus[journey[c]] # "NONE"
    /\ \A j \in Journeys : jForm[j] = 0 <=> jStatus[j] = "NONE"
    /\ \A j \in Journeys : jForm[j] = draft /\ j \notin partial
                              => \E c \in Calls : op[c] \in Inserted /\ journey[c] = j

\* What a request that is publishing has stored so far.
PublishStages ==
    /\ PublishedWhole
    /\ \A c \in Calls : op[c] \in {"chat", "member", "answer"} => journey[c] \in stops
    /\ \A c \in Calls : op[c] = "answer" => chat[journey[c]] = "driver"

GarageInv == GarageTyped /\ VehiclesKnown /\ DefaultChosen /\ VehiclesUsed /\ Fitting /\
  FormsOut /\ PublishStages

\* A capacity is at least the seat of the driver.
LEMMA CapacityPositive == \A k \in Capacities : k \in Nat /\ k > 0
BY GarageAssumption

\* What stands for nothing is no vehicle or journey.
LEMMA NoneIsNoRow == None \notin Vehicles /\ None \notin Journeys
BY GarageAssumption

\* The garage is empty at first.
LEMMA GarageInitInv == GarageInit => GarageInv
<1> SUFFICES ASSUME GarageInit PROVE GarageInv
  OBVIOUS
<1>1. GarageTypeOK
  <2>1. \A v \in Vehicles : capacity[v] = 0
    BY DEF GarageInit
  <2>2. Kept = {}
    BY <2>1 DEF Kept
  <2>3. capacity \in [Vehicles -> Capacities \cup {0}]
    BY DEF GarageInit
  <2>4. /\ jStatus \in [Journeys -> Active \cup {"NONE", "COMPLETED"}]
        /\ jVehicle \in [Journeys -> Vehicles \cup {None}]
    BY DEF GarageInit
  <2>5. \A j \in Journeys : jStatus[j] = "NONE" /\ jVehicle[j] = None /\ jForm[j] = 0
    BY DEF GarageInit
  <2>6. default = {} /\ deleted = {} /\ stops = {} /\ publishing = FALSE /\ draft = 1
    BY DEF GarageInit
  <2>7. default \subseteq Kept /\ deleted \cap Kept = {}
    BY <2>2, <2>6
  <2>8. \A j \in Journeys : jForm[j] \in 0..draft
    BY <2>5, <2>6
  <2>9. stops \subseteq {j \in Journeys : jStatus[j] # "NONE"} /\ publishing \in BOOLEAN
    BY <2>6
  <2> QED
    BY <2>3, <2>4, <2>5, <2>7, <2>8, <2>9 DEF GarageTypeOK
<1>2. GarageLocals
  <2>1. op \in [Calls -> GarageOps] /\ \A c \in Calls :
                                           op[c] = "idle" /\ "idle" \notin PublishOps
    BY DEF GarageInit, GarageOps, PublishOps, Inserted
  <2>2. /\ jSeats \in [Journeys -> Nat] /\ jForm \in [Journeys -> Nat] /\ draft \in Nat \ {0}
        /\ chat \in [Journeys -> {"none", "empty", "driver"}] /\ seats \in [Calls -> Nat]
    BY DEF GarageInit
  <2> QED
    BY <2>1, <2>2 DEF GarageInit, GarageLocals
<1>3. VehiclesKnown
  BY DEF GarageInit, VehiclesKnown, AddsVehicle
<1>4. DefaultChosen
  BY DEF GarageInit, DefaultChosen, Choosing
<1>5. VehiclesUsed
  BY DEF GarageInit, VehiclesUsed
<1>6. Fitting
  BY DEF GarageInit, Fitting, SeatsFit, Kept
<1>7. FormsOut
  BY DEF GarageInit, FormsOut, PublishedOnce, Inserting, PublishOps, Inserted
<1>8. PublishStages
  BY DEF GarageInit, PublishStages, PublishedWhole
<1> QED
  BY <1>1, <1>2, <1>3, <1>4, <1>5, <1>6, <1>7, <1>8 DEF GarageInv, GarageTyped

\* Every step of the vehicles and of the publishing keeps the invariant.
LEMMA GarageStep == GarageInv /\ [GarageNext]_gVars => GarageInv'
<1> SUFFICES ASSUME GarageInv, [GarageNext]_gVars PROVE GarageInv'
  OBVIOUS
<1> USE DEF GarageInv, rows, form, requests, bounds, causes
<1>1. ASSUME NEW c \in Calls, NEW v \in Vehicles, NEW k \in Capacities, NEW b \in BOOLEAN,
        AddVehicle(c, v, k, b)
      PROVE  GarageInv'
  <2>1. GarageTypeOK'
    BY <1>1 DEF AddVehicle, GarageTyped, GarageTypeOK, Kept
  <2>2. GarageLocals'
    BY <1>1, CapacityPositive, NoneIsNoRow DEF AddVehicle, Begin, GarageTyped, GarageLocals,
       GarageOps, VehicleOps, PublishOps, Inserted
  <2>3. VehiclesKnown'
    BY <1>1, CapacityPositive DEF AddVehicle, Begin, GarageTyped, GarageLocals, VehiclesKnown,
       AddsVehicle, Kept
  <2>4. DefaultChosen'
    BY <1>1 DEF AddVehicle, Begin, GarageTyped, GarageLocals, DefaultChosen, Choosing,
       ClearedDefault
  <2>5. VehiclesUsed'
    BY <1>1 DEF AddVehicle, Begin, VehiclesUsed, Kept
  <2>6. Fitting'
    BY <1>1 DEF AddVehicle, Begin, Fitting, SeatsFit, Inserting, Kept
  <2>7. FormsOut'
    BY <1>1 DEF AddVehicle, Begin, FormsOut, PublishedOnce, Inserting, PublishOps, Inserted
  <2>8. PublishStages'
    BY <1>1 DEF AddVehicle, Begin, GarageTyped, GarageLocals, PublishStages, PublishedWhole,
       PublishOps, Inserted
  <2> QED  BY <2>1, <2>2, <2>3, <2>4, <2>5, <2>6, <2>7, <2>8 DEF GarageTyped
<1>2. ASSUME NEW c \in Calls, NEW v \in Vehicles, SetDefault(c, v) PROVE GarageInv'
  <2>1. GarageTypeOK'
    BY <1>2 DEF SetDefault, GarageTyped, GarageTypeOK, Kept
  <2>2. GarageLocals'
    BY <1>2, NoneIsNoRow DEF SetDefault, Begin, GarageTyped, GarageLocals, GarageOps,
       VehicleOps, PublishOps, Inserted
  <2>3. VehiclesKnown'
    BY <1>2 DEF SetDefault, Begin, GarageTyped, GarageLocals, VehiclesKnown, AddsVehicle, Kept
  <2>4. DefaultChosen'
    BY <1>2 DEF SetDefault, Begin, GarageTyped, GarageLocals, DefaultChosen, Choosing,
       ClearedDefault
  <2>5. VehiclesUsed'
    BY <1>2 DEF SetDefault, Begin, VehiclesUsed, Kept
  <2>6. Fitting'
    BY <1>2 DEF SetDefault, Begin, Fitting, SeatsFit, Inserting, Kept
  <2>7. FormsOut'
    BY <1>2 DEF SetDefault, Begin, FormsOut, PublishedOnce, Inserting, PublishOps, Inserted
  <2>8. PublishStages'
    BY <1>2 DEF SetDefault, Begin, GarageTyped, GarageLocals, PublishStages, PublishedWhole,
       PublishOps, Inserted
  <2> QED  BY <2>1, <2>2, <2>3, <2>4, <2>5, <2>6, <2>7, <2>8 DEF GarageTyped
<1>3. ASSUME NEW c \in Calls, NEW v \in Vehicles, RemoveVehicle(c, v) PROVE GarageInv'
  <2>1. GarageTypeOK'
    BY <1>3 DEF RemoveVehicle, GarageTyped, GarageTypeOK, Kept
  <2>2. GarageLocals'
    BY <1>3, NoneIsNoRow DEF RemoveVehicle, Begin, GarageTyped, GarageLocals, GarageOps,
       VehicleOps, PublishOps, Inserted
  <2>3. VehiclesKnown'
    BY <1>3 DEF RemoveVehicle, Begin, GarageTyped, GarageLocals, VehiclesKnown, AddsVehicle,
       Kept
  <2>4. DefaultChosen'
    BY <1>3 DEF RemoveVehicle, Begin, DefaultChosen, Choosing, ClearedDefault
  <2>5. VehiclesUsed'
    BY <1>3 DEF RemoveVehicle, Begin, VehiclesUsed, Kept
  <2>6. Fitting'
    BY <1>3 DEF RemoveVehicle, Begin, Fitting, SeatsFit, Inserting, Kept
  <2>7. FormsOut'
    BY <1>3 DEF RemoveVehicle, Begin, FormsOut, PublishedOnce, Inserting, PublishOps, Inserted
  <2>8. PublishStages'
    BY <1>3 DEF RemoveVehicle, Begin, GarageTyped, GarageLocals, PublishStages, PublishedWhole,
       PublishOps, Inserted
  <2> QED  BY <2>1, <2>2, <2>3, <2>4, <2>5, <2>6, <2>7, <2>8 DEF GarageTyped
<1>4. ASSUME NEW c \in Calls, NEW v \in Vehicles, NEW j \in Journeys,
           NEW n \in 1..(capacity[v] - 1), Publish(c, j, v, n) PROVE GarageInv'
  <2>1. GarageTypeOK'
    BY <1>4 DEF Publish, GarageTyped, GarageTypeOK, Kept
  <2>2. GarageLocals'
    BY <1>4, NoneIsNoRow, CapacityPositive DEF Publish, Begin, GarageTyped, GarageLocals,
       GarageOps, PublishOps
  <2>3. VehiclesKnown'
    BY <1>4 DEF Publish, Begin, GarageTyped, GarageLocals, VehiclesKnown, AddsVehicle, Kept
  <2>4. DefaultChosen'
    BY <1>4 DEF Publish, Begin, DefaultChosen, Choosing, ClearedDefault
  <2>5. VehiclesUsed'
    BY <1>4 DEF Publish, Begin, VehiclesUsed, Kept
  <2>6. Fitting'
    <3>1. capacity[v] \in Capacities \cup {0}
      BY DEF GarageTyped, GarageTypeOK
    <3>2. capacity[v] \in Nat /\ n \in Nat /\ n < capacity[v]
      BY <3>1, CapacityPositive
    <3>3. Inserting' = Inserting \cup {c}
      BY <1>4 DEF Publish, Begin, GarageTyped, GarageLocals, Inserting
    <3> QED
      BY <1>4, <3>2, <3>3 DEF Publish, Begin, GarageTyped, GarageLocals, Fitting, SeatsFit,
         Kept
  <2>7. FormsOut'
    BY <1>4 DEF Publish, CanPublish, Begin, GarageTyped, GarageLocals, FormsOut, PublishedOnce,
       Inserting, Inserted
  <2>8. PublishStages'
    BY <1>4, NoneIsNoRow DEF Publish, Begin, GarageTyped, GarageLocals, PublishStages,
       PublishedWhole, PublishOps, Inserted
  <2> QED  BY <2>1, <2>2, <2>3, <2>4, <2>5, <2>6, <2>7, <2>8 DEF GarageTyped
<1>5. ASSUME NEW v \in Vehicles, NEW k \in Capacities, SetCapacity(v, k) PROVE GarageInv'
  <2>1. GarageTypeOK'
    BY <1>5, CapacityPositive DEF SetCapacity, GarageTyped, GarageTypeOK, Kept
  <2>2. GarageLocals'
    BY <1>5 DEF SetCapacity, GarageTyped, GarageLocals
  <2>3. VehiclesKnown'
    BY <1>5, CapacityPositive DEF SetCapacity, VehiclesKnown, AddsVehicle, Kept
  <2>4. DefaultChosen'
    BY <1>5 DEF SetCapacity, DefaultChosen, Choosing, ClearedDefault
  <2>5. VehiclesUsed'
    BY <1>5, CapacityPositive DEF SetCapacity, VehiclesUsed, Kept
  <2>6. Fitting'
    BY <1>5, CapacityPositive DEF SetCapacity, GarageTyped, GarageTypeOK, GarageLocals,
       Fitting, SeatsFit, Inserting, Kept
  <2>7. FormsOut'
    BY <1>5 DEF SetCapacity, FormsOut, PublishedOnce, Inserting
  <2>8. PublishStages'
    BY <1>5 DEF SetCapacity, PublishStages, PublishedWhole
  <2> QED  BY <2>1, <2>2, <2>3, <2>4, <2>5, <2>6, <2>7, <2>8 DEF GarageTyped
<1>6. ASSUME NEW c \in Calls, Clear(c) PROVE GarageInv'
  <2>1. GarageTypeOK'
    BY <1>6 DEF Clear, GarageTyped, GarageTypeOK, Kept
  <2>2. GarageLocals'
    BY <1>6 DEF Clear, To, GarageTyped, GarageLocals, GarageOps, VehicleOps, PublishOps,
       Inserted
  <2>3. VehiclesKnown'
    BY <1>6 DEF Clear, To, VehiclesKnown, AddsVehicle, Kept
  <2>4. DefaultChosen'
    BY <1>6 DEF Clear, To, GarageTyped, GarageLocals, DefaultChosen, Choosing, ClearedDefault
  <2>5. VehiclesUsed'
    BY <1>6 DEF Clear, To, VehiclesUsed, Kept
  <2>6. Fitting'
    BY <1>6 DEF Clear, To, Fitting, SeatsFit, Inserting, Kept
  <2>7. FormsOut'
    BY <1>6 DEF Clear, To, FormsOut, PublishedOnce, Inserting, PublishOps, Inserted
  <2>8. PublishStages'
    BY <1>6 DEF Clear, To, PublishStages, PublishedWhole
  <2> QED  BY <2>1, <2>2, <2>3, <2>4, <2>5, <2>6, <2>7, <2>8 DEF GarageTyped
<1>7. ASSUME NEW c \in Calls, InsertVehicle(c) PROVE GarageInv'
  <2>1. GarageTypeOK'
    BY <1>7, CapacityPositive DEF InsertVehicle, GarageTyped, GarageTypeOK, GarageLocals,
       VehiclesKnown, AddsVehicle, Kept
  <2>2. GarageLocals'
    BY <1>7 DEF InsertVehicle, Done, GarageTyped, GarageTypeOK, GarageLocals, GarageOps,
       VehicleOps, PublishOps, Inserted, Kept
  <2>3. VehiclesKnown'
    BY <1>7 DEF InsertVehicle, Done, GarageTyped, GarageLocals, VehiclesKnown, AddsVehicle,
       Kept
  <2>4. DefaultChosen'
    BY <1>7 DEF InsertVehicle, Done, GarageTyped, GarageLocals, DefaultChosen, Choosing,
       ClearedDefault
  <2>5. VehiclesUsed'
    BY <1>7 DEF InsertVehicle, Done, VehiclesKnown, AddsVehicle, VehiclesUsed,
       Kept
  <2>6. Fitting'
    BY <1>7 DEF InsertVehicle, Done, GarageTyped, GarageLocals, VehiclesKnown, AddsVehicle,
       Fitting, SeatsFit, Inserting, Kept
  <2>7. FormsOut'
    BY <1>7 DEF InsertVehicle, Done, FormsOut, PublishedOnce, Inserting, PublishOps, Inserted
  <2>8. PublishStages'
    BY <1>7 DEF InsertVehicle, Done, GarageTyped, GarageLocals, PublishStages, PublishedWhole,
       PublishOps, Inserted
  <2> QED  BY <2>1, <2>2, <2>3, <2>4, <2>5, <2>6, <2>7, <2>8 DEF GarageTyped
<1>8. ASSUME NEW c \in Calls, MarkDefault(c) PROVE GarageInv'
  <2>1. GarageTypeOK'
    BY <1>8 DEF MarkDefault, GarageTyped, GarageTypeOK, Kept
  <2>2. GarageLocals'
    BY <1>8 DEF MarkDefault, Done, GarageTyped, GarageTypeOK, GarageLocals, GarageOps,
       VehicleOps, PublishOps, Inserted, Kept
  <2>3. VehiclesKnown'
    BY <1>8 DEF MarkDefault, Done, GarageTyped, GarageLocals, VehiclesKnown, AddsVehicle, Kept
  <2>4. DefaultChosen'
    BY <1>8 DEF MarkDefault, Done, GarageTyped, GarageLocals, DefaultChosen, Choosing,
       ClearedDefault
  <2>5. VehiclesUsed'
    BY <1>8 DEF MarkDefault, Done, VehiclesUsed, Kept
  <2>6. Fitting'
    BY <1>8 DEF MarkDefault, Done, Fitting, SeatsFit, Inserting, Kept
  <2>7. FormsOut'
    BY <1>8 DEF MarkDefault, Done, FormsOut, PublishedOnce, Inserting, PublishOps, Inserted
  <2>8. PublishStages'
    BY <1>8 DEF MarkDefault, Done, GarageTyped, GarageLocals, PublishStages, PublishedWhole,
       PublishOps, Inserted
  <2> QED  BY <2>1, <2>2, <2>3, <2>4, <2>5, <2>6, <2>7, <2>8 DEF GarageTyped
<1>9. ASSUME NEW c \in Calls, Count(c) PROVE GarageInv'
  <2>1. GarageTypeOK'
    BY <1>9 DEF Count, GarageTyped, GarageTypeOK, Kept
  <2>2. GarageLocals'
    BY <1>9 DEF Count, To, Done, GarageTyped, GarageLocals, GarageOps, VehicleOps, PublishOps,
       Inserted
  <2>3. VehiclesKnown'
    BY <1>9 DEF Count, To, Done, GarageTyped, GarageLocals, VehiclesKnown, AddsVehicle, Kept
  <2>4. DefaultChosen'
    BY <1>9 DEF Count, To, Done, GarageTyped, GarageLocals, DefaultChosen, Choosing,
       ClearedDefault
  <2>5. VehiclesUsed'
    <3>1. vehicle[c] # None
      BY <1>9, GarageAssumption DEF Count, VehiclesKnown, AddsVehicle, GarageTyped, GarageTypeOK,
         GarageLocals, Kept
    <3>2. \A j \in Journeys : jVehicle[j] = vehicle[c] =>
              jStatus[j] \in Counted \cup {"FULL", "COMPLETED"}
      BY <3>1 DEF GarageTyped, GarageTypeOK, Counted, Active
    <3>3. UNCHANGED <<capacity, jStatus, jVehicle, late>> /\ passedOver \subseteq passedOver'
      BY <1>9 DEF Count
    <3>4. \A d \in Calls \ {c} : op'[d] = op[d] /\ vehicle'[d] = vehicle[d]
      BY <1>9 DEF Count, To, Done, GarageTyped, GarageLocals
    <3>5. op'[c] = "delete" => /\ vehicle'[c] = vehicle[c]
                               /\ \A j \in Journeys : jVehicle[j] = vehicle[c] => j \in passedOver'
      BY <1>9, <3>2 DEF Count, To, Done, GarageTyped, GarageLocals
    <3> QED  BY <3>3, <3>4, <3>5 DEF VehiclesUsed, Kept
  <2>6. Fitting'
    BY <1>9 DEF Count, To, Done, GarageTyped, GarageLocals, Fitting, SeatsFit, Inserting, Kept
  <2>7. FormsOut'
    BY <1>9 DEF Count, To, Done, GarageTyped, GarageLocals, FormsOut, PublishedOnce, Inserting,
       PublishOps, Inserted
  <2>8. PublishStages'
    BY <1>9 DEF Count, To, Done, GarageTyped, GarageLocals, PublishStages, PublishedWhole,
       PublishOps, Inserted
  <2> QED  BY <2>1, <2>2, <2>3, <2>4, <2>5, <2>6, <2>7, <2>8 DEF GarageTyped
<1>10. ASSUME NEW c \in Calls, Delete(c) PROVE GarageInv'
  <2>1. GarageTypeOK'
    BY <1>10 DEF Delete, GarageTyped, GarageTypeOK, Kept
  <2>2. GarageLocals'
    <3>1. op[c] = "delete" /\ Done(c) /\ UNCHANGED <<jSeats, jForm, chat, draft, crossed>>
      BY <1>10 DEF Delete
    <3>2. chosen' \in BOOLEAN /\ deleted' \subseteq Vehicles
      BY <1>10 DEF Delete, GarageInv, GarageTyped, GarageLocals, GarageOps
    <3> QED
      BY <3>1, <3>2 DEF Done, GarageTyped, GarageLocals, GarageOps, PublishOps, Inserted
  <2>3. VehiclesKnown'
    BY <1>10 DEF Delete, Done, GarageTyped, GarageTypeOK, GarageLocals, VehiclesKnown,
       AddsVehicle, Kept
  <2>4. DefaultChosen'
    BY <1>10 DEF Delete, Done, GarageTyped, GarageLocals, DefaultChosen, Choosing,
       ClearedDefault
  <2>5. VehiclesUsed'
    <3>1. op[c] = "delete" /\ UNCHANGED <<jStatus, jVehicle, late, passedOver>>
      BY <1>10 DEF Delete
    <3>2. \A v \in Vehicles : v \in Kept => v \in Kept' \/ v = vehicle[c]
      BY <1>10 DEF Delete, GarageTyped, GarageTypeOK, Kept
    <3>3. \A d \in Calls : op'[d] = "delete" => op[d] = "delete" /\ vehicle'[d] = vehicle[d]
      BY <1>10 DEF Delete, Done, GarageTyped, GarageLocals
    <3>4. Kept \subseteq Vehicles
      BY DEF Kept
    <3> QED  BY <3>1, <3>2, <3>3, <3>4 DEF VehiclesUsed
  <2>6. Fitting'
    BY <1>10 DEF Delete, Done, GarageTyped, GarageTypeOK, Fitting, SeatsFit, Inserting, Kept
  <2>7. FormsOut'
    BY <1>10 DEF Delete, Done, FormsOut, PublishedOnce, Inserting, PublishOps, Inserted
  <2>8. PublishStages'
    BY <1>10 DEF Delete, Done, GarageTyped, GarageLocals, PublishStages, PublishedWhole,
       PublishOps, Inserted
  <2> QED  BY <2>1, <2>2, <2>3, <2>4, <2>5, <2>6, <2>7, <2>8 DEF GarageTyped
<1>11. ASSUME NEW c \in Calls, VehicleFails(c) PROVE GarageInv'
  <2>1. GarageTypeOK'
    BY <1>11 DEF VehicleFails, GarageTyped, GarageTypeOK, Kept
  <2>2. GarageLocals'
    BY <1>11 DEF VehicleFails, Done, GarageTyped, GarageLocals, GarageOps, PublishOps, Inserted
  <2>3. VehiclesKnown'
    BY <1>11 DEF VehicleFails, Done, GarageTyped, GarageLocals, VehiclesKnown, AddsVehicle,
       Kept
  <2>4. DefaultChosen'
    BY <1>11 DEF VehicleFails, Done, GarageTyped, GarageLocals, DefaultChosen, Choosing,
       ClearedDefault
  <2>5. VehiclesUsed'
    BY <1>11 DEF VehicleFails, Done, GarageTyped, GarageLocals, VehiclesUsed,
       Kept
  <2>6. Fitting'
    BY <1>11 DEF VehicleFails, Done, Fitting, SeatsFit, Inserting, Kept
  <2>7. FormsOut'
    BY <1>11 DEF VehicleFails, Done, FormsOut, PublishedOnce, Inserting, PublishOps, Inserted
  <2>8. PublishStages'
    BY <1>11 DEF VehicleFails, Done, GarageTyped, GarageLocals, PublishStages, PublishedWhole,
       PublishOps, Inserted
  <2> QED  BY <2>1, <2>2, <2>3, <2>4, <2>5, <2>6, <2>7, <2>8 DEF GarageTyped
<1>12. ASSUME NEW c \in Calls, InsertJourney(c) PROVE GarageInv'
  <2>1. GarageTypeOK'
    <3>1. journey[c] \in Journeys /\ vehicle[c] \in Vehicles
      BY <1>12 DEF InsertJourney, GarageTyped, GarageLocals, PublishOps
    <3>2. UNCHANGED Kept /\ UNCHANGED <<capacity, default, deleted, stops, draft>>
      BY <1>12 DEF InsertJourney, Kept
    <3>3. CASE UNCHANGED <<jStatus, jVehicle, jForm>>
      BY <1>12, <3>2, <3>3 DEF InsertJourney, Refused, GarageInv, GarageTyped, GarageTypeOK
    <3>4. CASE /\ jStatus' = [jStatus EXCEPT ![journey[c]] = "PUBLISHED"]
               /\ jVehicle' = [jVehicle EXCEPT ![journey[c]] = vehicle[c]]
               /\ jForm' = [jForm EXCEPT ![journey[c]] = draft]
               /\ UNCHANGED publishing
      BY <3>1, <3>2, <3>4, NoneIsNoRow DEF GarageTyped, GarageTypeOK, GarageLocals, Active
    <3> QED
      BY <1>12, <3>3, <3>4 DEF InsertJourney
  <2>2. GarageLocals'
    BY <1>12 DEF InsertJourney, Refused, To, Done, GarageTyped, GarageLocals, GarageOps,
       PublishOps, Inserted
  <2>3. VehiclesKnown'
    BY <1>12 DEF InsertJourney, Refused, To, Done, GarageTyped, GarageTypeOK, GarageLocals,
       VehiclesKnown, AddsVehicle, Kept
  <2>4. DefaultChosen'
    BY <1>12 DEF InsertJourney, Refused, To, Done, GarageTyped, GarageLocals, DefaultChosen,
       Choosing, ClearedDefault
  <2>5. VehiclesUsed'
    BY <1>12 DEF InsertJourney, Refused, To, Done, GarageTyped, GarageTypeOK, GarageLocals,
       VehiclesUsed, Kept
  <2>6. Fitting'
    BY <1>12 DEF InsertJourney, Refused, To, Done, GarageTyped, GarageTypeOK, GarageLocals,
       Fitting, SeatsFit, Inserting, Kept
  <2>7. FormsOut'
    <3>1. journey[c] \in Journeys /\ op[c] = "publish" /\ draft' = draft
      BY <1>12 DEF InsertJourney, GarageTyped, GarageLocals, PublishOps
    <3>2. CASE Refused(c) /\ UNCHANGED <<jStatus, jForm>>
      BY <1>12, <3>1, <3>2 DEF InsertJourney, Refused, Done, GarageTyped, GarageLocals,
         FormsOut, PublishedOnce, Inserting, PublishOps, Inserted
    <3>3. CASE /\ jStatus' = [jStatus EXCEPT ![journey[c]] = "PUBLISHED"]
               /\ jForm' = [jForm EXCEPT ![journey[c]] = draft]
               /\ To(c, "stops") /\ UNCHANGED publishing
      <4>1. /\ op[c] = "publish" /\ op' = [op EXCEPT ![c] = "stops"]
            /\ UNCHANGED <<journey, draft, partial, publishing>>
        BY <1>12, <3>3 DEF InsertJourney, To
      <4>2. jStatus[journey[c]] = "NONE" /\ \A d \in Calls : op[d] \in PublishOps => d = c
        BY <4>1 DEF FormsOut, Inserting, PublishOps
      <4> QED  BY <3>1, <3>3, <4>1, <4>2 DEF GarageTyped, GarageTypeOK, GarageLocals, FormsOut,
                  PublishedOnce, Inserting, PublishOps, Inserted
    <3> QED
      BY <1>12, <3>2, <3>3 DEF InsertJourney
  <2>8. PublishStages'
    BY <1>12 DEF InsertJourney, Refused, To, Done, GarageTyped, GarageTypeOK, GarageLocals,
       FormsOut, PublishStages, PublishedWhole, Inserting
  <2> QED  BY <2>1, <2>2, <2>3, <2>4, <2>5, <2>6, <2>7, <2>8 DEF GarageTyped
<1>13. ASSUME NEW c \in Calls, InsertStops(c) PROVE GarageInv'
  <2>1. GarageTypeOK'
    BY <1>13 DEF InsertStops, GarageTyped, GarageTypeOK, GarageLocals, FormsOut, PublishOps,
       Inserted, Kept
  <2>2. GarageLocals'
    BY <1>13 DEF InsertStops, To, GarageTyped, GarageLocals, GarageOps, PublishOps, Inserted
  <2>3. VehiclesKnown'
    BY <1>13 DEF InsertStops, To, VehiclesKnown, AddsVehicle, Kept
  <2>4. DefaultChosen'
    BY <1>13 DEF InsertStops, To, DefaultChosen, Choosing, ClearedDefault
  <2>5. VehiclesUsed'
    BY <1>13 DEF InsertStops, To, VehiclesUsed, Kept
  <2>6. Fitting'
    BY <1>13 DEF InsertStops, To, Fitting, SeatsFit, Inserting, Kept
  <2>7. FormsOut'
    BY <1>13 DEF InsertStops, To, FormsOut, PublishedOnce, Inserting, PublishOps, Inserted
  <2>8. PublishStages'
    BY <1>13 DEF InsertStops, To, PublishStages, PublishedWhole
  <2> QED  BY <2>1, <2>2, <2>3, <2>4, <2>5, <2>6, <2>7, <2>8 DEF GarageTyped
<1>14. ASSUME NEW c \in Calls, InsertChat(c) PROVE GarageInv'
  <2>1. GarageTypeOK'
    BY <1>14 DEF InsertChat, GarageTyped, GarageTypeOK, Kept
  <2>2. GarageLocals'
    BY <1>14 DEF InsertChat, To, GarageTyped, GarageLocals, GarageOps, PublishOps, Inserted
  <2>3. VehiclesKnown'
    BY <1>14 DEF InsertChat, To, VehiclesKnown, AddsVehicle, Kept
  <2>4. DefaultChosen'
    BY <1>14 DEF InsertChat, To, DefaultChosen, Choosing, ClearedDefault
  <2>5. VehiclesUsed'
    BY <1>14 DEF InsertChat, To, VehiclesUsed, Kept
  <2>6. Fitting'
    BY <1>14 DEF InsertChat, To, Fitting, SeatsFit, Inserting, Kept
  <2>7. FormsOut'
    BY <1>14 DEF InsertChat, To, FormsOut, PublishedOnce, Inserting, PublishOps, Inserted
  <2>8. PublishStages'
    BY <1>14 DEF InsertChat, To, FormsOut, PublishStages, PublishedWhole, PublishOps, Inserted
  <2> QED  BY <2>1, <2>2, <2>3, <2>4, <2>5, <2>6, <2>7, <2>8 DEF GarageTyped
<1>15. ASSUME NEW c \in Calls, InsertMember(c) PROVE GarageInv'
  <2>1. GarageTypeOK'
    BY <1>15 DEF InsertMember, GarageTyped, GarageTypeOK, Kept
  <2>2. GarageLocals'
    BY <1>15 DEF InsertMember, To, GarageTyped, GarageLocals, GarageOps, PublishOps, Inserted
  <2>3. VehiclesKnown'
    BY <1>15 DEF InsertMember, To, VehiclesKnown, AddsVehicle, Kept
  <2>4. DefaultChosen'
    BY <1>15 DEF InsertMember, To, DefaultChosen, Choosing, ClearedDefault
  <2>5. VehiclesUsed'
    BY <1>15 DEF InsertMember, To, VehiclesUsed, Kept
  <2>6. Fitting'
    BY <1>15 DEF InsertMember, To, Fitting, SeatsFit, Inserting, Kept
  <2>7. FormsOut'
    BY <1>15 DEF InsertMember, To, FormsOut, PublishedOnce, Inserting, PublishOps, Inserted
  <2>8. PublishStages'
    BY <1>15 DEF InsertMember, To, GarageTyped, GarageLocals, PublishStages, PublishedWhole,
       PublishOps, Inserted
  <2> QED  BY <2>1, <2>2, <2>3, <2>4, <2>5, <2>6, <2>7, <2>8 DEF GarageTyped
<1>16. ASSUME NEW c \in Calls, Published(c) PROVE GarageInv'
  <2>1. GarageTypeOK'
    <3>1. UNCHANGED <<rows, deleted, Kept>> /\ publishing' = FALSE /\ draft' = draft + 1
      BY <1>16 DEF Published, Kept
    <3>2. \A j \in Journeys : jForm[j] \in 0..draft'
      BY <3>1 DEF GarageTyped, GarageTypeOK, GarageLocals
    <3> QED
      BY <3>1, <3>2 DEF GarageInv, GarageTyped, GarageTypeOK, rows
  <2>2. GarageLocals'
    BY <1>16 DEF Published, Done, GarageTyped, GarageLocals, GarageOps, PublishOps, Inserted
  <2>3. VehiclesKnown'
    BY <1>16 DEF Published, Done, GarageTyped, GarageLocals, VehiclesKnown, AddsVehicle, Kept
  <2>4. DefaultChosen'
    BY <1>16 DEF Published, Done, DefaultChosen, Choosing, ClearedDefault
  <2>5. VehiclesUsed'
    BY <1>16 DEF Published, Done, VehiclesUsed, Kept
  <2>6. Fitting'
    BY <1>16 DEF Published, Done, Fitting, SeatsFit, Inserting, Kept
  <2>7. FormsOut'
    BY <1>16 DEF Published, Done, GarageTyped, GarageTypeOK, GarageLocals, FormsOut,
       PublishedOnce, Inserting, PublishOps, Inserted
  <2>8. PublishStages'
    BY <1>16 DEF Published, Done, GarageTyped, GarageLocals, PublishStages, PublishedWhole
  <2> QED  BY <2>1, <2>2, <2>3, <2>4, <2>5, <2>6, <2>7, <2>8 DEF GarageTyped
<1>17. ASSUME NEW c \in Calls, PublishFails(c) PROVE GarageInv'
  <2>1. GarageTypeOK'
    <3>1. UNCHANGED <<rows, deleted, draft, Kept>> /\ publishing' = FALSE
      BY <1>17 DEF PublishFails, Refused, Kept
    <3> QED
      BY <3>1 DEF GarageInv, GarageTyped, GarageTypeOK, rows
  <2>2. GarageLocals'
    BY <1>17 DEF PublishFails, Refused, Done, GarageTyped, GarageLocals, GarageOps, PublishOps,
       Inserted
  <2>3. VehiclesKnown'
    BY <1>17 DEF PublishFails, Refused, Done, GarageTyped, GarageLocals, VehiclesKnown,
       AddsVehicle, Kept
  <2>4. DefaultChosen'
    <3>1. UNCHANGED <<Choosing, ClearedDefault, default, chosen, crossed>>
      BY <1>17 DEF PublishFails, Refused, Done, Choosing, ClearedDefault, Inserted
    <3> QED
      BY <3>1 DEF DefaultChosen
  <2>5. VehiclesUsed'
    BY <1>17 DEF PublishFails, Refused, Done, GarageTyped, GarageLocals, VehiclesUsed,
       Kept
  <2>6. Fitting'
    BY <1>17 DEF PublishFails, Refused, Done, GarageTyped, GarageLocals, Fitting, SeatsFit,
       Inserting, Kept
  <2>7. FormsOut'
    BY <1>17 DEF PublishFails, Refused, Done, GarageTyped, GarageLocals, FormsOut,
       PublishedOnce, Inserting, PublishOps, Inserted
  <2>8. PublishStages'
    BY <1>17 DEF PublishFails, Refused, Done, GarageTyped, GarageLocals, FormsOut,
       PublishStages, PublishedWhole, Inserting
  <2> QED  BY <2>1, <2>2, <2>3, <2>4, <2>5, <2>6, <2>7, <2>8 DEF GarageTyped
<1>18. ASSUME NEW j \in Journeys, Move(j) PROVE GarageInv'
  <2>1. GarageTypeOK'
    BY <1>18 DEF Move, GarageTyped, GarageTypeOK, Kept, Active
  <2>2. GarageLocals'
    BY <1>18 DEF Move, GarageTyped, GarageLocals
  <2>3. VehiclesKnown'
    BY <1>18 DEF Move, VehiclesKnown, AddsVehicle, Kept
  <2>4. DefaultChosen'
    BY <1>18 DEF Move, DefaultChosen, Choosing, ClearedDefault
  <2>5. VehiclesUsed'
    BY <1>18 DEF Move, VehiclesUsed, Kept
  <2>6. Fitting'
    BY <1>18 DEF Move, Fitting, SeatsFit, Inserting, Kept
  <2>7. FormsOut'
    <3>1. /\ \A k \in Journeys : (jStatus'[k] = "NONE") <=> (jStatus[k] = "NONE")
          /\ UNCHANGED <<jForm, draft, publishing, requests, partial>>
      BY <1>18 DEF Move, Active
    <3>2. \A c \in Calls : op[c] \in PublishOps => journey[c] \in Journeys
      BY DEF GarageTyped, GarageLocals
    <3> QED
      BY <3>1, <3>2 DEF FormsOut, PublishedOnce, Inserting, PublishOps
  <2>8. PublishStages'
    <3>1. /\ \A k \in Journeys : (jStatus'[k] = "NONE") <=> (jStatus[k] = "NONE")
          /\ UNCHANGED <<stops, chat, requests, partial>>
      BY <1>18 DEF Move, Active
    <3> QED
      BY <3>1 DEF PublishStages, PublishedWhole
  <2> QED  BY <2>1, <2>2, <2>3, <2>4, <2>5, <2>6, <2>7, <2>8 DEF GarageTyped
<1>19. CASE UNCHANGED gVars
  BY <1>19 DEF gVars, AddsVehicle, Choosing, ClearedDefault, DefaultChosen,
     Fitting, FormsOut, GarageTypeOK, Inserting, Kept, VehiclesKnown, GarageLocals,
     PublishedOnce, PublishedWhole, SeatsFit, PublishStages, GarageTyped, VehiclesUsed
<1> QED  BY <1>1, <1>2, <1>3, <1>4, <1>5, <1>6, <1>7, <1>8, <1>9, <1>10, <1>11, <1>12, <1>13,
            <1>14, <1>15, <1>16, <1>17, <1>18, <1>19 DEF GarageNext

\* The invariant of the vehicles is what is claimed of them.
LEMMA VehiclesAreKept == GarageInv => VehiclesAgree
<1> SUFFICES ASSUME GarageInv PROVE VehiclesAgree
  OBVIOUS
<1>1. GarageTypeOK /\ ActiveKeepsVehicle /\ SeatsFit
  BY DEF GarageInv, GarageTyped, VehiclesUsed, Fitting, ActiveKeepsVehicle, Active
<1>2. OneDefault
  BY DEF GarageInv, DefaultChosen, OneDefault, Choosing, ClearedDefault
<1> QED  BY <1>1, <1>2 DEF VehiclesAgree

-----------------------------------------------------------------------------
(* Roster: the driver's page                                               *)

\* The calls of the page: those of the buttons, those that load the rides, and those that
\* load passengers.
Acting(a)  == doing[a] \in {"approve", "reject", "decided", "update", "updated"}
Listing(a) == doing[a] \in {"listing", "listed"}
AskingFor(a)  == doing[a] \in {"asking", "answered"}

\* What the calls hold.
CallsTyped ==
    /\ DOMAIN booking = Bookings /\ DOMAIN ride = Rides
    /\ selectedJourney \in Rides \cup {Nobody}
    /\ doing \in [Actions -> {"idle", "listing", "listed", "asking", "answered", "approve",
                              "reject", "decided", "update", "updated"}]
    /\ DOMAIN subject = Actions /\ DOMAIN then = Actions /\ DOMAIN brought = Actions
    /\ \A a \in Actions :
          /\ doing[a] \in {"approve", "reject", "decided"} => subject[a] \in Bookings
          /\ doing[a] \in {"update", "updated"} => subject[a] \in Rides

\* One button is at work or the rides are loaded, and never both.
OneAtWork ==
    /\ \A a, c \in Actions :
          (Acting(a) \/ Listing(a)) /\ (Acting(c) \/ Listing(c)) => a = c
    /\ \A a \in Actions : /\ Acting(a) => actionLoading /\ ~isLoading
                          /\ Listing(a) => isLoading

\* The statuses f of rides are those of the table, but for rides that changed since.
RidesAsRead(f) == \A j \in Rides : f[j] = ride[j] \/ j \in outdated

CardsKnown ==
    /\ ~isLoading => RidesAsRead(cards)
    /\ \A a \in Actions : doing[a] = "listed" => RidesAsRead(brought[a])

\* And those of the bookings of the ride that is selected, with no other's among them.
RosterAsRead(f) ==
    \A b \in Bookings : IF RideOf[b] # selectedJourney THEN f[b] = "NONE"
                        ELSE f[b] = booking[b] \/ b \in outdated

\* While no calls overlapped there is one, about the ride that is selected.
RosterKnown ==
    ~muddled =>
        /\ \A a, c \in Busy : a = c
        /\ \A a \in Actions :
              /\ AskingFor(a) => subject[a] = selectedJourney
              /\ doing[a] \in {"approve", "reject", "decided"} => then[a] = selectedJourney
              /\ doing[a] = "answered" => RosterAsRead(brought[a])
        /\ (\A a \in Actions : ~AskingFor(a)) => RosterAsRead(passengers)

RosterInv == CallsTyped /\ OneAtWork /\ CardsKnown /\ RosterKnown

\* The page has loaded nothing at first.
LEMMA RosterInitInv == RosterInit => RosterInv
BY RosterAssumption
   DEF RosterInit, RosterInv, CallsTyped, OneAtWork, Acting, Listing, CardsKnown,
       RosterKnown, Busy, RosterAsRead

\* Every step of the driver's page and of the others keeps the invariant.
LEMMA RosterStep == RosterInv /\ [RosterNext]_rosterVars => RosterInv'
<1> SUFFICES ASSUME RosterInv, [RosterNext]_rosterVars PROVE RosterInv'
  OBVIOUS
<1> USE DEF RosterInv
<1> USE RosterAssumption
<1> USE DEF stored, page, calls, Call, Bring, Ended
<1>1. ASSUME NEW a \in Actions, OpenPage(a) PROVE RosterInv'
  <2>1. CallsTyped' BY <1>1 DEF OpenPage, CallsTyped
  <2>2. OneAtWork' BY <1>1 DEF OpenPage, CallsTyped, OneAtWork, Acting, Listing, Busy
  <2>3. CardsKnown' BY <1>1 DEF OpenPage, CallsTyped, CardsKnown, RidesAsRead
  <2>4. RosterKnown' BY <1>1 DEF OpenPage, CallsTyped, RosterKnown, RosterAsRead, Busy,
       AskingFor
  <2> QED  BY <2>1, <2>2, <2>3, <2>4
<1>2. ASSUME NEW a \in Actions, ReadRides(a) PROVE RosterInv'
  <2>1. CallsTyped' BY <1>2 DEF ReadRides, CallsTyped
  <2>2. OneAtWork' BY <1>2 DEF ReadRides, CallsTyped, OneAtWork, Acting, Listing
  <2>3. CardsKnown' BY <1>2 DEF ReadRides, CallsTyped, CardsKnown, RidesAsRead, OneAtWork,
       Acting, Listing
  <2>4. RosterKnown' BY <1>2 DEF ReadRides, CallsTyped, RosterKnown, RosterAsRead, Busy,
       AskingFor
  <2> QED  BY <2>1, <2>2, <2>3, <2>4
<1>3. ASSUME NEW a \in Actions, Listed(a) PROVE RosterInv'
  <2>1. CallsTyped' BY <1>3 DEF Listed, CallsTyped
  <2>2. OneAtWork' BY <1>3 DEF Listed, CallsTyped, OneAtWork, Acting, Listing
  <2>3. CardsKnown' BY <1>3 DEF Listed, CallsTyped, CardsKnown, RidesAsRead
  <2>4. RosterKnown' BY <1>3 DEF Listed, CallsTyped, RosterKnown, RosterAsRead, Busy, AskingFor
  <2> QED  BY <2>1, <2>2, <2>3, <2>4
<1>4. ASSUME NEW a \in Actions, NEW j \in Rides, SelectJourney(a, j) PROVE RosterInv'
  <2>1. CallsTyped' BY <1>4 DEF SelectJourney, CallsTyped
  <2>2. OneAtWork' BY <1>4 DEF SelectJourney, CallsTyped, OneAtWork, Acting, Listing
  <2>3. CardsKnown' BY <1>4 DEF SelectJourney, CallsTyped, CardsKnown, RidesAsRead
  <2>4. RosterKnown'
    <3>1. muddled' \/ Busy = {}
      BY <1>4 DEF SelectJourney
    <3>2. CASE muddled'
      BY <3>2 DEF RosterKnown
    <3>3. CASE Busy = {}
      <4>1. \A c \in Actions : doing[c] = "idle"
        BY <3>3 DEF Busy
      <4>2. \A c \in Actions \ {a} : doing'[c] = "idle"
        BY <1>4, <4>1 DEF SelectJourney, CallsTyped
      <4> QED  BY <1>4, <4>1, <4>2 DEF SelectJourney, CallsTyped, RosterKnown, RosterAsRead,
                  Busy, AskingFor
    <3> QED  BY <3>1, <3>2, <3>3
  <2> QED  BY <2>1, <2>2, <2>3, <2>4
<1>5. ASSUME NEW a \in Actions, ReadRoster(a) PROVE RosterInv'
  <2>1. CallsTyped' BY <1>5 DEF ReadRoster, CallsTyped
  <2>2. OneAtWork' BY <1>5 DEF ReadRoster, CallsTyped, OneAtWork, Acting, Listing
  <2>3. CardsKnown' BY <1>5 DEF ReadRoster, CallsTyped, CardsKnown, RidesAsRead, Of
  <2>4. RosterKnown' BY <1>5 DEF ReadRoster, CallsTyped, RosterKnown, RosterAsRead, Busy,
       AskingFor, Of
  <2> QED  BY <2>1, <2>2, <2>3, <2>4
<1>6. ASSUME NEW a \in Actions, RosterShown(a) PROVE RosterInv'
  <2>1. CallsTyped' BY <1>6 DEF RosterShown, CallsTyped
  <2>2. OneAtWork' BY <1>6 DEF RosterShown, CallsTyped, OneAtWork, Acting, Listing
  <2>3. CardsKnown' BY <1>6 DEF RosterShown, CallsTyped, CardsKnown, RidesAsRead
  <2>4. RosterKnown' BY <1>6 DEF RosterShown, CallsTyped, RosterKnown, RosterAsRead, Busy,
       AskingFor
  <2> QED  BY <2>1, <2>2, <2>3, <2>4
<1>7. ASSUME NEW a \in Actions, LoadError(a) PROVE RosterInv'
  <2>1. CallsTyped' BY <1>7 DEF LoadError, CallsTyped
  <2>2. OneAtWork' BY <1>7 DEF LoadError, CallsTyped, OneAtWork, Acting, Listing
  <2>3. CardsKnown' BY <1>7 DEF LoadError, CallsTyped, CardsKnown, RidesAsRead
  <2>4. RosterKnown'
    <3>1. CASE doing[a] \in {"asking", "answered"}
      <4>1. ~muddled => Busy = {a}
        BY <3>1 DEF RosterKnown, Busy
      <4>2. ~muddled => \A c \in Actions : doing'[c] = "idle"
        BY <1>7, <4>1 DEF LoadError, CallsTyped, Busy
      <4>3. ~muddled => RosterAsRead(passengers)'
        BY <1>7, <3>1 DEF LoadError, RosterKnown, RosterAsRead, AskingFor, Of
      <4>4. muddled' = muddled
        BY <1>7 DEF LoadError
      <4> QED  BY <4>2, <4>3, <4>4 DEF RosterKnown, Busy, AskingFor
    <3>2. CASE doing[a] \in {"listing", "listed"}
      BY <1>7, <3>2 DEF LoadError, CallsTyped, RosterKnown, RosterAsRead, Busy, AskingFor
    <3> QED  BY <1>7, <3>1, <3>2 DEF LoadError
  <2> QED  BY <2>1, <2>2, <2>3, <2>4
<1>8. ASSUME NEW a \in Actions, NEW b \in Bookings, NEW l \in {"approve", "reject"},
             Answer(a, b, l) PROVE RosterInv'
  <2>1. CallsTyped' BY <1>8 DEF Answer, CallsTyped
  <2>2. OneAtWork' BY <1>8 DEF Answer, CallsTyped, OneAtWork, Acting, Listing, CanAct
  <2>3. CardsKnown' BY <1>8 DEF Answer, CallsTyped, CardsKnown, RidesAsRead
  <2>4. RosterKnown'
    <3>1. muddled' \/ Busy = {}
      BY <1>8 DEF Answer
    <3>2. CASE muddled'
      BY <3>2 DEF RosterKnown
    <3>3. CASE Busy = {}
      <4>1. \A c \in Actions : doing[c] = "idle"
        BY <3>3 DEF Busy
      <4>2. \A c \in Actions \ {a} : doing'[c] = "idle"
        BY <1>8, <4>1 DEF Answer, CallsTyped
      <4> QED  BY <1>8, <4>1, <4>2 DEF Answer, CallsTyped, RosterKnown, RosterAsRead, Busy,
                  AskingFor
    <3> QED  BY <3>1, <3>2, <3>3
  <2> QED  BY <2>1, <2>2, <2>3, <2>4
<1>9. ASSUME NEW a \in Actions, Decided(a) PROVE RosterInv'
  <2>1. CallsTyped' BY <1>9 DEF Decided, CallsTyped
  <2>2. OneAtWork' BY <1>9 DEF Decided, CallsTyped, OneAtWork, Acting, Listing
  <2>3. CardsKnown' BY <1>9 DEF Decided, CallsTyped, CardsKnown, RidesAsRead
  <2>4. RosterKnown' BY <1>9 DEF Decided, CallsTyped, RosterKnown, RosterAsRead, Busy,
       AskingFor
  <2> QED  BY <2>1, <2>2, <2>3, <2>4
<1>10. ASSUME NEW a \in Actions, Answered(a) PROVE RosterInv'
  <2>1. CallsTyped' BY <1>10 DEF Answered, CallsTyped
  <2>2. OneAtWork' BY <1>10 DEF Answered, CallsTyped, OneAtWork, Acting, Listing
  <2>3. CardsKnown' BY <1>10 DEF Answered, CallsTyped, CardsKnown, RidesAsRead
  <2>4. RosterKnown' BY <1>10 DEF Answered, CallsTyped, RosterKnown, RosterAsRead, Busy,
       AskingFor
  <2> QED  BY <2>1, <2>2, <2>3, <2>4
<1>11. ASSUME NEW a \in Actions, NEW s, ChangeRide(a, s) PROVE RosterInv'
  <2>1. CallsTyped' BY <1>11 DEF ChangeRide, CallsTyped
  <2>2. OneAtWork' BY <1>11 DEF ChangeRide, CallsTyped, OneAtWork, Acting, Listing, CanAct
  <2>3. CardsKnown' BY <1>11 DEF ChangeRide, CallsTyped, CardsKnown, RidesAsRead
  <2>4. RosterKnown'
    <3>1. muddled' \/ Busy = {}
      BY <1>11 DEF ChangeRide
    <3>2. CASE muddled'
      BY <3>2 DEF RosterKnown
    <3>3. CASE Busy = {}
      <4>1. \A c \in Actions : doing[c] = "idle"
        BY <3>3 DEF Busy
      <4>2. \A c \in Actions \ {a} : doing'[c] = "idle"
        BY <1>11, <4>1 DEF ChangeRide, CallsTyped
      <4> QED  BY <1>11, <4>1, <4>2 DEF ChangeRide, CallsTyped, RosterKnown, RosterAsRead,
                  Busy, AskingFor
    <3> QED  BY <3>1, <3>2, <3>3
  <2> QED  BY <2>1, <2>2, <2>3, <2>4
<1>12. ASSUME NEW a \in Actions, UpdateRide(a) PROVE RosterInv'
  <2>1. CallsTyped' BY <1>12 DEF UpdateRide, CallsTyped
  <2>2. OneAtWork' BY <1>12 DEF UpdateRide, CallsTyped, OneAtWork, Acting, Listing
  <2>3. CardsKnown' BY <1>12 DEF UpdateRide, CallsTyped, CardsKnown, RidesAsRead
  <2>4. RosterKnown' BY <1>12 DEF UpdateRide, CallsTyped, RosterKnown, RosterAsRead, Busy,
       AskingFor, Of
  <2> QED  BY <2>1, <2>2, <2>3, <2>4
<1>13. ASSUME NEW a \in Actions, Updated(a) PROVE RosterInv'
  <2>1. CallsTyped' BY <1>13 DEF Updated, CallsTyped
  <2>2. OneAtWork' BY <1>13 DEF Updated, CallsTyped, OneAtWork, Acting, Listing
  <2>3. CardsKnown' BY <1>13 DEF Updated, CallsTyped, CardsKnown, RidesAsRead, OneAtWork,
       Acting, Listing
  <2>4. RosterKnown' BY <1>13 DEF Updated, CallsTyped, RosterKnown, RosterAsRead, Busy,
       AskingFor
  <2> QED  BY <2>1, <2>2, <2>3, <2>4
<1>14. ASSUME NEW a \in Actions, ActionFails(a) PROVE RosterInv'
  <2>1. CallsTyped' BY <1>14 DEF ActionFails, CallsTyped
  <2>2. OneAtWork' BY <1>14 DEF ActionFails, CallsTyped, OneAtWork, Acting, Listing
  <2>3. CardsKnown' BY <1>14 DEF ActionFails, CallsTyped, CardsKnown, RidesAsRead
  <2>4. RosterKnown' BY <1>14 DEF ActionFails, CallsTyped, RosterKnown, RosterAsRead, Busy,
       AskingFor
  <2> QED  BY <2>1, <2>2, <2>3, <2>4
<1>15. ASSUME NEW b \in Bookings, PassengerActs(b) PROVE RosterInv'
  <2>1. CallsTyped' BY <1>15 DEF PassengerActs, CallsTyped
  <2>2. OneAtWork' BY <1>15 DEF PassengerActs, OneAtWork, Acting, Listing
  <2>3. CardsKnown' BY <1>15 DEF PassengerActs, CallsTyped, CardsKnown, RidesAsRead
  <2>4. RosterKnown' BY <1>15 DEF PassengerActs, CallsTyped, RosterKnown, RosterAsRead, Busy,
       AskingFor
  <2> QED  BY <2>1, <2>2, <2>3, <2>4
<1>16. ASSUME NEW j \in Rides, RideMoves(j) PROVE RosterInv'
  <2>1. CallsTyped' BY <1>16 DEF RideMoves, CallsTyped
  <2>2. OneAtWork' BY <1>16 DEF RideMoves, OneAtWork, Acting, Listing
  <2>3. CardsKnown' BY <1>16 DEF RideMoves, CallsTyped, CardsKnown, RidesAsRead
  <2>4. RosterKnown' BY <1>16 DEF RideMoves, RosterKnown, RosterAsRead, Busy, AskingFor
  <2> QED  BY <2>1, <2>2, <2>3, <2>4
<1>17. CASE UNCHANGED rosterVars
  BY <1>17 DEF rosterVars, CallsTyped, OneAtWork, Acting, Listing, CardsKnown, RidesAsRead,
               RosterKnown, RosterAsRead, Busy, AskingFor
<1> QED
  BY <1>1, <1>2, <1>3, <1>4, <1>5, <1>6, <1>7, <1>8, <1>9, <1>10, <1>11, <1>12, <1>13,
     <1>14, <1>15, <1>16, <1>17 DEF RosterNext

\* The invariant of the driver's page is what is claimed of it.
LEMMA RosterIsKept == RosterInv => PageIsCurrent
BY DEF RosterInv, CardsKnown, RidesAsRead, RosterKnown, RosterAsRead, Busy, AskingFor,
       PageIsCurrent, RosterIsCurrent, CardsAreCurrent, CallsTyped

-----------------------------------------------------------------------------
(* Finding: the search page                                                *)

\* As many different elements as there are are all of them.
LEMMA AllOccur ==
    ASSUME NEW S, IsFiniteSet(S), NEW n \in Nat, Cardinality(S) = n,
           NEW r \in [1..n -> S], \A i, j \in 1..n : i # j => r[i] # r[j]
    PROVE  \A o \in S : \E i \in 1..n : r[i] = o
<1> SUFFICES ASSUME NEW o \in S, \A i \in 1..n : r[i] # o
             PROVE  FALSE
    OBVIOUS
<1>1. IsFiniteSet(S \ {o}) /\ Cardinality(S \ {o}) = n - 1
  BY FS_RemoveElement
<1>2. IsFiniteSet(1..n) /\ Cardinality(1..n) = n
  BY FS_Interval
<1>3. r \in [1..n -> S \ {o}]
  OBVIOUS
<1>4. Cardinality(S \ {o}) < Cardinality(1..n)
  BY <1>1, <1>2
<1>5. \E i, j \in 1..n : i # j /\ r[i] = r[j]
  BY <1>1, <1>2, <1>3, <1>4, FS_PigeonHole
<1> QED  BY <1>5

LOCAL INSTANCE SequencesExt

\* Rides and a number that answer the criteria: those of the page match and are in order,
\* none that is left out because it is full comes before one of them, and all are counted.
Best(c, s, n) ==
    /\ ToSet(s) \subseteq Matching(c) /\ InOrder(c, s) /\ n = Cardinality(Matching(c))
    /\ \A o \in Matching(c) \ ToSet(s) :
          Len(s) = Limit /\ \A i \in DOMAIN s : Before(c, s[i], o)

\* While no two queries overlapped, the one on its way asks for what the page shows as
\* asked for, and what it brings, or the page has, is the best of that.
Searching ==
    /\ live \subseteq Offers /\ at \in [Queries -> {"idle", "sent", "answered"}]
    /\ DOMAIN asked = Queries /\ DOMAIN answer = Queries
    /\ ~overlap =>
          /\ \A p, q \in Asking : p = q
          /\ \A q \in Queries : at[q] = "sent" => asked[q] = criteria
          /\ ~aged => /\ \A q \in Queries : at[q] = "answered" =>
                            Best(criteria, answer[q].journeys, answer[q].total)
                      /\ Asking = {} => Best(criteria, found, total)

\* An order of the matching rides has each of them at some place.
LEMMA AllAreOrdered ==
    ASSUME live \subseteq Offers, NEW c, NEW r \in SetToSeqs(Matching(c))
    PROVE  /\ r \in Seq(Matching(c)) /\ Len(r) \in Nat
           /\ \A o \in Matching(c) : \E i \in 1..Len(r) : r[i] = o
<1> DEFINE S == Matching(c)
           n == Cardinality(S)
<1>1. IsFiniteSet(S)
  BY FindingAssumption, FS_Subset DEF Matching
<1>2. n \in Nat
  BY <1>1, FS_CardinalityType
<1>3. r \in [1..n -> S] /\ \A i, j \in 1..n : i # j => r[i] # r[j]
  BY DEF SetToSeqs
<1>4. \A o \in S : \E i \in 1..n : r[i] = o
  BY <1>1, <1>2, <1>3, AllOccur
<1>5. r \in Seq(S) /\ Len(r) = n
  BY <1>2, <1>3
<1> QED  BY <1>2, <1>4, <1>5

\* What searchJourneys answers is the best of what matches.
LEMMA PageIsBest ==
    ASSUME live \subseteq Offers, NEW c, NEW s \in PagesOf(c)
    PROVE  Best(c, s, Cardinality(Matching(c)))
<1>1. PICK r \in SetToSeqs(Matching(c)) : InOrder(c, r) /\ s = FirstPage(r)
  BY DEF PagesOf
<1>2. /\ r \in Seq(Matching(c)) /\ Len(r) \in Nat
      /\ \A o \in Matching(c) : \E i \in 1..Len(r) : r[i] = o
  BY AllAreOrdered
<1> DEFINE n == IF Len(r) < Limit THEN Len(r) ELSE Limit
<1>3. n \in Nat /\ n <= Len(r) /\ (n < Len(r) => n = Limit)
  BY <1>2, FindingAssumption
<1>5. DOMAIN r = 1..Len(r) /\ \A i \in 1..Len(r) : r[i] \in Matching(c)
  BY <1>2
<1>4. Len(s) = n /\ DOMAIN s = 1..n /\ \A i \in 1..n : s[i] = r[i] /\ r[i] \in Matching(c)
  <2>1. s = SubSeq(r, 1, n)
    BY <1>1 DEF FirstPage
  <2> HIDE DEF n
  <2> QED  BY <1>2, <1>3, <1>5, <2>1
<1> HIDE DEF n
<1>6. ToSet(s) \subseteq Matching(c)
  BY <1>4 DEF ToSet
<1>7. InOrder(c, s)
  BY <1>1, <1>3, <1>4, <1>5, <1>2 DEF InOrder
<1>8. ASSUME NEW o \in Matching(c) \ ToSet(s)
      PROVE  Len(s) = Limit /\ \A i \in DOMAIN s : Before(c, s[i], o)
  <2>1. PICK k \in 1..Len(r) : r[k] = o
    BY <1>2
  <2>2. k > n
    BY <1>3, <1>4, <2>1 DEF ToSet
  <2> QED  BY <1>1, <1>2, <1>3, <1>4, <1>5, <2>1, <2>2 DEF InOrder
<1> QED  BY <1>6, <1>7, <1>8 DEF Best

\* Only the rides and the criteria decide what is best.
LEMMA BestKept ==
    ASSUME UNCHANGED <<free, live>>, NEW c, NEW s, NEW n
    PROVE  Best(c, s, n)' <=> Best(c, s, n)
BY DEF Best, Matching, InOrder, Before

\* Nothing is asked for at first.
LEMMA SearchingInit == FindInit => Searching
<1> SUFFICES ASSUME FindInit PROVE Searching
  OBVIOUS
<1>1. PICK q \in Queries : at = [p \in Queries |-> IF p = q THEN "sent" ELSE "idle"]
  BY DEF FindInit
<1>2. Asking = {q}
  BY <1>1 DEF Asking
<1> QED  BY <1>1, <1>2 DEF FindInit, Searching

\* A query is started, for what the page shows from then on.
LEMMA QueryStarted ==
    ASSUME Searching, NEW q \in Queries, NEW c, Fetch(q, c), criteria' = c,
           live' \subseteq Offers
    PROVE  Searching'
<1>1. at' \in [Queries -> {"idle", "sent", "answered"}] /\ DOMAIN asked' = Queries
      /\ DOMAIN answer' = Queries
  BY DEF Fetch, Searching
<1>2. ASSUME Asking = {} PROVE \A p \in Queries \ {q} : at'[p] = "idle"
  BY <1>2 DEF Fetch, Searching, Asking
<1>3. at'[q] = "sent" /\ asked'[q] = c
  BY DEF Fetch, Searching
<1> QED  BY <1>1, <1>2, <1>3 DEF Fetch, Searching, Asking

\* A query has ended; its answer was taken over, or the rides are not up to date.
LEMMA QueryEnded ==
    ASSUME Searching, NEW q \in Queries, Idle(q), at[q] # "idle",
           UNCHANGED <<free, live, criteria, overlap>>, aged' \in {aged, TRUE},
           ~aged' => at[q] = "answered" /\ found' = answer[q].journeys /\
             total' = answer[q].total
    PROVE  Searching'
<1>1. /\ at' \in [Queries -> {"idle", "sent", "answered"}] /\ at'[q] = "idle"
      /\ DOMAIN asked' = Queries /\ DOMAIN answer' = Queries
  BY DEF Idle, Searching
<1>2. \A p \in Queries \ {q} : at'[p] = at[p]
  BY DEF Idle, Searching
<1>3. ~overlap => \A p \in Queries : at'[p] = "idle"
  BY <1>1, <1>2 DEF Searching, Asking
<1>4. ~overlap /\ ~aged' => Best(criteria, found', total')
  BY DEF Searching, Idle
<1>5. ~overlap' /\ ~aged' => Best(criteria, found, total)'
  BY <1>4, BestKept
<1> QED  BY <1>1, <1>3, <1>5 DEF Searching, Asking

\* Every step of the search page keeps the invariant.
LEMMA SearchingStep == Searching /\ [FindNext]_findVars => Searching'
<1> SUFFICES ASSUME Searching, [FindNext]_findVars PROVE Searching'
  OBVIOUS
<1> USE DEF market, screen, queries
<1>1. ASSUME NEW q \in Queries, NEW c, Refine(q, c) PROVE Searching'
  <2>1. live' \subseteq Offers
    BY <1>1 DEF Refine, Searching
  <2> QED  BY <1>1, <2>1, QueryStarted DEF Refine
<1>2. ASSUME NEW q \in Queries, NEW o \in Offers, BookFound(q, o) PROVE Searching'
  <2>1. live' \subseteq Offers
    BY <1>2 DEF BookFound, Searching
  <2> QED  BY <1>2, <2>1, QueryStarted DEF BookFound
<1>3. ASSUME NEW q \in Queries, ServeQuery(q) PROVE Searching'
  <2>1. PICK s \in PagesOf(asked[q]) :
           answer' = [answer EXCEPT ![q] = [journeys |-> s,
                                            total |-> Cardinality(Matching(asked[q]))]]
    BY <1>3 DEF ServeQuery
  <2>2. Best(asked[q], s, Cardinality(Matching(asked[q])))
    BY PageIsBest DEF Searching
  <2>3. UNCHANGED <<free, live, criteria, found, total, overlap>> /\ at[q] = "sent"
    BY <1>3 DEF ServeQuery
  <2>4. at' = [at EXCEPT ![q] = "answered"] /\ asked' = [asked EXCEPT ![q] = Defaults]
    BY <1>3 DEF ServeQuery
  <2>5. answer'[q].journeys = s /\ answer'[q].total = Cardinality(Matching(asked[q]))
    BY <2>1 DEF Searching
  <2>6. /\ at' \in [Queries -> {"idle", "sent", "answered"}] /\ DOMAIN asked' = Queries
        /\ DOMAIN answer' = Queries
    BY <2>1, <2>4 DEF Searching
  <2>7. at'[q] = "answered" /\ \A p \in Queries \ {q} : at'[p] = at[p] /\ asked'[p] = asked[p]
    BY <2>4 DEF Searching
  <2>8. ~overlap => asked[q] = criteria /\ \A p \in Queries \ {q} : at'[p] = "idle"
    BY <2>3, <2>7 DEF Searching, Asking
  <2>9. ~overlap => Best(criteria, answer'[q].journeys, answer'[q].total)
    BY <2>2, <2>5, <2>8
  <2>10. ~overlap' => Best(criteria, answer[q].journeys, answer[q].total)'
    BY <2>3, <2>9, BestKept
  <2> QED  BY <2>3, <2>6, <2>7, <2>8, <2>10 DEF Searching, Asking
<1>4. ASSUME NEW q \in Queries, Found(q) PROVE Searching'
  BY <1>4, QueryEnded DEF Found
<1>5. ASSUME NEW q \in Queries, QueryFails(q) PROVE Searching'
  BY <1>5, QueryEnded DEF QueryFails
<1>6. ASSUME NEW o \in Offers, Others(o) PROVE Searching'
  BY <1>6 DEF Others, Searching, Asking
<1>7. CASE UNCHANGED findVars
  <2>1. UNCHANGED <<free, live, criteria, found, total, at, asked, answer, overlap, aged>>
    BY <1>7 DEF findVars
  <2> QED  BY <2>1, BestKept DEF Searching, Asking
<1> QED
  BY <1>1, <1>2, <1>3, <1>4, <1>5, <1>6, <1>7
     DEF FindNext, SetSort, SetMaxPrice, Search, ResetFilters

\* The invariant of the search page is what is claimed of it.
LEMMA SearchingIsBest == Searching => BestAreShown
BY DEF Searching, Best, BestAreShown, FoundIsAsked, NothingBetterLeftOut

-----------------------------------------------------------------------------
(* Fares: the calculator                                                   *)

\* What the fields hold: the limits are those of the fields, not of what is typed.
FareFields ==
    /\ distanceKm \in 20..800
    /\ fuelPrice \in Nat \ {0}
    /\ tolls \in Nat
    /\ mileage \in Nat \ {0}
    /\ riders \in 1..4

Bill ==
    /\ splitTotal \in Nat
    /\ splitPeople \in Nat \ {0}
    /\ splitTipPercent \in {0, 5, 10, 15}

FaresInv == FareFields /\ Bill

\* Math.round is off by a half at most.
LEMMA RoundIsNear ==
    ASSUME NEW a \in Nat, NEW b \in Nat \ {0}
    PROVE  /\ Round(a, b) \in Nat
           /\ 2 * (Round(a, b) * b - a) <= b
           /\ 2 * (a - Round(a, b) * b) < b
<1> DEFINE q == (2 * a + b) \div (2 * b)
           r == (2 * a + b) % (2 * b)
<1>1. 2 * a + b \in Nat /\ 2 * b \in Nat \ {0}
  OBVIOUS
<1>2. q \in Nat /\ r \in 0..(2 * b - 1)
  BY <1>1
<1>3. 2 * a + b = (2 * b) * q + r
  BY <1>1
<1>4. 2 * (q * b) = (2 * b) * q
  BY <1>2
<1>5. Round(a, b) = q
  BY DEF Round
<1> HIDE DEF q, r
<1> QED  BY <1>2, <1>3, <1>4, <1>5

\* The service fee alone is more than the rounding of a seat's price.
LEMMA CostIsPositive ==
    ASSUME FareFields
    PROVE  totalTripCost \in Nat /\ totalTripCost >= 24
<1>1. fuelCost \in Nat
  <2> DEFINE e == distanceKm * 15 * fuelPrice
             f == 2 * distanceKm * fuelPrice
  <2>1. e \in Nat /\ f \in Nat /\ mileage \in Nat \ {0}
    BY DEF FareFields
  <2> HIDE DEF e, f
  <2>2. Round(e, 100) \in Nat
    <3>1. 100 \in Nat \ {0}
      OBVIOUS
    <3> QED  BY ONLY <2>1, <3>1, RoundIsNear
  <2>3. Round(f, mileage) \in Nat
    BY ONLY <2>1, RoundIsNear
  <2> QED  BY <2>2, <2>3 DEF fuelCost, e, f
<1>2. Round(distanceKm * 12, 10) \in Nat /\ Round(distanceKm * 12, 10) >= 24
  BY DEF FareFields, Round
<1> QED  BY <1>1, <1>2 DEF FareFields, totalTripCost

\* A fare recommended for any trip is a fair part of its cost.
LEMMA FareIsFair ==
    ASSUME FareFields
    PROVE  CostIsShared
<1> DEFINE n == riders + 1
           t == totalTripCost
           p == Round(t, n)
<1>1. t \in Nat /\ t >= 24
  BY CostIsPositive
<1>2. riders \in 1..4 /\ n \in Nat \ {0}
  BY DEF FareFields
<1>3. p \in Nat /\ 2 * (p * n - t) <= n /\ 2 * (t - p * n) < n
  BY <1>1, <1>2, RoundIsNear
<1>4. recommendedPricePerSeat = p /\ totalPeople = n
  BY DEF recommendedPricePerSeat, totalPeople
<1> HIDE DEF p, t
<1>5. p * riders <= t /\ 2 * ((t - p * riders) - p) \in -n..n
  <2>1. CASE riders = 1
    BY <1>1, <1>3, <2>1
  <2>2. CASE riders = 2
    BY <1>1, <1>3, <2>2
  <2>3. CASE riders = 3
    BY <1>1, <1>3, <2>3
  <2>4. CASE riders = 4
    BY <1>1, <1>3, <2>4
  <2> QED  BY <1>2, <2>1, <2>2, <2>3, <2>4
<1> QED  BY <1>4, <1>5 DEF CostIsShared, driverMoneyRecovered, driverFinalCost, t

\* The shares of any bill make it up.
LEMMA BillIsSplit ==
    ASSUME Bill
    PROVE  SharesMakeTheBill
<1>1. grandTotal \in Nat
  <2>1. splitTotal * splitTipPercent \in Nat
    BY DEF Bill
  <2>2. Round(splitTotal * splitTipPercent, 100) \in Nat
    BY <2>1, RoundIsNear
  <2> QED  BY <2>2 DEF Bill, grandTotal
<1>2. payingPeople \in Nat \ {0}
  BY DEF Bill, payingPeople, AtLeast
<1> DEFINE g == grandTotal
           n == payingPeople
           s == Round(g, n)
<1>3. s \in Nat /\ 2 * (s * n - g) <= n /\ 2 * (g - s * n) < n
  BY <1>1, <1>2, RoundIsNear
<1>4. s * n \in Nat /\ g \in Nat /\ n \in Nat
  BY <1>1, <1>2, <1>3
<1> DEFINE m == s * n
<1>5. 2 * (m - g) <= n /\ 2 * (g - m) < n /\ m \in Nat
  BY <1>3, <1>4
<1> HIDE DEF m, g, n
<1>6. 2 * (m - g) \in -n..n
  BY <1>4, <1>5
<1> QED  BY <1>6 DEF SharesMakeTheBill, perPersonShare, m, g, n

\* The fields hold numbers.
LEMMA NumbersTyped ==
    \A n : n \in FuelPrices \/ n \in Tolls \/ n \in Mileages \/ n \in Totals => n \in Int
BY FaresAssumption

\* The fields hold their defaults at first.
LEMMA FaresInitInv == CalcInit => FaresInv
BY DEF CalcInit, FaresInv, FareFields, Bill

\* Every change of a field keeps the invariant.
LEMMA FaresStep == FaresInv /\ [FareNext \/ SplitNext]_calcVars => FaresInv'
<1> SUFFICES ASSUME FaresInv, [FareNext \/ SplitNext]_calcVars PROVE FaresInv'
  OBVIOUS
<1> USE DEF FaresInv
<1>1. ASSUME FareNext PROVE FaresInv'
  <2>1. Bill'
    BY <1>1 DEF FareNext, splitVars, Bill
  <2>2. ASSUME NEW t \in {"petrol", "diesel", "cng", "ev"}, handleFuelTypeChange(t)
        PROVE  FareFields'
    BY <2>2 DEF handleFuelTypeChange, FareFields
  <2>3. ASSUME NEW x \in Presets, handleApplyPreset(x) PROVE FareFields'
    BY <2>3, FaresAssumption DEF handleApplyPreset, FareFields
  <2>4. ASSUME NEW n \in Distances, setDistanceKm(n) PROVE FareFields'
    BY <2>4, FaresAssumption DEF setDistanceKm, FareFields
  <2>5. ASSUME setFields PROVE FareFields'
    <3>1. CASE \E n \in FuelPrices : fuelPrice' = AtLeast(n, 1)
                                   /\ UNCHANGED <<mileage, tolls, riders>>
      BY <2>5, <3>1, NumbersTyped DEF setFields, FareFields, AtLeast
    <3>2. CASE \E n \in Mileages : mileage' = AtLeast(n, 2)
                                 /\ UNCHANGED <<fuelPrice, tolls, riders>>
      BY <2>5, <3>2, NumbersTyped DEF setFields, FareFields, AtLeast
    <3>3. CASE \E n \in Tolls : tolls' = AtLeast(n, 0)
                              /\ UNCHANGED <<fuelPrice, mileage, riders>>
      BY <2>5, <3>3, NumbersTyped DEF setFields, FareFields, AtLeast
    <3>4. CASE riders' \in 1..4 /\ UNCHANGED <<fuelPrice, mileage, tolls>>
      BY <2>5, <3>4 DEF setFields, FareFields
    <3> QED  BY <2>5, <3>1, <3>2, <3>3, <3>4 DEF setFields
  <2> QED  BY <1>1, <2>1, <2>2, <2>3, <2>4, <2>5 DEF FareNext
<1>2. ASSUME SplitNext PROVE FaresInv'
  <2>1. FareFields'
    BY <1>2 DEF SplitNext, fareVars, FareFields
  <2>2. ASSUME setSplit PROVE Bill'
    <3>2. splitTotal' = splitTotal \/ \E n \in Totals : splitTotal' = AtLeast(n, 0)
      BY <2>2 DEF setSplit
    <3>3. splitTotal' \in Nat
      BY <3>2, NumbersTyped DEF Bill, AtLeast
    <3>4. splitPeople' \in Nat \ {0}
      BY <2>2 DEF setSplit, Bill, AtLeast
    <3>5. splitTipPercent' \in {0, 5, 10, 15}
      BY <2>2 DEF setSplit, Bill
    <3> QED  BY <3>3, <3>4, <3>5 DEF Bill
  <2>3. ASSUME copySplitSummary \/ TimerRings PROVE Bill'
    BY <2>3 DEF copySplitSummary, TimerRings, Bill
  <2> QED  BY <1>2, <2>1, <2>2, <2>3 DEF SplitNext
<1>3. CASE UNCHANGED calcVars
  BY <1>3 DEF calcVars, fareVars, splitVars, FareFields, Bill
<1> QED  BY <1>1, <1>2, <1>3

-----------------------------------------------------------------------------
(* All of it                                                               *)

HostInv == GarageInv /\ RosterInv /\ Searching /\ FaresInv

\* A step of one part leaves the others alone, so each keeps its invariant.
LEMMA HostStep == HostInv /\ [HostNext]_hostVars => HostInv'
<1> SUFFICES ASSUME HostInv, [HostNext]_hostVars PROVE HostInv'
  OBVIOUS
<1>1. [GarageNext]_gVars /\ [RosterNext]_rosterVars /\ [FindNext]_findVars
      /\ [FareNext \/ SplitNext]_calcVars
  BY DEF HostNext, hostVars
<1> QED  BY <1>1, GarageStep, RosterStep, SearchingStep, FaresStep DEF HostInv

\* The invariant holds of every behaviour.
THEOREM HostCorrect == HostSpec => []HostInv
<1>1. HostInit => HostInv
  BY GarageInitInv, RosterInitInv, SearchingInit, FaresInitInv DEF HostInit, HostInv
<1> QED  BY <1>1, HostStep, PTL DEF HostSpec

\* VehiclesAgree always holds: a default vehicle, once chosen, is the only one, a journey
\* to be driven keeps its vehicle, with the seats it offers, but for the overlaps of
\* requests the parts of it name.
THEOREM VehiclesKept == HostSpec => []VehiclesAgree
<1>1. HostInv => VehiclesAgree
  BY VehiclesAreKept DEF HostInv
<1> QED  BY <1>1, HostCorrect, PTL

\* A form becomes one journey, with its stops and its chat, unless its request failed
\* after the INSERT.
THEOREM FormsPublished == HostSpec => []PublishedOnceAndWhole
<1>1. HostInv => PublishedOnceAndWhole
  BY DEF HostInv, GarageInv, FormsOut, PublishStages, PublishedOnceAndWhole
<1> QED  BY <1>1, HostCorrect, PTL

\* The driver's page shows its rides and the passengers of the one selected as they are
\* stored, but for what others changed since, for failures and for overlaps of its calls.
THEOREM DriverSeesRides == HostSpec => []PageIsCurrent
<1>1. HostInv => PageIsCurrent
  BY RosterIsKept DEF HostInv
<1> QED  BY <1>1, HostCorrect, PTL

\* The search page shows what was asked for last and leaves out nothing better, but for
\* overlapping queries and changes by others.
THEOREM SearchShowsBest == HostSpec => []BestAreShown
<1>1. HostInv => BestAreShown
  BY SearchingIsBest DEF HostInv
<1> QED  BY <1>1, HostCorrect, PTL

\* Nobody pays more than a fair part, at any price, distance, toll or bill: the driver
\* never earns, and the shares of a bill make it up to the rounding.
THEOREM FairParts == HostSpec => []PartsAreFair
<1>1. HostInv => PartsAreFair
  BY FareIsFair, BillIsSplit DEF HostInv, FaresInv, PartsAreFair
<1> QED  BY <1>1, HostCorrect, PTL


-----------------------------------------------------------------------------
(* Helpdesk: the tickets                                                    *)

Writing == {"ticket", "first", "created"}
Replying == {"insert", "update", "replied"}

Threads == Seq(0..MaxTexts)

TicketRows ==
    /\ status \in [Tickets -> Statuses \cup {"NONE"}]
    /\ thread \in [Tickets -> Threads]
    /\ closedAt \in [Tickets -> Nat] /\ answered \in [Tickets -> Nat]
    /\ torn \cup mixed \subseteq Stored

FormFields ==
    /\ newTicket \in 0..texts /\ replyMessage \in 0..texts /\ texts \in 0..MaxTexts
    /\ duties \in 0..MaxDuties /\ faults \in 0..MaxFaults
    /\ isSubmitting \in BOOLEAN /\ isReplying \in BOOLEAN /\ blurred \in BOOLEAN
    /\ resent \subseteq 1..texts

Hands ==
    /\ stage \in [PageCalls \cup Staff -> {"idle", "get", "set", "list", "decide"} \cup Writing
                                     \cup Replying]
    /\ of \in [PageCalls \cup Staff -> Tickets \cup {NoTicket}]
    /\ DOMAIN with = PageCalls \cup Staff

\* What a call of the page or a request of the staff has in hand.
Tasked ==
    /\ \A c \in PageCalls : stage[c] # "decide"
    /\ \A s \in Staff : stage[s] \in {"idle", "insert", "update", "decide"}
    /\ \A c \in PageCalls \cup Staff :
          /\ stage[c] # "idle" => of[c] \in Tickets
          /\ stage[c] \notin {"idle", "ticket", "list"} => of[c] \in Stored
    /\ \A c \in PageCalls : stage[c] \in Writing \cup Replying => with[c] \in 1..texts
    /\ \A s \in Staff : stage[s] \in Replying => with[s] = 0
    /\ \A s \in Staff : stage[s] = "decide" => with[s] \in {"IN_PROGRESS", "RESOLVED", "CLOSED"}

\* What the page lists, has selected and shows is there, and so is what it loads.
PageShown ==
    /\ listed \subseteq Stored /\ selected \in listed \cup {NoTicket}
    /\ shown \in Nat /\ shown <= (IF selected = NoTicket THEN 0 ELSE Len(thread[selected]))
    /\ \A c \in PageCalls : stage[c] \in {"get", "set"} \cup Replying => of[c] \in listed
    /\ \A c \in PageCalls : stage[c] = "set" => with[c] \in 0..Len(thread[of[c]])

\* A reply whose status is not yet set is the last of its thread, and the only one.
Updates ==
    \A c \in PageCalls \cup Staff :
        stage[c] = "update" /\ of[c] \notin torn \cup mixed
        => /\ thread[of[c]] # <<>> /\ thread[of[c]][Len(thread[of[c]])] = with[c]
           /\ \A d \in Updating(of[c]) : d = c

\* A load that no other overlaps brings the answered replies.
Loading ==
    /\ \A t \in Tickets : answered[t] <= Len(thread[t])
    /\ ~blurred => /\ \A c, d \in Loads : c = d
                   /\ \A c \in Loads : stage[c] = "set" => with[c] >= answered[of[c]]
                   /\ OwnReplyShown

\* One call at a time sends the form and one the reply, and each still holds its text.
Sending ==
    /\ \A c \in PageCalls : stage[c] \in Writing \cup {"list"} =>
          isSubmitting /\ \A d \in PageCalls : stage[d] \in Writing \cup {"list"} => d = c
    /\ \A c \in PageCalls : stage[c] \in Replying =>
          isReplying /\ \A d \in PageCalls : stage[d] \in Replying => d = c
    /\ \A c \in PageCalls : stage[c] \in Writing => with[c] = newTicket
    /\ \A c \in PageCalls : stage[c] \in Replying => with[c] = replyMessage
    /\ newTicket # 0 => newTicket # replyMessage

\* A text that is stored already is not sent once more, except as a repetition.
Sent(k) == \E t \in Tickets : \E i \in DOMAIN thread[t] : thread[t][i] = k

Texts ==
    /\ \A k \in Nat : Sent(k) => k <= texts
    /\ newTicket # 0 /\ Sent(newTicket) =>
          newTicket \in resent \/ \E c \in PageCalls : stage[c] = "created"
    /\ replyMessage # 0 /\ Sent(replyMessage) =>
          replyMessage \in resent \/ \E c \in PageCalls : stage[c] \in {"update", "replied"}
    /\ SentOnce

Openings ==
    \A t \in Stored :
        \/ t \in torn
        \/ \E c \in PageCalls : of[c] = t /\ stage[c] = "first"
        \/ thread[t] # <<>> /\ thread[t][1] # 0

HelpInv == TicketRows /\ FormFields /\ Hands /\ Tasked /\ PageShown /\ Updates /\
  ReplyReopens /\ WaitingMeansAnswered /\ Loading
       /\ Sending /\ Texts /\ Openings

\* What stands for nothing is no ticket.
LEMMA NoneIsNoTicket == NoTicket \notin Tickets
BY HelpdeskAssumption

\* A call of the user's page is not one of the staff, and the bounds are numbers.
LEMMA HelpRoles ==
    /\ \A c \in PageCalls : c \in PageCalls \cup Staff /\ c \notin Staff
    /\ \A s \in Staff : s \in PageCalls \cup Staff /\ s \notin PageCalls
    /\ MaxTexts \in Nat /\ MaxDuties \in Nat /\ MaxFaults \in Nat
BY HelpdeskAssumption

\* What is appended is the last.
LEMMA LastAppended ==
    \A s \in Seq(0..MaxTexts) : \A m :
        Append(s, m) # <<>> /\ Append(s, m)[Len(Append(s, m))] = m
<1> SUFFICES ASSUME NEW s \in Seq(0..MaxTexts), NEW m
             PROVE  Append(s, m) # <<>> /\ Append(s, m)[Len(Append(s, m))] = m
  OBVIOUS
<1>1. Len(Append(s, m)) = Len(s) + 1 /\ Append(s, m)[Len(s) + 1] = m
  OBVIOUS
<1> QED  BY <1>1

\* A thread may be empty.
LEMMA EmptyThread == <<>> \in Threads /\ Len(<<>>) = 0
BY DEF Threads

\* There are no tickets at first.
LEMMA HelpInitInv == Init => HelpInv
<1> SUFFICES ASSUME Init PROVE HelpInv
  OBVIOUS
<1>1. TicketRows
  BY HelpdeskAssumption, EmptyThread, HelpRoles DEF Init, TicketRows
<1>2. FormFields
  <2>1. {isSubmitting, isReplying, blurred} \subseteq BOOLEAN
    BY DEF Init
  <2>2. /\ newTicket = 0 /\ replyMessage = 0 /\ texts = 0 /\ duties = 0 /\ faults = 0 /\ resent = {}
        /\ 0 \in 0..MaxTexts /\ 0 \in 0..MaxDuties /\ 0 \in 0..MaxFaults
    BY HelpRoles DEF Init
  <2> QED  BY <2>1, <2>2 DEF FormFields
<1>3. Hands
  BY HelpdeskAssumption, EmptyThread, HelpRoles DEF Init, Hands
<1>4. Tasked
  BY HelpdeskAssumption, EmptyThread, HelpRoles DEF Init, Tasked, Writing, Replying
<1>5. PageShown
  BY HelpdeskAssumption, EmptyThread, HelpRoles DEF Init, PageShown, Replying
<1>6. Updates
  BY HelpdeskAssumption, EmptyThread, HelpRoles DEF Init, Updates
<1>7. ReplyReopens
  BY HelpdeskAssumption, EmptyThread, HelpRoles DEF Init, ReplyReopens
<1>8. WaitingMeansAnswered
  BY HelpdeskAssumption, EmptyThread, HelpRoles DEF Init, WaitingMeansAnswered
<1>9. Loading
  BY HelpdeskAssumption, EmptyThread, HelpRoles DEF Init, Loading, Loads, OwnReplyShown
<1>10. Sending
  BY HelpdeskAssumption, EmptyThread, HelpRoles DEF Init, Sending, Writing, Replying
<1>11. Texts
  BY HelpdeskAssumption, EmptyThread, HelpRoles DEF Init, Texts, Sent, SentOnce
<1>12. Openings
  BY HelpdeskAssumption, EmptyThread, HelpRoles DEF Init, Openings, Stored
<1> QED  BY <1>1, <1>2, <1>3, <1>4, <1>5, <1>6, <1>7, <1>8, <1>9, <1>10, <1>11, <1>12
            DEF HelpInv

\* Every step of the page, the handlers and the staff keeps the invariant of the tickets.
LEMMA HelpStep == HelpInv /\ [Next]_vars => HelpInv'
<1> SUFFICES ASSUME HelpInv, [Next]_vars PROVE HelpInv'
  OBVIOUS
<1> USE NoneIsNoTicket, HelpRoles DEF HelpInv, server, inputs, view, tasks, helpBounds, history
<1>1. ASSUME TypeForm PROVE HelpInv'
  <2>1. TicketRows' /\ Hands' /\ PageShown' /\ Updates' /\ ReplyReopens' /\
          WaitingMeansAnswered' /\ Loading' /\ Openings'
    BY <1>1 DEF TypeForm, TicketRows, Stored, Hands, PageShown, Updates, Updating,
       ReplyReopens, WaitingMeansAnswered, Loading, Loads, OwnReplyShown, Openings
  <2>2. FormFields'
    BY <1>1 DEF TypeForm, FormFields
  <2>3. Tasked'
    BY <1>1 DEF TypeForm, FormFields, Tasked, Stored
  <2>4. Sending'
    BY <1>1 DEF TypeForm, FormFields, Tasked, Sending
  <2>5. Texts'
    <3>1. UNCHANGED <<thread, replyMessage, resent, stage>>
          /\ texts' = texts + 1 /\ newTicket' = texts'
      BY <1>1 DEF TypeForm
    <3>2. texts \in Nat
      BY DEF FormFields
    <3>3. ~Sent(texts + 1)
      BY <3>2 DEF Texts
    <3> QED  BY <3>1, <3>2, <3>3 DEF Texts, Sent, SentOnce
  <2> QED  BY <2>1, <2>2, <2>3, <2>4, <2>5
<1>2. ASSUME TypeReply PROVE HelpInv'
  <2>1. TicketRows' /\ Hands' /\ PageShown' /\ Updates' /\ ReplyReopens' /\
          WaitingMeansAnswered' /\ Loading' /\ Openings'
    BY <1>2 DEF TypeReply, TicketRows, Stored, Hands, PageShown, Updates, Updating,
       ReplyReopens, WaitingMeansAnswered, Loading, Loads, OwnReplyShown, Openings
  <2>2. FormFields'
    BY <1>2 DEF TypeReply, FormFields
  <2>3. Tasked'
    BY <1>2 DEF TypeReply, FormFields, Tasked, Stored
  <2>4. Sending'
    BY <1>2 DEF TypeReply, FormFields, Tasked, Sending
  <2>5. Texts'
    <3>1. UNCHANGED <<thread, newTicket, resent, stage>>
          /\ texts' = texts + 1 /\ replyMessage' = texts'
      BY <1>2 DEF TypeReply
    <3>2. texts \in Nat
      BY DEF FormFields
    <3>3. ~Sent(texts + 1)
      BY <3>2 DEF Texts
    <3> QED  BY <3>1, <3>2, <3>3 DEF Texts, Sent, SentOnce
  <2> QED  BY <2>1, <2>2, <2>3, <2>4, <2>5
<1>3. ASSUME NEW c \in PageCalls, NEW t \in Tickets, Click(c, t) PROVE HelpInv'
  <2>1. TicketRows'
    BY <1>3 DEF Click, TicketRows, Stored
  <2>2. FormFields'
    BY <1>3 DEF Click, FormFields
  <2>3. Hands'
    BY <1>3 DEF Click, Start, Hands
  <2>4. Tasked'
    <3>1. t \in Stored
      BY <1>3 DEF Click, PageShown
    <3> QED  BY <1>3, <3>1 DEF Click, Start, Hands, Tasked, Stored, Writing, Replying
  <2>5. PageShown'
    BY <1>3 DEF Click, Start, Hands, PageShown, Stored
  <2>6. Updates'
    BY <1>3 DEF Click, Start, Updates, Updating
  <2>7. ReplyReopens'
    BY <1>3 DEF Click, Start, ReplyReopens, Updating
  <2>8. WaitingMeansAnswered'
    BY <1>3 DEF Click, Start, WaitingMeansAnswered, Updating
  <2>9. Loading'
    BY <1>3 DEF Click, Start, TicketRows, FormFields, Hands, Tasked, PageShown, Loading, Loads,
       OwnReplyShown, Replying
  <2>10. Sending'
    BY <1>3 DEF Click, Start, Sending, Writing, Replying
  <2>11. Texts'
    BY <1>3 DEF Click, Start, Texts, Sent, SentOnce
  <2>12. Openings'
    BY <1>3 DEF Click, Start, Openings, Stored
  <2> QED  BY <2>1, <2>2, <2>3, <2>4, <2>5, <2>6, <2>7, <2>8, <2>9, <2>10, <2>11, <2>12
<1>4. ASSUME NEW c \in PageCalls, NEW t \in Tickets, Submit(c, t) PROVE HelpInv'
  <2>1. TicketRows'
    BY <1>4 DEF Submit, TicketRows, Stored
  <2>2. FormFields'
    BY <1>4 DEF Submit, FormFields
  <2>3. Hands'
    BY <1>4 DEF Submit, Start, Hands, Writing
  <2>4. Tasked'
    BY <1>4 DEF Submit, CanSubmit, Start, FormFields, Hands, Tasked, Stored
  <2>5. PageShown'
    BY <1>4 DEF Submit, Start, PageShown, Stored, Replying
  <2>6. Updates'
    BY <1>4 DEF Submit, Start, Updates, Updating
  <2>7. ReplyReopens'
    BY <1>4 DEF Submit, Start, ReplyReopens, Updating
  <2>8. WaitingMeansAnswered'
    BY <1>4 DEF Submit, Start, WaitingMeansAnswered, Updating
  <2>9. Loading'
    BY <1>4 DEF Submit, Start, Loading, Loads, OwnReplyShown
  <2>10. Sending'
    BY <1>4 DEF Submit, CanSubmit, Start, Hands, Sending, Replying
  <2>11. Texts'
    BY <1>4 DEF Submit, Start, Texts, Sent, SentOnce
  <2>12. Openings'
    BY <1>4 DEF Submit, Start, Openings, Stored
  <2> QED  BY <2>1, <2>2, <2>3, <2>4, <2>5, <2>6, <2>7, <2>8, <2>9, <2>10, <2>11, <2>12
<1>5. ASSUME NEW c \in PageCalls, Get(c) PROVE HelpInv'
  <2>1. TicketRows' /\ FormFields'
    BY <1>5 DEF Get, TicketRows, Stored, FormFields
  <2>2. Hands'
    BY <1>5 DEF Get, Hands
  <2>3. Tasked'
    BY <1>5 DEF Get, TicketRows, FormFields, Hands, Tasked, Stored, Statuses, Writing, Replying
  <2>4. PageShown'
    BY <1>5 DEF Get, Hands, PageShown, Stored
  <2>5. Updates'
    BY <1>5 DEF Get, Updates, Updating
  <2>6. ReplyReopens'
    BY <1>5 DEF Get, ReplyReopens, Updating
  <2>7. WaitingMeansAnswered'
    BY <1>5 DEF Get, WaitingMeansAnswered, Updating
  <2>8. Loading'
    BY <1>5 DEF Get, Hands, Tasked, Loading, Loads, OwnReplyShown
  <2>9. Sending'
    BY <1>5 DEF Get, Sending, Writing, Replying
  <2>10. Texts'
    <3>1. UNCHANGED <<thread, newTicket, replyMessage, texts, resent>>
      BY <1>5 DEF Get
    <3>2. \A d \in PageCalls : \A l \in {"created", "update", "replied"} :
             stage[d] = l => stage'[d] = l
      BY <1>5 DEF Get
    <3>3. \A k : Sent(k)' <=> Sent(k)
      BY <3>1 DEF Sent
    <3> QED  BY <3>1, <3>2, <3>3 DEF Texts, SentOnce
  <2>11. Openings'
    BY <1>5 DEF Get, Openings, Stored
  <2> QED  BY <2>1, <2>2, <2>3, <2>4, <2>5, <2>6, <2>7, <2>8, <2>9, <2>10, <2>11
<1>6. ASSUME NEW c \in PageCalls, SetDetails(c) PROVE HelpInv'
  <2>1. TicketRows' /\ FormFields'
    BY <1>6 DEF SetDetails, TicketRows, Stored, FormFields
  <2>2. Hands'
    BY <1>6 DEF SetDetails, End, Hands
  <2>3. Tasked'
    BY <1>6 DEF SetDetails, End, Hands, Tasked, Stored, Writing, Replying
  <2>4. PageShown'
    BY <1>6 DEF SetDetails, End, Hands, PageShown, Stored, Replying
  <2>5. Updates'
    BY <1>6 DEF SetDetails, End, Updates, Updating
  <2>6. ReplyReopens'
    BY <1>6 DEF SetDetails, End, ReplyReopens, Updating
  <2>7. WaitingMeansAnswered'
    BY <1>6 DEF SetDetails, End, WaitingMeansAnswered, Updating
  <2>8. Loading'
    BY <1>6 DEF SetDetails, End, Hands, Loading, Loads, OwnReplyShown
  <2>9. Sending'
    BY <1>6 DEF SetDetails, End, Sending, Writing, Replying
  <2>10. Texts'
    BY <1>6 DEF SetDetails, End, Texts, Sent, SentOnce
  <2>11. Openings'
    BY <1>6 DEF SetDetails, End, Openings, Stored
  <2> QED  BY <2>1, <2>2, <2>3, <2>4, <2>5, <2>6, <2>7, <2>8, <2>9, <2>10, <2>11
<1>7. ASSUME NEW c \in PageCalls, LoadFails(c) PROVE HelpInv'
  <2>1. TicketRows'
    BY <1>7 DEF LoadFails, TicketRows, Stored
  <2>2. FormFields'
    BY <1>7 DEF LoadFails, FormFields
  <2>3. Hands'
    BY <1>7 DEF LoadFails, End, Hands
  <2>4. Tasked'
    BY <1>7 DEF LoadFails, End, Hands, Tasked, Stored, Writing, Replying
  <2>5. PageShown'
    BY <1>7 DEF LoadFails, End, Hands, PageShown, Stored, Replying
  <2>6. Updates'
    BY <1>7 DEF LoadFails, End, Hands, Updates, Updating
  <2>7. ReplyReopens'
    BY <1>7 DEF LoadFails, Loads, End, ReplyReopens, Updating
  <2>8. WaitingMeansAnswered'
    BY <1>7 DEF LoadFails, Loads, End, WaitingMeansAnswered, Updating
  <2>9. Loading'
    BY <1>7 DEF LoadFails, Loading
  <2>10. Sending'
    BY <1>7 DEF LoadFails, End, Hands, Sending, Writing, Replying
  <2>11. Texts'
    BY <1>7 DEF LoadFails, Loads, End, Texts, Sent, SentOnce
  <2>12. Openings'
    BY <1>7 DEF LoadFails, Loads, End, Openings, Stored
  <2> QED  BY <2>1, <2>2, <2>3, <2>4, <2>5, <2>6, <2>7, <2>8, <2>9, <2>10, <2>11, <2>12
<1>8. ASSUME NEW c \in PageCalls, InsertTicket(c) PROVE HelpInv'
  <2>1. TicketRows'
    BY <1>8 DEF InsertTicket, TicketRows, Tasked, Stored, Statuses
  <2>2. FormFields'
    BY <1>8 DEF InsertTicket, FormFields
  <2>3. Hands'
    BY <1>8 DEF InsertTicket, Goto, Hands, Writing
  <2>4. Tasked'
    BY <1>8 DEF InsertTicket, Goto, TicketRows, Tasked, Stored, Writing
  <2>5. PageShown'
    BY <1>8 DEF InsertTicket, Goto, PageShown, Stored, Replying
  <2>6. Updates'
    BY <1>8 DEF InsertTicket, Goto, Updates, Updating
  <2>7. ReplyReopens'
    BY <1>8 DEF InsertTicket, Goto, ReplyReopens, Updating
  <2>8. WaitingMeansAnswered'
    BY <1>8 DEF InsertTicket, Goto, WaitingMeansAnswered, Updating
  <2>9. Loading'
    BY <1>8 DEF InsertTicket, Goto, Loading, Loads, OwnReplyShown
  <2>10. Sending'
    BY <1>8 DEF InsertTicket, Goto, Sending, Writing, Replying
  <2>11. Texts'
    BY <1>8 DEF InsertTicket, Goto, Texts, Sent, SentOnce
  <2>12. Openings'
    BY <1>8 DEF InsertTicket, Goto, Hands, Openings, Stored
  <2> QED  BY <2>1, <2>2, <2>3, <2>4, <2>5, <2>6, <2>7, <2>8, <2>9, <2>10, <2>11, <2>12
<1>9. ASSUME NEW c \in PageCalls, InsertFirst(c) PROVE HelpInv'
  <2>a. /\ stage[c] = "first" /\ stage' = [stage EXCEPT ![c] = "created"]
        /\ thread' = [thread EXCEPT ![of[c]] = Append(@, with[c])]
        /\ UNCHANGED <<status, of, with, texts, newTicket, replyMessage, resent>>
    BY <1>9 DEF InsertFirst, Goto
  <2>b. of[c] \in Tickets /\ of[c] \in Stored
    BY <2>a DEF Tasked
  <2>c. /\ thread'[of[c]] = Append(thread[of[c]], with[c])
        /\ \A t \in Tickets : t # of[c] => thread'[t] = thread[t]
    BY <2>a, <2>b DEF TicketRows
  <2>d. thread[of[c]] \in Seq(0..MaxTexts)
    BY <2>b DEF TicketRows, Threads
  <2>1. TicketRows'
    <3>1. of[c] \in Stored /\ of[c] \in Tickets
      BY <1>9 DEF InsertFirst, Tasked
    <3>2. with[c] \in 0..MaxTexts
      BY <1>9 DEF InsertFirst, Tasked, Writing, FormFields
    <3>3. Append(thread[of[c]], with[c]) \in Threads
      BY <3>1, <3>2 DEF TicketRows, Threads
    <3> QED  BY <1>9, <3>1, <3>3 DEF InsertFirst, TicketRows, Stored
  <2>2. FormFields'
    BY <1>9 DEF InsertFirst, FormFields
  <2>3. Hands'
    BY <1>9 DEF InsertFirst, Goto, Hands, Writing
  <2>4. Tasked'
    BY <1>9 DEF InsertFirst, Goto, TicketRows, FormFields, Hands, Tasked, Stored, Statuses,
       Writing, Replying
  <2>5. PageShown'
    BY <1>9 DEF InsertFirst, Goto, PageShown, Stored, Replying
  <2>6. Updates'
    BY <1>9 DEF InsertFirst, Goto, Updates, Updating
  <2>7. ReplyReopens'
    BY <1>9 DEF InsertFirst, Goto, ReplyReopens, Updating
  <2>8. WaitingMeansAnswered'
    BY <1>9 DEF InsertFirst, Goto, WaitingMeansAnswered, Updating
  <2>9. Loading'
    BY <1>9 DEF InsertFirst, Goto, TicketRows, Loading, Loads, OwnReplyShown
  <2>10. Sending'
    BY <1>9 DEF InsertFirst, Goto, Sending, Writing, Replying
  <2>11. Texts'
    <3>1. \A t \in Tickets : thread[t] \in Seq(0..MaxTexts)
      BY DEF TicketRows, Threads
    <3>2. /\ DOMAIN thread'[of[c]] = DOMAIN thread[of[c]] \cup {Len(thread[of[c]]) + 1}
          /\ Len(thread[of[c]]) + 1 \notin DOMAIN thread[of[c]]
          /\ thread'[of[c]][Len(thread[of[c]]) + 1] = with[c]
          /\ \A i \in DOMAIN thread[of[c]] : thread'[of[c]][i] = thread[of[c]][i]
      BY <2>c, <2>d
    <3>3. \A m : Sent(m)' => Sent(m) \/ m = with[c]
      <4> SUFFICES ASSUME NEW m, NEW t \in Tickets, NEW i \in DOMAIN thread'[t],
                          thread'[t][i] = m
                   PROVE  Sent(m) \/ m = with[c]
        BY DEF Sent
      <4>1. CASE t = of[c]
        BY <2>b, <3>2, <4>1 DEF Sent
      <4>2. CASE t # of[c]
        BY <2>c, <4>2 DEF Sent
      <4> QED  BY <4>1, <4>2
    <3>4. with[c] = newTicket /\ with[c] \in 1..texts /\ (Sent(with[c]) => with[c] \in resent)
      <4>1. with[c] = newTicket /\ with[c] \in 1..texts /\ \A d \in PageCalls : stage[d] # "created"
        BY <1>9, <2>a DEF Tasked, Sending, Writing
      <4> QED  BY <4>1 DEF Texts
    <3>5. SentOnce'
      <4>1. ASSUME NEW t \in Tickets, NEW u \in Tickets,
                   NEW i \in DOMAIN thread'[t], NEW j \in DOMAIN thread'[u],
                   thread'[t][i] = thread'[u][j], thread'[t][i] # 0,
                   ~(t = u /\ i = j)
            PROVE  thread'[t][i] \in resent'
        <5> DEFINE added(x, m) == x = of[c] /\ m = Len(thread[of[c]]) + 1
        <5>1. ~added(t, i) => i \in DOMAIN thread[t] /\ thread'[t][i] = thread[t][i]
          BY <2>c, <3>2
        <5>2. ~added(u, j) => j \in DOMAIN thread[u] /\ thread'[u][j] = thread[u][j]
          BY <2>c, <3>2
        <5>3. CASE ~added(t, i) /\ ~added(u, j)
          BY <2>a, <4>1, <5>1, <5>2, <5>3 DEF Texts, SentOnce
        <5>4. CASE added(t, i) /\ ~added(u, j)
          BY <2>a, <3>2, <3>4, <4>1, <5>2, <5>4 DEF Sent
        <5>5. CASE ~added(t, i) /\ added(u, j)
          BY <2>a, <3>2, <3>4, <4>1, <5>1, <5>5 DEF Sent
        <5> QED  BY <4>1, <5>3, <5>4, <5>5
      <4> QED  BY <4>1 DEF SentOnce
    <3>6. stage'[c] = "created" /\ \A d \in PageCalls :
                                    stage[d] \in {"update", "replied"} => stage'[d] = stage[d]
      BY <2>a DEF Hands
    <3>7. replyMessage # 0 => replyMessage # with[c]
      BY <3>4 DEF Sending
    <3> QED  BY <1>9, <2>a, <3>3, <3>4, <3>5, <3>6, <3>7 DEF Texts
  <2>12. Openings'
    <3>1. with[c] # 0
      BY <2>a DEF Tasked, Writing
    <3>2. of[c] \in torn' \/ (thread'[of[c]] # <<>> /\ thread'[of[c]][1] # 0)
      <4>1. CASE thread[of[c]] # <<>>
        BY <1>9, <4>1 DEF InsertFirst
      <4>2. CASE thread[of[c]] = <<>>
        BY <2>c, <2>d, <3>1, <4>2
      <4> QED  BY <4>1, <4>2
    <3>3. \A d \in PageCalls : stage[d] = "first" /\ d # c => stage'[d] = "first"
      BY <2>a
    <3>4. torn \subseteq torn' /\ Stored' = Stored
      BY <1>9, <2>a DEF InsertFirst, Stored
    <3> QED  BY <2>a, <2>c, <3>2, <3>3, <3>4 DEF Openings
  <2> QED  BY <2>1, <2>2, <2>3, <2>4, <2>5, <2>6, <2>7, <2>8, <2>9, <2>10, <2>11, <2>12
<1>10. ASSUME NEW c \in PageCalls, Created(c) PROVE HelpInv'
  <2>1. TicketRows'
    BY <1>10 DEF Created, TicketRows, Stored
  <2>2. FormFields'
    BY <1>10 DEF Created, FormFields
  <2>3. Hands'
    BY <1>10 DEF Created, Goto, Hands
  <2>4. Tasked'
    BY <1>10 DEF Created, Goto, Tasked, Stored, Writing
  <2>5. PageShown'
    BY <1>10 DEF Created, Goto, PageShown, Stored, Replying
  <2>6. Updates'
    BY <1>10 DEF Created, Goto, Updates, Updating
  <2>7. ReplyReopens'
    BY <1>10 DEF Created, Goto, ReplyReopens, Updating
  <2>8. WaitingMeansAnswered'
    BY <1>10 DEF Created, Goto, WaitingMeansAnswered, Updating
  <2>9. Loading'
    BY <1>10 DEF Created, Goto, Loading, Loads, OwnReplyShown
  <2>10. Sending'
    BY <1>10 DEF Created, Goto, Hands, Sending, Writing, Replying
  <2>11. Texts'
    BY <1>10 DEF Created, Goto, Texts, Sent, SentOnce
  <2>12. Openings'
    BY <1>10 DEF Created, Goto, Openings, Stored
  <2> QED  BY <2>1, <2>2, <2>3, <2>4, <2>5, <2>6, <2>7, <2>8, <2>9, <2>10, <2>11, <2>12
<1>11. ASSUME NEW c \in PageCalls, FetchTickets(c) PROVE HelpInv'
  <2>1. CASE selected # NoTicket /\ End(c) /\ UNCHANGED blurred
    <3>1. TicketRows'
      BY <1>11, <2>1 DEF FetchTickets, TicketRows, Stored
    <3>2. FormFields'
      <4>1. isSubmitting' \in BOOLEAN /\ blurred' \in BOOLEAN
        BY <1>11, <2>1 DEF FetchTickets, FormFields
      <4>2. UNCHANGED <<newTicket, replyMessage, isReplying, texts, resent, duties, faults>>
        BY <1>11, <2>1 DEF FetchTickets
      <4> QED  BY <4>1, <4>2 DEF FormFields
    <3>3. Hands'
      BY <1>11, <2>1 DEF End, Hands
    <3>4. Tasked'
      BY <1>11, <2>1 DEF FetchTickets, End, Hands, Tasked, Stored, Writing, Replying
    <3>5. PageShown'
      BY <1>11, <2>1 DEF FetchTickets, End, PageShown, Stored, Replying
    <3>6. Updates'
      BY <1>11, <2>1 DEF FetchTickets, End, Updates, Updating
    <3>7. ReplyReopens'
      BY <1>11, <2>1 DEF FetchTickets, End, ReplyReopens, Updating
    <3>8. WaitingMeansAnswered'
      BY <1>11, <2>1 DEF FetchTickets, End, WaitingMeansAnswered, Updating
    <3>9. Loading'
      BY <1>11, <2>1 DEF FetchTickets, End, Loading, Loads, OwnReplyShown
    <3>10. Sending'
      BY <1>11, <2>1 DEF FetchTickets, End, Hands, Sending, Writing, Replying
    <3>11. Texts'
      BY <1>11, <2>1 DEF FetchTickets, End, Texts, Sent, SentOnce
    <3>12. Openings'
      BY <1>11, <2>1 DEF FetchTickets, End, Openings, Stored
    <3> QED  BY <3>1, <3>2, <3>3, <3>4, <3>5, <3>6, <3>7, <3>8, <3>9, <3>10, <3>11, <3>12
  <2>2. ASSUME NEW t \in Stored,
              /\ stage' = [stage EXCEPT ![c] = "get"]
              /\ of' = [of EXCEPT ![c] = t]
              /\ with' = [with EXCEPT ![c] = 0]
              /\ blurred' = (Loads # {})
        PROVE  HelpInv'
    <3>1. TicketRows'
      BY <1>11, <2>2 DEF FetchTickets, TicketRows, Stored
    <3>2. FormFields'
      <4>1. isSubmitting' \in BOOLEAN /\ blurred' \in BOOLEAN
        BY <1>11, <2>2 DEF FetchTickets, FormFields
      <4>2. UNCHANGED <<newTicket, replyMessage, isReplying, texts, resent, duties, faults>>
        BY <1>11, <2>2 DEF FetchTickets
      <4> QED  BY <4>1, <4>2 DEF FormFields
    <3>3. Hands'
      <4>1. t \in Tickets
        BY <1>11, <2>2 DEF Stored
      <4> QED  BY <1>11, <2>2, <4>1 DEF Hands
    <3>4. Tasked'
      BY <1>11, <2>2 DEF FetchTickets, Hands, Tasked, Stored, Writing, Replying
    <3>5. PageShown'
      BY <1>11, <2>2 DEF FetchTickets, Hands, PageShown, Stored
    <3>6. Updates'
      BY <1>11, <2>2 DEF FetchTickets, Updates, Updating
    <3>7. ReplyReopens'
      BY <1>11, <2>2 DEF FetchTickets, ReplyReopens, Updating
    <3>8. WaitingMeansAnswered'
      BY <1>11, <2>2 DEF FetchTickets, WaitingMeansAnswered, Updating
    <3>9. Loading'
      BY <1>11, <2>2 DEF FetchTickets, End, TicketRows, FormFields, Hands, Tasked, PageShown,
         Loading, Loads, OwnReplyShown, Replying
    <3>10. Sending'
      BY <1>11, <2>2 DEF FetchTickets, Hands, Sending, Writing, Replying
    <3>11. Texts'
      BY <1>11, <2>2 DEF FetchTickets, Texts, Sent, SentOnce
    <3>12. Openings'
      BY <1>11, <2>2 DEF FetchTickets, Openings, Stored
    <3> QED  BY <3>1, <3>2, <3>3, <3>4, <3>5, <3>6, <3>7, <3>8, <3>9, <3>10, <3>11, <3>12
  <2> QED  BY <1>11, <2>1, <2>2 DEF FetchTickets
<1>12. ASSUME NEW c \in PageCalls, CreateFails(c) PROVE HelpInv'
  <2>1. TicketRows'
    BY <1>12 DEF CreateFails, TicketRows, Tasked, Stored
  <2>2. FormFields'
    <3>1. isSubmitting' \in BOOLEAN
      BY <1>12 DEF CreateFails
    <3>2. resent' \in {resent, resent \cup {with[c]}} /\ stage[c] # "idle"
      BY <1>12 DEF CreateFails
    <3>3. resent' # resent => with[c] \in 1..texts
      <4>1. resent' # resent => stage[c] \in {"first", "created"}
        BY <1>12 DEF CreateFails
      <4> QED  BY <4>1 DEF Tasked, Writing
    <3>4. resent' \subseteq 1..texts
      BY <3>2, <3>3 DEF FormFields
    <3>5. /\ faults < MaxFaults /\ faults' = faults + 1
          /\ UNCHANGED <<newTicket, replyMessage, isReplying, texts, duties, blurred>>
      BY <1>12 DEF CreateFails
    <3> QED  BY <3>1, <3>4, <3>5 DEF FormFields
  <2>3. Hands'
    BY <1>12 DEF CreateFails, End, Hands
  <2>4. Tasked'
    BY <1>12 DEF CreateFails, End, Hands, Tasked, Stored, Writing, Replying
  <2>5. PageShown'
    BY <1>12 DEF CreateFails, End, PageShown, Stored, Replying
  <2>6. Updates'
    BY <1>12 DEF CreateFails, End, Updates, Updating
  <2>7. ReplyReopens'
    BY <1>12 DEF CreateFails, End, ReplyReopens, Updating
  <2>8. WaitingMeansAnswered'
    BY <1>12 DEF CreateFails, End, WaitingMeansAnswered, Updating
  <2>9. Loading'
    BY <1>12 DEF CreateFails, End, Loading, Loads, OwnReplyShown
  <2>10. Sending'
    BY <1>12 DEF CreateFails, End, Hands, Sending, Writing, Replying
  <2>11. Texts'
    BY <1>12 DEF CreateFails, End, Sending, Texts, Sent, SentOnce, Writing
  <2>12. Openings'
    BY <1>12 DEF CreateFails, End, Openings, Stored
  <2> QED  BY <2>1, <2>2, <2>3, <2>4, <2>5, <2>6, <2>7, <2>8, <2>9, <2>10, <2>11, <2>12
<1>13. ASSUME NEW c \in PageCalls, Reply(c) PROVE HelpInv'
  <2>1. TicketRows'
    BY <1>13 DEF Reply, TicketRows, Stored
  <2>2. FormFields'
    BY <1>13 DEF Reply, FormFields
  <2>3. Hands'
    <3>1. selected \in Stored /\ selected \in Tickets
      BY <1>13 DEF Reply, CanReply, PageShown, Stored
    <3> QED  BY <1>13, <3>1 DEF Reply, Start, Hands, Replying
  <2>4. Tasked'
    <3>1. selected \in Stored /\ selected \in Tickets
      BY <1>13 DEF Reply, CanReply, PageShown, Stored
    <3> QED  BY <1>13, <3>1 DEF Reply, CanReply, Start, FormFields, Hands, Tasked, Stored
  <2>5. PageShown'
    BY <1>13 DEF Reply, CanReply, Start, Hands, PageShown, Stored
  <2>6. Updates'
    BY <1>13 DEF Reply, Start, Updates, Updating
  <2>7. ReplyReopens'
    BY <1>13 DEF Reply, Start, ReplyReopens, Updating
  <2>8. WaitingMeansAnswered'
    BY <1>13 DEF Reply, Start, WaitingMeansAnswered, Updating
  <2>9. Loading'
    BY <1>13 DEF Reply, Start, Loading, Loads, OwnReplyShown
  <2>10. Sending'
    BY <1>13 DEF Reply, CanReply, Start, Hands, Sending, Writing
  <2>11. Texts'
    BY <1>13 DEF Reply, Start, Texts, Sent, SentOnce
  <2>12. Openings'
    BY <1>13 DEF Reply, Start, Openings, Stored
  <2> QED  BY <2>1, <2>2, <2>3, <2>4, <2>5, <2>6, <2>7, <2>8, <2>9, <2>10, <2>11, <2>12
<1>14. ASSUME NEW c \in PageCalls, Replied(c) PROVE HelpInv'
  <2>1. TicketRows'
    BY <1>14 DEF Replied, TicketRows, Tasked, Stored
  <2>2. FormFields'
    <3>1. isReplying' \in BOOLEAN /\ blurred' \in BOOLEAN
      BY <1>14 DEF Replied
    <3>2. replyMessage' = 0 /\ UNCHANGED <<newTicket, isSubmitting, texts, resent, duties, faults>>
      BY <1>14 DEF Replied
    <3>3. replyMessage' \in 0..texts
      BY <3>2 DEF FormFields
    <3> QED  BY <3>1, <3>2, <3>3 DEF FormFields
  <2>3. Hands'
    BY <1>14 DEF Replied, Hands
  <2>4. Tasked'
    BY <1>14 DEF Replied, TicketRows, FormFields, Hands, Tasked, Stored, Statuses, Writing,
       Replying
  <2>5. PageShown'
    BY <1>14 DEF Replied, PageShown, Stored, Replying
  <2>6. Updates'
    BY <1>14 DEF Replied, Updates, Updating
  <2>7. ReplyReopens'
    BY <1>14 DEF Replied, ReplyReopens, Updating
  <2>8. WaitingMeansAnswered'
    BY <1>14 DEF Replied, WaitingMeansAnswered, Updating
  <2>9. Loading'
    <3>1. /\ stage[c] = "replied" /\ stage' = [stage EXCEPT ![c] = "get"]
          /\ answered' = [answered EXCEPT ![of[c]] = Len(thread[of[c]])]
          /\ blurred' = (Loads # {}) /\ with' = [with EXCEPT ![c] = 0]
          /\ UNCHANGED <<of, thread, selected, shown>>
      BY <1>14 DEF Replied
    <3>2. \A d \in Loads' : d = c \/ d \in Loads
      BY <3>1 DEF Loads
    <3>3. c \in Loads' /\ stage'[c] = "get"
      BY <3>1 DEF Loads, Hands
    <3>4. ~blurred' => Loads = {}
      BY <3>1
    <3>5. \A t \in Tickets : answered'[t] <= Len(thread'[t])
      <4>1. \A t \in Tickets : Len(thread[t]) \in Nat
        BY DEF Threads
      <4> QED  BY <3>1, <4>1 DEF Loading
    <3> QED  BY <3>2, <3>3, <3>4, <3>5 DEF Loading, OwnReplyShown
  <2>10. Sending'
    BY <1>14 DEF Replied, Hands, Sending, Writing, Replying
  <2>11. Texts'
    <3>1. UNCHANGED <<thread, newTicket, texts, resent>> /\ replyMessage' = 0
      BY <1>14 DEF Replied
    <3>2. \A d \in PageCalls : stage[d] = "created" => stage'[d] = "created"
      BY <1>14 DEF Replied
    <3> QED  BY <3>1, <3>2 DEF Texts, Sent, SentOnce
  <2>12. Openings'
    BY <1>14 DEF Replied, Openings, Stored
  <2> QED  BY <2>1, <2>2, <2>3, <2>4, <2>5, <2>6, <2>7, <2>8, <2>9, <2>10, <2>11, <2>12
<1>15. ASSUME NEW c \in PageCalls \cup Staff, InsertReply(c) PROVE HelpInv'
  <2>a. /\ stage[c] = "insert" /\ stage' = [stage EXCEPT ![c] = "update"]
        /\ thread' = [thread EXCEPT ![of[c]] = Append(@, with[c])]
        /\ UNCHANGED <<status, of, with, texts, newTicket, replyMessage, resent, torn>>
    BY <1>15 DEF InsertReply, Goto
  <2>b. of[c] \in Tickets /\ of[c] \in Stored
    BY <2>a DEF Tasked
  <2>c. /\ thread'[of[c]] = Append(thread[of[c]], with[c])
        /\ \A t \in Tickets : t # of[c] => thread'[t] = thread[t]
    BY <2>a, <2>b DEF TicketRows
  <2>d. thread[of[c]] \in Seq(0..MaxTexts)
    BY <2>b DEF TicketRows, Threads
  <2>1. TicketRows'
    <3>1. of[c] \in Stored /\ of[c] \in Tickets
      BY <1>15 DEF InsertReply, Tasked
    <3>2. with[c] \in 0..MaxTexts
      <4>1. c \in PageCalls => with[c] \in 1..texts
        BY <1>15 DEF InsertReply, Tasked, Replying
      <4>2. c \in Staff => with[c] = 0
        BY <1>15 DEF InsertReply, Tasked, Replying
      <4> QED  BY <1>15, <4>1, <4>2 DEF FormFields
    <3>3. Append(thread[of[c]], with[c]) \in Threads
      BY <3>1, <3>2 DEF TicketRows, Threads
    <3> QED  BY <1>15, <3>1, <3>3 DEF InsertReply, TicketRows, Stored
  <2>2. FormFields'
    BY <1>15 DEF InsertReply, FormFields
  <2>3. Hands'
    BY <1>15 DEF InsertReply, Goto, Hands, Replying
  <2>4. Tasked'
    BY <1>15 DEF InsertReply, Goto, TicketRows, FormFields, Hands, Tasked, Stored, Statuses,
       Writing, Replying
  <2>5. PageShown'
    BY <1>15 DEF InsertReply, Goto, PageShown, Stored, Replying
  <2>6. Updates'
    <3>1. of[c] \notin mixed' => Updating(of[c]) = {}
      BY <1>15, <2>b DEF InsertReply
    <3>2. mixed \subseteq mixed'
      BY <1>15 DEF InsertReply
    <3>3. \A d \in PageCalls \cup Staff : stage'[d] = "update" <=> d = c \/ stage[d] = "update"
      BY <2>a DEF Hands
    <3>4. \A t \in Tickets :
              Updating(t)' = IF t = of[c] THEN Updating(t) \cup {c} ELSE Updating(t)
      BY <2>a, <3>3 DEF Updating
    <3>5. thread'[of[c]] # <<>> /\ thread'[of[c]][Len(thread'[of[c]])] = with[c]
      BY <2>c, <2>d, LastAppended
    <3>6. ASSUME NEW d \in PageCalls \cup Staff, stage'[d] = "update", of[d] \notin torn \cup mixed'
           PROVE  /\ thread'[of[d]] # <<>> /\ thread'[of[d]][Len(thread'[of[d]])] = with[d]
                  /\ \A e \in Updating(of[d])' : e = d
      <4>1. CASE d = c
        BY <2>a, <2>b, <3>1, <3>4, <3>5, <3>6, <4>1
      <4>2. CASE d # c
        <5>1. stage[d] = "update" /\ of[d] \in Tickets
          BY <3>3, <3>6, <4>2 DEF Tasked
        <5>2. of[d] # of[c]
          BY <3>1, <3>6, <5>1 DEF Updating
        <5>3. thread'[of[d]] = thread[of[d]] /\ Updating(of[d])' = Updating(of[d])
          BY <2>a, <2>c, <3>4, <5>1, <5>2
        <5>4. of[d] \notin torn \cup mixed
          BY <3>2, <3>6
        <5> QED  BY <5>1, <5>3, <5>4 DEF Updates
      <4> QED  BY <4>1, <4>2
    <3> QED  BY <2>a, <3>6 DEF Updates
  <2>7. ReplyReopens'
    BY <1>15 DEF InsertReply, Goto, Hands, ReplyReopens, Updating
  <2>8. WaitingMeansAnswered'
    BY <1>15 DEF InsertReply, Goto, Hands, WaitingMeansAnswered, Updating
  <2>9. Loading'
    BY <1>15 DEF InsertReply, Goto, TicketRows, Loading, Loads, OwnReplyShown
  <2>10. Sending'
    BY <1>15 DEF InsertReply, Goto, Sending, Writing, Replying
  <2>11. Texts'
    <3>1. \A t \in Tickets : thread[t] \in Seq(0..MaxTexts)
      BY DEF TicketRows, Threads
    <3>2. /\ DOMAIN thread'[of[c]] = DOMAIN thread[of[c]] \cup {Len(thread[of[c]]) + 1}
          /\ Len(thread[of[c]]) + 1 \notin DOMAIN thread[of[c]]
          /\ thread'[of[c]][Len(thread[of[c]]) + 1] = with[c]
          /\ \A i \in DOMAIN thread[of[c]] : thread'[of[c]][i] = thread[of[c]][i]
      BY <2>c, <2>d
    <3>3. \A m : Sent(m)' => Sent(m) \/ m = with[c]
      <4> SUFFICES ASSUME NEW m, NEW t \in Tickets, NEW i \in DOMAIN thread'[t],
                          thread'[t][i] = m
                   PROVE  Sent(m) \/ m = with[c]
        BY DEF Sent
      <4>1. CASE t = of[c]
        BY <2>b, <3>2, <4>1 DEF Sent
      <4>2. CASE t # of[c]
        BY <2>c, <4>2 DEF Sent
      <4> QED  BY <4>1, <4>2
    <3>4. /\ with[c] \in 0..texts
          /\ with[c] # 0 => c \in PageCalls /\ with[c] = replyMessage
          /\ with[c] # 0 /\ Sent(with[c]) => with[c] \in resent
      <4>1. c \in Staff => with[c] = 0
        BY <2>a DEF Tasked, Replying
      <4>2. c \in PageCalls => with[c] = replyMessage /\ with[c] \in 1..texts
                            /\ \A d \in PageCalls : stage[d] \notin {"update", "replied"}
        BY <2>a DEF Tasked, Sending, Replying
      <4> QED  BY <1>15, <4>1, <4>2 DEF Texts, FormFields
    <3>5. SentOnce'
      <4>1. ASSUME NEW t \in Tickets, NEW u \in Tickets,
                   NEW i \in DOMAIN thread'[t], NEW j \in DOMAIN thread'[u],
                   thread'[t][i] = thread'[u][j], thread'[t][i] # 0,
                   ~(t = u /\ i = j)
            PROVE  thread'[t][i] \in resent'
        <5> DEFINE added(x, m) == x = of[c] /\ m = Len(thread[of[c]]) + 1
        <5>1. ~added(t, i) => i \in DOMAIN thread[t] /\ thread'[t][i] = thread[t][i]
          BY <2>c, <3>2
        <5>2. ~added(u, j) => j \in DOMAIN thread[u] /\ thread'[u][j] = thread[u][j]
          BY <2>c, <3>2
        <5>3. CASE ~added(t, i) /\ ~added(u, j)
          BY <2>a, <4>1, <5>1, <5>2, <5>3 DEF Texts, SentOnce
        <5>4. CASE added(t, i) /\ ~added(u, j)
          BY <2>a, <3>2, <3>4, <4>1, <5>2, <5>4 DEF Sent
        <5>5. CASE ~added(t, i) /\ added(u, j)
          BY <2>a, <3>2, <3>4, <4>1, <5>1, <5>5 DEF Sent
        <5> QED  BY <4>1, <5>3, <5>4, <5>5
      <4> QED  BY <4>1 DEF SentOnce
    <3>6. stage'[c] = "update"
          /\ \A d \in PageCalls : stage[d] \in {"created", "update", "replied"} => stage'[d] = stage[d]
      BY <2>a DEF Hands
    <3>7. newTicket # 0 => newTicket # with[c]
      BY <3>4 DEF Sending
    <3>8. \A k \in Nat : Sent(k)' => k <= texts
      BY <3>3, <3>4 DEF Texts
    <3>9. newTicket # 0 /\ Sent(newTicket)' 
             => newTicket \in resent \/ \E d \in PageCalls : stage'[d] = "created"
      BY <2>a, <3>3, <3>6, <3>7 DEF Texts
    <3>10. replyMessage # 0 /\ Sent(replyMessage)'
           => replyMessage \in resent \/ \E d \in PageCalls : stage'[d] \in {"update", "replied"}
      BY <2>a, <3>3, <3>4, <3>6 DEF Texts
    <3> QED  BY <2>a, <3>5, <3>8, <3>9, <3>10 DEF Texts
  <2>12. Openings'
    <3>1. thread[of[c]] # <<>> => thread'[of[c]] # <<>> /\ thread'[of[c]][1] = thread[of[c]][1]
      BY <2>c, <2>d
    <3>2. \A d \in PageCalls : stage[d] = "first" => stage'[d] = "first"
      BY <2>a
    <3>3. Stored' = Stored
      BY <2>a DEF Stored
    <3> QED  BY <2>a, <2>c, <3>1, <3>2, <3>3 DEF Openings
  <2> QED  BY <2>1, <2>2, <2>3, <2>4, <2>5, <2>6, <2>7, <2>8, <2>9, <2>10, <2>11, <2>12
<1>16. ASSUME NEW c \in PageCalls \cup Staff, UpdateStatus(c) PROVE HelpInv'
  <2>1. CASE c \in Staff
    <3>a. /\ stage[c] = "update" /\ stage' = [stage EXCEPT ![c] = "idle"]
          /\ status' = [status EXCEPT ![of[c]] = "WAITING_FOR_USER"]
          /\ UNCHANGED <<thread, closedAt, answered, torn, mixed, listed, selected, shown, blurred>>
      BY <1>16, <2>1 DEF UpdateStatus, NewStatus, End
    <3>b. \A d \in PageCalls \cup Staff : d # c => of'[d] = of[d] /\ with'[d] = with[d]
      BY <1>16, <2>1 DEF UpdateStatus, End, Hands
    <3>c. of[c] \in Tickets /\ status[of[c]] # "NONE"
      BY <3>a DEF Tasked, Stored
    <3>d. \A t \in Tickets : status'[t] # "NONE" <=> status[t] # "NONE"
      BY <3>a, <3>c
    <3>1. TicketRows'
      BY <1>16, <2>1 DEF UpdateStatus, NewStatus, TicketRows, Tasked, Stored, Statuses
    <3>2. FormFields'
      BY <1>16, <2>1 DEF UpdateStatus, FormFields
    <3>3. Hands'
      BY <1>16, <2>1 DEF UpdateStatus, End, Hands
    <3>4. Tasked'
      BY <1>16, <2>1 DEF UpdateStatus, NewStatus, End, Hands, Tasked, Stored
    <3>5. PageShown'
      <4> QED  BY <3>a, <3>b, <3>d DEF Hands, PageShown, Stored, Replying
    <3>6. Updates'
      <4>1. \A d \in PageCalls \cup Staff : stage'[d] = "update" => d # c /\ stage[d] = "update"
        BY <3>a DEF Hands
      <4>2. \A t \in Tickets : Updating(t)' \subseteq Updating(t)
        BY <3>a, <3>b, <4>1 DEF Updating
      <4> QED  BY <3>a, <3>b, <4>1, <4>2 DEF Updates, Tasked, Replying
    <3>7. ReplyReopens'
      <4>1. \A t \in Tickets : t # of[c] => Updating(t)' = Updating(t)
        BY <3>a, <3>b DEF Updating, Hands
      <4> QED  BY <3>a, <3>c, <4>1 DEF ReplyReopens, TicketRows
    <3>8. WaitingMeansAnswered'
      <4>1. \A t \in Tickets : t # of[c] => Updating(t)' = Updating(t)
        BY <3>a, <3>b DEF Updating, Hands
      <4>2. of[c] \notin torn \cup mixed
            => thread[of[c]] # <<>> /\ thread[of[c]][Len(thread[of[c]])] = 0
        BY <3>a, <1>16, <2>1 DEF Updates, Tasked, Replying
      <4> QED  BY <3>a, <3>c, <4>1, <4>2 DEF WaitingMeansAnswered
    <3>9. Loading'
      <4>1. Loads' = Loads /\ \A d \in Loads : d # c /\ stage'[d] = stage[d]
        BY <3>a DEF Loads
      <4> QED  BY <3>a, <3>b, <4>1 DEF Loading, OwnReplyShown, Loads
    <3>10. Sending'
      BY <1>16, <2>1 DEF UpdateStatus, End, Hands, Sending
    <3>11. Texts'
      BY <1>16, <2>1 DEF UpdateStatus, End, Hands, Texts, Sent, SentOnce
    <3>12. Openings'
      <4>1. \A d \in PageCalls : stage[d] = "first" => stage'[d] = "first" /\ of'[d] = of[d]
        BY <3>a, <3>b
      <4> QED  BY <3>a, <3>d, <4>1 DEF Openings, Stored
    <3> QED  BY <3>1, <3>2, <3>3, <3>4, <3>5, <3>6, <3>7, <3>8, <3>9, <3>10, <3>11, <3>12
  <2>2. CASE c \in PageCalls
    <3>a. /\ stage[c] = "update" /\ stage' = [stage EXCEPT ![c] = "replied"]
          /\ status' = [status EXCEPT ![of[c]] = "IN_PROGRESS"]
          /\ UNCHANGED <<thread, closedAt, answered, torn, mixed, listed, selected, shown, blurred>>
      BY <1>16, <2>2 DEF UpdateStatus, NewStatus, Goto, End
    <3>b. \A d \in PageCalls \cup Staff : d # c => of'[d] = of[d] /\ with'[d] = with[d]
      BY <1>16, <2>2 DEF UpdateStatus, Goto
    <3>c. of[c] \in Tickets /\ status[of[c]] # "NONE"
      BY <3>a DEF Tasked, Stored
    <3>d. \A t \in Tickets : status'[t] # "NONE" <=> status[t] # "NONE"
      BY <3>a, <3>c
    <3>1. TicketRows'
      BY <1>16, <2>2 DEF UpdateStatus, NewStatus, TicketRows, Tasked, Stored, Statuses
    <3>2. FormFields'
      BY <1>16, <2>2 DEF UpdateStatus, FormFields
    <3>3. Hands'
      BY <1>16, <2>2 DEF UpdateStatus, Goto, Hands, Replying
    <3>4. Tasked'
      BY <1>16, <2>2 DEF UpdateStatus, NewStatus, Goto, Hands, Tasked, Stored
    <3>5. PageShown'
      <4>1. listed' \subseteq Stored'
        BY <3>a, <3>d DEF PageShown, Stored
      <4>2. of'[c] = of[c] /\ stage'[c] = "replied"
        BY <1>16, <2>2, <3>a DEF UpdateStatus, Goto, Hands
      <4>3. \A d \in PageCalls : d # c => stage'[d] = stage[d]
        BY <3>a
      <4> QED  BY <3>a, <3>b, <4>1, <4>2, <4>3 DEF PageShown, Replying
    <3>6. Updates'
      <4>1. \A d \in PageCalls \cup Staff : stage'[d] = "update" => d # c /\ stage[d] = "update"
        BY <3>a DEF Hands
      <4>2. \A t \in Tickets : Updating(t)' \subseteq Updating(t)
        BY <3>a, <3>b, <4>1 DEF Updating
      <4> QED  BY <3>a, <3>b, <4>1, <4>2 DEF Updates, Tasked, Replying
    <3>7. ReplyReopens'
      <4>1. \A t \in Tickets : t # of[c] => Updating(t)' = Updating(t)
        BY <3>a, <3>b DEF Updating, Hands
      <4> QED  BY <3>a, <3>c, <4>1 DEF ReplyReopens, TicketRows
    <3>8. WaitingMeansAnswered'
      <4>1. \A t \in Tickets : t # of[c] => Updating(t)' = Updating(t)
        BY <3>a, <3>b DEF Updating, Hands
      <4> QED  BY <3>a, <3>c, <4>1 DEF WaitingMeansAnswered, TicketRows
    <3>9. Loading'
      <4>1. Loads' = Loads /\ \A d \in Loads : d # c /\ stage'[d] = stage[d]
        BY <3>a DEF Loads
      <4> QED  BY <3>a, <3>b, <4>1 DEF Loading, OwnReplyShown, Loads
    <3>10. Sending'
      BY <1>16, <2>2 DEF UpdateStatus, Goto, Hands, Sending, Writing
    <3>11. Texts'
      BY <1>16, <2>2 DEF UpdateStatus, Goto, Hands, Texts, Sent, SentOnce
    <3>12. Openings'
      <4>1. \A d \in PageCalls : stage[d] = "first" => stage'[d] = "first" /\ of'[d] = of[d]
        BY <3>a, <3>b
      <4> QED  BY <3>a, <3>d, <4>1 DEF Openings, Stored
    <3> QED  BY <3>1, <3>2, <3>3, <3>4, <3>5, <3>6, <3>7, <3>8, <3>9, <3>10, <3>11, <3>12
  <2> QED  BY <1>16, <2>1, <2>2
<1>17. ASSUME NEW c \in PageCalls \cup Staff, ReplyFails(c) PROVE HelpInv'
  <2>1. TicketRows'
    BY <1>17 DEF ReplyFails, TicketRows, Tasked, Stored
  <2>2. FormFields'
    <3>1. isReplying' \in BOOLEAN
      BY <1>17 DEF ReplyFails, FormFields
    <3>2. resent' \in {resent, resent \cup {with[c]}}
      BY <1>17 DEF ReplyFails
    <3>3. resent' # resent => with[c] \in 1..texts
      <4>1. resent' # resent => c \in PageCalls /\ stage[c] \in {"insert", "update", "replied"}
        BY <1>17 DEF ReplyFails
      <4> QED  BY <4>1 DEF Tasked, Replying
    <3>4. resent' \subseteq 1..texts
      BY <3>2, <3>3 DEF FormFields
    <3>5. /\ faults < MaxFaults /\ faults' = faults + 1
          /\ UNCHANGED <<newTicket, replyMessage, isSubmitting, texts, duties, blurred>>
      BY <1>17 DEF ReplyFails
    <3> QED  BY <3>1, <3>4, <3>5 DEF FormFields
  <2>3. Hands'
    BY <1>17 DEF ReplyFails, End, Hands
  <2>4. Tasked'
    BY <1>17 DEF ReplyFails, End, Hands, Tasked, Stored, Writing, Replying
  <2>5. PageShown'
    BY <1>17 DEF ReplyFails, End, Hands, PageShown, Stored, Replying
  <2>6. Updates'
    BY <1>17 DEF ReplyFails, End, Hands, Updates, Updating
  <2>7. ReplyReopens'
    BY <1>17 DEF ReplyFails, End, ReplyReopens, Updating
  <2>8. WaitingMeansAnswered'
    BY <1>17 DEF ReplyFails, End, WaitingMeansAnswered, Updating
  <2>9. Loading'
    BY <1>17 DEF ReplyFails, End, Loading, Loads, OwnReplyShown
  <2>10. Sending'
    BY <1>17 DEF ReplyFails, End, Hands, Sending, Writing, Replying
  <2>11. Texts'
    BY <1>17 DEF ReplyFails, End, Sending, Texts, Sent, SentOnce, Replying
  <2>12. Openings'
    BY <1>17 DEF ReplyFails, End, Openings, Stored
  <2> QED  BY <2>1, <2>2, <2>3, <2>4, <2>5, <2>6, <2>7, <2>8, <2>9, <2>10, <2>11, <2>12
<1>18. ASSUME NEW s \in Staff, NEW t \in Tickets, StaffReplies(s, t) PROVE HelpInv'
  <2>1. TicketRows'
    BY <1>18 DEF StaffReplies, TicketRows, Stored
  <2>2. FormFields'
    BY <1>18 DEF StaffReplies, FormFields
  <2>3. Hands'
    BY <1>18 DEF StaffReplies, Start, Hands, Replying
  <2>4. Tasked'
    BY <1>18 DEF StaffReplies, Start, Hands, Tasked, Stored
  <2>5. PageShown'
    BY <1>18 DEF StaffReplies, Start, PageShown, Stored
  <2>6. Updates'
    BY <1>18 DEF StaffReplies, Start, Updates, Updating
  <2>7. ReplyReopens'
    BY <1>18 DEF StaffReplies, Start, ReplyReopens, Updating
  <2>8. WaitingMeansAnswered'
    BY <1>18 DEF StaffReplies, Start, WaitingMeansAnswered, Updating
  <2>9. Loading'
    BY <1>18 DEF StaffReplies, Start, Loading, Loads, OwnReplyShown
  <2>10. Sending'
    BY <1>18 DEF StaffReplies, Start, Sending
  <2>11. Texts'
    BY <1>18 DEF StaffReplies, Start, Texts, Sent, SentOnce
  <2>12. Openings'
    BY <1>18 DEF StaffReplies, Start, Openings, Stored
  <2> QED  BY <2>1, <2>2, <2>3, <2>4, <2>5, <2>6, <2>7, <2>8, <2>9, <2>10, <2>11, <2>12
<1>19. ASSUME NEW s \in Staff, NEW t \in Tickets, Decide(s, t) PROVE HelpInv'
  <2>1. TicketRows'
    BY <1>19 DEF Decide, TicketRows, Stored
  <2>2. FormFields'
    BY <1>19 DEF Decide, FormFields
  <2>3. Hands'
    BY <1>19 DEF Decide, Start, Hands
  <2>4. Tasked'
    BY <1>19 DEF Decide, Offered, Start, Hands, Tasked, Stored, Replying
  <2>5. PageShown'
    BY <1>19 DEF Decide, Start, PageShown, Stored
  <2>6. Updates'
    BY <1>19 DEF Decide, Start, Updates, Updating
  <2>7. ReplyReopens'
    BY <1>19 DEF Decide, Start, ReplyReopens, Updating
  <2>8. WaitingMeansAnswered'
    BY <1>19 DEF Decide, Start, WaitingMeansAnswered, Updating
  <2>9. Loading'
    BY <1>19 DEF Decide, Start, Loading, Loads, OwnReplyShown
  <2>10. Sending'
    BY <1>19 DEF Decide, Start, Sending
  <2>11. Texts'
    BY <1>19 DEF Decide, Start, Texts, Sent, SentOnce
  <2>12. Openings'
    BY <1>19 DEF Decide, Start, Openings, Stored
  <2> QED  BY <2>1, <2>2, <2>3, <2>4, <2>5, <2>6, <2>7, <2>8, <2>9, <2>10, <2>11, <2>12
<1>20. ASSUME NEW s \in Staff, StatusSet(s) PROVE HelpInv'
  <2>a. /\ stage[s] = "decide" /\ stage' = [stage EXCEPT ![s] = "idle"]
        /\ status' = [status EXCEPT ![of[s]] = with[s]]
        /\ mixed' = IF Updating(of[s]) # {} THEN mixed \cup {of[s]} ELSE mixed
        /\ UNCHANGED <<thread, torn, listed, selected, shown>>
    BY <1>20 DEF StatusSet, End
  <2>b. \A d \in PageCalls \cup Staff : d # s => of'[d] = of[d] /\ with'[d] = with[d]
    BY <1>20 DEF StatusSet, End
  <2>c. of[s] \in Tickets /\ status[of[s]] # "NONE" /\
          with[s] \in {"IN_PROGRESS", "RESOLVED", "CLOSED"}
    BY <2>a DEF Tasked, Stored
  <2>d. \A t \in Tickets : status'[t] # "NONE" <=> status[t] # "NONE"
    BY <2>a, <2>c
  <2>e. \A d \in PageCalls \cup Staff : d # s => stage'[d] = stage[d]
    BY <2>a
  <2>1. TicketRows'
    BY <1>20 DEF StatusSet, TicketRows, Tasked, Stored, Statuses
  <2>2. FormFields'
    BY <1>20 DEF StatusSet, FormFields
  <2>3. Hands'
    BY <1>20 DEF StatusSet, End, Hands
  <2>4. Tasked'
    BY <1>20 DEF StatusSet, End, TicketRows, FormFields, Hands, Tasked, Stored, Statuses,
       Writing, Replying
  <2>5. PageShown'
    <3>1. listed' \subseteq Stored'
      BY <2>a, <2>d DEF PageShown, Stored
    <3> QED  BY <2>a, <2>b, <2>e, <3>1 DEF PageShown
  <2>6. Updates'
    BY <1>20 DEF StatusSet, End, Updates, Updating
  <2>7. ReplyReopens'
    BY <1>20 DEF StatusSet, End, TicketRows, Hands, ReplyReopens, Updating
  <2>8. WaitingMeansAnswered'
    <3>1. stage'[s] # "update"
      BY <2>a
    <3>2. \A t \in Tickets : \A d \in PageCalls \cup Staff :
             stage'[d] = "update" /\ of'[d] = t <=> stage[d] = "update" /\ of[d] = t
      BY <2>a, <2>b, <2>e, <3>1
    <3>3. \A t \in Tickets : Updating(t)' = Updating(t)
      BY <3>2 DEF Updating
    <3> QED  BY <2>a, <2>c, <3>3 DEF WaitingMeansAnswered
  <2>9. Loading'
    BY <1>20 DEF StatusSet, End, Loading, Loads, OwnReplyShown
  <2>10. Sending'
    BY <1>20 DEF StatusSet, End, Sending
  <2>11. Texts'
    <3>1. UNCHANGED <<thread, newTicket, replyMessage, texts, resent>>
      BY <1>20 DEF StatusSet
    <3>2. \A d \in PageCalls : \A l \in {"created", "update", "replied"} :
             stage[d] = l => stage'[d] = l
      BY <1>20 DEF StatusSet, End
    <3>3. \A k : Sent(k)' <=> Sent(k)
      BY <3>1 DEF Sent
    <3> QED  BY <3>1, <3>2, <3>3 DEF Texts, SentOnce
  <2>12. Openings'
    BY <1>20 DEF StatusSet, End, TicketRows, Hands, Tasked, Openings, Stored, Writing
  <2> QED  BY <2>1, <2>2, <2>3, <2>4, <2>5, <2>6, <2>7, <2>8, <2>9, <2>10, <2>11, <2>12
<1>21. CASE UNCHANGED vars
  <2>1. TicketRows' /\ FormFields' /\ Hands' /\ Tasked'
    BY <1>21 DEF vars, TicketRows, Stored, FormFields, Hands, Tasked
  <2>2. PageShown' /\ Updates' /\ ReplyReopens' /\ WaitingMeansAnswered'
    BY <1>21 DEF vars, PageShown, Updates, Updating, ReplyReopens, WaitingMeansAnswered, Stored
  <2>3. Loading' /\ Sending' /\ Openings'
    BY <1>21 DEF vars, Loading, Loads, OwnReplyShown, Sending, Openings, Stored
  <2>4. Texts'
    BY <1>21 DEF vars, Texts, Sent, SentOnce
  <2> QED  BY <2>1, <2>2, <2>3, <2>4
<1> QED  BY <1>1, <1>2, <1>3, <1>4, <1>5, <1>6, <1>7, <1>8, <1>9, <1>10, <1>11, <1>12, <1>13,
            <1>14, <1>15, <1>16, <1>17, <1>18, <1>19, <1>20, <1>21 DEF Next

\* The invariant of the tickets is what is claimed of them.
LEMMA TicketsAreSound == HelpInv => StatusAgrees /\ WordsAreStored /\ OwnReplyShown
<1> SUFFICES ASSUME HelpInv PROVE StatusAgrees /\ WordsAreStored /\ OwnReplyShown
  OBVIOUS
<1>1. TypeOK
  BY DEF HelpInv, TypeOK, TicketRows, FormFields, PageShown, Threads
<1>2. StatusAgrees
  BY <1>1 DEF HelpInv, StatusAgrees
<1>3. OpensWithWords
  BY DEF HelpInv, PageShown, Openings, OpensWithWords
<1>4. WordsAreStored
  BY <1>3 DEF HelpInv, Texts, WordsAreStored
<1>5. OwnReplyShown
  BY DEF HelpInv, Loading, OwnReplyShown
<1> QED  BY <1>2, <1>4, <1>5

-----------------------------------------------------------------------------
(* Moderation: users, journeys and reports                                  *)

Values == UserStatuses \cup {"PUBLISHED", "CANCELLED", AdminNote, Nothing} \cup Reports

Entries == Values \X Values

Types ==
    /\ standing \in [Rows -> Values]
    /\ task \in [Tasks -> {"idle", "read", "change", "log", "answer"}]
    /\ about \in [Tasks -> Rows \cup {Nothing}]
    /\ old \in [Tasks -> Values] /\ new \in [Tasks -> Values]
    /\ selectedReport \in Reports \cup {Nothing} /\ note \in Reports \cup {Nothing}
    /\ strayed \in BOOLEAN
    /\ \A c \in Tasks : task[c] # "idle" => about[c] \in Rows

Entered == audit \in [Rows -> Seq(Entries)]

\* What the log of a row says the row has become.
Told(x) == IF audit[x] = <<>> THEN First(x) ELSE audit[x][Len(audit[x])][2]

Occupied(c, x, l) == about[c] = x /\ task[c] = l

\* A journey is only ever cancelled, and has no entry before.
Journeying(x) ==
    /\ standing[x] \in {"PUBLISHED", "CANCELLED"}
    /\ audit[x] # <<>> => standing[x] = "CANCELLED"
    /\ Len(audit[x]) <= 1
    /\ \A c \in Tasks : about[c] = x => new[c] = "CANCELLED"
    /\ \A c \in Tasks : Occupied(c, x, "change") => standing[x] # "CANCELLED"
    /\ \A c \in Tasks : Occupied(c, x, "log") => audit[x] = <<>>

\* The entries of a user follow on each other; a handler knows what the next begins with.
Chained(x) ==
    /\ \A i \in DOMAIN audit[x] :
          audit[x][i][1] = IF i = 1 THEN "ACTIVE" ELSE audit[x][i - 1][2]
    /\ \A c \in Tasks : Occupied(c, x, "change") => old[c] = standing[x]
    /\ \A c \in Tasks : Occupied(c, x, "log") => old[c] = Told(x)

\* One handler at most has yet to write what it has changed; without it the log is up to
\* date.
Logging(x) ==
    /\ \A c, d \in Tasks : Occupied(c, x, "log") /\ Occupied(d, x, "log") => c = d
    /\ \A c \in Tasks : Occupied(c, x, "log") => standing[x] = new[c]
    /\ (\A c \in Tasks : ~Occupied(c, x, "log")) => standing[x] = Told(x)

Logged ==
    \A x \in Rows \ (collided \cup unlogged) :
        Logging(x) /\ (x \in Users => Chained(x)) /\ (x \in Trips => Journeying(x))

\* Until a dialog is closed with a text in it, the text is that of the open report.
Noted ==
    ~strayed =>
        /\ note \in {Nothing, selectedReport}
        /\ \A c \in Tasks : about[c] \in Reports => new[c] \in {AdminNote, about[c]}
        /\ \A r \in Reports : standing[r] \in {Nothing, AdminNote, r}

ModInv == Types /\ Entered /\ Logged /\ Noted

\* Users, journeys and reports are different rows.
LEMMA Apart ==
    /\ Users \cap Trips = {} /\ Reports \cap (Users \cup Trips) = {}
    /\ Nothing \notin Rows
    /\ Rows = Users \cup Trips \cup Reports
BY ModerationAssumption DEF Rows

\* The values the columns take.
LEMMA SomeValues ==
    /\ {"PUBLISHED", "CANCELLED", AdminNote, Nothing} \cup UserStatuses \cup Reports
           \subseteq Values
    /\ \A x \in Rows : First(x) \in Values
BY DEF Values, First, UserStatuses

\* Nothing is logged at first.
LEMMA ModInitInv == ModInit => ModInv
<1> SUFFICES ASSUME ModInit PROVE ModInv
  OBVIOUS
<1>1. Types
  BY SomeValues DEF ModInit, Types
<1>5. Entered
  <2>1. <<>> \in Seq(Entries)
    OBVIOUS
  <2> QED  BY <2>1 DEF ModInit, Entered
<1>2. ASSUME NEW x \in Rows PROVE Logging(x) /\ Chained(x)
  BY <1>2 DEF ModInit, Logging, Chained, Told, Occupied
<1>3. ASSUME NEW x \in Trips PROVE Journeying(x)
  BY <1>3, Apart DEF ModInit, Journeying, First
<1>4. Noted
  BY Apart DEF ModInit, Noted, First
<1> QED  BY <1>1, <1>2, <1>3, <1>4, <1>5 DEF ModInv, Logged

\* Every step of the staff's requests and of the dialog keeps the invariant of the log.
LEMMA ModStep == ModInv /\ [ModNext]_modVars => ModInv'
<1> SUFFICES ASSUME ModInv, [ModNext]_modVars PROVE ModInv'
  OBVIOUS
<1> USE DEF ModInv, request, dialog, record
<1>1. ASSUME NEW c \in Tasks, NEW u \in Users, UpdateUserStatus(c, u) PROVE ModInv'
  <2>1. Types'
    BY <1>1, Apart, SomeValues DEF UpdateUserStatus, Ask, StepTo, Types
  <2>2. Entered'
    BY <1>1 DEF UpdateUserStatus, Ask, Entered
  <2>3. ASSUME NEW x \in Rows \ (collided' \cup unlogged') PROVE Logging(x)'
    <3>1. \A d \in Tasks : Occupied(d, x, "log")' <=> Occupied(d, x, "log")
      BY <1>1 DEF UpdateUserStatus, Ask, StepTo, Occupied
    <3>2. \A d \in Tasks : Occupied(d, x, "log") => new'[d] = new[d]
      BY <1>1 DEF UpdateUserStatus, Ask, Occupied
    <3>3. UNCHANGED <<standing, audit>> /\ x \in Rows \ (collided \cup unlogged)
      BY <1>1, <2>3 DEF UpdateUserStatus, Ask
    <3> QED  BY <3>1, <3>2, <3>3 DEF Logged, Logging, Told
  <2>4. ASSUME NEW x \in Users \ (collided' \cup unlogged') PROVE Chained(x)'
    BY <1>1, <2>4, Apart DEF UpdateUserStatus, Ask, StepTo, Logged, Chained, Told, Occupied
  <2>5. ASSUME NEW x \in Trips \ (collided' \cup unlogged') PROVE Journeying(x)'
    BY <1>1, <2>5, Apart DEF UpdateUserStatus, Ask, StepTo, Types, Logged, Journeying, Occupied
  <2>6. Noted'
    BY <1>1, Apart DEF UpdateUserStatus, Ask, Types, Noted
  <2> QED  BY <2>1, <2>2, <2>3, <2>4, <2>5, <2>6 DEF Logged
<1>2. ASSUME NEW c \in Tasks, NEW j \in Trips, ForceCancel(c, j) PROVE ModInv'
  <2>1. Types'
    BY <1>2, Apart, SomeValues DEF ForceCancel, Ask, StepTo, Types
  <2>2. Entered'
    BY <1>2 DEF ForceCancel, Ask, Entered
  <2>3. ASSUME NEW x \in Rows \ (collided' \cup unlogged') PROVE Logging(x)'
    <3>1. \A d \in Tasks : Occupied(d, x, "log")' <=> Occupied(d, x, "log")
      BY <1>2 DEF ForceCancel, Ask, StepTo, Occupied
    <3>2. \A d \in Tasks : Occupied(d, x, "log") => new'[d] = new[d]
      BY <1>2 DEF ForceCancel, Ask, Occupied
    <3>3. UNCHANGED <<standing, audit>> /\ x \in Rows \ (collided \cup unlogged)
      BY <1>2, <2>3 DEF ForceCancel, Ask
    <3> QED  BY <3>1, <3>2, <3>3 DEF Logged, Logging, Told
  <2>4. ASSUME NEW x \in Users \ (collided' \cup unlogged') PROVE Chained(x)'
    BY <1>2, <2>4, Apart DEF ForceCancel, Ask, StepTo, Logged, Chained, Told, Occupied
  <2>5. ASSUME NEW x \in Trips \ (collided' \cup unlogged') PROVE Journeying(x)'
    <3>1. \A d \in Tasks :
             /\ about'[d] = x => \/ about[d] = x /\ new'[d] = new[d]
                                 \/ new'[d] = "CANCELLED"
             /\ Occupied(d, x, "log")' => Occupied(d, x, "log")
             /\ Occupied(d, x, "change")' => Occupied(d, x, "change")
      BY <1>2, <2>5, Apart DEF ForceCancel, Ask, StepTo, Types, Occupied
    <3>2. UNCHANGED <<standing, audit>> /\ x \in Rows \ (collided \cup unlogged)
      BY <1>2, <2>5, Apart DEF ForceCancel, Ask
    <3> QED  BY <3>1, <3>2, <2>5 DEF Logged, Journeying
  <2>6. Noted'
    BY <1>2, Apart DEF ForceCancel, Ask, Types, Noted
  <2> QED  BY <2>1, <2>2, <2>3, <2>4, <2>5, <2>6 DEF Logged
<1>3. ASSUME NEW c \in Tasks, UpdateReport(c) PROVE ModInv'
  <2>1. Types'
    BY <1>3, Apart, SomeValues DEF UpdateReport, Ask, StepTo, Types
  <2>2. Entered'
    BY <1>3 DEF UpdateReport, Ask, Entered
  <2>3. ASSUME NEW x \in Rows \ (collided' \cup unlogged') PROVE Logging(x)'
    BY <1>3, <2>3, Apart DEF UpdateReport, Ask, StepTo, Logged, Logging, Told, Occupied
  <2>4. ASSUME NEW x \in Users \ (collided' \cup unlogged') PROVE Chained(x)'
    BY <1>3, <2>4, Apart DEF UpdateReport, Ask, StepTo, Types, Logged, Chained, Told, Occupied
  <2>5. ASSUME NEW x \in Trips \ (collided' \cup unlogged') PROVE Journeying(x)'
    BY <1>3, <2>5, Apart DEF UpdateReport, Ask, StepTo, Types, Logged, Journeying, Occupied
  <2>6. Noted'
    BY <1>3, Apart DEF UpdateReport, Ask, Types, Noted
  <2> QED  BY <2>1, <2>2, <2>3, <2>4, <2>5, <2>6 DEF Logged
<1>4. ASSUME NEW c \in Tasks, Read(c) PROVE ModInv'
  <2>1. Types'
    <3>1. about[c] \in Rows
      BY <1>4 DEF Read, Types
    <3>2. standing[about[c]] \in Values
      BY <3>1 DEF Types
    <3>3. CASE task' = [task EXCEPT ![c] = "idle"]
      BY <1>4, <3>2, <3>3, SomeValues DEF Read, Over, Types
    <3>4. CASE task' = [task EXCEPT ![c] = "change"]
      BY <1>4, <3>2, <3>4, SomeValues DEF Read, Over, StepTo, Types
    <3> QED  BY <1>4, <3>3, <3>4 DEF Read, Over, StepTo
  <2>2. Entered'
    BY <1>4 DEF Read, Entered
  <2>3. ASSUME NEW x \in Rows \ (collided' \cup unlogged') PROVE Logging(x)'
    <3>1. \A d \in Tasks : Occupied(d, x, "log")' <=> Occupied(d, x, "log")
      BY <1>4 DEF Read, Over, StepTo, Types, Occupied
    <3>2. \A d \in Tasks : Occupied(d, x, "log") => new'[d] = new[d]
      BY <1>4 DEF Read, Over, Types, Occupied
    <3>3. UNCHANGED <<standing, audit>> /\ x \in Rows \ (collided \cup unlogged)
      BY <1>4, <2>3 DEF Read
    <3> QED  BY <3>1, <3>2, <3>3 DEF Logged, Logging, Told
  <2>4. ASSUME NEW x \in Users \ (collided' \cup unlogged') PROVE Chained(x)'
    <3>1. \A d \in Tasks :
             /\ Occupied(d, x, "log")' => Occupied(d, x, "log") /\ old'[d] = old[d]
             /\ Occupied(d, x, "change")'
                   => \/ Occupied(d, x, "change") /\ old'[d] = old[d]
                      \/ old'[d] = standing[x]
      BY <1>4 DEF Read, Over, StepTo, Types, Occupied
    <3>2. UNCHANGED <<standing, audit>> /\ x \in Rows \ (collided \cup unlogged)
      BY <1>4, <2>4, Apart DEF Read
    <3> QED  BY <3>1, <3>2, <2>4 DEF Logged, Chained, Told
  <2>5. ASSUME NEW x \in Trips \ (collided' \cup unlogged') PROVE Journeying(x)'
    <3>1. \A d \in Tasks :
             /\ about'[d] = x => about[d] = x /\ new'[d] = new[d]
             /\ Occupied(d, x, "log")' => Occupied(d, x, "log")
             /\ Occupied(d, x, "change")' => Occupied(d, x, "change") \/ standing[x] # "CANCELLED"
      BY <1>4, <2>5, Apart DEF Read, Over, StepTo, Types, Occupied
    <3>2. UNCHANGED <<standing, audit>> /\ x \in Rows \ (collided \cup unlogged)
      BY <1>4, <2>5, Apart DEF Read
    <3> QED  BY <3>1, <3>2, <2>5 DEF Logged, Journeying
  <2>6. Noted'
    BY <1>4, Apart DEF Read, Over, Types, Noted
  <2> QED  BY <2>1, <2>2, <2>3, <2>4, <2>5, <2>6 DEF Logged
<1>5. ASSUME NEW c \in Tasks, Change(c) PROVE ModInv'
  <2>1. Types'
    BY <1>5, Apart, SomeValues DEF Change, StepTo, Types
  <2>2. Entered'
    BY <1>5 DEF Change, Entered
  <2>3. ASSUME NEW x \in Rows \ (collided' \cup unlogged') PROVE Logging(x)'
    <3>1. x \in Rows \ (collided \cup unlogged) /\ UNCHANGED <<audit, about, old, new>>
      BY <1>5, <2>3, Apart DEF Change
    <3>2. about[c] = x => \A d \in Tasks :
             d # c => ~Occupied(d, x, "log") /\ ~Occupied(d, x, "change")
      <4>1. about[c] = x => Within(x) = {c}
        BY <1>5, <2>3 DEF Change
      <4> QED  BY <4>1 DEF Within, Occupied
    <3>3. /\ about[c] = x => standing'[x] = new[c]
          /\ about[c] # x => standing'[x] = standing[x]
      BY <1>5, <3>1 DEF Change, Types
    <3>4. Occupied(c, x, "change") <=> about[c] = x
      BY <1>5 DEF Change, Occupied
    <3>5. \A d \in Tasks :
             /\ Occupied(d, x, "log")' <=> Occupied(d, x, "log") \/ (d = c /\ about[c] = x)
             /\ Occupied(d, x, "change")' <=> Occupied(d, x, "change") /\ d # c
      BY <1>5, <3>1 DEF Change, StepTo, Types, Occupied
    <3> QED  BY <3>1, <3>2, <3>3, <3>5 DEF Logged, Logging, Told
  <2>4. ASSUME NEW x \in Users \ (collided' \cup unlogged') PROVE Chained(x)'
    <3>1. x \in Rows \ (collided \cup unlogged) /\ UNCHANGED <<audit, about, old, new>>
      BY <1>5, <2>4, Apart DEF Change
    <3>2. about[c] = x => \A d \in Tasks :
             d # c => ~Occupied(d, x, "log") /\ ~Occupied(d, x, "change")
      <4>1. about[c] = x => Within(x) = {c}
        BY <1>5, <2>4 DEF Change
      <4> QED  BY <4>1 DEF Within, Occupied
    <3>3. /\ about[c] = x => standing'[x] = new[c]
          /\ about[c] # x => standing'[x] = standing[x]
      BY <1>5, <3>1 DEF Change, Types
    <3>4. Occupied(c, x, "change") <=> about[c] = x
      BY <1>5 DEF Change, Occupied
    <3>5. \A d \in Tasks :
             /\ Occupied(d, x, "log")' <=> Occupied(d, x, "log") \/ (d = c /\ about[c] = x)
             /\ Occupied(d, x, "change")' <=> Occupied(d, x, "change") /\ d # c
      BY <1>5, <3>1 DEF Change, StepTo, Types, Occupied
    <3>6. Logging(x) /\ Chained(x)
      BY <3>1, <2>4 DEF Logged
    <3>7. Told(x)' = Told(x)
      BY <3>1 DEF Told
    <3>8. CASE about[c] = x
      <4>1. old[c] = Told(x)
        BY <3>2, <3>4, <3>6, <3>8 DEF Logging, Chained
      <4> QED  BY <3>1, <3>2, <3>5, <3>6, <3>7, <3>8, <4>1 DEF Chained
    <3>9. CASE about[c] # x
      BY <3>1, <3>3, <3>5, <3>6, <3>7, <3>9 DEF Chained
    <3> QED  BY <3>8, <3>9
  <2>5. ASSUME NEW x \in Trips \ (collided' \cup unlogged') PROVE Journeying(x)'
    <3>1. x \in Rows \ (collided \cup unlogged) /\ UNCHANGED <<audit, about, old, new>>
      BY <1>5, <2>5, Apart DEF Change
    <3>2. about[c] = x => \A d \in Tasks :
             d # c => ~Occupied(d, x, "log") /\ ~Occupied(d, x, "change")
      <4>1. about[c] = x => Within(x) = {c}
        BY <1>5, <2>5 DEF Change
      <4> QED  BY <4>1 DEF Within, Occupied
    <3>3. /\ about[c] = x => standing'[x] = new[c]
          /\ about[c] # x => standing'[x] = standing[x]
      BY <1>5, <3>1 DEF Change, Types
    <3>4. Occupied(c, x, "change") <=> about[c] = x
      BY <1>5 DEF Change, Occupied
    <3>5. \A d \in Tasks :
             /\ Occupied(d, x, "log")' <=> Occupied(d, x, "log") \/ (d = c /\ about[c] = x)
             /\ Occupied(d, x, "change")' <=> Occupied(d, x, "change") /\ d # c
      BY <1>5, <3>1 DEF Change, StepTo, Types, Occupied
    <3>6. Journeying(x)
      BY <3>1, <2>5 DEF Logged
    <3>7. CASE about[c] = x
      <4>1. new[c] = "CANCELLED" /\ standing[x] = "PUBLISHED" /\ audit[x] = <<>>
        BY <3>4, <3>6, <3>7 DEF Journeying
      <4> QED  BY <3>1, <3>2, <3>3, <3>5, <3>6, <3>7, <4>1 DEF Journeying
    <3>8. CASE about[c] # x
      BY <3>1, <3>3, <3>5, <3>6, <3>8 DEF Journeying
    <3> QED  BY <3>7, <3>8
  <2>6. Noted'
    BY <1>5, Apart DEF Change, Noted
  <2> QED  BY <2>1, <2>2, <2>3, <2>4, <2>5, <2>6 DEF Logged
<1>6. ASSUME NEW c \in Tasks, Log(c) PROVE ModInv'
  <2>1. Types'
    <3>1. CASE about[c] \in Reports
      BY <1>6, <3>1 DEF Log, StepTo, Types
    <3>2. CASE about[c] \notin Reports
      BY <1>6, <3>2, SomeValues DEF Log, Over, StepTo, Types
    <3> QED  BY <3>1, <3>2
  <2>2. Entered'
    <3>1. about[c] \in Rows /\ audit[about[c]] \in Seq(Entries)
      BY <1>6 DEF Log, Types, Entered
    <3>2. old[c] \in Values /\ new[c] \in Values /\ Nothing \in Values
      BY SomeValues DEF Types
    <3>3. EntryOf(c) \in Entries
      BY <3>2 DEF EntryOf, Entries
    <3>4. Append(audit[about[c]], EntryOf(c)) \in Seq(Entries)
      BY <3>1, <3>3
    <3> QED  BY <1>6, <3>1, <3>4 DEF Log, Entered
  <2>3. ASSUME NEW x \in Rows \ (collided' \cup unlogged') PROVE Logging(x)'
    <3>1. /\ x \in Rows \ (collided \cup unlogged) /\ UNCHANGED standing
          /\ about[c] = x => audit'[x] = Append(audit[x], EntryOf(c))
          /\ about[c] # x => audit'[x] = audit[x]
      BY <1>6, <2>3, Apart DEF Log, Entered
    <3>2. Occupied(c, x, "log") <=> about[c] = x
      BY <1>6 DEF Log, Occupied
    <3>3. \A d \in Tasks :
             /\ Occupied(d, x, "log")' <=> Occupied(d, x, "log") /\ d # c
             /\ Occupied(d, x, "change")' <=> Occupied(d, x, "change")
             /\ d # c => new'[d] = new[d] /\ old'[d] = old[d] /\ about'[d] = about[d]
      BY <1>6 DEF Log, Over, StepTo, Types, Occupied
    <3>4. Logging(x) /\ audit[x] \in Seq(Entries)
      BY <3>1 DEF Logged, Entered
    <3>5. about[c] = x => Told(x)' = new[c]
      BY <3>1, <3>4 DEF EntryOf, Told
    <3>6. about[c] # x => Told(x)' = Told(x)
      BY <3>1 DEF Told
    <3>7. CASE about[c] = x
      BY <3>1, <3>2, <3>3, <3>4, <3>5, <3>7 DEF Logging
    <3>8. CASE about[c] # x
      BY <3>1, <3>2, <3>3, <3>4, <3>6, <3>8 DEF Logging
    <3> QED  BY <3>7, <3>8
  <2>4. ASSUME NEW x \in Users \ (collided' \cup unlogged') PROVE Chained(x)'
    <3>1. /\ x \in Rows \ (collided \cup unlogged) /\ UNCHANGED standing
          /\ about[c] = x => audit'[x] = Append(audit[x], EntryOf(c))
          /\ about[c] # x => audit'[x] = audit[x]
      BY <1>6, <2>4, Apart DEF Log, Entered
    <3>2. Occupied(c, x, "log") <=> about[c] = x
      BY <1>6 DEF Log, Occupied
    <3>3. \A d \in Tasks :
             /\ Occupied(d, x, "log")' <=> Occupied(d, x, "log") /\ d # c
             /\ Occupied(d, x, "change")' <=> Occupied(d, x, "change")
             /\ d # c => new'[d] = new[d] /\ old'[d] = old[d] /\ about'[d] = about[d]
      BY <1>6 DEF Log, Over, StepTo, Types, Occupied
    <3>4. Logging(x) /\ audit[x] \in Seq(Entries)
      BY <3>1 DEF Logged, Entered
    <3>5. about[c] = x => Told(x)' = new[c]
      BY <3>1, <3>4 DEF EntryOf, Told
    <3>6. about[c] # x => Told(x)' = Told(x)
      BY <3>1 DEF Told
    <3>7. Chained(x)
      BY <3>1, <2>4 DEF Logged
    <3>8. CASE about[c] = x
      <4>1. EntryOf(c) = <<Told(x), new[c]>>
        BY <3>2, <3>7, <3>8, <2>4 DEF EntryOf, Chained
      <4>2. ASSUME NEW i \in DOMAIN audit'[x]
            PROVE  audit'[x][i][1] = IF i = 1 THEN "ACTIVE" ELSE audit'[x][i - 1][2]
        <5> DEFINE n == Len(audit[x])
        <5>1. /\ n \in Nat /\ DOMAIN audit[x] = 1..n /\ i \in 1..(n + 1)
              /\ audit'[x][n + 1] = EntryOf(c)
              /\ \A k \in 1..n : audit'[x][k] = audit[x][k]
          BY <3>1, <3>4, <3>8, <4>2
        <5>2. CASE i = n + 1
          <6>1. CASE n = 0
            BY <3>4, <4>1, <5>1, <5>2, <6>1, <2>4 DEF Told, First
          <6>2. CASE n # 0
            BY <3>4, <4>1, <5>1, <5>2, <6>2 DEF Told
          <6> QED  BY <6>1, <6>2
        <5>3. CASE i \in 1..n
          <6>1. audit[x][i][1] = IF i = 1 THEN "ACTIVE" ELSE audit[x][i - 1][2]
            BY <3>7, <5>1, <5>3 DEF Chained
          <6>2. audit'[x][i] = audit[x][i] /\ (i # 1 => audit'[x][i - 1] = audit[x][i - 1])
            BY <5>1, <5>3
          <6> QED  BY <6>1, <6>2
        <5> QED  BY <5>1, <5>2, <5>3
      <4>3. \A d \in Tasks : ~Occupied(d, x, "log")'
        BY <3>2, <3>3, <3>4, <3>8 DEF Logging
      <4>4. \A d \in Tasks : Occupied(d, x, "change")' => old'[d] = standing'[x]
        BY <3>1, <3>2, <3>3, <3>7, <3>8 DEF Chained, Occupied
      <4> QED  BY <4>2, <4>3, <4>4 DEF Chained
    <3>9. CASE about[c] # x
      BY <3>1, <3>2, <3>3, <3>6, <3>7, <3>9 DEF Chained, Occupied
    <3> QED  BY <3>8, <3>9
  <2>5. ASSUME NEW x \in Trips \ (collided' \cup unlogged') PROVE Journeying(x)'
    <3>1. /\ x \in Rows \ (collided \cup unlogged) /\ UNCHANGED standing
          /\ about[c] = x => audit'[x] = Append(audit[x], EntryOf(c))
          /\ about[c] # x => audit'[x] = audit[x]
      BY <1>6, <2>5, Apart DEF Log, Entered
    <3>2. Occupied(c, x, "log") <=> about[c] = x
      BY <1>6 DEF Log, Occupied
    <3>3. \A d \in Tasks :
             /\ Occupied(d, x, "log")' <=> Occupied(d, x, "log") /\ d # c
             /\ Occupied(d, x, "change")' <=> Occupied(d, x, "change")
             /\ d # c => new'[d] = new[d] /\ old'[d] = old[d] /\ about'[d] = about[d]
      BY <1>6 DEF Log, Over, StepTo, Types, Occupied
    <3>4. Logging(x) /\ audit[x] \in Seq(Entries)
      BY <3>1 DEF Logged, Entered
    <3>5. about[c] = x => Told(x)' = new[c]
      BY <3>1, <3>4 DEF EntryOf, Told
    <3>6. about[c] # x => Told(x)' = Told(x)
      BY <3>1 DEF Told
    <3>7. Journeying(x) /\ x # Nothing /\ x \notin Reports
      BY <3>1, <2>5, Apart DEF Logged
    <3>8. CASE about[c] = x
      <4>1. standing[x] = "CANCELLED" /\ audit[x] = <<>>
        BY <3>2, <3>4, <3>7, <3>8 DEF Logging, Journeying
      <4>2. Len(audit'[x]) = 1
        <5>1. Len(audit[x]) = 0
          BY <4>1
        <5>2. Len(audit'[x]) = Len(audit[x]) + 1
          BY <3>1, <3>4, <3>8
        <5> QED  BY <5>1, <5>2
      <4>3. about'[c] # x
        BY <1>6, <3>7, <3>8 DEF Log, Over, Types
      <4>4. \A d \in Tasks : ~Occupied(d, x, "log")'
        BY <3>2, <3>3, <3>4, <3>8 DEF Logging
      <4> QED  BY <3>1, <3>3, <3>7, <4>1, <4>2, <4>3, <4>4 DEF Journeying
    <3>9. CASE about[c] # x
      <4>1. about'[c] # x
        BY <1>6, <3>7, <3>9 DEF Log, Over, Types
      <4> QED  BY <3>1, <3>2, <3>3, <3>7, <3>9, <4>1 DEF Journeying
    <3> QED  BY <3>8, <3>9
  <2>6. Noted'
    <3>1. /\ UNCHANGED <<standing, selectedReport, note, strayed>>
          /\ \A d \in Tasks : about'[d] \in Reports => about'[d] = about[d] /\ new'[d] = new[d]
      BY <1>6, Apart DEF Log, Over, Types
    <3> QED  BY <3>1 DEF Noted
  <2> QED  BY <2>1, <2>2, <2>3, <2>4, <2>5, <2>6 DEF Logged
<1>7. ASSUME NEW c \in Tasks, TaskFails(c) PROVE ModInv'
  <2>1. Types'
    BY <1>7, Apart, SomeValues DEF TaskFails, Over, StepTo, Types
  <2>2. Entered'
    BY <1>7 DEF TaskFails, Entered
  <2>3. ASSUME NEW x \in Rows \ (collided' \cup unlogged') PROVE Logging(x)'
    BY <1>7, <2>3, Apart DEF TaskFails, Over, StepTo, Logged, Logging, Told, Occupied
  <2>4. ASSUME NEW x \in Users \ (collided' \cup unlogged') PROVE Chained(x)'
    BY <1>7, <2>4, Apart DEF TaskFails, Over, StepTo, Types, Logged, Chained, Told, Occupied
  <2>5. ASSUME NEW x \in Trips \ (collided' \cup unlogged') PROVE Journeying(x)'
    BY <1>7, <2>5, Apart DEF TaskFails, Over, StepTo, Types, Logged, Journeying, Occupied
  <2>6. Noted'
    BY <1>7, Apart DEF TaskFails, Over, Types, Noted
  <2> QED  BY <2>1, <2>2, <2>3, <2>4, <2>5, <2>6 DEF Logged
<1>8. ASSUME NEW c \in Tasks, ReportUpdated(c) PROVE ModInv'
  <2>1. Types'
    BY <1>8, Apart, SomeValues DEF ReportUpdated, Over, StepTo, Types
  <2>2. Entered'
    BY <1>8 DEF ReportUpdated, Entered
  <2>3. ASSUME NEW x \in Rows \ (collided' \cup unlogged') PROVE Logging(x)'
    BY <1>8, <2>3, Apart DEF ReportUpdated, Over, StepTo, Logged, Logging, Told, Occupied
  <2>4. ASSUME NEW x \in Users \ (collided' \cup unlogged') PROVE Chained(x)'
    BY <1>8, <2>4, Apart DEF ReportUpdated, Over, StepTo, Logged, Chained, Told, Occupied
  <2>5. ASSUME NEW x \in Trips \ (collided' \cup unlogged') PROVE Journeying(x)'
    BY <1>8, <2>5, Apart DEF ReportUpdated, Over, StepTo, Types, Logged, Journeying, Occupied
  <2>6. Noted'
    BY <1>8, Apart DEF ReportUpdated, Over, Types, Noted
  <2> QED  BY <2>1, <2>2, <2>3, <2>4, <2>5, <2>6 DEF Logged
<1>9. ASSUME NEW r \in Reports, Inspect(r) PROVE ModInv'
  <2>1. Types'
    BY <1>9, Apart, SomeValues DEF Inspect, Types
  <2>2. Entered'
    BY <1>9 DEF Inspect, Entered
  <2>3. ASSUME NEW x \in Rows \ (collided' \cup unlogged') PROVE Logging(x)'
    BY <1>9, <2>3, Apart DEF Inspect, Logged, Logging, Told, Occupied
  <2>4. ASSUME NEW x \in Users \ (collided' \cup unlogged') PROVE Chained(x)'
    BY <1>9, <2>4, Apart DEF Inspect, Logged, Chained, Told, Occupied
  <2>5. ASSUME NEW x \in Trips \ (collided' \cup unlogged') PROVE Journeying(x)'
    BY <1>9, <2>5, Apart DEF Inspect, Logged, Journeying, Occupied
  <2>6. Noted'
    BY <1>9, Apart DEF Inspect, Noted
  <2> QED  BY <2>1, <2>2, <2>3, <2>4, <2>5, <2>6 DEF Logged
<1>10. ASSUME TypeNote PROVE ModInv'
  <2>1. Types'
    BY <1>10, Apart, SomeValues DEF TypeNote, Types
  <2>2. Entered'
    BY <1>10 DEF TypeNote, Entered
  <2>3. ASSUME NEW x \in Rows \ (collided' \cup unlogged') PROVE Logging(x)'
    BY <1>10, <2>3, Apart DEF TypeNote, Logged, Logging, Told, Occupied
  <2>4. ASSUME NEW x \in Users \ (collided' \cup unlogged') PROVE Chained(x)'
    BY <1>10, <2>4, Apart DEF TypeNote, Logged, Chained, Told, Occupied
  <2>5. ASSUME NEW x \in Trips \ (collided' \cup unlogged') PROVE Journeying(x)'
    BY <1>10, <2>5, Apart DEF TypeNote, Logged, Journeying, Occupied
  <2>6. Noted'
    BY <1>10, Apart DEF TypeNote, Noted
  <2> QED  BY <2>1, <2>2, <2>3, <2>4, <2>5, <2>6 DEF Logged
<1>11. ASSUME CloseDialog PROVE ModInv'
  <2>1. Types'
    BY <1>11, Apart, SomeValues DEF CloseDialog, Types
  <2>2. Entered'
    BY <1>11 DEF CloseDialog, Entered
  <2>3. ASSUME NEW x \in Rows \ (collided' \cup unlogged') PROVE Logging(x)'
    BY <1>11, <2>3, Apart DEF CloseDialog, Logged, Logging, Told, Occupied
  <2>4. ASSUME NEW x \in Users \ (collided' \cup unlogged') PROVE Chained(x)'
    BY <1>11, <2>4, Apart DEF CloseDialog, Logged, Chained, Told, Occupied
  <2>5. ASSUME NEW x \in Trips \ (collided' \cup unlogged') PROVE Journeying(x)'
    BY <1>11, <2>5, Apart DEF CloseDialog, Logged, Journeying, Occupied
  <2>6. Noted'
    <3>1. UNCHANGED <<standing, about, new>> /\ (~strayed' => ~strayed /\ note = Nothing)
      BY <1>11 DEF CloseDialog
    <3> QED  BY <1>11, <3>1 DEF Noted, CloseDialog
  <2> QED  BY <2>1, <2>2, <2>3, <2>4, <2>5, <2>6 DEF Logged
<1>13. ASSUME NEW j \in Trips, TripRevived(j) PROVE ModInv'
  <2>1. Types'
    BY <1>13, Apart, SomeValues DEF TripRevived, Types
  <2>2. Entered'
    BY <1>13 DEF TripRevived, Entered
  <2>0. \A x \in Rows \ {j} : standing'[x] = standing[x]
    BY <1>13 DEF TripRevived, Types
  <2>3. ASSUME NEW x \in Rows \ (collided' \cup unlogged') PROVE Logging(x)'
    BY <1>13, <2>0, <2>3, Apart DEF TripRevived, Logged, Logging, Told, Occupied
  <2>4. ASSUME NEW x \in Users \ (collided' \cup unlogged') PROVE Chained(x)'
    BY <1>13, <2>0, <2>4, Apart DEF TripRevived, Logged, Chained, Told, Occupied
  <2>5. ASSUME NEW x \in Trips \ (collided' \cup unlogged') PROVE Journeying(x)'
    BY <1>13, <2>0, <2>5, Apart DEF TripRevived, Logged, Journeying, Occupied
  <2>6. Noted'
    BY <1>13, <2>0, Apart DEF TripRevived, Noted
  <2> QED  BY <2>1, <2>2, <2>3, <2>4, <2>5, <2>6 DEF Logged
<1>12. CASE UNCHANGED modVars
  <2>1. Types'
    BY <1>12, Apart, SomeValues DEF modVars, Types
  <2>2. Entered'
    BY <1>12 DEF modVars, Entered
  <2>3. ASSUME NEW x \in Rows \ (collided' \cup unlogged') PROVE Logging(x)'
    BY <1>12, <2>3, Apart DEF modVars, Logged, Logging, Told, Occupied
  <2>4. ASSUME NEW x \in Users \ (collided' \cup unlogged') PROVE Chained(x)'
    BY <1>12, <2>4, Apart DEF modVars, Logged, Chained, Told, Occupied
  <2>5. ASSUME NEW x \in Trips \ (collided' \cup unlogged') PROVE Journeying(x)'
    BY <1>12, <2>5, Apart DEF modVars, Logged, Journeying, Occupied
  <2>6. Noted'
    BY <1>12, Apart DEF modVars, Noted
  <2> QED  BY <2>1, <2>2, <2>3, <2>4, <2>5, <2>6 DEF Logged
<1> QED  BY <1>1, <1>2, <1>3, <1>4, <1>5, <1>6, <1>7, <1>8, <1>9, <1>10, <1>11, <1>12, <1>13
            DEF ModNext

\* The invariant of the log is what is claimed of it.
LEMMA LogsAreWhole == ModInv => AuditTellsAll
<1> SUFFICES ASSUME ModInv PROVE AuditTellsAll
  OBVIOUS
<1>1. ASSUME NEW x \in Rows \ (collided \cup unlogged)
      PROVE  Logging(x) /\ (x \in Users => Chained(x)) /\ (x \in Trips => Journeying(x))
  BY <1>1 DEF ModInv, Logged
<1>2. ASSUME NEW x \in Rows \ (collided \cup unlogged), Within(x) = {}
      PROVE  standing[x] = Told(x)
  <2>1. \A c \in Tasks : ~Occupied(c, x, "log")
    BY <1>2 DEF Within, Occupied
  <2> QED  BY <1>1, <2>1 DEF Logging
<1> QED  BY <1>1, <1>2 DEF AuditTellsAll, Told, Chained, Journeying

-----------------------------------------------------------------------------
(* Both tabs                                                               *)

BackInv == HelpInv /\ ModInv

\* A step of one tab leaves the state of the other alone.
LEMMA BackStep == BackInv /\ [BackNext]_backVars => BackInv'
<1> SUFFICES ASSUME BackInv, [BackNext]_backVars PROVE BackInv'
  OBVIOUS
<1>1. [Next]_vars /\ [ModNext]_modVars
  BY DEF BackNext, backVars
<1> QED  BY <1>1, HelpStep, ModStep DEF BackInv

\* The invariant holds of every behaviour.
THEOREM BackCorrect == BackSpec => []BackInv
<1>1. BackInit => BackInv
  BY HelpInitInv, ModInitInv DEF BackInit, BackInv
<1> QED  BY <1>1, BackStep, PTL DEF BackSpec

\* The status of a ticket and its thread agree: nobody misses a message of a ticket that
\* is resolved or closed, and a ticket that waits for the user has been answered, but for
\* the failures and the overlaps ReplyReopens and WaitingMeansAnswered name.
THEOREM StatusAndThread == BackSpec => []StatusAgrees
<1>1. BackInv => StatusAgrees
  BY TicketsAreSound DEF BackInv
<1> QED  BY <1>1, BackCorrect, PTL

\* The user's words are stored, and once, unless a handler failed after its INSERT.
THEOREM WordsStored == BackSpec => []WordsAreStored
<1>1. BackInv => WordsAreStored
  BY TicketsAreSound DEF BackInv
<1> QED  BY <1>1, BackCorrect, PTL

\* The page shows the user's answered replies, unless loads overlapped or failed.
THEOREM OwnReplySeen == BackSpec => []OwnReplyShown
<1>1. BackInv => OwnReplyShown
  BY TicketsAreSound DEF BackInv
<1> QED  BY <1>1, BackCorrect, PTL

\* The audit log tells what became of a row, for any number of requests at once, unless
\* two of them changed it together or one failed between its change and its entry.
THEOREM LogTellsAll == BackSpec => []AuditTellsAll
<1>1. BackInv => AuditTellsAll
  BY LogsAreWhole DEF BackInv
<1> QED  BY <1>1, BackCorrect, PTL

\* The notes of a report were typed for it, unless a dialog was closed with a text in it.
THEOREM NotesWereTypedForIt == BackSpec => []NotesBelong
<1>1. BackInv => NotesBelong
  BY DEF BackInv, ModInv, Noted, NotesBelong
<1> QED  BY <1>1, BackCorrect, PTL
===============================================================================
