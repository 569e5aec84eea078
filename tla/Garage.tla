--------------------------------- MODULE Garage ---------------------------------
(***************************************************************************)
(* A driver's vehicles and the publishing of journeys with them: the       *)
(* handlers of MyVehiclesPage and PublishJourneyPage, statement by         *)
(* statement and outside a transaction, several at once (two tabs, an      *)
(* impatient user), failing anywhere.                                      *)
(*                                                                         *)
(* What becomes of a journey afterwards, Move, is SeatBooking's; here it   *)
(* only matters which status the deletion of a vehicle finds.              *)
(***************************************************************************)
EXTENDS Integers, FiniteSets

CONSTANTS
    Vehicles, Journeys,   \* bound: rows
    Calls,                \* requests in progress
    Capacities,           \* seat_capacity, the driver's seat included
    MaxEdits,             \* bound: how often a vehicle is changed or removed
    MaxFails,             \* bound: how often a request fails
    ForeignKeys,          \* whether the engine enforces ON DELETE RESTRICT
    None

ASSUME GarageAssumption ==
    /\ Capacities \subseteq Nat \ {0} /\ MaxEdits \in Nat /\ MaxFails \in Nat
    /\ ForeignKeys \in BOOLEAN
    /\ None \notin Vehicles \cup Journeys

VARIABLES
    capacity,      \* vehicles.seat_capacity, 0 for a row that is not there
    default,       \* the vehicles with is_default
    jStatus,       \* journeys.status, "NONE" for a row that is not there
    jVehicle, jSeats, jForm,     \* its vehicle, its total_seats, the form it came from
    stops,         \* the journeys whose waypoints are stored
    chat,          \* their conversations: none, without the driver, with the driver
    draft,         \* the number of the form on PublishJourneyPage
    publishing,    \* isSubmitting
    op, vehicle, journey, seats, \* of a request: its step and what it is about
    edits, fails,  \* bounded by MaxEdits and MaxFails
    \* history
    deleted,       \* all the vehicles that were removed
    crossed,       \* two requests for a default were under way at the last Clear or since
    chosen,        \* a default has been chosen, and neither removed nor lost by a failure
    passedOver,    \* journeys that were FULL or over when a deletion counted
    late,          \* journeys inserted after a deletion of their vehicle had counted
    shrunk,        \* journeys whose vehicle lost seats after they were checked
    partial        \* journeys whose request failed after the INSERT

rows     == <<capacity, default, jStatus, jVehicle, jSeats, jForm, stops, chat>>
form     == <<draft, publishing>>
requests == <<op, vehicle, journey, seats>>
bounds   == <<edits, fails>>
causes   == <<deleted, crossed, chosen, passedOver, late, shrunk, partial>>
gVars    == <<rows, form, requests, bounds, causes>>

Kept   == {v \in Vehicles : capacity[v] > 0}
Active == {"PUBLISHED", "FULL"}

GarageInit ==
    /\ capacity = [v \in Vehicles |-> 0]
    /\ default = {}
    /\ jStatus = [j \in Journeys |-> "NONE"]
    /\ jVehicle = [j \in Journeys |-> None]
    /\ jSeats = [j \in Journeys |-> 0]
    /\ jForm = [j \in Journeys |-> 0]
    /\ stops = {} /\ chat = [j \in Journeys |-> "none"]
    /\ draft = 1 /\ publishing = FALSE
    /\ op = [c \in Calls |-> "idle"]
    /\ vehicle = [c \in Calls |-> None]
    /\ journey = [c \in Calls |-> None]
    /\ seats = [c \in Calls |-> 0]
    /\ edits = 0 /\ fails = 0
    /\ deleted = {} /\ crossed = FALSE /\ chosen = FALSE
    /\ passedOver = {} /\ late = {} /\ shrunk = {} /\ partial = {}

To(c, l) == op' = [op EXCEPT ![c] = l] /\ UNCHANGED <<vehicle, journey, seats>>

Begin(c, l, v, j, n) ==
    /\ op[c] = "idle"
    /\ op' = [op EXCEPT ![c] = l]
    /\ vehicle' = [vehicle EXCEPT ![c] = v]
    /\ journey' = [journey EXCEPT ![c] = j]
    /\ seats' = [seats EXCEPT ![c] = n]

Done(c) ==
    /\ op' = [op EXCEPT ![c] = "idle"]
    /\ vehicle' = [vehicle EXCEPT ![c] = None]
    /\ journey' = [journey EXCEPT ![c] = None]
    /\ seats' = [seats EXCEPT ![c] = 0]

\* The requests whose check of the vehicle is done and whose INSERT is not.
Inserting == {c \in Calls : op[c] = "publish"}

\* The requests on their way to a new default.
Choosing == {c \in Calls : op[c] \in {"clear", "insertDefault", "setDefault"}}

-----------------------------------------------------------------------------
(* Vehicles                                                                *)

\* createVehicle, with or without the box for the default ticked.
AddVehicle(c, v, k, asDefault) ==
    /\ v \notin Kept \cup deleted /\ \A d \in Calls : vehicle[d] # v
    /\ Begin(c, IF asDefault THEN "clear" ELSE "insert", v, None, k)
    /\ crossed' = (crossed \/ (asDefault /\ Choosing # {}))
    /\ UNCHANGED <<rows, form, bounds, deleted, chosen, passedOver, late, shrunk, partial>>

\* updateVehicle with the button Set Default; findById has found the vehicle.
SetDefault(c, v) ==
    /\ v \in Kept
    /\ edits < MaxEdits /\ edits' = edits + 1 /\ UNCHANGED fails
    /\ Begin(c, "clear", v, None, 0)
    /\ crossed' = (crossed \/ Choosing # {})
    /\ UNCHANGED <<rows, form, deleted, chosen, passedOver, late, shrunk, partial>>

\* UPDATE vehicles SET is_default = 0.
Clear(c) ==
    /\ op[c] = "clear"
    /\ default' = {}
    /\ To(c, IF seats[c] = 0 THEN "setDefault" ELSE "insertDefault")
    /\ crossed' = (Choosing # {c})
    /\ UNCHANGED <<capacity, jStatus, jVehicle, jSeats, jForm, stops, chat, form, bounds,
                   deleted, chosen, passedOver, late, shrunk, partial>>

InsertVehicle(c) ==
    /\ op[c] \in {"insert", "insertDefault"}
    /\ capacity' = [capacity EXCEPT ![vehicle[c]] = seats[c]]
    /\ IF op[c] = "insertDefault"
       THEN default' = default \cup {vehicle[c]} /\ chosen' = TRUE
       ELSE UNCHANGED <<default, chosen>>
    /\ Done(c)
    /\ UNCHANGED <<jStatus, jVehicle, jSeats, jForm, stops, chat, form, bounds,
                   deleted, crossed, passedOver, late, shrunk, partial>>

\* The UPDATE of update, which finds no row if the vehicle was deleted since.
MarkDefault(c) ==
    /\ op[c] = "setDefault"
    /\ IF vehicle[c] \in Kept
       THEN default' = default \cup {vehicle[c]} /\ chosen' = TRUE
       ELSE UNCHANGED default /\ chosen' = FALSE
    /\ Done(c)
    /\ UNCHANGED <<capacity, jStatus, jVehicle, jSeats, jForm, stops, chat, form, bounds,
                   deleted, crossed, passedOver, late, shrunk, partial>>

\* updateVehicle with another seatCapacity: journeys are not looked at.
SetCapacity(v, k) ==
    /\ v \in Kept /\ k # capacity[v]
    /\ edits < MaxEdits /\ edits' = edits + 1 /\ UNCHANGED fails
    /\ capacity' = [capacity EXCEPT ![v] = k]
    /\ shrunk' = IF k > capacity[v] THEN shrunk
                 ELSE shrunk \cup {j \in Journeys : jVehicle[j] = v}
                             \cup {journey[c] : c \in {d \in Inserting : vehicle[d] = v}}
    /\ UNCHANGED <<default, jStatus, jVehicle, jSeats, jForm, stops, chat, form, requests,
                   deleted, crossed, chosen, passedOver, late, partial>>

\* deleteVehicle, confirmed by the driver.
RemoveVehicle(c, v) ==
    /\ v \in Kept
    /\ edits < MaxEdits /\ edits' = edits + 1 /\ UNCHANGED fails
    /\ Begin(c, "count", v, None, 0)
    /\ UNCHANGED <<rows, form, causes>>

\* Mutant: only trips that are about to start or on the road are looked for.
OnTheRoad == {"STARTING_SOON", "IN_PROGRESS"}

\* What the deletion looks for: a journey that is full is not.
Counted == {"PUBLISHED", "STARTING_SOON", "IN_PROGRESS"}

Count(c) ==
    /\ op[c] = "count"
    /\ LET using == {j \in Journeys : jVehicle[j] = vehicle[c]} IN
       IF \E j \in using : jStatus[j] \in Counted
       THEN Done(c) /\ UNCHANGED passedOver
       ELSE /\ To(c, "delete")
            /\ passedOver' = passedOver \cup {j \in using : jStatus[j] \in {"FULL", "COMPLETED"}}
    /\ UNCHANGED <<rows, form, bounds, deleted, crossed, chosen, late, shrunk, partial>>

\* The DELETE.  A foreign key that is enforced stops it if a journey is left.
Delete(c) ==
    /\ op[c] = "delete"
    /\ IF ForeignKeys /\ \E j \in Journeys : jVehicle[j] = vehicle[c]
       THEN UNCHANGED <<capacity, default, deleted, chosen>>
       ELSE /\ capacity' = [capacity EXCEPT ![vehicle[c]] = 0]
            /\ default' = default \ {vehicle[c]}
            /\ deleted' = deleted \cup {vehicle[c]}
            /\ chosen' = (chosen /\ vehicle[c] \notin default)
    /\ Done(c)
    /\ UNCHANGED <<jStatus, jVehicle, jSeats, jForm, stops, chat, form, bounds,
                   crossed, passedOver, late, shrunk, partial>>

-----------------------------------------------------------------------------
(* Publishing                                                              *)

\* Mutant: the button stays enabled.
AlwaysEnabled == TRUE

CanPublish == ~publishing

\* handleSubmit with the vehicle chosen when the form was shown, and the checks of
\* createJourney; where they refuse, nothing changes.  The route may now be asked for.
Publish(c, j, v, n) ==
    /\ CanPublish
    /\ jStatus[j] = "NONE" /\ \A d \in Calls : journey[d] # j
    /\ v \in Kept /\ n <= capacity[v] - 1
    /\ Begin(c, "publish", v, j, n)
    /\ publishing' = TRUE
    /\ UNCHANGED <<rows, draft, bounds, causes>>

\* Where the handler or its answer fails the form is shown again, as it was.
Refused(c) == Done(c) /\ publishing' = FALSE

InsertJourney(c) ==
    /\ op[c] = "publish"
    /\ LET j == journey[c] v == vehicle[c] IN
       IF ForeignKeys /\ v \notin Kept
       THEN Refused(c) /\ UNCHANGED <<jStatus, jVehicle, jSeats, jForm, late>>
       ELSE /\ jStatus' = [jStatus EXCEPT ![j] = "PUBLISHED"]
            /\ jVehicle' = [jVehicle EXCEPT ![j] = v]
            /\ jSeats' = [jSeats EXCEPT ![j] = seats[c]]
            /\ jForm' = [jForm EXCEPT ![j] = draft]
            /\ late' = IF v \in Kept /\ \A d \in Calls : op[d] = "delete" => vehicle[d] # v
                       THEN late ELSE late \cup {j}
            /\ To(c, "stops") /\ UNCHANGED publishing
    /\ UNCHANGED <<capacity, default, stops, chat, draft, bounds,
                   deleted, crossed, chosen, passedOver, shrunk, partial>>

\* The waypoints; here, one.
InsertStops(c) ==
    /\ op[c] = "stops"
    /\ stops' = stops \cup {journey[c]}
    /\ To(c, "chat")
    /\ UNCHANGED <<capacity, default, jStatus, jVehicle, jSeats, jForm, chat, form, bounds, causes>>

\* findOrCreateJourneyConversation, for a journey that has none yet.
InsertChat(c) ==
    /\ op[c] = "chat"
    /\ chat' = [chat EXCEPT ![journey[c]] = "empty"]
    /\ To(c, "member")
    /\ UNCHANGED <<capacity, default, jStatus, jVehicle, jSeats, jForm, stops, form, bounds, causes>>

InsertMember(c) ==
    /\ op[c] = "member"
    /\ chat' = [chat EXCEPT ![journey[c]] = "driver"]
    /\ To(c, "answer")
    /\ UNCHANGED <<capacity, default, jStatus, jVehicle, jSeats, jForm, stops, form, bounds, causes>>

\* The page is left for that of the journey; the next form is another one.
Published(c) ==
    /\ op[c] = "answer"
    /\ draft' = draft + 1 /\ publishing' = FALSE
    /\ Done(c)
    /\ UNCHANGED <<rows, bounds, causes>>

Inserted == {"stops", "chat", "member", "answer"}

PublishFails(c) ==
    /\ op[c] \in {"publish"} \cup Inserted
    /\ fails < MaxFails /\ fails' = fails + 1 /\ UNCHANGED edits
    /\ Refused(c)
    /\ partial' = IF op[c] \in Inserted THEN partial \cup {journey[c]} ELSE partial
    /\ UNCHANGED <<rows, draft, deleted, crossed, chosen, passedOver, late, shrunk>>

\* A handler of a vehicle that stops between two statements.
VehicleFails(c) ==
    /\ op[c] \in {"insertDefault", "setDefault", "delete"}
    /\ fails < MaxFails /\ fails' = fails + 1 /\ UNCHANGED edits
    /\ chosen' = (chosen /\ op[c] = "delete")
    /\ Done(c)
    /\ UNCHANGED <<rows, form, deleted, crossed, passedOver, late, shrunk, partial>>

\* Bookings, the driver and the worker, in SeatBooking: seats that are given back or taken
\* publish also a journey that is over.  IN_PROGRESS, which is looked for like PUBLISHED,
\* is not told from it, nor CANCELLED from COMPLETED.
Move(j) ==
    /\ jStatus[j] # "NONE"
    /\ \E s \in Active \cup {"COMPLETED"} : jStatus' = [jStatus EXCEPT ![j] = s]
    /\ UNCHANGED <<capacity, default, jVehicle, jSeats, jForm, stops, chat, form,
                   requests, bounds, causes>>

GarageNext ==
    \/ \E c \in Calls, v \in Vehicles :
         \/ \E k \in Capacities, b \in BOOLEAN : AddVehicle(c, v, k, b)
         \/ SetDefault(c, v) \/ RemoveVehicle(c, v)
         \/ \E j \in Journeys : \E n \in 1..(capacity[v] - 1) : Publish(c, j, v, n)
    \/ \E v \in Vehicles, k \in Capacities : SetCapacity(v, k)
    \/ \E c \in Calls : \/ Clear(c) \/ InsertVehicle(c) \/ MarkDefault(c)
                        \/ Count(c) \/ Delete(c) \/ VehicleFails(c)
                        \/ InsertJourney(c) \/ InsertStops(c) \/ InsertChat(c)
                        \/ InsertMember(c) \/ Published(c) \/ PublishFails(c)
    \/ \E j \in Journeys : Move(j)

-----------------------------------------------------------------------------
(* What is true of it                                                      *)

GarageTypeOK ==
    /\ capacity \in [Vehicles -> Capacities \cup {0}]
    /\ default \subseteq Kept /\ deleted \cap Kept = {}
    /\ jStatus \in [Journeys -> Active \cup {"NONE", "COMPLETED"}]
    /\ jVehicle \in [Journeys -> Vehicles \cup {None}]
    /\ \A j \in Journeys : (jStatus[j] = "NONE") <=> (jVehicle[j] = None)
    /\ \A j \in Journeys : jForm[j] \in 0..draft
    /\ stops \subseteq {j \in Journeys : jStatus[j] # "NONE"} /\ publishing \in BOOLEAN

\* A driver who has chosen a default vehicle has one and only one, unless two requests
\* for a default overlapped, or one is between its two statements.
OneDefault ==
    chosen /\ ~crossed /\ Choosing = {} => \E v \in Vehicles : default = {v}

\* A journey that is still to be driven keeps its vehicle, unless it was FULL when a
\* deletion counted, or over and published again since, or was inserted after the count.
ActiveKeepsVehicle ==
    \A j \in Journeys :
        jStatus[j] \in Active => jVehicle[j] \in Kept \/ j \in passedOver \cup late

\* A journey offers no seat its vehicle has not, unless the vehicle was changed since the
\* check, or is gone.
SeatsFit ==
    \A j \in Journeys :
        jVehicle[j] \in Kept /\ j \notin shrunk => jSeats[j] < capacity[jVehicle[j]]

\* Of one form comes one journey, unless the request failed after the INSERT and the
\* form, which was shown again, was sent again.
PublishedOnce ==
    \A j, k \in Journeys :
        jForm[j] = jForm[k] /\ jForm[j] # 0 /\ j # k => {j, k} \cap partial # {}

\* A journey that passengers find has its stops and a chat its driver is in, unless its
\* handler is at work or has stopped on the way.
PublishedWhole ==
    \A j \in Journeys :
        jStatus[j] # "NONE" /\ j \notin partial /\ (\A c \in Calls : journey[c] # j)
        => j \in stops /\ chat[j] = "driver"

\* A form becomes one journey, with all that belongs to it.
PublishedOnceAndWhole == PublishedOnce /\ PublishedWhole

\* The vehicles of the driver and the journeys with them agree.
VehiclesAgree == GarageTypeOK /\ OneDefault /\ ActiveKeepsVehicle /\ SeatsFit
=================================================================================
