------------------------------ MODULE Moderation ------------------------------
(***************************************************************************)
(* What the staff does on the AdminPage besides the tickets: the status of *)
(* a user, a journey that is cancelled, a safety report with its notes,    *)
(* each with an entry of the audit log written after it.                   *)
(*                                                                         *)
(* A handler goes statement by statement, outside a transaction, and may   *)
(* fail at each.  The lists of the page are as old as their last load, so  *)
(* that a button may ask for what is the case already.  One page is        *)
(* followed for the dialog of the reports.                                 *)
(***************************************************************************)
EXTENDS Integers, Sequences

CONSTANTS
    Users, Trips, Reports,
    Tasks,         \* requests in progress
    MaxChanges,    \* bound: the requests
    Nothing

ASSUME ModerationAssumption ==
    /\ MaxChanges \in Nat
    /\ Users \cap Trips = {} /\ Reports \cap (Users \cup Trips) = {}
    /\ Nothing \notin Users \cup Trips \cup Reports

VARIABLES
    standing,      \* the status of a user or a journey; admin_notes of a report, by the
                   \* report its text was typed for
    audit,         \* audit_logs of a row: what the entry says it was and has become
    task,          \* of a request: its step
    about,         \* its row
    old, new,      \* what the handler read and what it writes
    selectedReport, \* the report the dialog is open for
    note,          \* reportNote: the report that was open when it was typed
    changes,       \* bounded by MaxChanges
    \* history
    collided,      \* rows that two handlers changed at once, and cancelled journeys
                   \* that were published again
    unlogged,      \* rows changed by a handler that failed before the log
    strayed        \* the dialog was closed with a text in it

request   == <<task, about, old, new>>
dialog    == <<selectedReport, note>>
record    == <<collided, unlogged, strayed>>
modVars   == <<standing, audit, request, dialog, changes, record>>

UserStatuses == {"ACTIVE", "SUSPENDED", "BANNED"}
AdminNote    == "Updated by admin"
Rows         == Users \cup Trips \cup Reports
First(x)     == IF x \in Users THEN "ACTIVE" ELSE IF x \in Trips THEN "PUBLISHED" ELSE Nothing

ModInit ==
    /\ standing = [x \in Rows |-> First(x)]
    /\ audit = [x \in Rows |-> <<>>]
    /\ task = [c \in Tasks |-> "idle"]
    /\ about = [c \in Tasks |-> Nothing]
    /\ old = [c \in Tasks |-> Nothing]
    /\ new = [c \in Tasks |-> Nothing]
    /\ selectedReport = Nothing /\ note = Nothing /\ changes = 0
    /\ collided = {} /\ unlogged = {} /\ strayed = FALSE

StepTo(c, l) == task' = [task EXCEPT ![c] = l]

Ask(c, x, v) ==
    /\ task[c] = "idle" /\ changes < MaxChanges
    /\ changes' = changes + 1
    /\ StepTo(c, IF x \in Reports THEN "change" ELSE "read")
    /\ about' = [about EXCEPT ![c] = x]
    /\ new' = [new EXCEPT ![c] = v]
    /\ UNCHANGED <<standing, audit, old, dialog, record>>

Over(c) ==
    /\ StepTo(c, "idle")
    /\ about' = [about EXCEPT ![c] = Nothing]
    /\ old' = [old EXCEPT ![c] = Nothing]
    /\ new' = [new EXCEPT ![c] = Nothing]

\* The handlers between their first and their last look at the row.
Within(x) == {c \in Tasks : about[c] = x /\ task[c] \in {"change", "log"}}

\* handleUpdateUserStatus: a button for each status but the one shown.
UpdateUserStatus(c, u) == \E v \in UserStatuses : Ask(c, u, v)

\* handleCancelJourney: a button unless it is shown as over.
ForceCancel(c, j) == Ask(c, j, "CANCELLED")

\* handleUpdateReport, for the report that is open: any of three buttons, none of them
\* disabled while a request is on its way.
UpdateReport(c) ==
    /\ selectedReport # Nothing
    /\ Ask(c, selectedReport, IF note = Nothing THEN AdminNote ELSE note)

\* findById of the user; the checks of updateStatus for the journey.
Read(c) ==
    /\ task[c] = "read"
    /\ IF about[c] \in Trips /\ standing[about[c]] = "CANCELLED"
       THEN Over(c)
       ELSE /\ StepTo(c, "change")
            /\ old' = [old EXCEPT ![c] = standing[about[c]]]
            /\ UNCHANGED <<about, new>>
    /\ UNCHANGED <<standing, audit, dialog, changes, record>>

Change(c) ==
    /\ task[c] = "change"
    /\ StepTo(c, "log")
    /\ standing' = [standing EXCEPT ![about[c]] = new[c]]
    /\ collided' = IF Within(about[c]) # {c} THEN collided \cup {about[c]} ELSE collided
    /\ UNCHANGED <<audit, about, old, new, dialog, changes, unlogged, strayed>>

\* Mutant: the status is read again for the log.
EntryAfter(c) == <<standing[about[c]], new[c]>>

\* The entry tells the status before of a user only.
EntryOf(c) == <<IF about[c] \in Users THEN old[c] ELSE Nothing, new[c]>>

Log(c) ==
    /\ task[c] = "log"
    /\ audit' = [audit EXCEPT ![about[c]] = Append(@, EntryOf(c))]
    /\ IF about[c] \in Reports
       THEN StepTo(c, "answer") /\ UNCHANGED <<about, old, new>>
       ELSE Over(c)
    /\ UNCHANGED <<standing, dialog, changes, record>>

\* A statement fails or the answer is lost: the page shows an error and nothing else.
TaskFails(c) ==
    /\ task[c] # "idle"
    /\ unlogged' = IF task[c] = "log" THEN unlogged \cup {about[c]} ELSE unlogged
    /\ Over(c)
    /\ UNCHANGED <<standing, audit, dialog, changes, collided, strayed>>

\* Seats given back or taken by a booking, or a stale list of the worker, bring a cancelled
\* journey back; SeatBooking has the steps.
TripRevived(j) ==
    /\ standing[j] = "CANCELLED"
    /\ standing' = [standing EXCEPT ![j] = "PUBLISHED"]
    /\ collided' = collided \cup {j}
    /\ UNCHANGED <<audit, request, dialog, changes, unlogged, strayed>>

-----------------------------------------------------------------------------
(* The dialog of the reports                                               *)

Inspect(r) ==
    /\ selectedReport = Nothing
    /\ selectedReport' = r
    /\ UNCHANGED <<standing, audit, request, note, changes, record>>

TypeNote ==
    /\ selectedReport # Nothing /\ note = Nothing
    /\ note' = selectedReport
    /\ UNCHANGED <<standing, audit, request, selectedReport, changes, record>>

\* The cross of the dialog leaves the text for the next report.
CloseDialog ==
    /\ selectedReport # Nothing
    /\ selectedReport' = Nothing
    /\ strayed' = (strayed \/ note # Nothing)
    /\ UNCHANGED <<standing, audit, request, note, changes, collided, unlogged>>

\* Mutant: the text is not cleared.
KeepNote(c) ==
    /\ task[c] = "answer"
    /\ selectedReport' = Nothing
    /\ Over(c)
    /\ UNCHANGED <<standing, audit, note, changes, record>>

\* Closes and clears the dialog, whichever report is open by now.
ReportUpdated(c) ==
    /\ task[c] = "answer"
    /\ selectedReport' = Nothing /\ note' = Nothing
    /\ Over(c)
    /\ UNCHANGED <<standing, audit, changes, record>>

ModNext ==
    \/ \E c \in Tasks : \/ \E u \in Users : UpdateUserStatus(c, u)
                        \/ \E j \in Trips : ForceCancel(c, j)
                        \/ UpdateReport(c)
                        \/ Read(c) \/ Change(c) \/ Log(c) \/ TaskFails(c) \/ ReportUpdated(c)
    \/ \E r \in Reports : Inspect(r)
    \/ TypeNote \/ CloseDialog
    \/ \E j \in Trips : TripRevived(j)

ModSpec == ModInit /\ [][ModNext]_modVars

-----------------------------------------------------------------------------
(* What is true of it                                                      *)

\* The audit log of a row tells what became of it: its last entry is how the row is,
\* the entries of a user follow on each other, and a journey is cancelled once; unless
\* two handlers changed the row at once, a booking published the journey again, or a
\* handler failed between the change and the log.
AuditTellsAll ==
    \A x \in Rows \ (collided \cup unlogged) :
        LET log == audit[x] IN
        /\ Within(x) = {} => standing[x] = IF log = <<>> THEN First(x) ELSE log[Len(log)][2]
        /\ x \in Users => \A i \in DOMAIN log :
                              log[i][1] = IF i = 1 THEN "ACTIVE" ELSE log[i - 1][2]
        /\ x \in Trips => Len(log) <= 1

\* The notes of a report were typed for it, unless the dialog of another was closed
\* with a text in it.
NotesBelong ==
    ~strayed => \A r \in Reports : standing[r] \in {Nothing, AdminNote, r}
===============================================================================
