-------------------------------- MODULE Helpdesk --------------------------------
(***************************************************************************)
(* Support tickets: the SupportPage of a user, the handlers that create a  *)
(* ticket and add a reply, the replies of the staff and the tickets tab of *)
(* the AdminPage.                                                          *)
(*                                                                         *)
(* The page's async functions are calls that overlap; a handler goes query *)
(* by query, outside a transaction, and may fail at each, or its answer is *)
(* lost.  One user, who does not work for the staff.                       *)
(***************************************************************************)
EXTENDS Integers, Sequences, FiniteSets

CONSTANTS
    Tickets,       \* bound: the rows of support_tickets
    PageCalls,     \* async functions of the page in progress
    Staff,         \* requests of the staff in progress
    MaxTexts,      \* bound: the texts the user types
    MaxDuties,     \* bound: the replies and decisions of the staff
    MaxFaults,     \* bound: how often a handler or an answer fails
    NoTicket

ASSUME HelpdeskAssumption ==
    /\ MaxTexts \in Nat /\ MaxDuties \in Nat /\ MaxFaults \in Nat
    /\ NoTicket \notin Tickets /\ PageCalls \cap Staff = {}

VARIABLES
    status,        \* support_tickets.status, "NONE" for a row that is not there yet
    thread,        \* support_messages of a ticket: the number of the text, 0 from the staff
    listed,        \* tickets
    selected,      \* the ticket of selectedTicket
    shown,         \* how much of its thread the page has
    newTicket,     \* subject and message of the new ticket, 0 when they are empty
    replyMessage,  \* 0 when it is empty
    isSubmitting, isReplying,
    texts,         \* the texts typed so far
    stage, of, with, \* of a call or a request of the staff: its step, its ticket, and its
                     \* text, what a load has read or the status to set
    duties, faults,  \* bounded by MaxDuties and MaxFaults
    \* history
    closedAt,      \* the length of the thread when the ticket was resolved or closed
    answered,      \* the length of the thread at the user's last reply with an answer
    torn,          \* tickets whose handler stopped between two statements, or that the
                   \* staff changed between the two of their creation
    mixed,         \* tickets with the statements of two handlers in between
    resent,        \* texts whose handler had stored them when it or the answer failed
    blurred        \* two loads of the page overlapped or one failed

server     == <<status, thread>>
inputs     == <<newTicket, replyMessage, isSubmitting, isReplying, texts>>
view       == <<listed, selected, shown>>
tasks      == <<stage, of, with>>
helpBounds == <<duties, faults>>
history    == <<closedAt, answered, torn, mixed, resent, blurred>>
vars       == <<server, inputs, view, tasks, helpBounds, history>>

Statuses == {"OPEN", "IN_PROGRESS", "WAITING_FOR_USER", "RESOLVED", "CLOSED"}
Stored   == {t \in Tickets : status[t] # "NONE"}

Init ==
    /\ status = [t \in Tickets |-> "NONE"]
    /\ thread = [t \in Tickets |-> <<>>]
    /\ listed = {} /\ selected = NoTicket /\ shown = 0
    /\ newTicket = 0 /\ replyMessage = 0 /\ texts = 0
    /\ isSubmitting = FALSE /\ isReplying = FALSE /\ duties = 0 /\ faults = 0
    /\ stage = [c \in PageCalls \cup Staff |-> "idle"]
    /\ of = [c \in PageCalls \cup Staff |-> NoTicket]
    /\ with = [c \in PageCalls \cup Staff |-> 0]
    /\ closedAt = [t \in Tickets |-> 0]
    /\ answered = [t \in Tickets |-> 0]
    /\ torn = {} /\ mixed = {} /\ resent = {} /\ blurred = FALSE

Start(c, l, t, w) ==
    /\ stage[c] = "idle"
    /\ stage' = [stage EXCEPT ![c] = l]
    /\ of' = [of EXCEPT ![c] = t]
    /\ with' = [with EXCEPT ![c] = w]

Goto(c, l) == stage' = [stage EXCEPT ![c] = l] /\ UNCHANGED <<of, with>>

End(c) ==
    /\ stage' = [stage EXCEPT ![c] = "idle"]
    /\ of' = [of EXCEPT ![c] = NoTicket]
    /\ with' = [with EXCEPT ![c] = 0]

Loads == {c \in PageCalls : stage[c] \in {"get", "set"}}

\* The handlers that have stored a reply in a ticket and not yet updated its status.
Updating(t) == {c \in PageCalls \cup Staff : stage[c] = "update" /\ of[c] = t}

-----------------------------------------------------------------------------
(* Reading a ticket                                                        *)

\* A row of the list is clicked: loadTicketDetails.
Click(c, t) ==
    /\ t \in listed
    /\ Start(c, "get", t, 0)
    /\ blurred' = (Loads # {})
    /\ UNCHANGED <<helpBounds, server, inputs, view, closedAt, answered, torn, mixed, resent>>

\* findTicketById: how long the thread is.
Get(c) ==
    /\ stage[c] = "get"
    /\ stage' = [stage EXCEPT ![c] = "set"]
    /\ with' = [with EXCEPT ![c] = Len(thread[of[c]])]
    /\ UNCHANGED <<helpBounds, server, inputs, view, of, history>>

\* setSelectedTicket, whatever was clicked since; a reply ends with it.
SetDetails(c) ==
    /\ stage[c] = "set"
    /\ selected' = of[c] /\ shown' = with[c]
    /\ End(c)
    /\ UNCHANGED <<helpBounds, server, inputs, listed, history>>

\* loadTicketDetails ignores an error.
LoadFails(c) ==
    /\ c \in Loads
    /\ faults < MaxFaults /\ faults' = faults + 1 /\ UNCHANGED duties
    /\ End(c)
    /\ blurred' = TRUE
    /\ UNCHANGED <<server, inputs, view, closedAt, answered, torn, mixed, resent>>

-----------------------------------------------------------------------------
(* A new ticket                                                            *)

TypeForm ==
    /\ newTicket = 0 /\ texts < MaxTexts
    /\ newTicket' = texts + 1 /\ texts' = texts + 1
    /\ UNCHANGED <<helpBounds, server, replyMessage, isSubmitting, isReplying, view, tasks,
                   history>>

\* The button of the dialog is disabled while a ticket is on its way.
CanSubmit == newTicket # 0 /\ ~isSubmitting

\* handleCreateTicket, for the row the handler will insert.
Submit(c, t) ==
    /\ CanSubmit /\ t \notin Stored /\ \A d \in PageCalls : of[d] # t
    /\ Start(c, "ticket", t, newTicket)
    /\ isSubmitting' = TRUE
    /\ UNCHANGED <<helpBounds, server, newTicket, replyMessage, isReplying, texts, view, history>>

InsertTicket(c) ==
    /\ stage[c] = "ticket"
    /\ Goto(c, "first")
    /\ status' = [status EXCEPT ![of[c]] = "OPEN"]
    /\ UNCHANGED <<helpBounds, thread, inputs, view, history>>

\* The second INSERT of createTicket.
InsertFirst(c) ==
    /\ stage[c] = "first"
    /\ Goto(c, "created")
    /\ thread' = [thread EXCEPT ![of[c]] = Append(@, with[c])]
    /\ torn' = IF status[of[c]] # "OPEN" \/ thread[of[c]] # <<>>
               THEN torn \cup {of[c]} ELSE torn
    /\ UNCHANGED <<helpBounds, status, inputs, view, closedAt, answered, mixed, resent, blurred>>

\* Mutant: the texts stay in the form.
KeepForm(c) ==
    /\ stage[c] = "created"
    /\ Goto(c, "list")
    /\ UNCHANGED <<helpBounds, server, inputs, view, history>>

\* The dialog is closed and its texts are cleared.
Created(c) ==
    /\ stage[c] = "created"
    /\ Goto(c, "list")
    /\ newTicket' = 0
    /\ UNCHANGED <<helpBounds, server, replyMessage, isSubmitting, isReplying, texts, view,
                   history>>

\* fetchTickets, that of the render at the submit: it opens a ticket, the one changed
\* last, if none was selected then; here, any.
FetchTickets(c) ==
    /\ stage[c] = "list"
    /\ listed' = Stored
    /\ isSubmitting' = FALSE
    /\ \/ \E t \in Stored :
             /\ stage' = [stage EXCEPT ![c] = "get"]
             /\ of' = [of EXCEPT ![c] = t]
             /\ with' = [with EXCEPT ![c] = 0]
             /\ blurred' = (Loads # {})
       \/ selected # NoTicket /\ End(c) /\ UNCHANGED blurred
    /\ UNCHANGED <<helpBounds, server, newTicket, replyMessage, isReplying, texts, selected, shown,
                   closedAt, answered, torn, mixed, resent>>

\* The handler or the answer fails: an alert, and the form is as it was.
CreateFails(c) ==
    /\ stage[c] \in {"ticket", "first", "created", "list"}
    /\ faults < MaxFaults /\ faults' = faults + 1 /\ UNCHANGED duties
    /\ End(c)
    /\ isSubmitting' = FALSE
    /\ torn' = IF stage[c] = "first" THEN torn \cup {of[c]} ELSE torn
    /\ resent' = IF stage[c] \in {"first", "created"} THEN resent \cup {with[c]} ELSE resent
    /\ UNCHANGED <<server, newTicket, replyMessage, isReplying, texts, view, closedAt, answered,
                   mixed, blurred>>

-----------------------------------------------------------------------------
(* A reply                                                                 *)

TypeReply ==
    /\ selected # NoTicket /\ replyMessage = 0 /\ texts < MaxTexts
    /\ replyMessage' = texts + 1 /\ texts' = texts + 1
    /\ UNCHANGED <<helpBounds, server, newTicket, isSubmitting, isReplying, view, tasks, history>>

\* The reply form is below the thread of the selected ticket.
CanReply == selected # NoTicket /\ replyMessage # 0 /\ ~isReplying

\* handleReplyTicket.
Reply(c) ==
    /\ CanReply
    /\ Start(c, "insert", selected, replyMessage)
    /\ isReplying' = TRUE
    /\ UNCHANGED <<helpBounds, server, newTicket, replyMessage, isSubmitting, texts, view, history>>

\* replyTicket of a member of the staff, who has no page for it.
StaffReplies(s, t) ==
    /\ t \in Stored
    /\ duties < MaxDuties /\ duties' = duties + 1 /\ UNCHANGED faults
    /\ Start(s, "insert", t, 0)
    /\ UNCHANGED <<server, inputs, view, history>>

\* addMessage, the INSERT.
InsertReply(c) ==
    /\ stage[c] = "insert"
    /\ Goto(c, "update")
    /\ thread' = [thread EXCEPT ![of[c]] = Append(@, with[c])]
    /\ mixed' = IF Updating(of[c]) # {} THEN mixed \cup {of[c]} ELSE mixed
    /\ UNCHANGED <<helpBounds, status, inputs, view, closedAt, answered, torn, resent, blurred>>

\* Mutant: a reply leaves a ticket that is done as it is.
OnlyIfOpen(c) == IF status[of[c]] \in {"RESOLVED", "CLOSED"} THEN status[of[c]]
                 ELSE IF c \in Staff THEN "WAITING_FOR_USER" ELSE "IN_PROGRESS"

NewStatus(c) == IF c \in Staff THEN "WAITING_FOR_USER" ELSE "IN_PROGRESS"

\* addMessage, the UPDATE.
UpdateStatus(c) ==
    /\ stage[c] = "update"
    /\ status' = [status EXCEPT ![of[c]] = NewStatus(c)]
    /\ IF c \in Staff THEN End(c) ELSE Goto(c, "replied")
    /\ UNCHANGED <<helpBounds, thread, inputs, view, history>>

\* Mutant: the thread is not loaded again.
RepliedOnly(c) ==
    /\ stage[c] = "replied"
    /\ replyMessage' = 0 /\ isReplying' = FALSE
    /\ answered' = [answered EXCEPT ![of[c]] = Len(thread[of[c]])]
    /\ End(c)
    /\ UNCHANGED <<helpBounds, server, newTicket, isSubmitting, texts, view, closedAt, torn, mixed,
                   resent, blurred>>

\* The input is cleared, whatever it holds now, and the ticket replied to is loaded,
\* whatever is selected now.  The button is enabled when that is done; here, at once.
Replied(c) ==
    /\ stage[c] = "replied"
    /\ replyMessage' = 0 /\ isReplying' = FALSE
    /\ answered' = [answered EXCEPT ![of[c]] = Len(thread[of[c]])]
    /\ stage' = [stage EXCEPT ![c] = "get"]
    /\ with' = [with EXCEPT ![c] = 0]
    /\ blurred' = (Loads # {})
    /\ UNCHANGED <<helpBounds, server, newTicket, isSubmitting, texts, view, of, closedAt, torn,
                   mixed, resent>>

\* The handler or the answer fails: an alert, and the text stays in the input.
ReplyFails(c) ==
    /\ stage[c] \in {"insert", "update", "replied"}
    /\ faults < MaxFaults /\ faults' = faults + 1 /\ UNCHANGED duties
    /\ End(c)
    /\ isReplying' = IF c \in PageCalls THEN FALSE ELSE isReplying
    /\ torn' = IF stage[c] = "update" THEN torn \cup {of[c]} ELSE torn
    /\ resent' = IF c \in PageCalls /\ stage[c] # "insert" THEN resent \cup {with[c]} ELSE resent
    /\ UNCHANGED <<server, newTicket, replyMessage, isSubmitting, texts, view, closedAt,
                   answered, mixed, blurred>>

-----------------------------------------------------------------------------
(* The tickets tab of the AdminPage                                        *)

\* The buttons of a row, by the status it shows.
Offered(x) ==
    (IF x \in {"IN_PROGRESS", "RESOLVED"} THEN {} ELSE {"IN_PROGRESS"})
    \cup ({"RESOLVED", "CLOSED"} \ {x})

\* handleUpdateTicketStatus.  The list is as old as its last load: a ticket that was
\* OPEN once, as all were, may still be shown as that, and offers all of the buttons.
Decide(s, t) ==
    /\ t \in Stored
    /\ duties < MaxDuties /\ duties' = duties + 1 /\ UNCHANGED faults
    /\ \E x \in Offered("OPEN") \cup Offered(status[t]) : Start(s, "decide", t, x)
    /\ UNCHANGED <<server, inputs, view, history>>

\* updateTicketStatus looks at nothing; with a reply half done the ticket is mixed.
StatusSet(s) ==
    /\ stage[s] = "decide"
    /\ LET t == of[s] IN
       /\ status' = [status EXCEPT ![t] = with[s]]
       /\ closedAt' = [closedAt EXCEPT ![t] = Len(thread[t])]
       /\ mixed' = IF Updating(t) # {} THEN mixed \cup {t} ELSE mixed
    /\ End(s)
    /\ UNCHANGED <<helpBounds, thread, inputs, view, answered, torn, resent, blurred>>

Next ==
    \/ TypeForm \/ TypeReply
    \/ \E c \in PageCalls : \/ \E t \in Tickets : Click(c, t) \/ Submit(c, t)
                        \/ Get(c) \/ SetDetails(c) \/ LoadFails(c)
                        \/ InsertTicket(c) \/ InsertFirst(c) \/ Created(c)
                        \/ FetchTickets(c) \/ CreateFails(c)
                        \/ Reply(c) \/ Replied(c)
    \/ \E c \in PageCalls \cup Staff : InsertReply(c) \/ UpdateStatus(c) \/ ReplyFails(c)
    \/ \E s \in Staff : \/ \E t \in Tickets : StaffReplies(s, t) \/ Decide(s, t)
                        \/ StatusSet(s)

Spec == Init /\ [][Next]_vars

-----------------------------------------------------------------------------
(* What is true of it                                                      *)

TypeOK ==
    /\ status \in [Tickets -> Statuses \cup {"NONE"}]
    /\ \A t \in Tickets : thread[t] \in Seq(0..MaxTexts)
    /\ listed \subseteq Stored /\ selected \in listed \cup {NoTicket}
    /\ shown <= (IF selected = NoTicket THEN 0 ELSE Len(thread[selected]))
    /\ newTicket \in 0..texts /\ replyMessage \in 0..texts /\ texts \in 0..MaxTexts
    /\ duties \in 0..MaxDuties /\ faults \in 0..MaxFaults
    /\ isSubmitting \in BOOLEAN /\ isReplying \in BOOLEAN /\ blurred \in BOOLEAN
    /\ torn \cup mixed \subseteq Stored /\ resent \subseteq 1..texts

\* Nobody misses a message of a ticket that is resolved or closed: all of the thread
\* was there when that was decided.  What is replied later takes the ticket out of
\* that status, unless the handler stops before it does, or the staff took the ticket
\* up before its first message.
ReplyReopens ==
    \A t \in Tickets :
        status[t] \in {"RESOLVED", "CLOSED"} /\ Updating(t) = {} /\ t \notin torn
        => Len(thread[t]) = closedAt[t]

\* A ticket waits for the user only if the last word was the staff's, unless two
\* replies or a reply and a decision crossed, or a handler stopped before the UPDATE.
WaitingMeansAnswered ==
    \A t \in Tickets :
        status[t] = "WAITING_FOR_USER" /\ Updating(t) = {} /\ t \notin torn \cup mixed
        => thread[t] # <<>> /\ thread[t][Len(thread[t])] = 0

\* A text is stored once, as a ticket or as a reply, unless its handler or the answer
\* failed after the first INSERT and the user sent it again.
SentOnce ==
    \A t, u \in Tickets : \A i \in DOMAIN thread[t], j \in DOMAIN thread[u] :
        thread[t][i] = thread[u][j] /\ thread[t][i] # 0
        => (t = u /\ i = j) \/ thread[t][i] \in resent

\* A ticket on the user's list opens with the user's words, unless its handler stopped
\* between the two INSERTs or the staff was faster.
OpensWithWords ==
    \A t \in listed :
        \/ t \in torn
        \/ \E c \in PageCalls : of[c] = t /\ stage[c] = "first"
        \/ thread[t] # <<>> /\ thread[t][1] # 0

\* Once nothing is under way the page shows the user's answered replies to the ticket
\* it shows, unless loads overlapped or failed.
OwnReplyShown ==
    selected # NoTicket /\ Loads = {} /\ ~blurred => shown >= answered[selected]

\* The status of a ticket and its thread agree.
StatusAgrees == TypeOK /\ ReplyReopens /\ WaitingMeansAnswered

\* The user's words are stored, and once.
WordsAreStored == SentOnce /\ OpensWithWords
=================================================================================
