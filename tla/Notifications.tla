----------------------------- MODULE Notifications -----------------------------
(***************************************************************************)
(* What follows a booking and other events: the conversation of the two    *)
(* users is found or created, a notification is stored and pushed to the   *)
(* recipient's socket, and the recipient's browser keeps a list of         *)
(* notifications and a count of the unread ones, from two GETs when it     *)
(* signs in, from the pushes and from what the user marks as read.         *)
(*                                                                         *)
(* One recipient, signed in all the time, and one other user; handlers go  *)
(* statement by statement, several at once.  The socket keeps the order    *)
(* and loses what is under way when it is cut; the personal room is joined *)
(* again by every connection.  Answers may be lost.                        *)
(*                                                                         *)
(* On PostgreSQL COUNT( * ) arrives as text, which nothing converts on its *)
(* way to the badge: + 1 then appends a digit to it, - 1 makes it a number.*)
(***************************************************************************)
EXTENDS Integers, Sequences, FiniteSets, Lists

CONSTANTS
    Handlers,      \* bound: the handlers that notify the user
    Callers,       \* bound: who may have made the booking of a handler
    Clicks,        \* calls of markAsRead and markAllAsRead in progress
    MaxDrops,      \* bound: how often the socket is cut
    ListLimit,     \* LIMIT of the list, 30
    CountIsText,   \* whether COUNT( * ) arrives as text: PostgreSQL
    Nothing

Users == {"passenger", "driver"}
Other(u) == IF u = "driver" THEN "passenger" ELSE "driver"

ASSUME NotificationsAssumption ==
    /\ IsFiniteSet(Handlers) /\ Nothing \notin Handlers /\ MaxDrops \in Nat
    /\ Callers \in [Handlers -> SUBSET Users]
    /\ ListLimit \in Nat \ {0} /\ CountIsText \in BOOLEAN

VARIABLES
    stage,         \* of a handler: the statement it is at
    caller,        \* who made the booking, Nothing once the conversation is there
    members,       \* conversation_members of the conversation a handler created
    note,          \* the row of notifications a handler stores
    newest,        \* the rows by created_at, the newest first
    pushes,        \* the pushes the socket carries
    online,        \* the socket is connected
    drops,
    load,          \* the step of fetchNotifications
    gotList, gotCount,
    list, count,   \* notifications and unreadCount
    text,          \* the count is a text: the digits of the number count
    click, target, \* of a call: its step and its notification, Nothing for all of them
    \* history
    sideBySide,    \* two handlers looked for a conversation and found none
    missed,        \* notifications whose push was lost or overwritten by the load, and
                   \* those too old for the list it read
    doubled,       \* notifications the load read while they were on their way
    drifted        \* the count and the rows went apart, see the actions that set it

handling    == <<stage, caller, members, note, newest>>
socket      == <<pushes, online, drops>>
loading     == <<load, gotList, gotCount>>
calls       == <<click, target>>
noteHistory == <<sideBySide, missed, doubled, drifted>>
noteVars    == <<handling, socket, loading, list, count, text, calls, noteHistory>>

NoteInit ==
    /\ stage = [h \in Handlers |-> "idle"]
    /\ caller = [h \in Handlers |-> Nothing]
    /\ members = [h \in Handlers |-> Nothing]
    /\ note = [h \in Handlers |-> "none"] /\ newest = <<>>
    /\ pushes = <<>> /\ online = TRUE /\ drops = 0
    /\ load = "list" /\ gotList = <<>> /\ gotCount = 0
    /\ list = <<>> /\ count = 0 /\ text = FALSE
    /\ click = [c \in Clicks |-> "idle"]
    /\ target = [c \in Clicks |-> Nothing]
    /\ sideBySide = FALSE /\ missed = {} /\ doubled = {} /\ drifted = FALSE

Proceed(h, l) == stage' = [stage EXCEPT ![h] = l]

\* A notification stored and not yet received or lost.
OnItsWay(h) == stage[h] = "emit" \/ h \in Elements(pushes)
UnreadNotes      == {h \in Handlers : note[h] = "unread"}

-----------------------------------------------------------------------------
(* findOrCreateDirectConversation                                          *)

\* createBooking has committed.
Book(h, u) ==
    /\ stage[h] = "idle"
    /\ caller' = [caller EXCEPT ![h] = u]
    /\ Proceed(h, "find")
    /\ UNCHANGED <<members, note, newest, socket, loading, list, count, text, calls,
                   noteHistory>>

\* An approval, a cancellation, the end of a journey: no conversation is looked for.
Notify(h) ==
    /\ stage[h] = "idle"
    /\ Proceed(h, "note")
    /\ UNCHANGED <<caller, members, note, newest, socket, loading, list, count, text, calls,
                   noteHistory>>

\* Mutant: only the conversations the caller has begun.
BegunBy(u) == {h \in Handlers : members[h] = <<u, Other(u)>>}

\* The query joins the members table twice, in any order.
Between(u) == {h \in Handlers : members[h] # Nothing /\ Elements(members[h]) = Users}

Creating(h) == stage[h] \in {"conversation", "member1", "member2"}

Find(h) ==
    /\ stage[h] = "find"
    /\ IF Between(caller[h]) # {}
       THEN /\ Proceed(h, "note") /\ caller' = [caller EXCEPT ![h] = Nothing]
            /\ UNCHANGED sideBySide
       ELSE /\ Proceed(h, "conversation") /\ UNCHANGED caller
            /\ sideBySide' = (sideBySide \/ \E g \in Handlers : Creating(g))
    /\ UNCHANGED <<members, note, newest, socket, loading, list, count, text, calls,
                   missed, doubled, drifted>>

\* Three INSERTs, not in a transaction.
Create(h) ==
    /\ Creating(h)
    /\ caller' = [caller EXCEPT ![h] = IF stage[h] = "member2" THEN Nothing ELSE @]
    /\ CASE stage[h] = "conversation" ->
              members' = [members EXCEPT ![h] = <<>>] /\ Proceed(h, "member1")
         [] stage[h] = "member1" ->
              members' = [members EXCEPT ![h] = <<caller[h]>>] /\ Proceed(h, "member2")
         [] stage[h] = "member2" ->
              members' = [members EXCEPT ![h] = @ \o <<Other(caller[h])>>] /\ Proceed(h, "note")
    /\ UNCHANGED <<note, newest, socket, loading, list, count, text, calls, noteHistory>>

-----------------------------------------------------------------------------
(* sendInAppNotification                                                   *)

Store(h) ==
    /\ stage[h] = "note"
    /\ note' = [note EXCEPT ![h] = "unread"]
    /\ newest' = <<h>> \o newest
    /\ Proceed(h, "emit")
    /\ UNCHANGED <<caller, members, socket, loading, list, count, text, calls, noteHistory>>

\* The push to the room of the user, empty when no socket is connected.
Emit(h) ==
    /\ stage[h] = "emit"
    /\ Proceed(h, "done")
    /\ IF online
       THEN pushes' = Append(pushes, h) /\ UNCHANGED <<missed, drifted>>
       ELSE /\ missed' = missed \cup {h} /\ drifted' = TRUE
            /\ UNCHANGED pushes
    /\ UNCHANGED <<caller, members, note, newest, online, drops, loading, list, count, text,
                   calls,
                   sideBySide, doubled>>

\* A statement fails: what is done stays done, what follows is not done.
Fail(h) ==
    /\ stage[h] \notin {"idle", "done", "failed"}
    /\ Proceed(h, "failed") /\ caller' = [caller EXCEPT ![h] = Nothing]
    /\ missed' = IF stage[h] = "emit" THEN missed \cup {h} ELSE missed
    /\ drifted' = (drifted \/ stage[h] = "emit")
    /\ UNCHANGED <<members, note, newest, socket, loading, list, count, text, calls,
                   sideBySide, doubled>>

Disconnect ==
    /\ online /\ drops < MaxDrops
    /\ online' = FALSE /\ drops' = drops + 1 /\ pushes' = <<>>
    /\ missed' = missed \cup Elements(pushes)
    /\ drifted' = (drifted \/ pushes # <<>>)
    /\ UNCHANGED <<handling, loading, list, count, text, calls, sideBySide, doubled>>

Reconnect ==
    /\ ~online
    /\ online' = TRUE
    /\ UNCHANGED <<handling, pushes, drops, loading, list, count, text, calls, noteHistory>>

-----------------------------------------------------------------------------
(* fetchNotifications                                                      *)

Entry(h, r) == [id |-> h, read |-> r]

FirstOf(s) == SubSeq(s, 1, IF Len(s) < ListLimit THEN Len(s) ELSE ListLimit)

\* Mutant: the read ones are left out.
RowsUnread == FirstOf(SelectSeq(newest, LAMBDA h : note[h] = "unread"))

\* The newest rows, as many as the LIMIT allows.
Rows == FirstOf(newest)

ReadList ==
    /\ load = "list"
    /\ load' = "count"
    /\ gotList' = [i \in DOMAIN Rows |-> Entry(Rows[i], note[Rows[i]] = "read")]
    /\ LET stored == {h \in Handlers : note[h] # "none"}
           onWay  == {h \in stored : OnItsWay(h)}
           older  == {h \in stored : \E i \in DOMAIN newest : i > ListLimit /\ newest[i] = h}
       IN  doubled' = doubled \cup onWay /\ missed' = missed \cup (older \ onWay)
    /\ UNCHANGED <<handling, socket, gotCount, list, count, text, calls, sideBySide, drifted>>

ReadCount ==
    /\ load = "count"
    /\ load' = "set"
    /\ gotCount' = Cardinality(UnreadNotes)
    /\ drifted' = (drifted \/ (\E h \in UnreadNotes : OnItsWay(h))
                           \/ (UnreadNotes # {} /\ \E c \in Clicks : click[c] = "answered"))
    /\ UNCHANGED <<handling, socket, gotList, list, count, text, calls, sideBySide, missed,
                   doubled>>

\* Mutant: what was read is added to the list.
SetMore ==
    /\ load = "set"
    /\ load' = "idle"
    /\ list' = list \o gotList /\ count' = gotCount /\ text' = CountIsText
    /\ gotList' = <<>> /\ gotCount' = 0
    /\ UNCHANGED <<handling, socket, calls, noteHistory>>

\* Both are set at once; what was pushed or marked in between is overwritten.
SetBoth ==
    /\ load = "set"
    /\ load' = "idle"
    /\ list' = gotList /\ count' = gotCount /\ text' = CountIsText
    /\ gotList' = <<>> /\ gotCount' = 0
    /\ UNCHANGED <<handling, socket, calls, noteHistory>>

LoadBreaks ==
    /\ load # "idle"
    /\ load' = "idle"
    /\ gotList' = <<>> /\ gotCount' = 0
    /\ missed' = missed \cup {h \in Handlers : note[h] # "none"}
    /\ drifted' = (drifted \/ \E h \in Handlers : note[h] # "none")
    /\ UNCHANGED <<handling, socket, list, count, text, calls, sideBySide, doubled>>

\* prev + 1: of a text, its digits and a 1.
OneOn(n) == IF text THEN 10 * n + 1 ELSE n + 1

\* handleNotification.
ReceivePush ==
    /\ online /\ pushes # <<>>
    /\ pushes' = Tail(pushes)
    /\ list' = <<Entry(Head(pushes), FALSE)>> \o list
    /\ count' = OneOn(count)
    /\ missed' = IF load \in {"count", "set"} THEN missed \cup {Head(pushes)} ELSE missed
    /\ drifted' = (drifted \/ text \/ load = "set" \/ \E c \in Clicks : click[c] = "answered")
    /\ UNCHANGED <<handling, online, drops, loading, text, calls, sideBySide, doubled>>

-----------------------------------------------------------------------------
(* The bell of the Navbar                                                  *)

BeginClick(c, h) ==
    /\ click[c] = "idle"
    /\ click' = [click EXCEPT ![c] = "sent"]
    /\ target' = [target EXCEPT ![c] = h]
    /\ UNCHANGED <<handling, socket, loading, list, count, text, noteHistory>>

\* A row of the list is clicked, whether it is read or not: one of the first ten, which
\* the menu shows.
ClickNote(c, h) == h \in {e.id : e \in Elements(list)} /\ BeginClick(c, h)

\* The button is there while the count is not zero.
ClickAll(c) == count > 0 /\ BeginClick(c, Nothing)

\* The UPDATE.  What marks a row that is read already takes one off the count all the
\* same; what marks all of them forgets the pushes and the calls under way.
MarkRead(c) ==
    /\ click[c] = "sent"
    /\ click' = [click EXCEPT ![c] = "answered"]
    /\ IF target[c] = Nothing
       THEN /\ note' = [h \in Handlers |-> IF note[h] = "none" THEN "none" ELSE "read"]
            /\ drifted' = (drifted \/ (\E h \in Handlers : note[h] # "none" /\ OnItsWay(h))
                                   \/ \E d \in Clicks \ {c} : click[d] = "answered")
       ELSE /\ note' = [note EXCEPT ![target[c]] = "read"]
            /\ drifted' = (drifted \/ note[target[c]] = "read" \/ OnItsWay(target[c]))
    /\ UNCHANGED <<stage, caller, members, newest, socket, loading, list, count, text, target,
                   sideBySide, missed, doubled>>

EndClick(c) ==
    /\ click' = [click EXCEPT ![c] = "idle"]
    /\ target' = [target EXCEPT ![c] = Nothing]

\* Math.max(0, prev - 1), a number.
OneOff(n) == IF n > 0 THEN n - 1 ELSE 0

Marked(c) ==
    /\ click[c] = "answered"
    /\ list' = [i \in DOMAIN list |-> IF target[c] \in {Nothing, list[i].id}
                                      THEN Entry(list[i].id, TRUE) ELSE list[i]]
    /\ count' = IF target[c] = Nothing THEN 0 ELSE OneOff(count)
    /\ text' = FALSE
    /\ drifted' = (drifted \/ load = "set")
    /\ EndClick(c)
    /\ UNCHANGED <<handling, socket, loading, sideBySide, missed, doubled>>

\* Neither call catches an error: the rejection is not handled and nothing is set.
MarkFails(c) ==
    /\ click[c] # "idle"
    /\ drifted' = (drifted \/ click[c] = "answered")
    /\ EndClick(c)
    /\ UNCHANGED <<handling, socket, loading, list, count, text, sideBySide, missed, doubled>>

NoteNext ==
    \/ \E h \in Handlers : \/ \E u \in Callers[h] : Book(h, u)
                           \/ Notify(h) \/ Find(h) \/ Create(h)
                           \/ Store(h) \/ Emit(h) \/ Fail(h)
    \/ Disconnect \/ Reconnect \/ ReceivePush
    \/ ReadList \/ ReadCount \/ SetBoth \/ LoadBreaks
    \/ \E c \in Clicks : \/ \E h \in Handlers : ClickNote(c, h)
                         \/ ClickAll(c) \/ MarkRead(c) \/ Marked(c) \/ MarkFails(c)

\* A push is delivered, and a handler goes on or fails, in the end.
NoteSpec ==
    /\ NoteInit /\ [][NoteNext]_noteVars
    /\ WF_noteVars(ReceivePush \/ Reconnect)
    /\ WF_noteVars(ReadList \/ ReadCount \/ SetBoth \/ LoadBreaks)
    /\ \A h \in Handlers :
          WF_noteVars(Find(h) \/ Create(h) \/ Store(h) \/ Emit(h) \/ Fail(h))

-----------------------------------------------------------------------------
(* What is true of it                                                      *)

NoteTypeOK ==
    /\ stage \in [Handlers -> {"idle", "find", "conversation", "member1", "member2",
                              "note", "emit", "done", "failed"}]
    /\ caller \in [Handlers -> Users \cup {Nothing}]
    /\ members \in [Handlers -> {Nothing} \cup Seq(Users)]
    /\ note \in [Handlers -> {"none", "unread", "read"}] /\ newest \in Seq(Handlers)
    /\ pushes \in Seq(Handlers) /\ online \in BOOLEAN /\ drops \in 0..MaxDrops
    /\ load \in {"list", "count", "set", "idle"} /\ gotCount \in 0..Cardinality(Handlers)
    /\ {list, gotList} \subseteq Seq([id : Handlers, read : BOOLEAN])
    /\ count \in Nat /\ text \in BOOLEAN
    /\ click \in [Clicks -> {"idle", "sent", "answered"}]
    /\ target \in [Clicks -> Handlers \cup {Nothing}]
    /\ sideBySide \in BOOLEAN /\ drifted \in BOOLEAN
    /\ missed \cup doubled \subseteq Handlers

\* Two users have one conversation, unless two bookings looked for it at the same time,
\* or a creation failed before both were members and the next one began anew.
OneConversation ==
    \A g, h \in Handlers :
        g # h /\ members[g] # Nothing /\ members[h] # Nothing
        => sideBySide \/ stage[g] = "failed" \/ stage[h] = "failed"

Quiet ==
    /\ load = "idle" /\ pushes = <<>>
    /\ \A h \in Handlers : stage[h] # "emit"
    /\ \A c \in Clicks : click[c] = "idle"

\* Once nothing is under way the badge shows the number of unread rows, unless a read
\* notification was clicked, a push was lost, an answer was lost after the UPDATE, a
\* push, the load and a call that marks overlapped, or, on PostgreSQL, a push came while
\* the count was still the text the load had brought.
BadgeCountsUnread == Quiet /\ ~drifted => count = Cardinality(UnreadNotes)

\* A notification is listed once, unless the load read it while its push was under way.
ListedOnce ==
    \A i, j \in DOMAIN list : i # j /\ list[i].id = list[j].id => list[i].id \in doubled

\* A stored notification comes to be listed, unless its push was lost or was received
\* between the reading of the list and its setting, the load failed, or the load found
\* it older than as many others as the list has places.
ComesToBeListed ==
    \A h \in Handlers :
        note[h] # "none" ~> h \in {e.id : e \in Elements(list)} \cup missed

\* The bell shows the rows of the user.
BellIsRight == NoteTypeOK /\ BadgeCountsUnread /\ ListedOnce
===============================================================================
