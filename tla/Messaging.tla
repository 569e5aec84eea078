------------------------------- MODULE Messaging -------------------------------
(***************************************************************************)
(* A user at MessagesPage: conversations are opened, their messages loaded *)
(* by GET and then kept up to date by the new_message events of the room   *)
(* the socket is asked to join.  The handlers of sockets/index.ts and of   *)
(* MessagingController run statement by statement, several at once.        *)
(*                                                                         *)
(* A socket delivers in order, both ways, and loses what is under way when *)
(* it is cut; the client keeps what is emitted while it is down and joins  *)
(* no room again.  Answers of requests come in any order or not at all.    *)
(*                                                                         *)
(* The user is a member of every conversation listed.  The other members   *)
(* are the messages they send.  One stay on the page.                      *)
(***************************************************************************)
EXTENDS Integers, Sequences, FiniteSets, Lists

CONSTANTS
    Convs,         \* the conversations of the user
    Messages,      \* bound: the messages that are sent
    Loads,         \* loads of messages in progress
    PageSize,      \* the limit of getMessages
    MaxOpens,      \* bound: how often a conversation is opened
    MaxCuts,       \* bound: how often the socket is cut
    Nil

ASSUME MessagingAssumption ==
    /\ PageSize \in Nat \ {0} /\ MaxOpens \in Nat /\ MaxCuts \in Nat
    /\ IsFiniteSet(Messages) /\ Nil \notin Convs \cup Messages

VARIABLES
    step,          \* of a message: what the handler that stores it does next
    conv,          \* messages.conversation_id
    mine,          \* messages.sender_id is the user
    byRest,        \* whether the user sent it by POST and not through the socket
    createdAt,     \* created_at, 0 before the handler has taken the time
    clock,         \* the time: how often it was taken
    saved,         \* the rows of messages
    read,          \* messages.is_read, of what others sent
    rooms,         \* the conversations whose room the socket is in
    joining,       \* join_conversation handlers waiting for isMember
    out, in,       \* what the socket carries to the server and to the page
    connected,
    opened,        \* activeConvId
    shown,         \* messages
    at, of, got,   \* of a load: its step, its conversation and what it read
    opens, cuts,
    \* history
    blurred,       \* two loads overlapped, or one failed, since the last clean opening
    cut,           \* the socket was cut since the conversation was opened
    excused,       \* messages the page may miss, see Tell, Receive and Select
    crossed,       \* messages a load read while they were on their way to the page
    mingled,       \* messages whose sending overlapped with another's
    moved,         \* messages posted when the user opened another conversation
    settled        \* what others sent and was shown, or may be read all the same: see
                   \* FetchFails, Insert and Select

messageRows == <<step, conv, mine, byRest, createdAt, clock, saved>>
server      == <<rooms, joining>>
wire        == <<out, in, connected, cuts>>
page        == <<opened, shown, opens>>
loads       == <<at, of, got>>
chatHistory == <<blurred, cut, excused, crossed, mingled, moved, settled>>
chatVars    == <<messageRows, read, server, wire, page, loads, chatHistory>>

Join(v)  == [event |-> "join", conv |-> v, message |-> Nil]
Part(v)  == [event |-> "leave", conv |-> v, message |-> Nil]
Send(m)  == [event |-> "send", conv |-> Nil, message |-> m]
Events   == {Join(v) : v \in Convs} \cup {Part(v) : v \in Convs} \cup {Send(m) : m \in Messages}

ChatInit ==
    /\ step = [m \in Messages |-> "unsent"]
    /\ conv = [m \in Messages |-> Nil]
    /\ mine = [m \in Messages |-> FALSE]
    /\ byRest = [m \in Messages |-> FALSE]
    /\ createdAt = [m \in Messages |-> 0] /\ clock = 0 /\ saved = {} /\ read = {}
    /\ rooms = {} /\ joining = [v \in Convs |-> 0]
    /\ out = <<>> /\ in = <<>> /\ connected = TRUE /\ cuts = 0
    /\ opened = Nil /\ shown = <<>> /\ opens = 0
    /\ at = [c \in Loads |-> "idle"]
    /\ of = [c \in Loads |-> Nil]
    /\ got = [c \in Loads |-> <<>>]
    /\ blurred = FALSE /\ cut = FALSE
    /\ excused = {} /\ crossed = {} /\ mingled = {} /\ moved = {}
    /\ settled = {}

-----------------------------------------------------------------------------
(* The page                                                                *)

Foreign(ms)   == {m \in ms : ~mine[m]}
InProgress(m) == step[m] \in {"asked", "stamped", "inserted", "answer"}
UnderWay(m)   == InProgress(m) \/ m \in Elements(in)
JoinPending(v) == joining[v] > 0 \/ Join(v) \in Elements(out)

\* The list on the left: a click on the conversation that is open changes nothing.
Selectable(v) == v # opened /\ opens < MaxOpens

\* Mutant: the effect does not join the room of a conversation opened second.
OpenWithoutJoin(c, v) ==
    /\ at[c] = "idle" /\ Selectable(v)
    /\ opened' = v /\ opens' = opens + 1
    /\ out' = IF opened = Nil THEN Append(out, Join(v)) ELSE Append(out, Part(opened))
    /\ at' = [at EXCEPT ![c] = "select"]
    /\ of' = [of EXCEPT ![c] = v]
    /\ blurred' = \E d \in Loads : at[d] # "idle"
    /\ cut' = FALSE
    /\ moved' = moved \cup {m \in Messages : mine[m] /\ byRest[m] /\ InProgress(m)}
    /\ UNCHANGED <<messageRows, read, server, in, connected, cuts, shown, got,
                   excused, crossed, mingled, settled>>

\* The first conversation of the list, or a click on another one: the effect of
\* activeConvId.  The messages of the conversation before stay until the answer.
Open(c, v) ==
    /\ at[c] = "idle" /\ Selectable(v)
    /\ opened' = v /\ opens' = opens + 1
    /\ out' = Append(IF opened = Nil THEN out ELSE Append(out, Part(opened)), Join(v))
    /\ at' = [at EXCEPT ![c] = "select"]
    /\ of' = [of EXCEPT ![c] = v]
    /\ blurred' = \E d \in Loads : at[d] # "idle"
    /\ cut' = FALSE
    /\ moved' = moved \cup {m \in Messages : mine[m] /\ byRest[m] /\ InProgress(m)}
    /\ UNCHANGED <<messageRows, read, server, in, connected, cuts, shown, got,
                   excused, crossed, mingled, settled>>

\* A send begins: the others in progress overlap with it.
Begin(m, v, own, rest) ==
    /\ step[m] = "unsent"
    /\ conv' = [conv EXCEPT ![m] = v]
    /\ mine' = [mine EXCEPT ![m] = own]
    /\ byRest' = [byRest EXCEPT ![m] = rest]

\* The form to write a message comes with the open conversation.
FormShown == opened # Nil

\* handleSendMessage: through the socket if it is up, by POST if it is not.
SendMessage(m) ==
    /\ FormShown
    /\ Begin(m, opened, TRUE, ~connected)
    /\ IF connected
       THEN /\ step' = [step EXCEPT ![m] = "emitted"]
            /\ out' = Append(out, Send(m))
       ELSE step' = [step EXCEPT ![m] = "asked"] /\ UNCHANGED out
    /\ UNCHANGED <<createdAt, clock, saved, read, server, in, connected, cuts, page, loads,
                   chatHistory>>

\* Another member sends one, from a page like this; Tell chooses which way.
OtherSends(m, v) ==
    /\ Begin(m, v, FALSE, FALSE)
    /\ step' = [step EXCEPT ![m] = "asked"]
    /\ UNCHANGED <<createdAt, clock, saved, read, server, wire, page, loads, chatHistory>>

\* A load that has read and not answered will put what it read in place of this.
Overwritten(m) == \E c \in Loads : at[c] \in {"mark", "answer"} /\ m \notin Elements(got[c])

\* setMessages((prev) => [...prev, msg]).
ShowAlso(m) ==
    /\ shown' = Append(shown, m)
    /\ settled' = settled \cup Foreign({m})
    /\ excused' = IF Overwritten(m) THEN excused \cup {m} ELSE excused

\* handleNewMessage.
Receive ==
    /\ connected /\ in # <<>>
    /\ in' = Tail(in)
    /\ IF conv[Head(in)] = opened
       THEN ShowAlso(Head(in)) ELSE UNCHANGED <<shown, settled, excused>>
    /\ UNCHANGED <<messageRows, read, server, out, connected, cuts, opened, opens, loads,
                   blurred, cut, crossed, mingled, moved>>

\* The POST is answered: shown whatever conversation is open by now.
Posted(m) ==
    /\ step[m] = "answer"
    /\ step' = [step EXCEPT ![m] = "done"]
    /\ ShowAlso(m)
    /\ UNCHANGED <<conv, mine, byRest, createdAt, clock, saved, read, server, wire, opened,
                   opens, loads, blurred, cut, crossed, mingled, moved>>

EndLoad(c) ==
    /\ at' = [at EXCEPT ![c] = "idle"]
    /\ of' = [of EXCEPT ![c] = Nil]
    /\ got' = [got EXCEPT ![c] = <<>>]

\* fetchMessages goes on: the answer is shown whatever conversation is open by now.
Answer(c) ==
    /\ at[c] = "answer"
    /\ shown' = got[c]
    /\ settled' = settled \cup Foreign(Elements(got[c]))
    /\ EndLoad(c)
    /\ UNCHANGED <<messageRows, read, server, wire, opened, opens, blurred, cut, excused,
                   crossed, mingled, moved>>

\* fetchMessages ignores an error.
FetchFails(c) ==
    /\ at[c] # "idle"
    /\ EndLoad(c)
    /\ blurred' = TRUE
    /\ settled' = settled \cup Foreign(Elements(got[c]))
    /\ UNCHANGED <<messageRows, read, server, wire, page, cut, excused, crossed, mingled, moved>>

-----------------------------------------------------------------------------
(* The socket                                                              *)

Connect ==
    /\ ~connected
    /\ connected' = TRUE
    /\ UNCHANGED <<messageRows, read, server, out, in, cuts, page, loads, chatHistory>>

\* What was under way is lost, and the new connection is in no room.
Cut ==
    /\ connected /\ cuts < MaxCuts
    /\ connected' = FALSE /\ cuts' = cuts + 1 /\ cut' = TRUE
    /\ out' = <<>> /\ in' = <<>>
    /\ rooms' = {} /\ joining' = [v \in Convs |-> 0]
    /\ step' = [m \in Messages |-> IF step[m] = "emitted" THEN "lost" ELSE step[m]]
    /\ excused' = excused \cup Elements(in)
    /\ UNCHANGED <<conv, mine, byRest, createdAt, clock, saved, read, page, loads, blurred,
                   crossed, mingled, moved, settled>>

\* leave_conversation goes by the room alone: a join that waits comes after it.
PartRoom(v) == rooms' = rooms \ {v} /\ UNCHANGED joining

\* The server takes the next event: a leave is done at once, a join and a send begin
\* with a query.
Serve ==
    /\ connected /\ out # <<>>
    /\ out' = Tail(out)
    /\ LET e == Head(out) IN
       \/ /\ e.event = "join"
          /\ joining' = [joining EXCEPT ![e.conv] = @ + 1]
          /\ UNCHANGED <<rooms, step>>
       \/ e.event = "leave" /\ PartRoom(e.conv) /\ UNCHANGED step
       \/ /\ e.event = "send"
          /\ step' = [step EXCEPT ![e.message] = "asked"]
          /\ UNCHANGED server
    /\ UNCHANGED <<conv, mine, byRest, createdAt, clock, saved, read, in, connected, cuts, page,
                   loads, chatHistory>>

Joined(v) ==
    /\ joining[v] > 0
    /\ joining' = [joining EXCEPT ![v] = @ - 1]
    /\ rooms' = rooms \cup {v}
    /\ UNCHANGED <<messageRows, read, wire, page, loads, chatHistory>>

-----------------------------------------------------------------------------
(* Sending a message, the handlers                                         *)

\* isMember has answered: createMessage takes the time.
Stamp(m) ==
    /\ step[m] = "asked"
    /\ step' = [step EXCEPT ![m] = "stamped"]
    /\ clock' = clock + 1 /\ createdAt' = [createdAt EXCEPT ![m] = clock']
    /\ mingled' = IF \E n \in Messages \ {m} : UnderWay(n)
                  THEN mingled \cup {m} \cup {n \in Messages : UnderWay(n)} ELSE mingled
    /\ UNCHANGED <<conv, mine, byRest, saved, read, server, wire, page, loads, blurred,
                   cut, excused, crossed, moved, settled>>

\* The INSERT.
Insert(m) ==
    /\ step[m] = "stamped"
    /\ step' = [step EXCEPT ![m] = "inserted"]
    /\ saved' = saved \cup {m}
    /\ settled' = IF \E c \in Loads : at[c] = "mark" /\ of[c] = conv[m]
                  THEN settled \cup Foreign({m}) ELSE settled
    /\ UNCHANGED <<conv, mine, byRest, createdAt, clock, read, server, wire, page, loads,
                   blurred, cut, excused, crossed, mingled, moved>>

\* A query of the handler fails, and the page hears of neither; isMember that fails is
\* like the INSERT that fails.
SendFails(m) ==
    /\ step[m] \in {"stamped", "inserted", "answer"}
    /\ IF m \in saved
       THEN /\ step' = [step EXCEPT ![m] = "done"]
            /\ excused' = excused \cup {m}
       ELSE step' = [step EXCEPT ![m] = "lost"] /\ UNCHANGED excused
    /\ UNCHANGED <<conv, mine, byRest, createdAt, clock, saved, read, server, wire, page,
                   loads, blurred, cut, crossed, mingled, moved, settled>>

\* Mutant: POST broadcasts as the socket handler does.
BroadcastsAll(m) == {TRUE}

\* Only the socket handler broadcasts, and to the sender too; what another member
\* sends may have come either way.
Broadcasts(m) == IF mine[m] THEN {~byRest[m]} ELSE BOOLEAN

\* updated_at, the SELECT of the row, the broadcast or the answer of the POST.
Tell(m) ==
    /\ step[m] = "inserted"
    /\ step' = [step EXCEPT ![m] = IF byRest[m] THEN "answer" ELSE "done"]
    /\ \E broadcast \in Broadcasts(m) :
          IF broadcast /\ connected /\ conv[m] \in rooms
          THEN in' = Append(in, m) /\ UNCHANGED excused
          ELSE /\ UNCHANGED in
               /\ excused' = IF \/ ~broadcast \/ cut
                                \/ opened # Nil /\ JoinPending(opened)
                             THEN excused \cup {m} ELSE excused
    /\ UNCHANGED <<conv, mine, byRest, createdAt, clock, saved, read, server, out, connected,
                   cuts, page, loads, blurred, cut, crossed, mingled, moved, settled>>

-----------------------------------------------------------------------------
(* GET /conversations/:id/messages                                         *)

Of(v) == {m \in saved : conv[m] = v}

\* ORDER BY created_at ASC LIMIT: the oldest of the conversation.
PageLength(v) == IF Cardinality(Of(v)) < PageSize THEN Cardinality(Of(v)) ELSE PageSize
Pages(v) ==
    {s \in [1..PageLength(v) -> Of(v)] :
        /\ \A i, j \in DOMAIN s : i < j => createdAt[s[i]] < createdAt[s[j]]
        /\ \A m \in Of(v) \ Elements(s) : \A i \in DOMAIN s : createdAt[s[i]] < createdAt[m]}

\* isMember and the SELECT.
Select(c) ==
    /\ at[c] = "select"
    /\ at' = [at EXCEPT ![c] = "mark"]
    /\ \E s \in Pages(of[c]) :
          /\ got' = [got EXCEPT ![c] = s]
          /\ LET left == Of(of[c]) \ Elements(s) IN
             /\ excused' = excused \cup left
             /\ settled' = settled \cup Foreign(left)
          /\ crossed' = crossed \cup {m \in Elements(s) : UnderWay(m)}
    /\ UNCHANGED <<messageRows, read, server, wire, page, of, blurred, cut, mingled, moved>>

\* Mutant: the UPDATE forgets the conversation.
UnreadAnywhere(v) == {m \in saved : ~mine[m]}

Unread(v) == {m \in saved : conv[m] = v /\ ~mine[m]}

\* markAsRead: everything in the conversation, read or not by the SELECT before.
Mark(c) ==
    /\ at[c] = "mark"
    /\ read' = read \cup Unread(of[c])
    /\ at' = [at EXCEPT ![c] = "answer"]
    /\ UNCHANGED <<messageRows, server, wire, page, of, got, chatHistory>>

ChatNext ==
    \/ \E c \in Loads : \E v \in Convs : Open(c, v)
    \/ \E c \in Loads : Select(c) \/ Mark(c) \/ Answer(c) \/ FetchFails(c)
    \/ \E m \in Messages : \/ SendMessage(m) \/ Posted(m)
                           \/ Stamp(m) \/ Insert(m) \/ Tell(m) \/ SendFails(m)
    \/ \E m \in Messages, v \in Convs : OtherSends(m, v)
    \/ Connect \/ Cut \/ Serve \/ Receive
    \/ \E v \in Convs : Joined(v)

ChatSpec == ChatInit /\ [][ChatNext]_chatVars

-----------------------------------------------------------------------------
(* What is true of it                                                      *)

ChatTypeOK ==
    /\ step \in [Messages -> {"unsent", "emitted", "asked", "stamped", "inserted", "answer",
                              "done", "lost"}]
    /\ conv \in [Messages -> Convs \cup {Nil}]
    /\ mine \in [Messages -> BOOLEAN] /\ byRest \in [Messages -> BOOLEAN]
    /\ createdAt \in [Messages -> 0..clock] /\ clock \in Nat
    /\ saved \subseteq {m \in Messages : createdAt[m] > 0} /\ read \subseteq saved
    /\ rooms \subseteq Convs /\ joining \in [Convs -> 0..MaxOpens]
    /\ out \in Seq(Events) /\ in \in Seq(Messages)
    /\ connected \in BOOLEAN /\ cuts \in 0..MaxCuts
    /\ opened \in Convs \cup {Nil} /\ shown \in Seq(Messages) /\ opens \in 0..MaxOpens
    /\ at \in [Loads -> {"idle", "select", "mark", "answer"}]
    /\ of \in [Loads -> Convs \cup {Nil}]
    /\ got \in [Loads -> Seq(Messages)] /\ \A c \in Loads : Len(got[c]) <= PageSize
    /\ blurred \in BOOLEAN /\ cut \in BOOLEAN
    /\ excused \cup crossed \cup mingled \cup moved \cup settled \subseteq Messages

Loading == \E c \in Loads : at[c] # "idle"

\* The page misses no message of the conversation it shows, whichever of the load and
\* the room brings it, unless the message was sent by POST or its sending failed, came
\* before the room was joined or after the socket was cut, is not among the oldest
\* PageSize, or came between the SELECT and the answer of a load.
NothingMissed ==
    opened # Nil /\ ~Loading /\ ~blurred =>
        \A m \in saved : conv[m] = opened /\ ~UnderWay(m)
            => m \in Elements(shown) \cup excused

\* No message is shown twice, unless a load read it before its event or the answer of
\* its POST reached the page: nothing tells the two apart by their id.
ShownOnce ==
    \A i, j \in DOMAIN shown : i # j /\ shown[i] = shown[j] => shown[i] \in crossed

\* Messages are shown in the order of created_at, unless they were sent at the same
\* time: the time is taken before the INSERT, and events are in the order of the ends
\* of the handlers.
ShownInOrder ==
    \A k, l \in DOMAIN shown : k < l /\ createdAt[shown[l]] < createdAt[shown[k]]
        => shown[k] \in mingled /\ shown[l] \in mingled

\* What is shown belongs to the conversation under whose name it is shown, unless its
\* load is in progress, failed or overlapped with another, or it is a message posted
\* before the user changed the conversation.
ShownBelongs ==
    ~Loading /\ ~blurred => \A m \in Elements(shown) : conv[m] = opened \/ m \in moved

\* A message counts as read only once the page has shown it, unless its load is in
\* progress or failed, it came between the SELECT and the UPDATE, or it is not among
\* the oldest PageSize.
ReadWasShown ==
    \A m \in read : m \in settled \/ \E c \in Loads : m \in Elements(got[c])

\* The page shows the messages of the conversation, each once and in order.
ShownFaithfully == ChatTypeOK /\ ShownOnce /\ ShownInOrder /\ ShownBelongs
===============================================================================
