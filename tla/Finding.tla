-------------------------------- MODULE Finding --------------------------------
(***************************************************************************)
(* The search for a ride: SearchPage with its filters, each change of      *)
(* which starts a query of its own, and searchJourneys, which filters,     *)
(* sorts and cuts.  Others take and give back seats, and rides end, at any *)
(* time; how, is SeatBooking's.                                            *)
(*                                                                         *)
(* The page asks for the first page only.  Of the filters, the seats and   *)
(* the highest price are told apart; of the orders, two.                   *)
(***************************************************************************)
EXTENDS Integers, Sequences, FiniteSets

LOCAL INSTANCE SequencesExt

CONSTANTS
    Offers,          \* journeys
    Price, Departs,  \* price_per_seat and departure_time of each
    Seats,           \* available_seats of each at first, none of them 0
    Prices, NoLimit, \* the positions of the price slider, the last of which means any
    Limit,           \* rides on a page
    Queries,         \* queries in progress
    MaxEvents        \* bound: changes by others, and queries that fail

ASSUME FindingAssumption ==
    /\ Price \in [Offers -> Nat] /\ Departs \in [Offers -> Nat]
    /\ Seats \in [Offers -> Nat \ {0}] /\ Prices \subseteq 0..NoLimit /\ NoLimit \in Prices
    /\ IsFiniteSet(Offers) /\ Limit \in Nat \ {0} /\ MaxEvents \in Nat

VARIABLES
    free,            \* available_seats
    live,            \* the journeys that are PUBLISHED
    criteria,        \* what the page shows as asked for
    found, total,    \* journeys and total of the page
    isSearching,     \* isLoading
    at,              \* of a query: its step,
    asked,           \* the criteria of the render it was started in, until it is served,
    answer,          \* and the journeys and the total it has read then
    events,          \* bounded by MaxEvents
    \* history
    overlap,         \* the last query was started while another was on its way
    aged             \* rides changed since the last query was answered, or it failed

market     == <<free, live>>
screen     == <<criteria, found, total, isSearching>>
queries    == <<at, asked, answer>>
findVars   == <<market, screen, queries, events, overlap, aged>>

Orders   == {"departureTime_asc", "price_asc"}
Defaults == [seats |-> 1, maxPrice |-> NoLimit, sort |-> "departureTime_asc"]
NoAnswer == [journeys |-> <<>>, total |-> 0]

FindInit ==
    /\ free = Seats /\ live = Offers
    /\ criteria = Defaults
    /\ found = <<>> /\ total = 0 /\ isSearching = TRUE
    /\ \E q \in Queries : at = [p \in Queries |-> IF p = q THEN "sent" ELSE "idle"]
    /\ asked = [q \in Queries |-> Defaults]
    /\ answer = [q \in Queries |-> NoAnswer]
    /\ events = 0 /\ overlap = FALSE /\ aged = FALSE

Asking == {q \in Queries : at[q] # "idle"}

-----------------------------------------------------------------------------
(* searchJourneys                                                          *)

Matching(c) ==
    {o \in live : /\ free[o] >= c.seats
                  /\ c.maxPrice < NoLimit => Price[o] <= c.maxPrice}

Before(c, o, p) ==
    CASE c.sort = "price_asc"         -> Price[o] <= Price[p]
    []   c.sort = "departureTime_asc" -> Departs[o] <= Departs[p]

InOrder(c, s) == \A i, j \in DOMAIN s : i < j => Before(c, s[i], s[j])

FirstPage(s) == SubSeq(s, 1, IF Len(s) < Limit THEN Len(s) ELSE Limit)

\* Mutant: the page is cut from the rows, then sorted.
CutThenSort(c) ==
    {s \in UNION {SetToSeqs(ToSet(FirstPage(r))) : r \in SetToSeqs(Matching(c))} : InOrder(c, s)}

\* The first page of the rows in order; rows that are equal come in any.
PagesOf(c) == {FirstPage(s) : s \in {r \in SetToSeqs(Matching(c)) : InOrder(c, r)}}

-----------------------------------------------------------------------------
(* SearchPage                                                              *)

\* fetchJourneys, with the criteria of its render.
Fetch(q, c) ==
    /\ at[q] = "idle"
    /\ at' = [at EXCEPT ![q] = "sent"]
    /\ asked' = [asked EXCEPT ![q] = c]
    /\ isSearching' = TRUE
    /\ overlap' = (Asking # {})
    /\ UNCHANGED answer

\* The effect on a change of a filter or of the address.
Refine(q, c) ==
    /\ c # criteria
    /\ criteria' = c
    /\ Fetch(q, c)
    /\ UNCHANGED <<market, found, total, events, aged>>

SetSort(q, s) == Refine(q, [criteria EXCEPT !.sort = s])

SetMaxPrice(q, p) == Refine(q, [criteria EXCEPT !.maxPrice = p])

ResetFilters(q) == Refine(q, [Defaults EXCEPT !.seats = criteria.seats])

\* The widget puts its fields into the address.
Search(q, n) == Refine(q, [criteria EXCEPT !.seats = n])

ServeQuery(q) ==
    /\ at[q] = "sent"
    /\ at' = [at EXCEPT ![q] = "answered"]
    /\ \E s \in PagesOf(asked[q]) :
          answer' = [answer EXCEPT ![q] = [journeys |-> s,
                                           total |-> Cardinality(Matching(asked[q]))]]
    /\ asked' = [asked EXCEPT ![q] = Defaults]
    /\ aged' = FALSE
    /\ UNCHANGED <<market, screen, events, overlap>>

Idle(q) ==
    /\ at' = [at EXCEPT ![q] = "idle"]
    /\ asked' = [asked EXCEPT ![q] = Defaults]
    /\ answer' = [answer EXCEPT ![q] = NoAnswer]

\* What the query brought, whatever is asked for by now.
Found(q) ==
    /\ at[q] = "answered"
    /\ found' = answer[q].journeys /\ total' = answer[q].total
    /\ isSearching' = FALSE
    /\ Idle(q)
    /\ UNCHANGED <<market, criteria, events, overlap, aged>>

QueryFails(q) ==
    /\ at[q] # "idle" /\ events < MaxEvents /\ events' = events + 1
    /\ found' = <<>> /\ total' = 0 /\ aged' = TRUE
    /\ isSearching' = FALSE
    /\ Idle(q)
    /\ UNCHANGED <<market, criteria, overlap>>

\* A ride of the page is booked and paid in the dialog (Checkout), and onSuccess asks
\* again.
BookFound(q, o) ==
    /\ ~isSearching /\ o \in ToSet(found) /\ o \in live
    /\ free' = [free EXCEPT ![o] = @ - 1]
    /\ live' = IF free[o] = 1 THEN live \ {o} ELSE live
    /\ aged' = TRUE
    /\ Fetch(q, criteria)
    /\ UNCHANGED <<criteria, found, total, events>>

-----------------------------------------------------------------------------
(* The others                                                              *)

Others(o) ==
    /\ events < MaxEvents /\ events' = events + 1
    /\ \/ \E n \in 1..free[o] : /\ o \in live
                                /\ free' = [free EXCEPT ![o] = @ - n]
                                /\ live' = IF free[o] = n THEN live \ {o} ELSE live
       \/ free[o] < Seats[o] /\ free' = [free EXCEPT ![o] = @ + 1] /\ live' = live \cup {o}
       \/ o \in live /\ live' = live \ {o} /\ UNCHANGED free
    /\ aged' = TRUE
    /\ UNCHANGED <<screen, queries, overlap>>

FindNext ==
    \/ \E q \in Queries :
         \/ \E s \in Orders : SetSort(q, s)
         \/ \E p \in Prices : SetMaxPrice(q, p)
         \/ \E n \in {1, 2} : Search(q, n)
         \/ ResetFilters(q)
         \/ ServeQuery(q) \/ Found(q) \/ QueryFails(q)
         \/ \E o \in Offers : BookFound(q, o)
    \/ \E o \in Offers : Others(o)

-----------------------------------------------------------------------------
(* What is true of it                                                      *)

\* Once no query is on its way, the page shows what was asked for last, and how many
\* rides there are of it, unless queries overlapped, one failed, or rides changed since.
FoundIsAsked ==
    Asking = {} /\ ~overlap /\ ~aged =>
        /\ ToSet(found) \subseteq Matching(criteria) /\ InOrder(criteria, found)
        /\ total = Cardinality(Matching(criteria))

\* No ride that is left out, because the page is full, comes before one that is shown.
NothingBetterLeftOut ==
    Asking = {} /\ ~overlap /\ ~aged =>
        \A o \in Matching(criteria) \ ToSet(found) :
            /\ Len(found) = Limit
            /\ \A i \in DOMAIN found : Before(criteria, found[i], o)

\* The page shows the best of what was asked for last.
BestAreShown == FoundIsAsked /\ NothingBetterLeftOut
===============================================================================
