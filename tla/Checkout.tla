------------------------------- MODULE Checkout -------------------------------
(***************************************************************************)
(* A passenger's browser: JourneyDetailPage with BookingModal, and         *)
(* MyBookingsPage with its cancellation dialog and ReviewModal, over the   *)
(* requests they send.                                                     *)
(*                                                                         *)
(* An async function of a page is a call: it goes on when the page or the  *)
(* dialog that started it is gone, its requests may fail before or after   *)
(* the server has done what they ask, and answers come in any order.  What *)
(* React does with state is modelled: a component that is not rendered     *)
(* loses it, and setting the state of one that is gone has no effect.      *)
(*                                                                         *)
(* Every request is one step of the server, but for a booking, whose check *)
(* and INSERT are two: SeatBooking, Payments and Reviews have the steps    *)
(* inside.  One passenger, one journey; of the other passengers, the       *)
(* requests of one seat that the driver rejects or the worker expires.     *)
(***************************************************************************)
EXTENDS Integers, FiniteSets

CONSTANTS
    Bookings,      \* bound: the bookings the passenger makes
    Calls,         \* async functions in progress
    TotalSeats,
    MaxSeats,      \* bound: the seats the passenger asks for
    AutoAccept,    \* whether the journey confirms bookings by itself
    MaxActs,       \* bound: the calls begun, and the acts of the driver and the
                   \* worker
    Serialized,    \* whether transactions wait for each other: SQLite, as long as
                   \* its mutex holds (see SqliteTx)
    None

ASSUME CheckoutAssumption ==
    /\ TotalSeats \in Nat \ {0} /\ MaxSeats \in 1..TotalSeats
    /\ AutoAccept \in BOOLEAN /\ Serialized \in BOOLEAN /\ MaxActs \in Nat
    /\ None \notin Bookings

VARIABLES
    over,          \* journeys.status is COMPLETED
    available,     \* journeys.available_seats
    acts,          \* how many of those there were, see MaxActs
    bStatus,       \* bookings.status, "NONE" for a row that is not there yet
    bSeats,        \* bookings.seats_booked
    payment,       \* payments.status of each booking
    reviewed,      \* the bookings whose driver the passenger has reviewed
    page,          \* the page the browser is at
    loading,       \* isLoading of the page
    failed,        \* error of JourneyDetailPage
    seatsShown,    \* what it shows of the journey, None before it has
    listShown,     \* what MyBookingsPage shows, None before it has
    bookOpen,      \* isBookingOpen
    dialog,        \* the state of the mounted BookingModal
    cancelFor, isCancelling,
    reviewFor, isSubmitting,
    op, arg, seats,\* of a call: its step, its booking and the seats it asks for
    gotSeats, gotList,               \* what a load has been answered, or the
                                     \* transaction of a booking has read
    onPage,        \* whether the page that started it is mounted
    inDialog,      \* whether the dialog that started it is
    owed,          \* history: the open BookingModal has seen its payment through
    abandoned,     \* history: the bookings cancelled, declined or completed
                   \* before they were paid
    overtaken,     \* history: calls between check and INSERT of a booking when
                   \* another INSERT came
    twins,         \* history: the bookings inserted by such calls
    moved,         \* history: the server has changed behind the page, see Read
    blurred        \* history: two loads of the page overlapped or one failed

rows    == <<over, available, bStatus, bSeats, payment, reviewed>>
server  == <<rows, acts>>
detail  == <<failed, seatsShown, bookOpen, dialog>>
mine    == <<listShown, cancelFor, isCancelling, reviewFor, isSubmitting>>
calls   == <<op, arg, seats, gotSeats, gotList, onPage, inDialog>>
race    == <<overtaken, twins>>
history == <<owed, abandoned, race, moved, blurred>>
vars    == <<server, page, loading, detail, mine, calls, history>>

Active == {"REQUESTED", "CONFIRMED"}
Fresh  == [processing |-> FALSE, error |-> FALSE, voucher |-> FALSE]

Init ==
    /\ over = FALSE /\ available = TotalSeats /\ acts = 0
    /\ bStatus = [b \in Bookings |-> "NONE"]
    /\ bSeats = [b \in Bookings |-> 0]
    /\ payment = [b \in Bookings |-> "NONE"]
    /\ reviewed = {}
    /\ page = "elsewhere" /\ loading = FALSE /\ failed = FALSE
    /\ seatsShown = None /\ listShown = None
    /\ bookOpen = FALSE /\ dialog = Fresh
    /\ cancelFor = None /\ isCancelling = FALSE
    /\ reviewFor = None /\ isSubmitting = FALSE
    /\ op = [c \in Calls |-> "idle"]
    /\ arg = [c \in Calls |-> None]
    /\ seats = [c \in Calls |-> 0]
    /\ gotSeats = [c \in Calls |-> None]
    /\ gotList = [c \in Calls |-> None]
    /\ onPage = [c \in Calls |-> FALSE]
    /\ inDialog = [c \in Calls |-> FALSE]
    /\ owed = FALSE /\ abandoned = {} /\ overtaken = {} /\ twins = {}
    /\ moved = FALSE /\ blurred = FALSE

Act == acts < MaxActs /\ acts' = acts + 1

Goto(c, o) == op' = [op EXCEPT ![c] = o]

\* A call of the page begins, or goes on with a load of the page.
Begin(c, o, b, n, d) ==
    /\ Goto(c, o)
    /\ arg' = [arg EXCEPT ![c] = b]
    /\ seats' = [seats EXCEPT ![c] = n]
    /\ gotSeats' = [gotSeats EXCEPT ![c] = None]
    /\ gotList' = [gotList EXCEPT ![c] = None]
    /\ onPage' = [onPage EXCEPT ![c] = TRUE]
    /\ inDialog' = [x \in Calls |-> IF x = c THEN d ELSE inDialog[x]]

End(c) ==
    /\ Goto(c, "idle")
    /\ arg' = [arg EXCEPT ![c] = None]
    /\ seats' = [seats EXCEPT ![c] = 0]
    /\ gotSeats' = [gotSeats EXCEPT ![c] = None]
    /\ gotList' = [gotList EXCEPT ![c] = None]
    /\ onPage' = [onPage EXCEPT ![c] = FALSE]
    /\ inDialog' = [inDialog EXCEPT ![c] = FALSE]

Loads == {"load_journey", "load_list", "loaded", "not_loaded"}
LoadOf(p) == IF p = "detail" THEN "load_journey" ELSE "load_list"
Loading(c) == onPage[c] /\ op[c] \in Loads

-----------------------------------------------------------------------------
(* Going to a page and loading it                                          *)

\* The page before is unmounted, and the load of the new one begins.
Visit(c, p) ==
    /\ op[c] = "idle" /\ Act
    /\ p \in {"detail", "bookings"} \ {page}
    /\ page' = p /\ loading' = TRUE
    /\ failed' = FALSE /\ seatsShown' = None /\ bookOpen' = FALSE /\ dialog' = Fresh
    /\ listShown' = None
    /\ cancelFor' = None /\ isCancelling' = FALSE
    /\ reviewFor' = None /\ isSubmitting' = FALSE
    /\ Goto(c, LoadOf(p))
    /\ onPage' = [x \in Calls |-> x = c]
    /\ inDialog' = [x \in Calls |-> FALSE]
    /\ owed' = FALSE /\ moved' = FALSE /\ blurred' = FALSE
    /\ UNCHANGED <<rows, arg, seats, gotSeats, gotList, abandoned, race>>

\* GET /journeys/:id and /bookings/my-bookings.
Read(c) ==
    /\ op[c] \in {"load_journey", "load_list"}
    /\ \/ /\ IF op[c] = "load_journey"
             THEN gotSeats' = [gotSeats EXCEPT ![c] = available] /\ UNCHANGED gotList
             ELSE gotList' = [gotList EXCEPT ![c] = bStatus] /\ UNCHANGED gotSeats
          /\ Goto(c, "loaded")
          /\ moved' = (moved /\ ~onPage[c])
       \/ Goto(c, "not_loaded") /\ UNCHANGED <<gotSeats, gotList, moved>>
    /\ UNCHANGED <<server, page, loading, detail, mine, arg, seats, onPage, inDialog,
                   owed, abandoned, race, blurred>>

\* fetchJourney and fetchBookings: what is answered is shown, in the order of the
\* answers; only fetchJourney minds an error, and never forgets it.  A load that a
\* cancellation waits for ends isCancelling.
Loaded(c) ==
    /\ op[c] \in {"loaded", "not_loaded"}
    /\ IF onPage[c]
       THEN /\ loading' = FALSE
            /\ failed' = (failed \/ (page = "detail" /\ op[c] = "not_loaded"))
            /\ seatsShown' = IF page = "detail" /\ op[c] = "loaded" THEN gotSeats[c] ELSE seatsShown
            /\ listShown' = IF page = "bookings" /\ op[c] = "loaded" THEN gotList[c] ELSE listShown
            /\ isCancelling' = (isCancelling /\ arg[c] = None)
            /\ blurred' = (blurred \/ op[c] = "not_loaded")
       ELSE UNCHANGED <<loading, failed, seatsShown, listShown, isCancelling, blurred>>
    /\ End(c)
    /\ UNCHANGED <<server, page, bookOpen, dialog, cancelFor, reviewFor,
                   isSubmitting, owed, abandoned, race, moved>>

-----------------------------------------------------------------------------
(* BookingModal                                                            *)

\* What of JourneyDetailPage is rendered: the skeleton while it loads, the error
\* page after one load failed, the journey otherwise.
DetailShown == page = "detail" /\ ~loading /\ ~failed /\ seatsShown # None
DialogShown == DetailShown /\ bookOpen

\* The card with the seats and the Reserve button.
CanReserve == DetailShown /\ seatsShown # 0

OpenDialog ==
    /\ CanReserve /\ ~bookOpen
    /\ bookOpen' = TRUE /\ dialog' = Fresh
    /\ UNCHANGED <<server, page, loading, failed, seatsShown, mine, calls, history>>

\* The cross, or Close: a checkout in progress is not stopped.
CloseDialog ==
    /\ DialogShown
    /\ bookOpen' = FALSE /\ dialog' = Fresh
    /\ inDialog' = [c \in Calls |-> FALSE]
    /\ owed' = FALSE
    /\ UNCHANGED <<server, page, loading, failed, seatsShown, mine, op, arg, seats, gotSeats, gotList,
                   onPage, abandoned, race, moved, blurred>>

\* The form, unless the voucher is in its place: the + and - buttons stay within
\* the seats shown, the Pay button is off while one payment runs.
CanPay(n) ==
    /\ DialogShown /\ ~dialog.voucher /\ ~dialog.processing
    /\ seatsShown # 0 /\ n \in 1..seatsShown

\* handleBooking.
Pay(c, n) ==
    /\ CanPay(n)
    /\ op[c] = "idle" /\ Act
    /\ dialog' = [dialog EXCEPT !.processing = TRUE, !.error = FALSE]
    /\ Begin(c, "book", None, n, TRUE)
    /\ UNCHANGED <<rows, page, loading, failed, seatsShown, bookOpen, mine, history>>

\* Mutant: a second active booking is not refused.
MayBookAgain(n) == ~over /\ available >= n

MayBook(n) ==
    /\ ~over /\ available >= n
    /\ \A b \in Bookings : bStatus[b] \notin Active

\* A transaction of the server waits for the one between its statements, if they do.
Unlocked == Serialized => \A d \in Calls : op[d] # "insert"

\* POST /bookings: the checks of the transaction, or it is refused.
Book(c) ==
    /\ op[c] = "book"
    /\ \/ /\ Unlocked /\ MayBook(seats[c])
          /\ gotSeats' = [gotSeats EXCEPT ![c] = available]
          /\ overtaken' = overtaken \ {c}
          /\ Goto(c, "insert")
       \/ Goto(c, "unpaid") /\ UNCHANGED <<gotSeats, overtaken>>
    /\ UNCHANGED <<server, page, loading, detail, mine, arg, seats, gotList, onPage,
                   inDialog, owed, abandoned, twins, moved, blurred>>

\* The INSERT and the seats it takes from those that were read, which publishes the
\* journey whatever its status; or the transaction fails, or its answer is lost.
Insert(c) ==
    /\ op[c] = "insert"
    /\ \/ /\ \E b \in {x \in Bookings : bStatus[x] = "NONE"} :
                /\ bStatus' = [bStatus EXCEPT ![b] = IF AutoAccept THEN "CONFIRMED"
                                                     ELSE "REQUESTED"]
                /\ bSeats' = [bSeats EXCEPT ![b] = seats[c]]
                /\ twins' = IF c \in overtaken THEN twins \cup {b} ELSE twins
                /\ \/ /\ arg' = [arg EXCEPT ![c] = b] /\ Goto(c, "order")
                      /\ moved' = (moved \/ ~onPage[c])
                   \/ UNCHANGED arg /\ Goto(c, "unpaid") /\ moved' = TRUE
          /\ available' = gotSeats[c] - seats[c] /\ over' = FALSE
          /\ overtaken' = (overtaken \cup {d \in Calls : op[d] = "insert"}) \ {c}
       \/ /\ Goto(c, "unpaid")
          /\ UNCHANGED <<over, available, bStatus, bSeats, race, arg, moved>>
    /\ gotSeats' = [gotSeats EXCEPT ![c] = None]
    /\ UNCHANGED <<acts, payment, reviewed, page, loading, detail, mine, seats, gotList,
                   onPage, inDialog, owed, abandoned, blurred>>

\* POST /payments/create-order.
MayOrder(b) == bStatus[b] \notin {"CANCELLED", "REJECTED"} /\ payment[b] # "CAPTURED"

Order(c) ==
    /\ op[c] = "order"
    /\ \/ /\ MayOrder(arg[c])
          /\ payment' = [payment EXCEPT ![arg[c]] = "PENDING"]
          /\ Goto(c, "verify") \/ Goto(c, "unpaid")
       \/ Goto(c, "unpaid") /\ UNCHANGED payment
    /\ UNCHANGED <<over, available, acts, bStatus, bSeats, reviewed, page, loading, detail,
                   mine, arg, seats, gotSeats, gotList, onPage, inDialog, history>>

\* POST /payments/verify with the signature the simulator accepts: the payment is
\* captured and the booking confirmed, whatever it was.
Verify(c) ==
    /\ op[c] = "verify"
    /\ \/ /\ payment' = [payment EXCEPT ![arg[c]] = "CAPTURED"]
          /\ bStatus' = IF payment[arg[c]] = "CAPTURED" THEN bStatus
                        ELSE [bStatus EXCEPT ![arg[c]] = "CONFIRMED"]
          /\ moved' = (moved \/ ~onPage[c])
          /\ Goto(c, "paid") \/ Goto(c, "unpaid")
       \/ Goto(c, "unpaid") /\ UNCHANGED <<payment, bStatus, moved>>
    /\ UNCHANGED <<over, available, acts, bSeats, reviewed, page, loading, detail, mine, arg,
                   seats, gotSeats, gotList, onPage, inDialog, owed, abandoned, race, blurred>>

\* setConfirmedBooking, then onSuccess, which loads the journey again: the skeleton
\* takes the place of the page and BookingModal, still open, starts afresh after it.
Paid(c) ==
    /\ op[c] = "paid"
    /\ IF onPage[c]
       THEN /\ loading' = TRUE
            /\ dialog' = Fresh
            /\ owed' = (owed \/ inDialog[c])
            /\ blurred' = (blurred \/ \E d \in Calls \ {c} : Loading(d))
            /\ Goto(c, "load_journey")
            /\ inDialog' = [x \in Calls |-> FALSE]
            /\ arg' = [arg EXCEPT ![c] = None]
            /\ seats' = [seats EXCEPT ![c] = 0]
            /\ UNCHANGED <<gotSeats, gotList, onPage>>
       ELSE End(c) /\ UNCHANGED <<loading, dialog, owed, blurred>>
    /\ UNCHANGED <<server, page, failed, seatsShown, bookOpen, mine, abandoned, race, moved>>

\* The catch and the finally: the page is not loaded again.
Unpaid(c) ==
    /\ op[c] = "unpaid"
    /\ dialog' = IF inDialog[c]
                 THEN [dialog EXCEPT !.processing = FALSE, !.error = TRUE] ELSE dialog
    /\ moved' = (moved \/ arg[c] # None)
    /\ End(c)
    /\ UNCHANGED <<server, page, loading, failed, seatsShown, bookOpen, mine, owed,
                   abandoned, race, blurred>>

-----------------------------------------------------------------------------
(* MyBookingsPage                                                          *)

ListShown == page = "bookings" /\ ~loading /\ listShown # None

\* The buttons of a row go by the status shown.
CanCancel(b) == listShown[b] \notin {"NONE", "CANCELLED", "COMPLETED"}
CanReview(b) == listShown[b] = "COMPLETED"

AskCancel(b) ==
    /\ ListShown /\ cancelFor = None /\ reviewFor = None
    /\ CanCancel(b)
    /\ cancelFor' = b
    /\ UNCHANGED <<server, page, loading, detail, listShown, isCancelling,
                   reviewFor, isSubmitting, calls, history>>

KeepBooking ==
    /\ page = "bookings" /\ cancelFor # None
    /\ cancelFor' = None
    /\ UNCHANGED <<server, page, loading, detail, listShown, isCancelling,
                   reviewFor, isSubmitting, calls, history>>

\* handleCancelBooking.
ConfirmCancel(c) ==
    /\ page = "bookings" /\ cancelFor # None /\ ~isCancelling
    /\ op[c] = "idle" /\ Act
    /\ isCancelling' = TRUE
    /\ Begin(c, "cancel", cancelFor, 0, FALSE)
    /\ UNCHANGED <<rows, page, loading, detail, listShown, cancelFor, reviewFor,
                   isSubmitting, history>>

\* BookingService.cancelBooking: the seats come back while the journey is published,
\* and the money or part of it.
CancelRow(b) ==
    /\ bStatus[b] # "CANCELLED"
    /\ bStatus' = [bStatus EXCEPT ![b] = "CANCELLED"]
    /\ available' = IF over THEN available ELSE available + bSeats[b]
    /\ abandoned' = IF payment[b] = "CAPTURED" THEN abandoned ELSE abandoned \cup {b}
    /\ \/ payment[b] = "CAPTURED" /\ payment' = [payment EXCEPT ![b] = "REFUNDED"]
       \/ UNCHANGED payment

\* POST /bookings/:id/cancel, refused, done, or done and its answer lost.
Cancel(c) ==
    /\ op[c] = "cancel"
    /\ \/ /\ Unlocked /\ CancelRow(arg[c])
          /\ \/ Goto(c, "cancelled") /\ moved' = (moved \/ ~onPage[c])
             \/ Goto(c, "not_cancelled") /\ moved' = TRUE
       \/ /\ Goto(c, "not_cancelled")
          /\ UNCHANGED <<available, bStatus, payment, abandoned, moved>>
    /\ UNCHANGED <<over, acts, bSeats, reviewed, page, loading, detail, mine, arg, seats,
                   gotSeats, gotList, onPage, inDialog, owed, race, blurred>>

\* The list is loaded again by call c.
Reload(c, waits) ==
    /\ loading' = TRUE
    /\ blurred' = (blurred \/ \E d \in Calls \ {c} : Loading(d))
    /\ Goto(c, "load_list")
    /\ arg' = [arg EXCEPT ![c] = waits]
    /\ inDialog' = [inDialog EXCEPT ![c] = FALSE]
    /\ UNCHANGED <<seats, gotSeats, gotList, onPage>>

\* Mutant: the list is not loaded again.
CancelledWithoutLoad(c) ==
    /\ op[c] = "cancelled"
    /\ IF onPage[c] THEN cancelFor' = None /\ isCancelling' = FALSE
       ELSE UNCHANGED <<cancelFor, isCancelling>>
    /\ End(c)
    /\ UNCHANGED <<server, page, loading, detail, listShown, reviewFor,
                   isSubmitting, history>>

\* The dialog closes, also if it is another one by now.
Cancelled(c) ==
    /\ op[c] = "cancelled"
    /\ IF onPage[c]
       THEN cancelFor' = None /\ Reload(c, arg[c])
       ELSE End(c) /\ UNCHANGED <<cancelFor, loading, blurred>>
    /\ UNCHANGED <<server, page, detail, listShown, isCancelling, reviewFor,
                   isSubmitting, owed, abandoned, race, moved>>

NotCancelled(c) ==
    /\ op[c] = "not_cancelled"
    /\ IF onPage[c] THEN isCancelling' = FALSE
       ELSE UNCHANGED isCancelling
    /\ End(c)
    /\ UNCHANGED <<server, page, loading, detail, listShown, cancelFor, reviewFor,
                   isSubmitting, history>>

-----------------------------------------------------------------------------
(* ReviewModal                                                             *)

OpenReview(b) ==
    /\ ListShown /\ cancelFor = None /\ reviewFor = None
    /\ CanReview(b)
    /\ reviewFor' = b /\ isSubmitting' = FALSE
    /\ UNCHANGED <<server, page, loading, detail, listShown, cancelFor, isCancelling, calls, history>>

CloseReview ==
    /\ page = "bookings" /\ reviewFor # None
    /\ reviewFor' = None /\ isSubmitting' = FALSE
    /\ inDialog' = [c \in Calls |-> FALSE]
    /\ UNCHANGED <<server, page, loading, detail, listShown, cancelFor, isCancelling, op, arg, seats, gotSeats, gotList, onPage, history>>

SubmitReview(c) ==
    /\ page = "bookings" /\ reviewFor # None /\ ~isSubmitting
    /\ op[c] = "idle" /\ Act
    /\ isSubmitting' = TRUE
    /\ Begin(c, "review", reviewFor, 0, TRUE)
    /\ UNCHANGED <<rows, page, loading, detail, listShown, cancelFor, isCancelling, reviewFor, history>>

\* POST /reviews, refused, done, or done and its answer lost.
Review(c) ==
    /\ op[c] = "review"
    /\ \/ /\ arg[c] \notin reviewed /\ bStatus[arg[c]] \in {"CONFIRMED", "COMPLETED"}
          /\ reviewed' = reviewed \cup {arg[c]}
          /\ Goto(c, "reviewed") \/ Goto(c, "not_reviewed")
       \/ Goto(c, "not_reviewed") /\ UNCHANGED reviewed
    /\ UNCHANGED <<over, available, acts, bStatus, bSeats, payment, page, loading, detail, mine, arg,
                   seats, gotSeats, gotList, onPage, inDialog, history>>

\* onSuccess loads the list again, onClose closes the dialog that is open.
Reviewed(c) ==
    /\ op[c] = "reviewed"
    /\ IF onPage[c]
       THEN reviewFor' = None /\ isSubmitting' = FALSE /\ Reload(c, None)
       ELSE End(c) /\ UNCHANGED <<reviewFor, isSubmitting, loading, blurred>>
    /\ UNCHANGED <<server, page, detail, listShown, cancelFor, isCancelling,
                   owed, abandoned, race, moved>>

NotReviewed(c) ==
    /\ op[c] = "not_reviewed"
    /\ isSubmitting' = (isSubmitting /\ ~inDialog[c])
    /\ End(c)
    /\ UNCHANGED <<server, page, loading, detail, listShown, cancelFor, isCancelling, reviewFor, history>>

-----------------------------------------------------------------------------
(* What the driver and the worker do meanwhile                             *)

DriverApproves(b) ==
    /\ bStatus[b] = "REQUESTED" /\ Act
    /\ bStatus' = [bStatus EXCEPT ![b] = "CONFIRMED"]
    /\ moved' = TRUE
    /\ UNCHANGED <<over, available, bSeats, payment, reviewed, page, loading, detail, mine, calls,
                   owed, abandoned, race, blurred>>

\* Giving seats back publishes the journey again, also if it was over.
DriverRejects(b) ==
    /\ Unlocked /\ bStatus[b] = "REQUESTED" /\ Act
    /\ bStatus' = [bStatus EXCEPT ![b] = "REJECTED"]
    /\ available' = available + bSeats[b] /\ over' = FALSE
    /\ abandoned' = IF payment[b] = "CAPTURED" THEN abandoned ELSE abandoned \cup {b}
    /\ moved' = TRUE
    /\ UNCHANGED <<bSeats, payment, reviewed, page, loading, detail, mine, calls, owed,
                   race, blurred>>

\* The request of another passenger is rejected, or expired by the worker.
OtherRejected ==
    /\ Unlocked /\ Act
    /\ available' = available + 1 /\ over' = FALSE
    /\ moved' = TRUE
    /\ UNCHANGED <<bStatus, bSeats, payment, reviewed, page, loading, detail, mine, calls, owed,
                   abandoned, race, blurred>>

DriverCompletes ==
    /\ ~over /\ Act
    /\ over' = TRUE
    /\ bStatus' = [b \in Bookings |-> IF bStatus[b] = "CONFIRMED" THEN "COMPLETED"
                                      ELSE bStatus[b]]
    /\ abandoned' = abandoned \cup {b \in Bookings : bStatus[b] = "CONFIRMED"
                                                     /\ payment[b] # "CAPTURED"}
    /\ moved' = TRUE
    /\ UNCHANGED <<available, bSeats, payment, reviewed, page, loading, detail, mine, calls,
                   owed, race, blurred>>

Next ==
    \/ \E c \in Calls, p \in {"detail", "bookings"} : Visit(c, p)
    \/ \E c \in Calls :
          \/ Read(c) \/ Loaded(c)
          \/ Book(c) \/ Insert(c) \/ Order(c) \/ Verify(c) \/ Paid(c) \/ Unpaid(c)
          \/ Cancel(c) \/ Cancelled(c) \/ NotCancelled(c)
          \/ Review(c) \/ Reviewed(c) \/ NotReviewed(c)
    \/ OpenDialog \/ CloseDialog
    \/ \E c \in Calls, n \in 1..MaxSeats : Pay(c, n)
    \/ \E b \in Bookings : AskCancel(b) \/ OpenReview(b)
    \/ KeepBooking \/ CloseReview
    \/ \E c \in Calls : ConfirmCancel(c) \/ SubmitReview(c)
    \/ \E b \in Bookings : DriverApproves(b) \/ DriverRejects(b)
    \/ OtherRejected \/ DriverCompletes

Spec == Init /\ [][Next]_vars

-----------------------------------------------------------------------------
Steps == {"idle", "load_journey", "load_list", "loaded", "not_loaded", "book", "insert", "order",
          "verify", "paid", "unpaid", "cancel", "cancelled", "not_cancelled",
          "review", "reviewed", "not_reviewed"}
Statuses == {"NONE", "REQUESTED", "CONFIRMED", "REJECTED", "CANCELLED", "COMPLETED"}

\* Types of the columns, the pages' state and the locals of the calls.
TypeOK ==
    /\ available \in Nat /\ acts \in 0..MaxActs
    /\ bStatus \in [Bookings -> Statuses]
    /\ bSeats \in [Bookings -> 0..TotalSeats]
    /\ payment \in [Bookings -> {"NONE", "PENDING", "CAPTURED", "REFUNDED"}]
    /\ reviewed \cup abandoned \cup twins \subseteq Bookings /\ overtaken \subseteq Calls
    /\ page \in {"elsewhere", "detail", "bookings"}
    /\ seatsShown \in Nat \cup {None}
    /\ listShown \in [Bookings -> Statuses] \cup {None}
    /\ dialog \in [processing : BOOLEAN, error : BOOLEAN, voucher : BOOLEAN]
    /\ {cancelFor, reviewFor} \subseteq Bookings \cup {None}
    /\ {over, loading, failed, bookOpen, isCancelling, isSubmitting, owed, moved,
        blurred} \subseteq BOOLEAN
    /\ op \in [Calls -> Steps]
    /\ arg \in [Calls -> Bookings \cup {None}]
    /\ seats \in [Calls -> 0..TotalSeats]
    /\ gotSeats \in [Calls -> Nat \cup {None}]
    /\ gotList \in [Calls -> [Bookings -> Statuses] \cup {None}]
    /\ onPage \in [Calls -> BOOLEAN] /\ inDialog \in [Calls -> BOOLEAN]

\* "Idempotent payment": whatever is tried again, closed or left while it runs,
\* the passenger pays for two active bookings of the journey only if one of them was
\* cancelled, declined or completed while its checkout had yet to pay for it, or, on
\* PostgreSQL, was inserted by a request that another one overtook after its check
\* for an active booking.
ChargedOnce ==
    \A a, b \in Bookings :
        /\ a # b
        /\ bStatus[a] \in Active /\ payment[a] = "CAPTURED"
        /\ bStatus[b] \in Active /\ payment[b] = "CAPTURED"
        => \/ {a, b} \cap abandoned # {}
           \/ ~Serialized /\ {a, b} \cap twins # {}

\* JourneyDetailPage shows the seats that are free, but for a checkout that is
\* under way or failed after its booking was made, one of an earlier visit, and
\* what the driver does: a checkout that was paid is always in it, unless two loads
\* overlapped, which takes two checkouts at once.
SeatsShownAreCurrent ==
    /\ DetailShown /\ ~moved /\ ~blurred
    /\ \A c \in Calls : op[c] \notin {"order", "verify", "paid", "unpaid"}
    => seatsShown = available

\* MyBookingsPage shows the bookings as they are, with the same exceptions, unless
\* two loads of it overlapped or one failed.
ListShownIsCurrent ==
    /\ ListShown /\ ~moved /\ ~blurred
    /\ \A c \in Calls : op[c] \notin {"order", "verify", "paid", "unpaid", "cancelled"}
    => listShown = bStatus

\* "Confirmation Voucher View": a passenger whose payment went through while the
\* dialog was open sees the voucher in it.
VoucherShown == owed /\ DialogShown => dialog.voucher

\* What the pages show after the passenger's own acts is what the server has.
ShownIsCurrent == TypeOK /\ SeatsShownAreCurrent /\ ListShownIsCurrent
=============================================================================
