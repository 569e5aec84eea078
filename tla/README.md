# YatraShare in TLA+

TLA+ models of YatraShare (the ride-sharing backend under `src/backend` and the
pages of `src/frontend`), the TLC configurations that check them on small
instances, and theorems about them that TLAPS proves for every instance.

The models are of the code as it is. Where the code has a window (two calls that
overlap, a failure between two statements), the properties name it: they say what
holds *unless* that happened, so that a reader learns what the code promises and
what it does not. Where the code does something the documentation rules out in plain
words, the property is stated as documented and a `found_*` configuration shows TLC
violating it.

## 1. The system

One Node.js process serves an HTTP API and Socket.IO. Handlers are async
functions: everything between two `await`s is atomic, and at every `await` any
other handler or timer callback may run. All state is in one SQL database,
PostgreSQL in production and an in-memory SQLite (`sql.js`) written to a file
otherwise. There are no queues and no locks besides the database's and one
`AsyncMutex` around SQLite transactions. The frontend is a React application: a
page keeps what it loaded in its state, every click or effect starts an async function,
and none of them is cancelled, so that calls of one page overlap as handlers do.

| Component | State | Operations | Interacts with | What is hard |
|---|---|---|---|---|
| Bookings and seats (`booking.service`, `booking.repository`, `journey.repository`) | `journeys.available_seats`, `journeys.status`, `bookings` | create, approve, reject, cancel | database transactions, payments (refund), journeys | read, check and write of the seats are separate statements; status read before a transaction and used in it; calls that give seats back twice |
| Journeys (`journey.service`) | `journeys` | publish, search, change status, with loops over the bookings | bookings, vehicles, conversations, ride counters | status overwritten by the seat updates; loops over stale lists; five INSERTs without a transaction |
| Worker (`jobs/worker`) | none of its own | start journeys, expire requests, clean sessions, every minute | the rows of all handlers | runs between any two statements of a handler, may overlap itself |
| Payments (`payment/*`) | `payments`, `refunds`, `bookings.status` | order, verify, webhook, refund | gateways over the network | late and repeated confirmations, refund against capture, crash between gateway and database |
| Database (`models/db`) | the connection, `AsyncMutex`, `inTransaction`, the file | transaction, execute, persist | everyone | release and acquire of the mutex; one flag for all requests |
| Sessions (`auth.service`, `session.repository`, `lib/api.ts`) | `sessions`, `users.status`, tokens in `localStorage` | login, refresh, logout, clean | browser, worker, administrator | parallel refreshes, lost answers, replay detection |
| Reviews (`review.controller`, `user.repository`) | `reviews`, `users.rating_*`, `users.completed_rides_count` | create a review, count rides | journeys, bookings | read-modify-write of an average; store and count in two statements |
| Booking pages (`BookingModal`, `JourneyDetailPage`, `MyBookingsPage`) | what the dialogs and lists show | book and pay, cancel, review | bookings, payments, reviews | three calls in a row, each of which may fail; dialogs closed and reopened meanwhile |
| Conversations (`messaging.controller`, `sockets/index.ts`, `MessagesPage`) | `messages`, read marks, rooms of the socket, the page | open, send by socket or POST, mark read | notifications | room joined after a query; load against push; connection lost |
| Notifications (`notification.service`, `NotificationContext`, `Navbar`) | `conversations` and members, `notifications`, the list and the badge | find or create a conversation, notify, load, mark | bookings, socket | two GETs and pushes in between; find-or-create races |
| Support (`support.*`, `SupportPage`) | `support_tickets`, `support_messages` | create, reply, decide | administration | a reply and the status it gives are two statements |
| Administration (`admin.controller`, `audit.repository`, `AdminPage`) | `users.status`, journeys cancelled, reports, `audit_logs` | change and log | sessions, journeys | the change and its log entry are two statements; the notes dialog |
| Vehicles and publishing (`vehicle.*`, `MyVehiclesPage`, `PublishJourneyPage`) | `vehicles`, new journeys with stops and chat | create, default, delete, publish | journeys | one default in two statements; deletion against publishing |
| Driver's page (`MyJourneysPage`) | cards and roster | approve, reject, change status | bookings, journeys | loads of one ride shown under another |
| Search (`SearchPage`, `SearchWidget`, `searchJourneys`) | filters and results | filter, sort, first page | journeys | a query per change of a filter, none cancelled |
| Calculator (`CalculatorPage`) | the fields | fare, split of a bill | none | rounding per person |
| Maps, validation, rate limits, errors, schema, seed, other pages | none others read | | | little |

What makes each component correct:

* **seats**: active bookings never hold more seats than the journey has; no seat update
  is lost; the number never goes below zero; a booking gives its seats back at
  most once; a journey that ended stays ended; requests do not outlive the departure.
* **payments**: captured means paid; refunds on record were made and match the status; an
  ended booking comes back by money only if that money was paid.
* **database**: one transaction at a time; all or nothing, in memory and on the file;
  every transaction gets its turn.
* **sessions**: one session per token family; a revoked family stays revoked; nobody is
  logged out without cause.
* **reviews**: the count is that of the reviews, the average is theirs up to rounding,
  whoever reviews travelled, a ride is counted once.
* **pages**: once nothing is under way a page shows what the server has; nobody pays
  twice; a form becomes one row.
* **conversations, notifications**: a message or notification reaches the page once, in order and under the
  right name; what counts as read was shown; one conversation per pair.
* **support, administration**: the status of a ticket and its thread agree; the audit log
  tells what became of a row.
* **vehicles**: at most one default; a journey to be driven keeps a vehicle with the seats it offers.

`PROJECT.json` lists every component with its files and status, and every hazard
at its line.

## 2. The modules

| Module | Models |
|---|---|
| `AtomicSeats` | the abstract inventory: a journey's seats are taken and given back in one step each, and never more than there are |
| `SeatBooking` | `BookingService`, `JourneyService.updateStatus` and `BackgroundWorker` over the tables `journeys` and `bookings`, on both engines |
| `Payments` | `PaymentService`, the webhook, and the refund of `cancelBooking`, with the gateways as environment and crashes |
| `SqliteTx` | `AsyncMutex`, `DatabaseManager.transaction` and `execute`, the SQLite connection and its file, at the granularity of continuations in the JavaScript job queue |
| `Sessions` | login, refresh, logout, the cleaner, suspension, and `apiRequest` and `AuthContext` in the browser |
| `Reviews` | `createReview`, `updateRating`, `incrementRidesCount` and the completion of a journey, statement by statement |
| `Checkout` | the booking dialog, the pages of a journey and of the bookings, and the handlers they call |
| `Messaging` | the messages page, the socket with its rooms, and the handlers of messages |
| `Notifications` | find-or-create of a conversation, `sendInAppNotification`, and the context and the bell in the browser |
| `Helpdesk` | the support page, its handlers and the tickets tab of the staff |
| `Moderation` | the other tabs of the staff with the audit log |
| `Backoffice` | composes `Helpdesk` and `Moderation`: the open tab |
| `Garage` | vehicles, and the publishing of journeys with them |
| `Roster` | the driver's page of rides and passengers |
| `Finding` | the search page and `searchJourneys` |
| `Fares` | the fare and the split tabs of the calculator |
| `Hosting` | composes `Garage`, `Roster`, `Finding` and `Fares`: the part of the site that is visited |
| `Pages` | composes `Hosting` and `Backoffice`: which of the two is visited |
| `Lists` | what a list or a queue has in it, for `Messaging` and `Notifications` |
| `Sums` | lemmas on the sums of the community modules, for the totals of seats, refunds and stars |
| `MC*` | instances and symmetry for TLC |
| `SeatBookingProofs`, `PaymentsProofs`, `SqliteTxProofs`, `CheckoutProofs`, `ReviewsProofs` | theorems about the module (see 4) |
| `SignedInProofs` | theorems about what a signed-in browser keeps: `Sessions`, `Messaging`, `Notifications` |
| `RidesAndStaffProofs` | theorems about the two compositions, `Hosting` and `Backoffice`, and their parts |

The parts `Backoffice`, `Hosting` and `Pages` compose share no page and no call, and the rows they
share are those each lets others change; one part per behaviour is
therefore enough, and TLC need not multiply their states.

Three conventions hold throughout. A *process* is an HTTP request in progress, a run of the worker, or an async
function of a page; a variable (`pc`, `step`, `stage`, `op`, `at`, `task`, `doing`) says which statement it is at, and the
others hold the locals that live across an `await`. They are cleared when it ends, so that states are not
told apart by leftovers. Variables called *history* are read by no guard; they record why an exception
of a property applies. An operator marked `Mutant:` is the definition after it with a plausible bug;
`PROJECT.json` names the property that catches it.

### SeatBooking

`pc[p]` says before which statement `p` is; `target`, `ride`, `aim`, `seen`, `restore`, `due`
and `todo` are the locals: the booking and
journey it works on, the status it will write, the seats it has read, the
decision to give seats back taken before the transaction, and the lists its loops go
through. Each action is one SQL statement with the checks that follow it before the next
`await`.

* `Serialized` chooses the engine. TRUE (SQLite): `BeginTx` waits for the mutex,
  each write is visible at once, also to and from requests outside a
  transaction, and `Rollback` takes their writes back too, as the one
  connection does. FALSE (PostgreSQL, READ COMMITTED): `BeginTx` waits for nobody,
  writes become visible at COMMIT (the last action of the transaction), and a row a
  transaction updated is locked until then (`rowLock`). `lockForUpdate` is
  a plain SELECT on both, so reads take no lock.
* The UPDATE of the journey is the last statement of every transaction that has one;
  it and the COMMIT are one action (`CreateSeats`, `EndSeats`). Between them no other request can
  use what the first wrote: on PostgreSQL it is not visible, and on SQLite another transaction waits
  for the mutex. A request outside a transaction that reads the journey's status
  in between is a step the model takes after the COMMIT.
* `rejectBooking`, `cancelBooking` and the worker's expiry share the
  actions `EndBegin` to `EndSeats`, which are the same statements with other values.
* The time to departure is reduced to the four steps the code tells apart
  (`phase`). The other times (`now` in two queries) are the same step.
* What a booking request asks for (journey, passenger, seats) is a constant function of the booking
  id. `Asked` bounds the journey statuses that clients ask for.
* Roles, money, ride counters, conversations and notifications are left out here; the awaits
  of notifications follow the last write of a handler or one that is over.
* `sold`, `returned` and `returns` are history: seats taken and given back, and how often a booking
  gave back its own.

`SeatBooking` assumes that the mutex of SQLite excludes; `SqliteTx` looks at whether it
does. It does until a transaction takes the mutex after its release and before the waiter that was
woken for it, which needs three transactions (`found_half_transaction_sqlite`); so what is shown with
`Serialized = TRUE` is what the handlers do as long as the engine keeps its promise.

### Payments

The rows are `bStatus` (`bookings.status`), `payment`, `gateway`, `orderId`,
`paymentRef` (`payments.*`) and `recorded` (the sum of `refunds.amount`). The world outside is
`orders`, `paid` and `paidBack`: what the gateways know. `Pay` happens at any moment, and every call to a gateway may fail.
`Crash` drops all requests and keeps the rows.

* `VerifyCall(p, b, o, r)` is `POST /verify` with any booking `b`, order `o` and payment id `r` a client may
  send: nothing in the code compares the order with the booking or with the order on record, so that a paid order of one booking
  also marks another as captured (`mixed` has those). `Unknown` is an id no gateway has given out.
* `Webhook` finds the payment by its order id and passes no signature on. Both may come any number of times, late or never.
* `Verifies` asks the provider the *row* names: Razorpay checks a signature over the order and the payment id, Stripe is asked for
  the order and ignores the payment id.
* The other handlers that write `bookings.status` read it first and write it after further awaits (`DecideRead`, `DecideWrite`:
  approval, rejection or expiry, completion; `CancelRead`, `CancelWrite`). An approval that read REQUESTED therefore confirms a booking that
  ended meanwhile (`overtaken` has those). What is between is in `SeatBooking`; here only the status is seen.
* `RefundGateway` has both branches of the providers: with a payment id the gateway pays back if it can, without one they answer PROCESSED and ask nobody.
  The second is never taken (`RefundsWerePaidBack` rests on it): a payment that is CAPTURED has a payment id, because the schema of `/verify`
  asks for one, a webhook of Razorpay, unsigned, never verifies, and one of Stripe that verifies carries the id.
* `RefundAmount` is the tier table over three ranges of hours. `MaxCalls` bounds the requests that come.

The simulated gateways (`MockPaymentProvider`, and the two real providers without
credentials) take any payment for paid and are left out.

### SqliteTx

`jobs` is the queue of continuations: a continuation runs up to its next `await`
and goes to the end of the queue. `hops` is how many awaits a request goes
through before it reaches the database (authentication, validation, earlier statements), which decides how
requests meet at the mutex; TLC tries all numbers up to `MaxHops` and
all orders of arrival. `Acquire`, `Woken` and `Release` are `AsyncMutex`;
`Begin`, `First`, `Second`, `Commit` and `Abort` are `transaction` with a callback of two statements; `Statement`
is an `execute` of a request without a transaction. `Write` says what `persistSqlite` does:
outside a transaction the database is exported to the file, and exporting (which
closes and reopens the connection) rolls an open transaction back.

`Release` clears `locked` and makes the first waiter a job, which runs behind those already queued (`WokenInLine`). A transaction that calls `acquire`
in between finds the mutex free and takes it, and the waiter, which does not look again, is in as well. The history variable `barged` says
that this happened. From then on the second BEGIN fails and its `finally` clears the flag `inTransaction` of the first, so that the next
statement of the first writes the file and ends its transaction.

### Sessions

One account; families stand for devices. A token is a family and the second it
was signed in, because nothing else in the JWT differs: two tokens of
a family signed within one second are equal. A call is at one of the statements of
`login`, `refreshTokens` or `logout`; its answer (`granted`, `denied`) reaches the
browser or is lost. `LoadFails` is `loadUser` forgetting the tokens after any error. `Clean` deletes
rows from the second their token expires in. `spent`, `ended` and `together` are history: tokens exchanged,
families logged out of or revoked, and families two calls presented at once.

### Reviews

Users, journeys and the reviews a request may write are small sets; a call is at one of the statements of `createReview`
(the checks of the journey, the booking and an earlier review, the INSERT, the read and the write of the rating) or of the
completion of a journey, which counts the rides of all. `average` is in hundredths, rounded as the code does.
`Insert` refuses by the UNIQUE key.

A completed journey is not the end of it: a late rejection, expiry or cancellation gives seats back, which publishes the journey whatever its status (`Reject`), and
the worker starts it again. `again[j]` counts that, `term` is the value of it a completion began with, and `endings` has the
completions as pairs `<<journey, again>>`. `Confirm` and `Cancel` are the other changes of a booking from outside. Which journeys are published or under way
is not told apart here: `completed` or not is all this code asks. A passenger has one booking on a journey (two at once are in `Checkout`),
and CANCELLED stands for REJECTED too. `Changers` bounds whose bookings change from outside, `MaxAgain` how often a journey comes back, and
`MaxHalfDone` how many calls fail between two writes. `raced`, `dropped`, `doubled`, `confirmed`, `endings` and `halfDone` are history.

### Checkout

One passenger and one journey. A call of `handleBookAndPay` books, orders and verifies (`Book`, `Insert`, `Order`, `Verify`), and ends in
`Paid` or `Unpaid`; the list of bookings cancels and reviews. Closing a dialog or leaving the page does not stop
its calls (`onPage`, `inDialog` remember where they came from). A booking is two steps of the server, the check for an active booking with the read of the seats,
and the INSERT: with `Serialized` (SQLite) no other transaction comes between, without it (PostgreSQL, as the run has it) anything may. `overtaken` has the
calls that another INSERT overtook there, `twins` the bookings they inserted. The other handlers are one step each here: their insides are `SeatBooking` and `Payments`.
The driver approves, rejects and completes meanwhile, and requests of others are rejected or expire, which gives back seats; `MaxActs` bounds what is begun by anybody.

### Messaging

`out` is what the browser has put on the socket and the server not yet served (joins, parts and messages, in order), `in` what the server
has pushed and the page not yet received; `Cut` empties both. `opened` is the conversation shown, `saved` the rows of `messages`. A join is a query (`joining`), so that a message may be broadcast before
the room is entered. A message goes from `asked` through `stamped` (`created_at` is taken) and `inserted`; only messages of the socket are broadcast.
A load selects the oldest `PageSize` messages (`Pages`, by `created_at`), marks all of the conversation as read, and answers. The history variables name the windows.

### Notifications

A handler that books looks for the conversation of the two and creates it in three INSERTs; then, like every other handler that notifies, it stores a
notification and pushes it (`pushes`; `Disconnect` loses them). `load` is the two GETs of `fetchNotifications`; `click` the two calls that mark (`BeginClick` to `Marked`).
`newest` has the stored rows by `created_at`, and `Rows` is what the first GET returns of them: the newest `ListLimit`, thirty in the code.

The second GET counts with `COUNT(*)`, which node-postgres gives as text and nothing converts on its way to the badge. With `CountIsText` the badge is a text after a load (`text`), and
`prev + 1` appends a 1 to it (`OneOn`): of 1 unread, one push makes 11. `prev - 1` and marking all make it a number again. `Callers` bounds who made the booking of a handler.

### Helpdesk, Moderation

A thread is the sequence of texts by number, 0 for the staff's. Creation is two INSERTs (`InsertTicket`, `InsertFirst`), a reply an INSERT and an UPDATE, and
each may be the last that happens (`CreateFails`, `ReplyFails`). The page opens a ticket by itself after its list is loaded. In `Moderation`, `standing` is what a
handler changes, for a report the notes by the report they were typed for; `Read`, `Change` and `Log` are the statements. `TripRevived` is a cancelled journey that
seats given back publish again, so that the log no longer tells what became of it (`collided`).

### Garage, Roster, Finding, Fares

* `Garage`: `capacity` is 0 for a row that is not there; `default` the rows with the flag. A new default is two statements (`Clear`, then `InsertVehicle` or `MarkDefault`); a deletion
  counts, then deletes; publishing inserts the journey, its stops, its chat and the driver's membership. `ForeignKeys` is FALSE as SQLite runs (no `PRAGMA foreign_keys`), TRUE on PostgreSQL.
  `Move` is what the other handlers do to the status of a journey, from any to any: seats given back publish one that was COMPLETED or CANCELLED. This page does not tell
  IN_PROGRESS from PUBLISHED nor CANCELLED from COMPLETED. History: `passedOver` has the journeys a deletion did not count because they were FULL or over, `chosen` that a default was chosen,
  `crossed` that two requests chose one at once.
* `Roster`: `cards` and `passengers` are what the page shows, `doing`, `subject`, `then` and `brought` its calls. `Allowed` and `Settled` are `updateStatus` for one ride; its insides are `SeatBooking`. What others do to a ride
  includes publishing it again after its end.
* `Finding`: a query keeps the criteria of the render it was started in. `PagesOf` is every first page that the ORDER BY allows, ties included.
* `Fares`: `Round` is `Math.round` of a quotient, a half upwards. The fields limit what is typed (`AtLeast`). The mileage is in halves of a kilometre.

## 3. The runs

| Run | Instance | Shows |
|---|---|---|
| `seats_sqlite` | SQLite, 2 requests, 2 rivals for 1 seat, journey may be started, completed and cancelled | no lost seat update (`SeatLedger`), taking and giving back is atomic (`ImplementsAtomicSeats`), overbooking only through seats given back twice (`OverbookingNeedsDoubleReturn`) |
| `worker_postgres` | PostgreSQL, 1 request, 1 worker, 2 rivals for 1 seat, journey may be completed and cancelled, fairness | the stored number is never negative although updates are lost (`SeatsNeverNegative`); requests nobody answers expire (`StaleRequestsExpire`); departed journeys leave the statuses they start from for good (`DepartedJourneysSettle`) |
| `found_overbooking_postgres` | PostgreSQL, 2 requests, auto-accept | **violated** `NoOverbooking`: both read the last seat (README.md:23; `lockForUpdate` has no `FOR UPDATE`) |
| `payments` | 2 bookings, 2 orders, 2 gateways, 5 requests of which 2 at a time, any order and payment id verified for any booking, crashes | captured means paid at the gateway on record, by an order of this booking unless the client sent another's (`CapturedIsPaid`); refunds on record are real and match the status (`RecordedRefundsAreReal`, `RefundStatusBacked`); a booking taken back from its end was paid, or its approval had read it before (`RevivalWasPaid`) |
| `sqlite_three` | 3 transactions, 1 statement outside, up to 7 awaits, fairness | until one barges in before a woken waiter, mutual exclusion (`ExclusiveUntilBarged`) and `AllOrNothing` in memory and on file; always, that each ends (`EveryTxEnds`) and that an acknowledged statement is lost only with a failing transaction (`LostOnlyWithAFailedTx`) |
| `found_half_transaction_sqlite` | 3 transactions | **violated** `Atomic` (README.md:20 claims ACID transactions): two get past the mutex, the BEGIN of the second fails and clears the flag of the first, which ends as failed with one of its two statements stored (`db.ts:24`) |
| `sessions` | 1 browser, 2 calls, 2 families, 2 rows, 3 seconds | one session per family, ended stays ended, refusals have a cause |
| `reviews` | 1 journey, 3 passengers, 3 reviews sent repeatedly, 2 requests, failures, one of them between two writes, a booking that changes from outside and publishes the completed journey once more | `CountsAgree`, `RatingNearMean` (the error of the rounding is bounded by n(n+1)/4 hundredths over n reviews), `RidesCountedOnce` (for each time the journey was completed) |
| `checkout` | PostgreSQL, 2 bookings, 2 calls of the pages, 7 acts | nobody pays for two active bookings, but for the causes named (`ChargedOnce`), `ShownIsCurrent` |
| `messaging` | 2 conversations, 2 messages, 2 loads, 1 cut, 1 message per page | `NothingMissed`, `ShownFaithfully` (once, in order, under the right name), `ReadWasShown` |
| `notifications` | 2 handlers, 1 call that marks, 1 cut, a list of 1, the count a text, fairness | `OneConversation`, `BellIsRight` (badge and list), every stored notification is listed in the end, unless too old for the list or its push was lost (`ComesToBeListed`) |
| `pages` | per behaviour one of: 2 vehicles and 2 journeys; 2 rides with a booking each; 3 rides to find; the calculator; 2 tickets with 2 texts; a user, a journey and 2 reports; always 2 calls at once, 1 failure, and 1 or 2 acts of others | `VehiclesAgree`, `PublishedOnceAndWhole`, `PageIsCurrent`, `BestAreShown`, `PartsAreFair`; `StatusAgrees` (a resolved ticket hides no message, one that waits was answered), `WordsAreStored` (once, and first), `OwnReplyShown`, `AuditTellsAll`, `NotesBelong` |

The repository's README says that "every UI action is backed by transactional SQL queries" (README.md:16). Most actions are several statements
without a transaction, and where a property says "unless a request failed between two statements" it sets that sentence aside and says what is true instead. In the same way
the properties of the pages exempt loads that overlap, because no page orders its answers: they show that nothing *else* makes a page wrong.

Several invariants are conjunctions of named parts; the parts are stated, each with its comment, just before. Type invariants are
properties of their own in `SeatBooking` and `Payments`, and parts of such a conjunction elsewhere.

**Bounds.** Two requests are the smallest number that race, and the
windows in the handlers are pairwise (one reads, another writes, the first writes). One journey is
enough in `SeatBooking` because no statement relates two journeys; two bookings are needed in `Payments`, where the order of one may be verified for the other. One seat makes every booking
compete and makes FULL reachable. Two orders allow a retry with the other gateway. Three transactions are the fewest
of which one can barge in between the release of another and its waiter. Seven awaits make a request arrive
at each of the job-queue positions a transaction of another goes through. Three seconds with a lifetime of two
let a token expire while a younger one of its family is valid. The three reviews are of one user. One message per page makes the
second one fall off it, and a list of one notification does the same for the bell. Two conversations, tickets, rides or reports let an answer come in under another's name; two
vehicles let a default move; two texts let one be sent again. Failures, cuts and acts of others are counted (`MaxFails`, `MaxFaults`, `MaxHalfDone`, `MaxCuts`, `MaxDrops`, `MaxMoves`, `MaxEvents`, `MaxDuties`,
`MaxChanges`, `MaxEdits`, `MaxAgain`), one or two being what the exceptions speak of. `MaxCalls` of `Payments` is five: an order, its verification, a cancellation and two that
cross them. `MaxActs` of `Checkout` is seven: two checkouts and what may come between them. The theorems of section 4 hold for any value of these. `Asked` leaves out
PUBLISHED and FULL in `seats_sqlite` and `worker_postgres`: a driver can set them by hand, and what follows
is listed below. `worker_postgres` leaves IN_PROGRESS to the worker. Deadlock is not checked where the clock, the orders or the acts run out or every request may be
finished; `worker_postgres` checks it.

**Fairness.** `FairSpec` of `SeatBooking` is weak fairness of each process's next
step (the event loop resumes every continuation, and `setInterval` starts the
worker again and again), of time, and strong fairness of the steps that wait for the
mutex or a row lock (both serve the waiting in turn). It asks nothing of clients: no request need ever be made.
`FairSpec` of `SqliteTx` is weak fairness of the job queue as a whole: its head runs. `NoteSpec` of `Notifications` is weak fairness of each handler's next
statement, which may fail, of the load of the browser, and of the socket: it reconnects and delivers, as Socket.IO's client does by itself.
No click is assumed fair.

Every property of a passing run has a mutant in `PROJECT.json`: a definition of
the module changed as a plausible bug would, under which TLC finds the
property violated.

**Checked and not kept as runs.** While choosing the bounds the following turned up. The first group is stated in the
modules by properties no run checks, because the code does not keep them:

* `TerminalJourneysStay` (`SeatBooking`): seats given back publish a completed or cancelled journey again, with one request at a time.
* `NoOverbooking` also fails on SQLite, with one request at a time and three bookings: reject, then cancel, gives the seat back twice.
* `WebhookNeverFails` (`Payments`): the webhook passes no signature on, and a Razorpay payment that was paid is marked FAILED.
* A Stripe payment for the order of a cancelled booking confirms it, and so does an approval that had read it before. `RevivalWasPaid` is what remains true.
* `MutualExclusion` and `FileNeverTorn` with three transactions, for the same reason as `Atomic`.
* `VoucherShown` (`Checkout`): the reload that a success starts unmounts the dialog, and the voucher is not seen.
* On SQLite `DepartedJourneysSettle` fails: the ROLLBACK of another request's transaction takes back the
  status the worker wrote in between. It also fails on either engine if the driver may set FULL or PUBLISHED by hand.
* On PostgreSQL two concurrent requests of one passenger both become active bookings, and both may be paid: `ChargedOnce` without its last exception.
* Two concurrent rejections, or a rejection and the worker's expiry, give the seats back twice.
* `cancelBooking` that read the journey's status before the journey ended gives seats back to it and publishes it.
* A payment captured while `createOrder` is waiting for the gateway goes back to PENDING; a payment can be captured
  again after its refund. A refund the gateway refuses is logged and never tried again.

Noticed while modelling the pages, and visible in the actions or in the exceptions of the properties:

* `getMessages` returns the *oldest* 50. Messages sent by POST are not broadcast. Rooms are not joined again after a reconnection; the socket keeps its old token.
  The typing notice stays when the conversation is changed; the badges of conversations are never refreshed.
  The chat of a journey has only the driver in it (`addMember` and `isBlocked` have no caller).
* A click on a notification that is read takes one off the badge.
* On PostgreSQL the first push after a load appends a 1 to the badge: 1 unread and one push are shown as 11.
* `BookingModal` shows a platform fee (line 40) that is never charged. The error and the reason of one cancellation are there in the next dialog of `MyBookingsPage`.
* A text typed while a reply is under way is erased, and the page jumps back to the ticket replied to. The notes of a report leak into the next one or are overwritten by "Updated by admin".
* The driver's page has no start button for a ride that is FULL or STARTING_SOON; an answered booking does not reload the cards, a changed ride not its passengers; another ride's passengers stay on screen until the new ones come.
* The deletion of a vehicle does not look for FULL journeys. The search shows the first ten of the total.
* For electric cars the calculator ignores its efficiency field; tolls that are edited leave the preset highlighted.

**Hazards that no property covers** (and are not in the list of `PROJECT.json`, which holds those the runs are about): a booking committed after the cancellation of its
journey has listed the bookings stays active (`journey.service.ts:181`); the completion loop overwrites a booking
cancelled since it listed it (`journey.service.ts:198`); an exception in one expiry ends the run of the worker (`worker.ts:85`), and two
runs may overlap (`worker.ts:16`); a crash during `writeFileSync` (`db.ts:85`); an account
suspended between the checks of a login and the INSERT of its session (`auth.service.ts:92`). The first two are in `SeatBooking` as behaviour.

## 4. The proofs

`tlapm` checks all of them. They hold for any number of journeys, bookings, seats,
requests, worker runs, orders, gateways, transactions, checkouts, calls of the pages,
devices, tokens, reviews, conversations, messages, notifications, vehicles, queries, tickets, texts and users, under the assumptions on the constants that the modules name
(`SeatsAssumption`, `SqliteAssumption` and so on), which TLC evaluates in every run.

| Theorem | States |
|---|---|
| `Sums!SumRecurrence` | a sum over a finite set is a term and the sum of the others |
| `SeatBookingProofs!TypeCorrect` | `Spec => []TypeOK`, both engines |
| `SeatBookingProofs!NeverNegative` | `Spec => []SeatsNeverNegative`, both engines |
| `SeatBookingProofs!LedgerKept` | `Serialized => (Spec => []SeatLedger)` |
| `SeatBookingProofs!OverbookingHasOneCause` | `Serialized => (Spec => []OverbookingNeedsDoubleReturn)` |
| `SeatBookingProofs!Implements` | `Serialized => (Spec => ImplementsAtomicSeats)` |
| `PaymentsProofs!TypeCorrect` | `Spec => []TypeOK` |
| `PaymentsProofs!CapturedWasPaid` | `Spec => []CapturedIsPaid` |
| `PaymentsProofs!RevivedWasPaid` | `Spec => RevivalWasPaid` |
| `PaymentsProofs!RefundsOnRecord` | `Spec => []RefundStatusBacked` |
| `PaymentsProofs!RefundsWerePaidBack` | `Spec => []RecordedRefundsAreReal` |
| `SqliteTxProofs!OneAtATime` | `Spec => []ExclusiveUntilBarged`, any number of transactions |
| `SqliteTxProofs!StoredWhole` | `Spec => []AllOrNothing`, any number of transactions |
| `SqliteTxProofs!LostOnlyByFailure` | `Spec => []LostOnlyWithAFailedTx`, any number of transactions |
| `SqliteTxProofs!ExclusionIsEnough` | `Spec /\ []MutualExclusion => [](Atomic /\ FileNeverTorn)`, any number of transactions |
| `CheckoutProofs!NobodyPaysTwice` | `Spec => []ChargedOnce` |
| `CheckoutProofs!ShownAsStored` | `Spec => []ShownIsCurrent` |
| `SignedInProofs!SessionsOrdered` | `Spec => []SessionsInOrder` |
| `SignedInProofs!EndedForGood` | `Spec => []EndedStaysDead` |
| `SignedInProofs!NoneDeniedWithoutCause` | `Spec => DeniedForCause` |
| `ReviewsProofs!RatingsAreCounted` | `Spec => []CountsAgree` |
| `ReviewsProofs!RatingsAreNearTheirMean` | `Spec => []RatingNearMean` |
| `ReviewsProofs!RidesAreCountedOnce` | `Spec => []RidesCountedOnce` |
| `SignedInProofs!PageIsComplete` | `ChatSpec => []NothingMissed` |
| `SignedInProofs!PageIsFaithful` | `ChatSpec => []ShownFaithfully` |
| `SignedInProofs!ReadIsShown` | `ChatSpec => []ReadWasShown` |
| `SignedInProofs!OneConversationForTwo` | `NoteSpec => []OneConversation` |
| `SignedInProofs!TheBellIsRight` | `NoteSpec => []BellIsRight` |
| `RidesAndStaffProofs!VehiclesKept` | `HostSpec => []VehiclesAgree` |
| `RidesAndStaffProofs!FormsPublished` | `HostSpec => []PublishedOnceAndWhole` |
| `RidesAndStaffProofs!DriverSeesRides` | `HostSpec => []PageIsCurrent` |
| `RidesAndStaffProofs!SearchShowsBest` | `HostSpec => []BestAreShown` |
| `RidesAndStaffProofs!FairParts` | `HostSpec => []PartsAreFair` |
| `RidesAndStaffProofs!StatusAndThread` | `BackSpec => []StatusAgrees` |
| `RidesAndStaffProofs!WordsStored` | `BackSpec => []WordsAreStored` |
| `RidesAndStaffProofs!OwnReplySeen` | `BackSpec => []OwnReplyShown` |
| `RidesAndStaffProofs!LogTellsAll` | `BackSpec => []AuditTellsAll` |
| `RidesAndStaffProofs!NotesWereTypedForIt` | `BackSpec => []NotesBelong` |

`RidesAndStaffProofs` has an inductive invariant for each part of the two compositions; a step of a composition is a step of one part and leaves the
variables of the others alone (`HostStep`, `BackStep`), so that the conjunction of the invariants is inductive too. A proof module that is about
several components extends them all, which is why these use different names (`Init`, `ChatInit`, `NoteInit`; `None`, `Nil`, `Nothing`).

* **Seats, any engine.** `Safe` adds to the types what each label says of the locals (`LocalsOK`): which
  of them are set, and that a request past the check of `createBooking` has read at least as many seats as it wants. The
  snapshot may be stale, but the number written is computed from the snapshot
  that was checked, which is why it is never negative even where updates are lost.
* **Seats, SQLite.** `Serial` adds that the process inside a transaction is the owner of the mutex (`Mutex`) and that
  snapshots are current (`Fresh`). Only transactions write the seats, so
  whoever writes has the only snapshot. The ledger, which is not inductive without `Fresh`, follows; and
  `CreateSeats` and `EndSeats` are then `Reserve` and `Return` of `AtomicSeats`, all other steps stutter.
* **Overbooking.** The ledger is `available = total - sold + returned`; `Totals` adds where the two sums come from: `sold` is the sum of the seats of
  the bookings that have theirs (`Booked`), `returned` the sum of `returns[b] * SeatsOf[b]`. `RowsKnown` (only one request works on a row that
  is not there yet) and `SavepointKnown` (a rollback keeps the bookings whose seats are counted) keep it so. If every active booking gave
  nothing back and every other at most once, the seats held are term by term at most what is sold less what was returned, which
  `SeatsNeverNegative` bounds: that is `OverbookingHasOneCause`.
* **Sums.** `MapThenSumSet` takes an arbitrary element away, recursively, and the provers cannot do induction. `Sums` argues from
  a smallest subset for which a fact would fail, which exists because the strict subsets of a finite set are well-founded (a theorem of the library, without
  an operator as parameter): so it has that the recursion exists (`SumsExist`), that it does not matter which element is taken (`SumTakeOne`), and what a sum
  does when a term changes (`SumChangeOne`), grows (`SumMonotone`) or is split (`SumOfSums`).
* **Payments.** `Backed` says what a request *knows* at each label: a created order is that of the booking at the
  gateway asked, a request about to verify holds the gateway of the row, and one about to capture, to confirm or in a refund works on a payment
  that was paid (`Known`). `Kept` is why nobody else can make it forget: orders are not changed, payments at the gateway are not taken back, and the
  gateway of a payments row is written once. `PaidFor` has the exception of `mixed`, which only grows. `OthersKnow`, `RowKept` and `StepOf` reduce each action to its own request.
  For `RevivedWasPaid`, `OvertakenOnRecord` says that a booking an approval is at work on has not ended or is in `overtaken`; the actions that confirm are then
  `Confirm`, of what was paid, and `Approve` (`StepRevives`).
* **Refunds.** `RefundsWerePaidBack` needs more than it says: what a request has paid back and not recorded yet (`InHand`) counts as well. `Ledger` has
  that, summed over all bookings and orders, it does not exceed what was paid back; a crash drops only what is in hand. It holds because a refund in progress has a payment id: `Named` says that a captured
  payment has one, and so has the refund of it, so that the answer which asks nobody is never given. The sums are over everything because a refund may go to the order
  of another booking. `RefundsOnRecord` rests on `Recorded`: the types, what a request in a refund knows of the amount that is due (`KnowsDue`), and
  that a row which says REFUNDED or PARTIALLY_REFUNDED has an amount on record (`StatusOf`).
* **SQLite.** `Jobs`: every request has one continuation in the queue or is one of the waiters, never both (lemmas on sequences without
  repetitions: `HeadLeaves`, `LastComes`). `Turns` is `OneTurn` unless `barged`: who is between BEGIN and COMMIT holds the lock, and when a waiter is woken everybody else is done. It is
  inductive for any number of transactions: a release leaves one waiter in line (`Released`), and only a transaction that finds the mutex free meanwhile ends the exclusion, which is what sets `barged`.
  `Connection` follows the statements of each transaction
  through memory, the rollback copy and the file until then; it uses the exclusion and not how it comes about, so `ExclusionIsEnough` has it as a hypothesis:
  repairing `AsyncMutex` would be enough. `Losses` is for `LostOnlyByFailure`, also where two are in: the flag is down in an open transaction only after a BEGIN that failed.
* **Checkout.** `Hands`: a checkout that is still to pay has a booking of its own, which is live or was given up unpaid; `Single`: of two live bookings one was given up unpaid or is a twin. `Races`
  says that a call between check and INSERT that was not overtaken finds no live booking but those given up, and that with `Serialized` there is one such call and none is overtaken. The exceptions
  in `ChargedOnce` are thus exactly the booking revived by its late payment and the one inserted after a stale check. For the pages, `Mounted` says that one load of the page is under way unless `blurred`, and that the page is then not shown;
  `SeatsKnown` and `ListKnown`, that what a load was answered is still so unless `moved`, or a call that changed it has yet to load.
* **Sessions.** A token is in one place: in a row, in a browser, or in the hands of a call. `Alone` says that two calls are busy with
  a family only if both presented it (`together`); `Exchange`, that a family otherwise has one row, which the call that
  exchanges it has found, has deleted, or will insert, and that it did not end meanwhile. For `DeniedForCause` one needs the converse,
  `Backed`: a token somebody holds has its row unless it is void (`Void`), and nothing that makes a token void is ever undone.
* **Messages.** `MsgInv` has, for each of the invariants, what it takes to keep it. For `ReadWasShown`, `Seen`: between SELECT and UPDATE, what a load will mark it holds or it is `settled`.
  For "once", `Carried`: an event is on its way once, of a message whose handler is done; and `OnceMore`: a message still under way that a load has already read is `crossed`. For the order, `Younger`: if one is
  under way and has an earlier time than another, both are `mingled`. For "under the right name", `OneLoad`: unless `blurred`, one load, of the open conversation. `NothingMissed` needs all of them and `InRoom`: until a cut, the socket is in the
  room of the open conversation or its join is under way, and a leave that is under way has a join behind it (`JoinsCounted`: each join was asked for by an opening). `Complete` then says that whatever is not under way is brought
  by every load that has read, or is on the page.
* **Notifications.** `CreatesAlone`: unless two looked together, whoever creates a conversation does so alone and those before him failed. `Stored` says that `newest` has each stored row once, so that
  `Rows` lists none twice. `Pushes` and `Listing` follow a row from the INSERT over the socket to the list, as for messages.
  The badge alone is not inductive: `Counting` says that, while it is no text, it is the number of unread rows whose push has come, and those the server has marked and the page not heard of (`Answered`), or 0 while nothing unread has come.
* **Reviews.** The counts are cardinalities, so that a step that counts is shown to add one element to a finite set (`CountingDone`, `RideIsCounted`).
  `Counting`: each review is counted by one call, and the count that call has read is still the stored one unless two updates of the user overlapped (`raced`).
  `NearMean`: an update has read the average that is stored, and `average * count` is off from the total of the stars by no more than `n (n + 1) / 4`: rounding adds half of the new count (`RoundedNear`).
  `RidesDue`: what is counted for a user are completions, pairs of a journey and how often it had come back, whose loop is past him, each once, unless two requests completed the journey together (`doubled`).
  `Ended` says that a request past its UPDATE has its pair on record and one before it a new one, `Fresh` why: a journey that is not completed has no pair of its present round.
* **Vehicles.** `DefaultChosen` is stronger than "one default": between its two statements a request has no rival row, and no other
  is choosing. `VehiclesUsed` says that a deletion that has counted finds only journeys it passed over, being FULL or over, or that came later, whatever becomes of their status; `Fitting` that the check of
  the seats still holds at the INSERT. `FormsOut` and `PublishStages` follow the one request at work on the form from INSERT to INSERT.
* **Driver's page and search.** `OneAtWork`, `CardsKnown` and `RosterKnown` say of the driver's page what `Mounted` and the others say of the passenger's. `Searching` says that, while no two queries overlapped
  and nothing changed since, what a query brings and what the page has are the `Best` for the criteria shown; that an ordered page without repetitions that is not full has every ride on offer is a matter of cardinalities (`FS_PigeonHole`).
* **Fares.** `FareFields` are the limits of the inputs, which hold whatever is typed, because every `onChange` clamps. `RoundIsNear` is what `Math.round` does; `CostIsPositive`
  says that the service fee of the shortest trip is more than the rounding of all seats together, so that the driver never earns.
* **Support.** `Updates`: a reply whose status is not yet set is the last of its thread, and the only one of its ticket in that state.
  `Sending` and `Texts` say that whoever sends still holds the text of the form, and that a text that is stored is only sent again when its call failed.
  `Loading` needs `answered[t] <= Len(thread[t])` and one load at a time; `blurred` marks where loads overlapped.
* **Administration.** `Logging`: at most one handler has still to write what it changed, and the row is as that handler left it; without one
  the log is up to date. `Chained` says what each handler remembers as the old value, so that its entry will follow on the last.
  `Noted` follows the text of the dialog from the keyboard to the row.

What the assumptions ask of the constants beyond sizes: that sets of names are apart (`None` is no token, rides are not bookings), that the rides of a search, the requests of `SqliteTx`, the bookings of `SeatBooking`,
the orders and requests of `Payments`, the messages and the handlers that notify are finitely many (a cardinality, a sum or a queue is taken of them), and that no booking is COMPLETED at the start of `Reviews` (`ReviewsAssumption`; the status is only set by the completion, `journey.service.ts:198`).

Every invariant and every action property of the passing runs is proved. Model-checked only: `StaleRequestsExpire`, `DepartedJourneysSettle`, `EveryTxEnds` and
`ComesToBeListed`, which are about fairness (out of the prover's reach), and the violations of the two `found_*` runs.

## 5. Possible further work

* The composition of `SeatBooking` with `Payments` over the shared `bookings.status`: a booking that holds
  no seats keeps no money beyond the refund tier.
* Crashes of the process in `SeatBooking`: on SQLite, the file of `SqliteTx`; on PostgreSQL, the rollback of what is open.

## 6. Not modelled

* Maps: requests to a geocoder and a router with a computed answer when they fail; no state.
* The HTTP layer: validation, rate limits, errors, configuration. The models only issue requests that pass.
* Schema, migrations and seed data; the keys and checks other models rely on are in their initial states and types.
* Reminders of the worker, which only send notifications; e-mail and SMS, which log.
* Registration and the profile (single rows; a registration is a login as far as sessions go), password hashing, access tokens, roles.
* The other pages and the frame of the application (home, login, profile, safety, layout), the tab of the pocket calculator, and of the search the
  places, distances, suggestions and the filters that are like the seats and the price.
* The simulated gateways. The PostgreSQL pool and the opening of the database. Statements do not fail in `SeatBooking`,
  except that a transaction may end with the errors the service throws.
* The write of the SQLite file is one step. Whether a crash can leave half a file is a question to the file system.
