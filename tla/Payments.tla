------------------------------- MODULE Payments -------------------------------
(***************************************************************************)
(* The money of a booking: PaymentService, the webhook of                  *)
(* PaymentController and the refund cancelBooking asks for, interleaved at *)
(* every await, with the payment gateway as the environment.               *)
(*                                                                         *)
(* The gateways are Razorpay and Stripe with their credentials set; the    *)
(* simulated ones, which take any payment for paid, are left out.  A       *)
(* gateway takes the price of an order at most once and never pays back    *)
(* more than it took; webhooks and client calls may be late, repeated or   *)
(* never come, and a call to a gateway may fail.  A crash drops every      *)
(* request in progress and keeps the rows.                                 *)
(*                                                                         *)
(* What a client verifies is what it sends: the booking, the order and the *)
(* payment id are fields of their own, which nothing in the code compares. *)
(* A payment is known by its order: each order is paid once.               *)
(*                                                                         *)
(* Of the other handlers only the status they read and the one they write  *)
(* are here: SeatBooking has their transactions and the seats.             *)
(***************************************************************************)
EXTENDS Integers, FiniteSets, FiniteSetsExt

CONSTANTS
    Bookings,
    Orders,        \* bound: the orders the gateways can create
    Handlers,      \* HTTP requests in progress
    Gateways,      \* the providers clients choose from
    Price,         \* bookings.total_amount, an even number of units
    MaxCalls,      \* bound: the requests that come
    Crashes,       \* whether the server may crash
    Unknown,       \* a payment id no gateway has given out
    None

ASSUME PaymentsAssumption ==
    /\ IsFiniteSet(Bookings) /\ IsFiniteSet(Orders) /\ IsFiniteSet(Handlers)
    /\ Gateways \subseteq {"RAZORPAY", "STRIPE"}
    /\ Price \in Nat \ {0} /\ Price % 2 = 0
    /\ MaxCalls \in Nat
    /\ Crashes \in BOOLEAN
    /\ None \notin Bookings \cup Orders \cup Gateways \cup {Unknown}
    /\ Unknown \notin Orders

VARIABLES
    bStatus,       \* bookings.status
    payment,       \* payments.status, "NONE" when the booking has no payment
    gateway,       \* payments.gateway
    orderId,       \* payments.gateway_order_id
    paymentRef,    \* payments.gateway_payment_id, as the order it pays
    recorded,      \* the sum of the amounts in refunds
    orders,        \* gateway: the orders there are, with booking and gateway
    paid,          \* gateway: the orders the passenger has paid
    paidBack,      \* gateway: what it has paid back of an order
    pc, target, order, ref, signed, exists, via, due,  \* of a request in progress
    calls,         \* the requests that came
    mixed,         \* history: bookings captured by the order of another one
    overtaken      \* history: bookings that ended while they were approved

rows    == <<bStatus, payment, gateway, orderId, paymentRef, recorded>>
world   == <<orders, paid, paidBack>>
locals  == <<target, order, ref, signed, exists, via, due>>
history == <<mixed, overtaken>>
vars    == <<rows, world, pc, locals, calls, history>>

BookingStatus == {"REQUESTED", "CONFIRMED", "REJECTED", "CANCELLED", "COMPLETED"}
PaymentStatus == {"PENDING", "CAPTURED", "FAILED", "REFUNDED", "PARTIALLY_REFUNDED"}

NoOrder == [booking |-> None, gateway |-> None]

Init ==
    /\ bStatus = [b \in Bookings |-> "REQUESTED"]
    /\ payment = [b \in Bookings |-> "NONE"]
    /\ gateway = [b \in Bookings |-> None]
    /\ orderId = [b \in Bookings |-> None]
    /\ paymentRef = [b \in Bookings |-> None]
    /\ recorded = [b \in Bookings |-> 0]
    /\ orders = [o \in Orders |-> NoOrder]
    /\ paid = {}
    /\ paidBack = [o \in Orders |-> 0]
    /\ pc = [p \in Handlers |-> "idle"]
    /\ target = [p \in Handlers |-> None]
    /\ order = [p \in Handlers |-> None]
    /\ ref = [p \in Handlers |-> None]
    /\ signed = [p \in Handlers |-> FALSE]
    /\ exists = [p \in Handlers |-> FALSE]
    /\ via = [p \in Handlers |-> None]
    /\ due = [p \in Handlers |-> 0]
    /\ calls = 0
    /\ mixed = {} /\ overtaken = {}

At(p, l)   == pc[p] = l
Goto(p, l) == pc' = [pc EXCEPT ![p] = l]

\* The request is over: answered, refused or failed.
Forget(p) ==
    /\ target' = [target EXCEPT ![p] = None]
    /\ order' = [order EXCEPT ![p] = None]
    /\ ref' = [ref EXCEPT ![p] = None]
    /\ signed' = [signed EXCEPT ![p] = FALSE]
    /\ exists' = [exists EXCEPT ![p] = FALSE]
    /\ via' = [via EXCEPT ![p] = None]
    /\ due' = [due EXCEPT ![p] = 0]
Leave(p) == Goto(p, "idle") /\ Forget(p)

UpdatePayment(b, s) == payment' = [payment EXCEPT ![b] = s]

-----------------------------------------------------------------------------
(* PaymentService.createOrder                                              *)

OrderCall(p, b, g) ==
    /\ At(p, "idle")
    /\ bStatus[b] \notin {"CANCELLED", "REJECTED"}
    /\ target' = [target EXCEPT ![p] = b]
    /\ via' = [via EXCEPT ![p] = g]
    /\ Goto(p, "order_payment")
    /\ UNCHANGED <<rows, world, history, order, ref, signed, exists, due>>

OrderPayment(p) ==
    LET status == payment[target[p]] IN
    /\ At(p, "order_payment")
    /\ IF status = "CAPTURED"
       THEN Leave(p)
       ELSE /\ exists' = [exists EXCEPT ![p] = status # "NONE"]
            /\ Goto(p, "order_gateway")
            /\ UNCHANGED <<target, order, ref, signed, via, due>>
    /\ UNCHANGED <<rows, world, history>>

OrderGateway(p) ==
    /\ At(p, "order_gateway")
    /\ \E o \in Orders :
          /\ orders[o] = NoOrder
          /\ orders' = [orders EXCEPT ![o] =
                         [booking |-> target[p], gateway |-> via[p]]]
          /\ order' = [order EXCEPT ![p] = o]
    /\ Goto(p, "order_record")
    /\ UNCHANGED <<rows, paid, paidBack, history, target, ref, signed, exists, via, due>>

OrderFails(p) ==
    /\ At(p, "order_gateway")
    /\ Leave(p)
    /\ UNCHANGED <<rows, world, history>>

\* A retry keeps the gateway and the order id of the row; a second INSERT
\* breaks the UNIQUE constraint on booking_id.
OrderRecord(p) ==
    LET b == target[p] IN
    /\ At(p, "order_record")
    /\ IF exists[p]
       THEN UpdatePayment(b, "PENDING") /\ UNCHANGED <<gateway, orderId>>
       ELSE IF payment[b] = "NONE"
            THEN /\ UpdatePayment(b, "PENDING")
                 /\ gateway' = [gateway EXCEPT ![b] = via[p]]
                 /\ orderId' = [orderId EXCEPT ![b] = order[p]]
            ELSE UNCHANGED <<payment, gateway, orderId>>
    /\ Leave(p)
    /\ UNCHANGED <<bStatus, paymentRef, recorded, world, history>>

\* The passenger pays at the gateway.
Pay(o) ==
    /\ orders[o] # NoOrder /\ o \notin paid
    /\ paid' = paid \cup {o}
    /\ UNCHANGED <<rows, orders, paidBack, pc, locals, history>>

-----------------------------------------------------------------------------
(* PaymentService.verifyAndCapturePayment                                  *)

VerifyRead(p, b, o, r, withSignature) ==
    /\ At(p, "idle")
    /\ payment[b] \notin {"NONE", "CAPTURED"}
    /\ target' = [target EXCEPT ![p] = b]
    /\ order' = [order EXCEPT ![p] = o]
    /\ ref' = [ref EXCEPT ![p] = r]
    /\ signed' = [signed EXCEPT ![p] = withSignature]
    /\ via' = [via EXCEPT ![p] = gateway[b]]
    /\ Goto(p, "verify")
    /\ UNCHANGED <<rows, world, history, exists, due>>

\* POST /verify: whichever booking, order and payment id the client sends; the
\* schema asks for all three.
VerifyCall(p, b, o, r) == VerifyRead(p, b, o, r, TRUE)

\* PaymentController.webhook finds the payment by its order id, and passes no
\* signature on.
Webhook(p, b, o) == o \in paid /\ orderId[b] = o /\ VerifyRead(p, b, o, o, FALSE)

\* Mutant: whichever gateway the order was paid at.
VerifiesAnywhere(g, o, r, withSignature) ==
    /\ o \in paid
    /\ g = "RAZORPAY" => withSignature /\ r = o

\* verifyPayment of the provider the payments row names.  Razorpay signs an
\* order with its payment; Stripe is asked for the order alone.
Verifies(g, o, r, withSignature) ==
    /\ o \in paid /\ orders[o].gateway = g
    /\ g = "RAZORPAY" => withSignature /\ r = o

Verify(p) ==
    /\ At(p, "verify")
    /\ Goto(p, IF Verifies(via[p], order[p], ref[p], signed[p])
               THEN "capture" ELSE "fail")
    /\ UNCHANGED <<rows, world, locals, history>>

\* Stripe is asked over the network, and an error of it counts as a "no".
VerifyFails(p) ==
    /\ At(p, "verify") /\ via[p] = "STRIPE"
    /\ Goto(p, "fail")
    /\ UNCHANGED <<rows, world, locals, history>>

Fail(p) ==
    /\ At(p, "fail")
    /\ UpdatePayment(target[p], "FAILED")
    /\ paymentRef' = [paymentRef EXCEPT ![target[p]] = ref[p]]
    /\ Leave(p)
    /\ UNCHANGED <<bStatus, gateway, orderId, recorded, world, history>>

Capture(p) ==
    LET b == target[p] IN
    /\ At(p, "capture")
    /\ UpdatePayment(b, "CAPTURED")
    /\ paymentRef' = [paymentRef EXCEPT ![b] = ref[p]]
    /\ mixed' = IF orders[order[p]].booking # b THEN mixed \cup {b} ELSE mixed
    /\ Goto(p, "confirm")
    /\ UNCHANGED <<bStatus, gateway, orderId, recorded, world, locals, overtaken>>

Confirm(p) ==
    /\ At(p, "confirm")
    /\ bStatus' = [bStatus EXCEPT ![target[p]] = "CONFIRMED"]
    /\ Leave(p)
    /\ UNCHANGED <<payment, gateway, orderId, paymentRef, recorded, world, history>>

-----------------------------------------------------------------------------
(* The other handlers that write bookings.status: each reads it, answers if it *)
(* is not the one it asks for, and writes after further awaits.            *)

DecideRead(p, b, from, l) ==
    /\ At(p, "idle")
    /\ bStatus[b] = from
    /\ target' = [target EXCEPT ![p] = b]
    /\ Goto(p, l)
    /\ UNCHANGED <<rows, world, history, order, ref, signed, exists, via, due>>

\* Mutant: any booking may be approved.
ApproveReadAny(p, b) == DecideRead(p, b, bStatus[b], "approve")

\* approveBooking
ApproveRead(p, b)  == DecideRead(p, b, "REQUESTED", "approve")
\* rejectBooking, and the expiry of the worker with its list of requests
RejectRead(p, b)   == DecideRead(p, b, "REQUESTED", "reject")
\* the loop of a journey's completion, with its list of bookings
CompleteRead(p, b) == DecideRead(p, b, "CONFIRMED", "complete")

DecideWrite(p, l, to) ==
    /\ At(p, l)
    /\ bStatus' = [bStatus EXCEPT ![target[p]] = to]
    /\ Leave(p)
    /\ UNCHANGED <<payment, gateway, orderId, paymentRef, recorded, world, mixed>>

\* A booking ends; an approval that has read it goes on.
Ended(b) ==
    overtaken' = IF \E q \in Handlers : At(q, "approve") /\ target[q] = b
                 THEN overtaken \cup {b} ELSE overtaken

Approve(p)  == DecideWrite(p, "approve", "CONFIRMED") /\ UNCHANGED overtaken
Reject(p)   == DecideWrite(p, "reject", "REJECTED") /\ Ended(target[p])
Complete(p) == DecideWrite(p, "complete", "COMPLETED") /\ UNCHANGED overtaken

-----------------------------------------------------------------------------
(* BookingService.cancelBooking and PaymentService.processRefund           *)

\* Mutant: the percentage in place of the amount.
RefundPercentage(byPassenger, h) ==
    IF ~byPassenger \/ h = 0 THEN 100 ELSE IF h = 1 THEN 50 ELSE 0

\* All of it if the driver or an admin cancels or there are more than 24 hours
\* left (h = 0), half of it down to 12 hours (1), nothing after that (2).
RefundAmount(byPassenger, h) ==
    IF ~byPassenger \/ h = 0 THEN Price ELSE IF h = 1 THEN Price \div 2 ELSE 0

CancelRead(p, b, byPassenger, h) ==
    /\ At(p, "idle")
    /\ bStatus[b] # "CANCELLED"
    /\ target' = [target EXCEPT ![p] = b]
    /\ due' = [due EXCEPT ![p] = RefundAmount(byPassenger, h)]
    /\ Goto(p, "cancel_write")
    /\ UNCHANGED <<rows, world, history, order, ref, signed, exists, via>>

CancelWrite(p) ==
    /\ At(p, "cancel_write")
    /\ bStatus' = [bStatus EXCEPT ![target[p]] = "CANCELLED"]
    /\ Ended(target[p])
    /\ IF due[p] > 0 THEN Goto(p, "refund_read") /\ UNCHANGED locals ELSE Leave(p)
    /\ UNCHANGED <<payment, gateway, orderId, paymentRef, recorded, world, mixed>>

RefundRead(p) ==
    LET b == target[p] IN
    /\ At(p, "refund_read")
    /\ IF payment[b] = "CAPTURED"
       THEN /\ via' = [via EXCEPT ![p] = gateway[b]]
            /\ ref' = [ref EXCEPT ![p] = paymentRef[b]]
            /\ Goto(p, "refund_gateway")
            /\ UNCHANGED <<target, order, signed, exists, due>>
       ELSE Leave(p)
    /\ UNCHANGED <<rows, world, history>>

\* Without a payment id the providers answer PROCESSED and ask nobody; with one
\* the gateway pays back, if it knows the payment and has enough of it left.
RefundGateway(p) ==
    LET o == ref[p] IN
    /\ At(p, "refund_gateway")
    /\ IF o = None
       THEN UNCHANGED paidBack
       ELSE /\ o \in paid /\ orders[o].gateway = via[p]
            /\ paidBack[o] + due[p] <= Price
            /\ paidBack' = [paidBack EXCEPT ![o] = @ + due[p]]
    /\ Goto(p, "refund_insert")
    /\ UNCHANGED <<rows, orders, paid, locals, history>>

\* Mutant: the error is swallowed where the gateway is called, and the refund
\* recorded.
RefundFailsUnnoticed(p) ==
    /\ At(p, "refund_gateway")
    /\ Goto(p, "refund_insert")
    /\ UNCHANGED <<rows, world, locals, history>>

\* cancelBooking logs the error and answers as if the refund was made.
RefundFails(p) ==
    /\ At(p, "refund_gateway")
    /\ Leave(p)
    /\ UNCHANGED <<rows, world, history>>

RefundInsert(p) ==
    /\ At(p, "refund_insert")
    /\ recorded' = [recorded EXCEPT ![target[p]] = @ + due[p]]
    /\ Goto(p, "refund_status")
    /\ UNCHANGED <<bStatus, payment, gateway, orderId, paymentRef, world, locals, history>>

\* Mutant: a partial refund counts as a full one.
RefundStatusAlwaysFull(p) ==
    /\ At(p, "refund_status")
    /\ UpdatePayment(target[p], "REFUNDED")
    /\ Leave(p)
    /\ UNCHANGED <<bStatus, gateway, orderId, paymentRef, recorded, world, history>>

RefundStatus(p) ==
    /\ At(p, "refund_status")
    /\ UpdatePayment(target[p],
                     IF due[p] >= Price THEN "REFUNDED" ELSE "PARTIALLY_REFUNDED")
    /\ Leave(p)
    /\ UNCHANGED <<bStatus, gateway, orderId, paymentRef, recorded, world, history>>

-----------------------------------------------------------------------------
Crash ==
    /\ Crashes
    /\ \E p \in Handlers : ~At(p, "idle")
    /\ pc' = [p \in Handlers |-> "idle"]
    /\ target' = [p \in Handlers |-> None]
    /\ order' = [p \in Handlers |-> None]
    /\ ref' = [p \in Handlers |-> None]
    /\ signed' = [p \in Handlers |-> FALSE]
    /\ exists' = [p \in Handlers |-> FALSE]
    /\ via' = [p \in Handlers |-> None]
    /\ due' = [p \in Handlers |-> 0]
    /\ UNCHANGED <<rows, world, history>>

Request(p) ==
    /\ calls < MaxCalls
    /\ calls' = calls + 1
    /\ \E b \in Bookings :
           \/ \E g \in Gateways : OrderCall(p, b, g)
           \/ \E o \in Orders : \/ \E r \in Orders \cup {Unknown} : VerifyCall(p, b, o, r)
                                \/ Webhook(p, b, o)
           \/ \E byPassenger \in BOOLEAN, h \in 0..2 : CancelRead(p, b, byPassenger, h)
           \/ ApproveRead(p, b) \/ RejectRead(p, b) \/ CompleteRead(p, b)

Step(p) ==
    \/ OrderPayment(p) \/ OrderGateway(p) \/ OrderFails(p) \/ OrderRecord(p)
    \/ Verify(p) \/ VerifyFails(p) \/ Fail(p) \/ Capture(p) \/ Confirm(p)
    \/ Approve(p) \/ Reject(p) \/ Complete(p)
    \/ CancelWrite(p)
    \/ RefundRead(p) \/ RefundGateway(p) \/ RefundFails(p)
    \/ RefundInsert(p) \/ RefundStatus(p)

Next ==
    \/ \E p \in Handlers : Request(p)
    \/ /\ \/ \E p \in Handlers : Step(p)
          \/ \E o \in Orders : Pay(o)
          \/ Crash
       /\ UNCHANGED calls

Spec == Init /\ [][Next]_vars

-----------------------------------------------------------------------------
\* Every column and every local variable holds a value of its type.
TypeOK ==
    /\ bStatus \in [Bookings -> BookingStatus]
    /\ payment \in [Bookings -> PaymentStatus \cup {"NONE"}]
    /\ gateway \in [Bookings -> Gateways \cup {None}]
    /\ orderId \in [Bookings -> Orders \cup {None}]
    /\ paymentRef \in [Bookings -> Orders \cup {Unknown, None}]
    /\ recorded \in [Bookings -> Nat]
    /\ orders \in [Orders -> [booking : Bookings, gateway : Gateways] \cup {NoOrder}]
    /\ paid \subseteq Orders
    /\ paidBack \in [Orders -> Nat]
    /\ pc \in [Handlers -> {"idle", "order_payment", "order_gateway", "order_record",
                            "verify", "fail", "capture", "confirm", "approve", "reject",
                            "complete", "cancel_write", "refund_read",
                            "refund_gateway", "refund_insert", "refund_status"}]
    /\ target \in [Handlers -> Bookings \cup {None}]
    /\ order \in [Handlers -> Orders \cup {None}]
    /\ ref \in [Handlers -> Orders \cup {Unknown, None}]
    /\ signed \in [Handlers -> BOOLEAN]
    /\ exists \in [Handlers -> BOOLEAN]
    /\ via \in [Handlers -> Gateways \cup {None}]
    /\ due \in [Handlers -> 0..Price]
    /\ calls \in 0..MaxCalls
    /\ mixed \subseteq Bookings /\ overtaken \subseteq Bookings

\* An order is paid at the gateway the payments row names: one of this booking,
\* unless the client had the payment verified with the order of another one.
PaidFor(b) ==
    \E o \in paid : /\ orders[o].gateway = gateway[b]
                    /\ orders[o].booking = b \/ b \in mixed

\* A payment is CAPTURED, or was and is refunded, only if an order was paid at
\* the gateway the payments row names: for this booking, unless the one verified
\* was another's, which the code does not look at.  This is so whatever orders,
\* verifications and webhooks overtake each other.
CapturedIsPaid ==
    \A b \in Bookings :
        payment[b] \in {"CAPTURED", "REFUNDED", "PARTIALLY_REFUNDED"} => PaidFor(b)

SumBy(w, S) == MapThenSumSet(LAMBDA x : w[x], S)

\* The refunds on record never exceed what the gateways have paid back, also
\* when the server crashes between the two and when a row names the payment of
\* another booking or none at all.
RecordedRefundsAreReal == SumBy(recorded, Bookings) <= SumBy(paidBack, Orders)

\* A payment is REFUNDED only when the full price is on record as refunded, and
\* PARTIALLY_REFUNDED only when something is.
RefundStatusBacked ==
    \A b \in Bookings :
        /\ payment[b] = "REFUNDED" => recorded[b] >= Price
        /\ payment[b] = "PARTIALLY_REFUNDED" => recorded[b] > 0

\* A cancelled or rejected booking comes back, for all that createOrder and
\* approveBooking test, in two ways only: by a payment that completes late, and
\* then it was paid, or by an approval that had read it before it ended.
RevivalWasPaid ==
    [][\A b \in Bookings :
          bStatus[b] \in {"CANCELLED", "REJECTED"} /\ bStatus'[b] = "CONFIRMED" =>
              PaidFor(b) \/ b \in overtaken]_vars

\* The webhook of a captured payment never marks it as failed.
WebhookNeverFails ==
    [][\A p \in Handlers :
          pc[p] = "fail" /\ pc'[p] = "idle" /\ ~signed[p]
             => order[p] \notin paid]_vars
==============================================================================
