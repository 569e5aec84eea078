--------------------------- MODULE PaymentsProofs ---------------------------
(***************************************************************************)
(* What Payments guarantees for any number of bookings, orders and         *)
(* requests, with or without crashes.                                      *)
(***************************************************************************)
EXTENDS Payments, Sums, TLAPS

\* What the labels say of the local variables: which of them are set.
LocalsOK ==
    \A p \in Handlers :
        /\ pc[p] # "idle" => target[p] \in Bookings
        /\ pc[p] \in {"order_payment", "order_gateway", "order_record"}
              => via[p] \in Gateways
        /\ pc[p] \in {"order_record", "verify", "fail", "capture"}
              => order[p] \in Orders
        /\ pc[p] \in {"verify", "fail", "capture"} => ref[p] \in Orders \cup {Unknown}

Typed == TypeOK /\ LocalsOK

LEMMA InitTyped == Init => Typed
BY PaymentsAssumption
   DEF Init, Typed, TypeOK, LocalsOK, BookingStatus, PaymentStatus, NoOrder

\* Every refund is a part of the price.
LEMMA RefundInPrice ==
    ASSUME NEW byPassenger \in BOOLEAN, NEW h \in 0..2
    PROVE  RefundAmount(byPassenger, h) \in 0..Price
<1>1. Price \in Nat /\ Price \div 2 \in 0..Price
  BY PaymentsAssumption, Z3
<1> QED  BY <1>1 DEF RefundAmount

\* What a request does when it comes: it names a booking, or it verifies a
\* payment, or it cancels, or it decides.
LEMMA RequestCases ==
    ASSUME NEW p \in Handlers, Request(p)
    PROVE  \E b \in Bookings :
              \/ \E g \in Gateways : OrderCall(p, b, g)
              \/ \E o \in Orders, r \in Orders \cup {Unknown}, s \in BOOLEAN :
                    VerifyRead(p, b, o, r, s)
              \/ \E byPassenger \in BOOLEAN, h \in 0..2 : CancelRead(p, b, byPassenger, h)
              \/ \E from, l : /\ DecideRead(p, b, from, l)
                              /\ <<from, l>> \in {<<"REQUESTED", "approve">>,
                                      <<"REQUESTED", "reject">>, <<"CONFIRMED", "complete">>}
BY DEF Request, VerifyCall, Webhook, ApproveRead, RejectRead, CompleteRead

LEMMA RequestTyped ==
    ASSUME Typed, NEW p \in Handlers, Request(p)
    PROVE  Typed'
<1> USE PaymentsAssumption
    DEF Typed, TypeOK, LocalsOK, At, Goto, rows, world, locals, history
<1>0. calls' \in 0..MaxCalls
  BY DEF Request
<1> PICK b \in Bookings :
        \/ \E g \in Gateways : OrderCall(p, b, g)
        \/ \E o \in Orders, r \in Orders \cup {Unknown}, s \in BOOLEAN :
              VerifyRead(p, b, o, r, s)
        \/ \E byPassenger \in BOOLEAN, h \in 0..2 : CancelRead(p, b, byPassenger, h)
        \/ \E from, l : /\ DecideRead(p, b, from, l)
                        /\ <<from, l>> \in {<<"REQUESTED", "approve">>,
                               <<"REQUESTED", "reject">>, <<"CONFIRMED", "complete">>}
  BY RequestCases
<1>1. ASSUME NEW g \in Gateways, OrderCall(p, b, g) PROVE Typed'
  BY <1>0, <1>1 DEF OrderCall
<1>2. ASSUME NEW o \in Orders, NEW r \in Orders \cup {Unknown}, NEW s \in BOOLEAN,
             VerifyRead(p, b, o, r, s)
      PROVE  Typed'
  BY <1>0, <1>2 DEF VerifyRead
<1>3. ASSUME NEW byPassenger \in BOOLEAN, NEW h \in 0..2, CancelRead(p, b, byPassenger, h)
      PROVE  Typed'
  BY <1>0, <1>3, RefundInPrice DEF CancelRead
<1>4. ASSUME NEW from, NEW l \in {"approve", "reject", "complete"}, DecideRead(p, b, from, l)
      PROVE  Typed'
  BY <1>0, <1>4 DEF DecideRead
<1> HIDE DEF Typed
<1> QED  BY <1>1, <1>2, <1>3, <1>4

LEMMA OrderTyped ==
    ASSUME Typed, UNCHANGED calls, NEW p \in Handlers,
           OrderPayment(p) \/ OrderGateway(p) \/ OrderFails(p) \/ OrderRecord(p)
    PROVE  Typed'
<1> USE PaymentsAssumption
    DEF Typed, TypeOK, LocalsOK, At, Goto, Leave, Forget, UpdatePayment,
        PaymentStatus, rows, world, locals, history
<1>1. CASE OrderPayment(p)
  <2>1. UNCHANGED <<rows, world, history>> /\ pc[p] = "order_payment"
    BY <1>1 DEF OrderPayment
  <2>2. CASE payment[target[p]] = "CAPTURED"
    <3>1. Leave(p)
      BY <1>1, <2>2 DEF OrderPayment
    <3> QED  BY <2>1, <3>1
  <2>3. CASE payment[target[p]] # "CAPTURED"
    <3>1. /\ exists' = [exists EXCEPT ![p] = payment[target[p]] # "NONE"]
          /\ Goto(p, "order_gateway")
          /\ UNCHANGED <<target, order, ref, signed, via, due>>
      BY <1>1, <2>3 DEF OrderPayment
    <3> QED  BY <2>1, <3>1
  <2> QED  BY <2>2, <2>3
<1>2. CASE OrderGateway(p)
  BY <1>2 DEF OrderGateway
<1>3. CASE OrderFails(p)
  BY <1>3 DEF OrderFails
<1>4. CASE OrderRecord(p)
  BY <1>4 DEF OrderRecord
<1> QED  BY <1>1, <1>2, <1>3, <1>4

LEMMA VerifyTyped ==
    ASSUME Typed, UNCHANGED calls, NEW p \in Handlers,
           Verify(p) \/ VerifyFails(p) \/ Fail(p) \/ Capture(p) \/ Confirm(p)
    PROVE  Typed'
<1> USE PaymentsAssumption
    DEF Typed, TypeOK, LocalsOK, At, Goto, Leave, Forget, UpdatePayment,
        PaymentStatus, rows, world, locals, history
<1>1. CASE Verify(p)
  BY <1>1 DEF Verify
<1>2. CASE VerifyFails(p)
  BY <1>2 DEF VerifyFails
<1>3. CASE Fail(p)
  BY <1>3 DEF Fail
<1>4. CASE Capture(p)
  BY <1>4 DEF Capture
<1>5. CASE Confirm(p)
  BY <1>5 DEF Confirm, BookingStatus
<1> QED  BY <1>1, <1>2, <1>3, <1>4, <1>5

LEMMA DecideTyped ==
    ASSUME Typed, UNCHANGED calls, NEW p \in Handlers,
           Approve(p) \/ Reject(p) \/ Complete(p)
    PROVE  Typed'
<1> USE PaymentsAssumption
    DEF Typed, TypeOK, LocalsOK, At, Leave, Goto, Forget, world, BookingStatus
<1>1. CASE Approve(p)
  BY <1>1 DEF Approve, DecideWrite
<1>2. CASE Reject(p)
  <2>1. overtaken' \subseteq Bookings
    BY <1>2 DEF Reject, DecideWrite, Ended
  <2> QED  BY <1>2, <2>1 DEF Reject, DecideWrite
<1>3. CASE Complete(p)
  BY <1>3 DEF Complete, DecideWrite
<1> QED  BY <1>1, <1>2, <1>3

LEMMA RefundTyped ==
    ASSUME Typed, UNCHANGED calls, NEW p \in Handlers,
           \/ CancelWrite(p) \/ RefundRead(p) \/ RefundGateway(p)
           \/ RefundFails(p) \/ RefundInsert(p) \/ RefundStatus(p)
    PROVE  Typed'
<1> USE PaymentsAssumption
    DEF Typed, TypeOK, LocalsOK, At, Goto, Leave, Forget, UpdatePayment,
        PaymentStatus, rows, world, locals, history
<1>1. CASE CancelWrite(p)
  <2>1. /\ bStatus' = [bStatus EXCEPT ![target[p]] = "CANCELLED"]
        /\ UNCHANGED <<payment, gateway, orderId, paymentRef, recorded, world, mixed>>
        /\ pc[p] = "cancel_write"
    BY <1>1 DEF CancelWrite
  <2>2. overtaken' \subseteq Bookings
    BY <1>1 DEF CancelWrite, Ended
  <2>3. CASE Goto(p, "refund_read") /\ UNCHANGED locals
    BY <2>1, <2>2, <2>3 DEF BookingStatus
  <2>4. CASE Leave(p)
    BY <2>1, <2>2, <2>4 DEF BookingStatus
  <2> QED  BY <1>1, <2>3, <2>4 DEF CancelWrite
<1>2. CASE RefundRead(p)
  <2>1. UNCHANGED <<rows, world, history>> /\ pc[p] = "refund_read"
    BY <1>2 DEF RefundRead
  <2>2. CASE payment[target[p]] = "CAPTURED"
    <3>1. /\ via' = [via EXCEPT ![p] = gateway[target[p]]]
          /\ ref' = [ref EXCEPT ![p] = paymentRef[target[p]]]
          /\ Goto(p, "refund_gateway")
          /\ UNCHANGED <<target, order, signed, exists, due>>
      BY <1>2, <2>2 DEF RefundRead
    <3> QED  BY <2>1, <3>1
  <2>3. CASE payment[target[p]] # "CAPTURED"
    <3>1. Leave(p)
      BY <1>2, <2>3 DEF RefundRead
    <3> QED  BY <2>1, <3>1
  <2> QED  BY <2>2, <2>3
<1>3. CASE RefundGateway(p)
  BY <1>3 DEF RefundGateway
<1>4. CASE RefundFails(p)
  BY <1>4 DEF RefundFails
<1>5. CASE RefundInsert(p)
  BY <1>5 DEF RefundInsert
<1>6. CASE RefundStatus(p)
  BY <1>6 DEF RefundStatus
<1> QED  BY <1>1, <1>2, <1>3, <1>4, <1>5, <1>6

LEMMA WorldTyped ==
    ASSUME Typed, UNCHANGED calls, (\E o \in Orders : Pay(o)) \/ Crash
    PROVE  Typed'
<1> USE PaymentsAssumption
    DEF Typed, TypeOK, LocalsOK, rows, world, locals, history
<1>1. ASSUME NEW o \in Orders, Pay(o) PROVE Typed'
  BY <1>1 DEF Pay
<1>2. CASE Crash
  BY <1>2 DEF Crash
<1> QED  BY <1>1, <1>2

LEMMA NextTyped == Typed /\ [Next]_vars => Typed'
<1> SUFFICES ASSUME Typed, [Next]_vars PROVE Typed'
  OBVIOUS
<1>1. ASSUME NEW p \in Handlers, Request(p) PROVE Typed'
  BY <1>1, RequestTyped
<1>2. ASSUME UNCHANGED calls, NEW p \in Handlers, Step(p) PROVE Typed'
  BY <1>2, OrderTyped, VerifyTyped, DecideTyped, RefundTyped DEF Step
<1>3. CASE UNCHANGED vars
  BY <1>3 DEF vars, rows, world, locals, history, Typed, TypeOK, LocalsOK
<1> QED  BY <1>1, <1>2, <1>3, WorldTyped DEF Next

\* Every row, every local variable of the handlers and the gateway's books keep
\* their types, whatever requests, payments and crashes interleave.
THEOREM TypeCorrect == Spec => []TypeOK
<1>1. Typed => TypeOK
  BY DEF Typed
<1> QED  BY <1>1, InitTyped, NextTyped, PTL DEF Spec

-----------------------------------------------------------------------------
(* A captured payment was paid.                                            *)

Refunding == {"refund_gateway", "refund_insert", "refund_status"}
Settled == {"CAPTURED", "REFUNDED", "PARTIALLY_REFUNDED"}

\* What a request knows of the payment it works on.
Known(p) ==
    /\ pc[p] \in {"verify", "capture", "confirm"} \cup Refunding =>
          payment[target[p]] # "NONE"
    /\ pc[p] = "verify" => via[p] = gateway[target[p]]
    /\ pc[p] = "capture" => /\ order[p] \in paid
                            /\ orders[order[p]].gateway = gateway[target[p]]
    /\ pc[p] \in {"confirm"} \cup Refunding => PaidFor(target[p])

SettledIsPaid(b) == payment[b] \in Settled => PaidFor(b)

Backed ==
    /\ Typed
    /\ paid \subseteq {o \in Orders : orders[o] # NoOrder}
    /\ \A p \in Handlers : Known(p)
    /\ \A b \in Bookings : SettledIsPaid(b)

LEMMA InitBacked == Init => Backed
BY InitTyped DEF Init, Backed, Known, SettledIsPaid, Settled, Refunding

\* The facts requests rely on are never taken back: an order is neither changed
\* nor unpaid, and a payment never changes its gateway once there is a row.
Kept ==
    /\ paid \subseteq paid'
    /\ paid' \subseteq {o \in Orders : orders'[o] # NoOrder}
    /\ \A o \in Orders : orders[o] # NoOrder => orders'[o] = orders[o]
    /\ mixed \subseteq mixed'
    /\ \A b \in Bookings : payment[b] # "NONE" =>
          payment'[b] # "NONE" /\ gateway'[b] = gateway[b]

LEMMA PaidForStays ==
    ASSUME Backed, Kept, NEW b \in Bookings, payment[b] # "NONE", PaidFor(b)
    PROVE  PaidFor(b)'
<1>1. PICK o \in paid : /\ orders[o].gateway = gateway[b]
                        /\ orders[o].booking = b \/ b \in mixed
  BY DEF PaidFor
<1>2. o \in paid' /\ orders'[o] = orders[o]
  BY DEF Kept, Backed
<1>3. gateway'[b] = gateway[b] /\ (b \in mixed => b \in mixed')
  BY DEF Kept
<1> QED  BY <1>1, <1>2, <1>3 DEF PaidFor

\* A step that keeps these facts leaves what the other requests know alone.
LEMMA OthersKnow ==
    ASSUME Backed, Kept, NEW q \in Handlers,
           pc'[q] = pc[q], target'[q] = target[q], order'[q] = order[q],
           via'[q] = via[q]
    PROVE  Known(q)'
<1>1. CASE pc[q] \notin {"verify", "capture", "confirm"} \cup Refunding
  BY <1>1 DEF Known, Refunding
<1>2. CASE pc[q] \in {"verify", "capture", "confirm"} \cup Refunding
  <2>1. PICK b \in Bookings : b = target[q]
    BY <1>2 DEF Backed, Typed, LocalsOK, Refunding
  <2>2. Known(q)
    BY DEF Backed
  <2>3. payment[b] # "NONE" /\ payment'[b] # "NONE" /\ gateway'[b] = gateway[b]
    BY <1>2, <2>1, <2>2 DEF Known, Kept
  <2>4. ASSUME pc[q] = "capture"
        PROVE  order[q] \in paid' /\ orders'[order[q]].gateway = gateway'[b]
    BY <2>1, <2>2, <2>3, <2>4 DEF Known, Kept, Backed
  <2>5. ASSUME pc[q] \in {"confirm"} \cup Refunding PROVE PaidFor(b)'
    BY <2>1, <2>2, <2>3, <2>5, PaidForStays DEF Known
  <2>6. ASSUME pc[q] \in {"confirm"} \cup Refunding PROVE PaidFor(target[q])'
    BY <2>1, <2>5, <2>6 DEF PaidFor
  <2> QED  BY <2>1, <2>2, <2>3, <2>4, <2>6 DEF Known
<1> QED  BY <1>1, <1>2

\* What is left to show of a step of request p.
LEMMA StepOf ==
    ASSUME Backed, Typed', Kept, NEW p \in Handlers, Known(p)',
           \A q \in Handlers \ {p} :
              /\ pc'[q] = pc[q] /\ target'[q] = target[q]
              /\ order'[q] = order[q] /\ via'[q] = via[q],
           \A b \in Bookings :
              \/ payment[b] \in Settled \/ payment'[b] \notin Settled
              \/ SettledIsPaid(b)'
    PROVE  Backed'
<1>1. \A q \in Handlers : Known(q)'
  BY OthersKnow
<1>2. ASSUME NEW b \in Bookings, payment[b] \in Settled PROVE SettledIsPaid(b)'
  <2>1. payment[b] # "NONE" /\ PaidFor(b)
    BY <1>2 DEF Settled, Backed, SettledIsPaid
  <2> QED  BY <2>1, PaidForStays DEF SettledIsPaid
<1>3. \A b \in Bookings : SettledIsPaid(b)'
  BY <1>2 DEF SettledIsPaid
<1>4. paid' \subseteq {o \in Orders : orders'[o] # NoOrder}
  BY DEF Kept
<1> QED  BY <1>1, <1>3, <1>4 DEF Backed

LEMMA RequestBacked ==
    ASSUME Backed, Typed', NEW p \in Handlers, Request(p)
    PROVE  Backed'
<1> PICK b \in Bookings :
        \/ \E g \in Gateways : OrderCall(p, b, g)
        \/ \E o \in Orders, r \in Orders \cup {Unknown}, s \in BOOLEAN :
              VerifyRead(p, b, o, r, s)
        \/ \E byPassenger \in BOOLEAN, h \in 0..2 : CancelRead(p, b, byPassenger, h)
        \/ \E from, l : /\ DecideRead(p, b, from, l)
                        /\ <<from, l>> \in {<<"REQUESTED", "approve">>,
                               <<"REQUESTED", "reject">>, <<"CONFIRMED", "complete">>}
  BY RequestCases
<1> USE DEF At, Goto, rows, world, locals, history
<1>1. Typed /\ paid \subseteq {o \in Orders : orders[o] # NoOrder}
  BY DEF Backed
<1>2. ASSUME NEW g \in Gateways, OrderCall(p, b, g) PROVE Backed'
  <2>1. Kept /\ Known(p)'
    BY <1>1, <1>2 DEF OrderCall, Kept, Known, Refunding, Typed, TypeOK
  <2> QED  BY <1>1, <1>2, <2>1, StepOf DEF OrderCall, Typed, TypeOK
<1>3. ASSUME NEW o \in Orders, NEW r \in Orders \cup {Unknown}, NEW s \in BOOLEAN,
             VerifyRead(p, b, o, r, s)
      PROVE  Backed'
  <2>1. Kept /\ Known(p)'
    BY <1>1, <1>3 DEF VerifyRead, Kept, Known, Refunding, Typed, TypeOK
  <2> QED  BY <1>1, <1>3, <2>1, StepOf DEF VerifyRead, Typed, TypeOK
<1>4. ASSUME NEW byPassenger \in BOOLEAN, NEW h \in 0..2, CancelRead(p, b, byPassenger, h)
      PROVE  Backed'
  <2>1. Kept /\ Known(p)'
    BY <1>1, <1>4 DEF CancelRead, Kept, Known, Refunding, Typed, TypeOK
  <2> QED  BY <1>1, <1>4, <2>1, StepOf DEF CancelRead, Typed, TypeOK
<1>5. ASSUME NEW from, NEW l \in {"approve", "reject", "complete"}, DecideRead(p, b, from, l)
      PROVE  Backed'
  <2>1. Kept /\ Known(p)'
    BY <1>1, <1>5 DEF DecideRead, Kept, Known, Refunding, Typed, TypeOK
  <2> QED  BY <1>1, <1>5, <2>1, StepOf DEF DecideRead, Typed, TypeOK
<1> QED  BY <1>2, <1>3, <1>4, <1>5

LEMMA OrderBacked ==
    ASSUME Backed, Typed', NEW p \in Handlers,
           OrderPayment(p) \/ OrderGateway(p) \/ OrderFails(p) \/ OrderRecord(p)
    PROVE  Backed'
<1> USE PaymentsAssumption
    DEF At, Goto, Leave, Forget, UpdatePayment, rows, world, locals, history
<1>1. Typed /\ Known(p) /\ paid \subseteq {o \in Orders : orders[o] # NoOrder}
  BY DEF Backed
<1>2. CASE OrderPayment(p)
  <2>1. Kept
    BY <1>1, <1>2 DEF OrderPayment, Kept
  <2>2. Known(p)'
    BY <1>1, <1>2 DEF OrderPayment, Known, Refunding, Typed, TypeOK, LocalsOK
  <2> QED
    BY <1>1, <1>2, <2>1, <2>2, StepOf DEF OrderPayment, Typed, TypeOK, LocalsOK, Settled
<1>3. CASE OrderGateway(p)
  <2>1. Kept
    <3>1. PICK o \in Orders :
             /\ orders[o] = NoOrder
             /\ orders' = [orders EXCEPT ![o] = [booking |-> target[p], gateway |-> via[p]]]
      BY <1>3 DEF OrderGateway
    <3>2. target[p] \in Bookings /\ UNCHANGED <<rows, paid, mixed>>
      BY <1>1, <1>3 DEF OrderGateway, Typed, LocalsOK
    <3> QED  BY <1>1, <3>1, <3>2 DEF Kept, NoOrder, Typed, TypeOK
  <2>2. Known(p)'
    BY <1>1, <1>3 DEF OrderGateway, Known, Refunding, Typed, TypeOK, LocalsOK
  <2> QED
    BY <1>1, <1>3, <2>1, <2>2, StepOf DEF OrderGateway, Typed, TypeOK, LocalsOK, Settled
<1>4. CASE OrderFails(p)
  <2>1. Kept
    BY <1>1, <1>4 DEF OrderFails, Kept
  <2>2. Known(p)'
    BY <1>1, <1>4 DEF OrderFails, Known, Refunding, Typed, TypeOK, LocalsOK
  <2> QED
    BY <1>1, <1>4, <2>1, <2>2, StepOf DEF OrderFails, Typed, TypeOK, LocalsOK, Settled
<1>5. CASE OrderRecord(p)
  <2>1. Kept
    BY <1>1, <1>5 DEF OrderRecord, Kept, Typed, TypeOK, LocalsOK
  <2>2. Known(p)'
    BY <1>1, <1>5 DEF OrderRecord, Known, Refunding, Typed, TypeOK, LocalsOK
  <2>4. ASSUME NEW b \in Bookings
        PROVE  payment[b] \in Settled \/ payment'[b] \notin Settled
    BY <1>1, <1>5 DEF OrderRecord, Settled, Typed, TypeOK, LocalsOK
  <2> QED
    BY <1>1, <1>5, <2>1, <2>2, <2>4, StepOf DEF OrderRecord, Typed, TypeOK
<1> QED  BY <1>2, <1>3, <1>4, <1>5

LEMMA VerifyBacked ==
    ASSUME Backed, Typed', NEW p \in Handlers,
           Verify(p) \/ VerifyFails(p) \/ Fail(p) \/ Capture(p) \/ Confirm(p)
    PROVE  Backed'
<1> USE PaymentsAssumption
    DEF At, Goto, Leave, Forget, UpdatePayment, rows, world, locals, history
<1>1. Typed /\ Known(p) /\ paid \subseteq {o \in Orders : orders[o] # NoOrder}
  BY DEF Backed
<1>2. CASE Verify(p)
  <2>1. Kept
    BY <1>1, <1>2 DEF Verify, Kept
  <2>2. Known(p)'
    <3>1. UNCHANGED <<payment, gateway, orders, paid, target, order, via>> /\ pc[p] = "verify"
      BY <1>2 DEF Verify
    <3>2. CASE pc'[p] = "capture"
      <4>1. order[p] \in paid /\ orders[order[p]].gateway = gateway[target[p]]
        BY <1>1, <1>2, <3>2 DEF Verify, Verifies, Known, Typed, TypeOK
      <4> QED  BY <1>1, <3>1, <3>2, <4>1 DEF Known, Refunding
    <3>3. CASE pc'[p] = "fail"
      BY <3>3 DEF Known, Refunding
    <3> QED  BY <1>1, <1>2, <3>2, <3>3 DEF Verify, Typed, TypeOK
  <2> QED
    BY <1>1, <1>2, <2>1, <2>2, StepOf DEF Verify, Typed, TypeOK, LocalsOK, Settled
<1>3. CASE VerifyFails(p)
  <2>1. Kept
    BY <1>1, <1>3 DEF VerifyFails, Kept
  <2>2. Known(p)'
    BY <1>1, <1>3 DEF VerifyFails, Known, Refunding, Typed, TypeOK, LocalsOK
  <2> QED
    BY <1>1, <1>3, <2>1, <2>2, StepOf DEF VerifyFails, Typed, TypeOK, LocalsOK, Settled
<1>4. CASE Fail(p)
  <2>1. Kept
    BY <1>1, <1>4 DEF Fail, Kept, Typed, TypeOK, LocalsOK
  <2>2. Known(p)'
    BY <1>1, <1>4 DEF Fail, Known, Refunding, Typed, TypeOK, LocalsOK
  <2> QED
    BY <1>1, <1>4, <2>1, <2>2, StepOf DEF Fail, Typed, TypeOK, LocalsOK, Settled
<1>5. CASE Capture(p)
  <2>0. PICK b \in Bookings : b = target[p]
    BY <1>1, <1>5 DEF Capture, Typed, LocalsOK
  <2>1. /\ payment' = [payment EXCEPT ![b] = "CAPTURED"]
        /\ mixed' = IF orders[order[p]].booking # b THEN mixed \cup {b} ELSE mixed
        /\ pc[p] = "capture" /\ pc' = [pc EXCEPT ![p] = "confirm"]
        /\ UNCHANGED <<gateway, orders, paid, locals>>
    BY <1>5, <2>0 DEF Capture
  <2>2. Kept
    BY <1>1, <2>1 DEF Kept, Typed, TypeOK
  <2>3. order[p] \in paid /\ orders[order[p]].gateway = gateway[b]
    BY <1>1, <2>0, <2>1 DEF Known
  <2>4. PaidFor(b)'
    BY <2>1, <2>3 DEF PaidFor
  <2>5. payment'[b] # "NONE" /\ pc'[p] = "confirm" /\ target'[p] = b
    BY <1>1, <2>0, <2>1 DEF Typed, TypeOK
  <2>6. PaidFor(target[p])'
    BY <2>4, <2>5 DEF PaidFor
  <2>7. Known(p)'
    BY <2>5, <2>6 DEF Known, Refunding
  <2>8. \A c \in Bookings : payment'[c] = payment[c] \/ SettledIsPaid(c)'
    BY <1>1, <2>1, <2>4 DEF SettledIsPaid, Typed, TypeOK
  <2> QED
    BY <1>1, <2>1, <2>2, <2>7, <2>8, StepOf DEF Typed, TypeOK
<1>6. CASE Confirm(p)
  <2>1. Kept
    BY <1>1, <1>6 DEF Confirm, Kept
  <2>2. Known(p)'
    BY <1>1, <1>6 DEF Confirm, Known, Refunding, Typed, TypeOK, LocalsOK
  <2> QED
    BY <1>1, <1>6, <2>1, <2>2, StepOf DEF Confirm, Typed, TypeOK, LocalsOK, Settled
<1> QED  BY <1>2, <1>3, <1>4, <1>5, <1>6

LEMMA DecideBacked ==
    ASSUME Backed, Typed', NEW p \in Handlers, NEW l \in {"approve", "reject", "complete"},
           NEW to, DecideWrite(p, l, to)
    PROVE  Backed'
<1>1. Typed /\ paid \subseteq {o \in Orders : orders[o] # NoOrder}
  BY DEF Backed
<1>2. UNCHANGED <<payment, gateway, paid, orders, mixed>> /\ Leave(p)
  BY DEF DecideWrite, world
<1>3. Kept
  BY <1>1, <1>2 DEF Kept
<1>4. Known(p)'
  BY <1>1, <1>2 DEF Known, Refunding, Leave, Goto, Typed, TypeOK
<1> QED  BY <1>1, <1>2, <1>3, <1>4, StepOf DEF Leave, Goto, Forget, Typed, TypeOK

LEMMA RefundBacked ==
    ASSUME Backed, Typed', NEW p \in Handlers,
           \/ CancelWrite(p) \/ RefundRead(p) \/ RefundGateway(p)
           \/ RefundFails(p) \/ RefundInsert(p) \/ RefundStatus(p)
    PROVE  Backed'
<1> USE PaymentsAssumption
    DEF At, Goto, Leave, Forget, UpdatePayment, rows, world, locals, history
<1>1. Typed /\ Known(p) /\ paid \subseteq {o \in Orders : orders[o] # NoOrder}
  BY DEF Backed
<1>2. CASE CancelWrite(p)
  <2>1. Kept
    BY <1>1, <1>2 DEF CancelWrite, Kept
  <2>2. Known(p)'
    BY <1>1, <1>2 DEF CancelWrite, Known, Refunding, Typed, TypeOK, LocalsOK
  <2> QED
    BY <1>1, <1>2, <2>1, <2>2, StepOf DEF CancelWrite, Typed, TypeOK, LocalsOK, Settled
<1>3. CASE RefundRead(p)
  <2>1. Kept
    BY <1>1, <1>3 DEF RefundRead, Kept
  <2>2. Known(p)'
    <3>1. UNCHANGED <<payment, gateway, orders, paid, mixed>> /\ target[p] \in Bookings
      BY <1>1, <1>3 DEF RefundRead, Typed, TypeOK, LocalsOK
    <3>2. CASE payment[target[p]] = "CAPTURED"
      <4>1. PaidFor(target[p])
        BY <3>1, <3>2 DEF Backed, SettledIsPaid, Settled
      <4>2. pc'[p] = "refund_gateway" /\ target'[p] = target[p]
        BY <1>1, <1>3, <3>2 DEF RefundRead, Typed, TypeOK
      <4>3. PaidFor(target[p])'
        BY <3>1, <4>1, <4>2 DEF PaidFor
      <4> QED  BY <3>1, <3>2, <4>2, <4>3 DEF Known
    <3>3. CASE payment[target[p]] # "CAPTURED"
      <4>1. pc'[p] = "idle"
        BY <1>1, <1>3, <3>3 DEF RefundRead, Typed, TypeOK
      <4> QED  BY <4>1 DEF Known, Refunding
    <3> QED  BY <3>2, <3>3
  <2> QED
    BY <1>1, <1>3, <2>1, <2>2, StepOf DEF RefundRead, Typed, TypeOK, LocalsOK, Settled
<1>4. CASE RefundGateway(p)
  <2>1. Kept
    BY <1>1, <1>4 DEF RefundGateway, Kept
  <2>2. Known(p)'
    BY <1>1, <1>4 DEF RefundGateway, Known, Refunding, PaidFor, Typed, TypeOK, LocalsOK
  <2> QED
    BY <1>1, <1>4, <2>1, <2>2, StepOf
       DEF RefundGateway, Typed, TypeOK, LocalsOK, Settled
<1>5. CASE RefundFails(p)
  <2>1. Kept
    BY <1>1, <1>5 DEF RefundFails, Kept
  <2>2. Known(p)'
    BY <1>1, <1>5 DEF RefundFails, Known, Refunding, Typed, TypeOK, LocalsOK
  <2> QED
    BY <1>1, <1>5, <2>1, <2>2, StepOf DEF RefundFails, Typed, TypeOK, LocalsOK, Settled
<1>6. CASE RefundInsert(p)
  <2>1. Kept
    BY <1>1, <1>6 DEF RefundInsert, Kept
  <2>2. Known(p)'
    BY <1>1, <1>6 DEF RefundInsert, Known, Refunding, PaidFor, Typed, TypeOK, LocalsOK
  <2> QED
    BY <1>1, <1>6, <2>1, <2>2, StepOf DEF RefundInsert, Typed, TypeOK, LocalsOK, Settled
<1>7. CASE RefundStatus(p)
  <2>1. Kept
    BY <1>1, <1>7 DEF RefundStatus, Kept, Typed, TypeOK, LocalsOK
  <2>2. Known(p)'
    BY <1>1, <1>7 DEF RefundStatus, Known, Refunding, Typed, TypeOK, LocalsOK
  <2>3. ASSUME NEW b \in Bookings
        PROVE  payment[b] \in Settled \/ payment'[b] \notin Settled \/ SettledIsPaid(b)'
    <3>1. CASE b = target[p]
      <4>1. PaidFor(b)
        BY <1>1, <1>7, <3>1 DEF RefundStatus, Known, Refunding
      <4>2. PaidFor(b)'
        BY <1>7, <4>1 DEF RefundStatus, PaidFor
      <4> QED  BY <4>2 DEF SettledIsPaid
    <3>2. CASE b # target[p]
      BY <1>1, <1>7, <3>2 DEF RefundStatus, Settled, Typed, TypeOK
    <3> QED  BY <3>1, <3>2
  <2> QED
    BY <1>1, <1>7, <2>1, <2>2, <2>3, StepOf DEF RefundStatus, Typed, TypeOK
<1> QED  BY <1>2, <1>3, <1>4, <1>5, <1>6, <1>7

LEMMA WorldBacked ==
    ASSUME Backed, Typed', (\E o \in Orders : Pay(o)) \/ Crash
    PROVE  Backed'
<1> USE DEF rows, world, locals, history
<1>1. Kept
  BY DEF Pay, Crash, Kept, Backed
<1>2. UNCHANGED <<payment, gateway>>
  BY DEF Pay, Crash
<1>3. ASSUME NEW b \in Bookings PROVE SettledIsPaid(b)'
  <2>1. payment[b] \in Settled => payment[b] # "NONE" /\ PaidFor(b)
    BY DEF Backed, SettledIsPaid, Settled
  <2>2. payment[b] \in Settled => PaidFor(b)'
    BY <1>1, <2>1, PaidForStays
  <2> QED  BY <1>2, <2>2 DEF SettledIsPaid
<1>4. paid' \subseteq {o \in Orders : orders'[o] # NoOrder}
  BY <1>1 DEF Kept
<1>5. CASE UNCHANGED <<pc, target, order, via>>
  BY <1>1, <1>3, <1>4, <1>5, OthersKnow DEF Backed
<1>6. CASE Crash
  BY <1>3, <1>4, <1>6 DEF Crash, Known, Refunding, Backed
<1> QED  BY <1>5, <1>6 DEF Pay

LEMMA NextBacked == Backed /\ [Next]_vars => Backed'
<1> SUFFICES ASSUME Backed, [Next]_vars PROVE Backed'
  OBVIOUS
<1>1. Typed'
  BY NextTyped DEF Backed
<1>2. ASSUME NEW p \in Handlers, Request(p) PROVE Backed'
  BY <1>1, <1>2, RequestBacked
<1>3. ASSUME NEW p \in Handlers, Step(p) PROVE Backed'
  BY <1>1, <1>3, OrderBacked, VerifyBacked, DecideBacked, RefundBacked
     DEF Step, Approve, Reject, Complete
<1>4. CASE UNCHANGED vars
  BY <1>1, <1>4 DEF vars, rows, world, locals, history, Backed, Known, SettledIsPaid, PaidFor
<1> QED  BY <1>1, <1>2, <1>3, <1>4, WorldBacked DEF Next

\* However orders, verifications, webhooks, refunds and crashes overtake each
\* other, a payment on record as captured stands for an order that was paid at
\* the gateway on record, and for this booking unless another's was verified.
THEOREM CapturedWasPaid == Spec => []CapturedIsPaid
<1>1. Backed => CapturedIsPaid
  BY DEF Backed, SettledIsPaid, Settled, CapturedIsPaid
<1> QED  BY <1>1, InitBacked, NextBacked, PTL DEF Spec

-----------------------------------------------------------------------------
(* A booking that comes back was paid, or approved before it ended.        *)

Over == {"CANCELLED", "REJECTED"}

\* An approval at work on a booking that ended meanwhile is on record.
OvertakenOnRecord ==
    \A p \in Handlers :
        pc[p] = "approve" /\ bStatus[target[p]] \in Over => target[p] \in overtaken

LEMMA InitOvertaken == Init => OvertakenOnRecord
BY DEF Init, OvertakenOnRecord

\* The other handlers leave an approval its booking, and write no end to it
\* without a record.
LEMMA OvertakenStays ==
    ASSUME Typed, OvertakenOnRecord, NEW p \in Handlers, overtaken \subseteq overtaken',
           pc'[p] = "approve" => bStatus'[target'[p]] \notin Over,
           \A q \in Handlers \ {p} : pc'[q] = pc[q] /\ target'[q] = target[q],
           \/ bStatus' = bStatus
           \/ \E to : to \notin Over /\ bStatus' = [bStatus EXCEPT ![target[p]] = to]
           \/ Ended(target[p]) /\ \E to : bStatus' = [bStatus EXCEPT ![target[p]] = to]
    PROVE  OvertakenOnRecord'
<1> SUFFICES ASSUME NEW q \in Handlers, pc'[q] = "approve", bStatus'[target'[q]] \in Over
             PROVE  target'[q] \in overtaken'
  BY DEF OvertakenOnRecord
<1>1. q # p /\ pc[q] = "approve" /\ target'[q] = target[q] /\ target[q] \in Bookings
  BY DEF Typed, LocalsOK
<1>2. CASE bStatus'[target[q]] = bStatus[target[q]]
  BY <1>1, <1>2 DEF OvertakenOnRecord
<1>3. CASE bStatus'[target[q]] # bStatus[target[q]]
  <2>1. target[q] = target[p] /\ Ended(target[p])
    BY <1>1, <1>3 DEF Typed, TypeOK
  <2> QED  BY <1>1, <2>1 DEF Ended, At
<1> QED  BY <1>2, <1>3

LEMMA NextOvertaken ==
    ASSUME Typed, OvertakenOnRecord, [Next]_vars
    PROVE  OvertakenOnRecord'
<1> USE DEF At, Goto, Leave, Forget, rows, world, locals, history
<1>1. ASSUME NEW p \in Handlers, Request(p) PROVE OvertakenOnRecord'
  <2>1. UNCHANGED <<bStatus, overtaken>>
    BY <1>1 DEF Request, OrderCall, VerifyCall, Webhook, VerifyRead, CancelRead,
                ApproveRead, RejectRead, CompleteRead, DecideRead
  <2>2. \A q \in Handlers \ {p} : pc'[q] = pc[q] /\ target'[q] = target[q]
    BY <1>1 DEF Request, OrderCall, VerifyCall, Webhook, VerifyRead, CancelRead,
                ApproveRead, RejectRead, CompleteRead, DecideRead, Typed, TypeOK
  <2>3. pc'[p] = "approve" => bStatus[target'[p]] \notin Over
    BY <1>1 DEF Request, OrderCall, VerifyCall, Webhook, VerifyRead, CancelRead, Over,
                ApproveRead, RejectRead, CompleteRead, DecideRead, Typed, TypeOK
  <2> QED  BY <2>1, <2>2, <2>3, OvertakenStays
<1>2. ASSUME NEW p \in Handlers, Approve(p) \/ Reject(p) \/ Complete(p)
      PROVE  OvertakenOnRecord'
  <2>1. /\ \A q \in Handlers \ {p} : pc'[q] = pc[q] /\ target'[q] = target[q]
        /\ pc'[p] = "idle" /\ overtaken \subseteq overtaken'
    BY <1>2 DEF Approve, Reject, Complete, DecideWrite, Ended, Typed, TypeOK
  <2>2. \/ \E to : to \notin Over /\ bStatus' = [bStatus EXCEPT ![target[p]] = to]
        \/ Ended(target[p]) /\ \E to : bStatus' = [bStatus EXCEPT ![target[p]] = to]
    BY <1>2 DEF Approve, Reject, Complete, DecideWrite, Over
  <2> QED  BY <2>1, <2>2, OvertakenStays
<1>3. ASSUME NEW p \in Handlers, CancelWrite(p) PROVE OvertakenOnRecord'
  <2>1. /\ \A q \in Handlers \ {p} : pc'[q] = pc[q] /\ target'[q] = target[q]
        /\ pc'[p] # "approve" /\ overtaken \subseteq overtaken'
    BY <1>3 DEF CancelWrite, Ended, Typed, TypeOK
  <2>2. Ended(target[p]) /\ bStatus' = [bStatus EXCEPT ![target[p]] = "CANCELLED"]
    BY <1>3 DEF CancelWrite
  <2> QED  BY <2>1, <2>2, OvertakenStays
<1>4. ASSUME NEW p \in Handlers, Confirm(p) PROVE OvertakenOnRecord'
  <2>1. /\ \A q \in Handlers \ {p} : pc'[q] = pc[q] /\ target'[q] = target[q]
        /\ pc'[p] # "approve" /\ UNCHANGED overtaken
    BY <1>4 DEF Confirm, Typed, TypeOK
  <2>2. bStatus' = [bStatus EXCEPT ![target[p]] = "CONFIRMED"] /\ "CONFIRMED" \notin Over
    BY <1>4 DEF Confirm, Over
  <2> QED  BY <2>1, <2>2, OvertakenStays
<1>5. ASSUME NEW p \in Handlers, UNCHANGED <<bStatus, overtaken>>, pc'[p] # "approve",
             \A q \in Handlers \ {p} : pc'[q] = pc[q] /\ target'[q] = target[q]
      PROVE  OvertakenOnRecord'
  BY <1>5, OvertakenStays
<1>6. ASSUME NEW p \in Handlers,
             OrderPayment(p) \/ OrderGateway(p) \/ OrderFails(p) \/ OrderRecord(p)
      PROVE  OvertakenOnRecord'
  BY <1>5, <1>6 DEF OrderPayment, OrderGateway, OrderFails, OrderRecord, Typed, TypeOK
<1>7. ASSUME NEW p \in Handlers, Verify(p) \/ VerifyFails(p) \/ Fail(p) \/ Capture(p)
      PROVE  OvertakenOnRecord'
  BY <1>5, <1>7 DEF Verify, VerifyFails, Fail, Capture, Typed, TypeOK
<1>8. ASSUME NEW p \in Handlers,
             \/ RefundRead(p) \/ RefundGateway(p) \/ RefundFails(p)
             \/ RefundInsert(p) \/ RefundStatus(p)
      PROVE  OvertakenOnRecord'
  BY <1>5, <1>8 DEF RefundRead, RefundGateway, RefundFails, RefundInsert, RefundStatus,
                    Typed, TypeOK
<1>9. CASE UNCHANGED <<bStatus, overtaken, pc, target>>
  BY <1>9 DEF OvertakenOnRecord
<1>10. CASE Crash
  BY <1>10 DEF Crash, OvertakenOnRecord
<1> QED  BY <1>1, <1>2, <1>3, <1>4, <1>6, <1>7, <1>8, <1>9, <1>10
         DEF Next, Step, Pay, vars

LEMMA StepRevives ==
    ASSUME Backed, OvertakenOnRecord, [Next]_vars, NEW b \in Bookings,
           bStatus[b] \in Over, bStatus'[b] = "CONFIRMED"
    PROVE  PaidFor(b) \/ b \in overtaken
<1> USE DEF rows, world, locals, history, At, Goto, Leave, Forget
<1>1. Typed
  BY DEF Backed
<1>2. ASSUME NEW p \in Handlers, Confirm(p) PROVE PaidFor(b)
  <2>1. pc[p] = "confirm" /\ Known(p)
    BY <1>2 DEF Confirm, Backed
  <2>2. target[p] = b
    BY <1>1, <1>2, <2>1 DEF Confirm, Typed, TypeOK, Over
  <2> QED  BY <2>1, <2>2 DEF Known
<1>3. ASSUME NEW p \in Handlers, Approve(p) PROVE b \in overtaken
  <2>1. pc[p] = "approve" /\ bStatus' = [bStatus EXCEPT ![target[p]] = "CONFIRMED"]
    BY <1>3 DEF Approve, DecideWrite
  <2>2. target[p] = b
    BY <1>1, <2>1 DEF Typed, TypeOK, Over
  <2> QED  BY <2>1, <2>2 DEF OvertakenOnRecord
<1>4. ASSUME NEW p \in Handlers, CancelWrite(p) \/ Reject(p) \/ Complete(p) PROVE FALSE
  BY <1>1, <1>4 DEF CancelWrite, Reject, Complete, DecideWrite, Over, Typed, TypeOK, LocalsOK
<1>6. bStatus' # bStatus
  BY DEF Over
<1>7. ASSUME NEW p \in Handlers, Request(p) PROVE FALSE
  BY <1>6, <1>7 DEF Request, OrderCall, VerifyCall, Webhook, VerifyRead, CancelRead,
                    ApproveRead, RejectRead, CompleteRead, DecideRead
<1>8. ASSUME NEW p \in Handlers, Step(p) PROVE PaidFor(b) \/ b \in overtaken
  BY <1>2, <1>3, <1>4, <1>6, <1>8
     DEF Step, OrderPayment, OrderGateway, OrderFails, OrderRecord, Verify, VerifyFails,
         Fail, Capture, RefundRead, RefundGateway, RefundFails, RefundInsert, RefundStatus
<1> QED
  BY <1>6, <1>7, <1>8 DEF Next, Pay, Crash, vars

\* However late a payment or an approval completes, a booking that was cancelled
\* or rejected is confirmed by it only if it was paid at the gateway on record,
\* or if the approval had read it before it ended.
THEOREM RevivedWasPaid == Spec => RevivalWasPaid
<1>1. Backed /\ OvertakenOnRecord /\ [Next]_vars =>
         [\A b \in Bookings :
            bStatus[b] \in {"CANCELLED", "REJECTED"} /\ bStatus'[b] = "CONFIRMED" =>
               PaidFor(b) \/ b \in overtaken]_vars
  BY StepRevives DEF Over
<1>2. Backed /\ OvertakenOnRecord /\ [Next]_vars => OvertakenOnRecord'
  BY NextOvertaken DEF Backed
<1> QED  BY <1>1, <1>2, InitBacked, InitOvertaken, NextBacked, PTL DEF Spec, RevivalWasPaid

-----------------------------------------------------------------------------
(* The status of a refund is backed by the record.                         *)

StatusOf(b) ==
    /\ payment[b] = "REFUNDED" => recorded[b] >= Price
    /\ payment[b] = "PARTIALLY_REFUNDED" => recorded[b] > 0

\* What a request that refunds knows: it refunds something, and once it is to write the
\* status the refund is on record.
KnowsDue(p) ==
    /\ pc[p] \in {"refund_read"} \cup Refunding => due[p] > 0
    /\ pc[p] = "refund_status" => recorded[target[p]] >= due[p]

Recorded ==
    /\ Typed
    /\ \A p \in Handlers : KnowsDue(p)
    /\ \A b \in Bookings : StatusOf(b)

LEMMA InitRecorded == Init => Recorded
BY InitTyped DEF Init, Recorded, KnowsDue, StatusOf, Refunding

LEMMA StepRecorded ==
    ASSUME Recorded, Typed', NEW p \in Handlers, Step(p)
    PROVE  Recorded'
<1> USE PaymentsAssumption
    DEF At, Goto, Leave, Forget, UpdatePayment, rows, world, locals, history
<1>1. Typed /\ KnowsDue(p)
  BY DEF Recorded
<1>2. ASSUME UNCHANGED recorded, KnowsDue(p)',
             \A q \in Handlers \ {p} : pc'[q] = pc[q] /\ target'[q] = target[q]
               /\ due'[q] = due[q],
             \A b \in Bookings : \/ payment'[b] = payment[b] \/ StatusOf(b)'
      PROVE  Recorded'
  BY <1>1, <1>2 DEF Recorded, KnowsDue, StatusOf
<1>3. CASE RefundInsert(p)
  <2>1. /\ target[p] \in Bookings /\ due[p] \in Nat
        /\ recorded' = [recorded EXCEPT ![target[p]] = @ + due[p]]
        /\ pc' = [pc EXCEPT ![p] = "refund_status"]
        /\ UNCHANGED <<payment, target, due>>
    BY <1>1, <1>3 DEF RefundInsert, Typed, TypeOK, LocalsOK
  <2>2. \A b \in Bookings : recorded[b] \in Nat /\ recorded'[b] \in Nat
          /\ recorded'[b] >= recorded[b]
    BY <1>1, <2>1 DEF Typed, TypeOK
  <2>3. \A b \in Bookings : StatusOf(b)'
    BY <2>1, <2>2 DEF Recorded, StatusOf
  <2>4. KnowsDue(p)'
    BY <1>1, <1>3, <2>1 DEF KnowsDue, RefundInsert, Refunding, Typed, TypeOK
  <2>5. ASSUME NEW q \in Handlers \ {p} PROVE KnowsDue(q)'
    <3>1. KnowsDue(q) /\ pc'[q] = pc[q] /\ due[q] \in Nat
      BY <1>1, <2>1 DEF Recorded, Typed, TypeOK
    <3>2. pc[q] = "refund_status" => target[q] \in Bookings
      BY <1>1 DEF Typed, LocalsOK
    <3> QED  BY <2>1, <2>2, <3>1, <3>2 DEF KnowsDue
  <2> QED  BY <2>3, <2>4, <2>5 DEF Recorded
<1>4. CASE RefundStatus(p)
  <2>1. ASSUME NEW b \in Bookings PROVE payment'[b] = payment[b] \/ StatusOf(b)'
    BY <1>1, <1>4, <2>1
       DEF RefundStatus, StatusOf, KnowsDue, Refunding, Typed, TypeOK, LocalsOK
  <2> QED  BY <1>1, <1>2, <1>4, <2>1 DEF RefundStatus, KnowsDue, Refunding, Typed, TypeOK
<1>5. CASE CancelWrite(p)
  <2>1. UNCHANGED <<payment, recorded>>
    BY <1>5 DEF CancelWrite
  <2>2. KnowsDue(p)'
    BY <1>1, <1>5 DEF CancelWrite, KnowsDue, Refunding, Typed, TypeOK
  <2> QED  BY <1>1, <1>2, <1>5, <2>1, <2>2 DEF CancelWrite, Typed, TypeOK
<1>6. CASE RefundRead(p)
  <2>1. UNCHANGED <<payment, recorded>>
    BY <1>6 DEF RefundRead
  <2>2. KnowsDue(p)'
    BY <1>1, <1>6 DEF RefundRead, KnowsDue, Refunding, Typed, TypeOK
  <2> QED  BY <1>1, <1>2, <1>6, <2>1, <2>2 DEF RefundRead, Typed, TypeOK
<1>7. CASE RefundGateway(p) \/ RefundFails(p)
  <2>1. KnowsDue(p)'
    BY <1>1, <1>7 DEF RefundGateway, RefundFails, KnowsDue, Refunding, Typed, TypeOK
  <2> QED  BY <1>1, <1>2, <1>7, <2>1 DEF RefundGateway, RefundFails, Typed, TypeOK
<1>8. CASE Verify(p) \/ VerifyFails(p) \/ Fail(p) \/ Capture(p) \/ Confirm(p)
  <2>1. KnowsDue(p)'
    BY <1>1, <1>8 DEF Verify, VerifyFails, Fail, Capture, Confirm, KnowsDue, Refunding, Typed,
       TypeOK
  <2>2. \A b \in Bookings : payment'[b] = payment[b] \/ StatusOf(b)'
    BY <1>1, <1>8 DEF Verify, VerifyFails, Fail, Capture, Confirm, StatusOf, Typed, TypeOK
  <2> QED  BY <1>1, <1>2, <1>8, <2>1, <2>2 DEF Verify, VerifyFails, Fail, Capture, Confirm,
     Typed, TypeOK
<1>9. CASE OrderPayment(p)
  <2>1. UNCHANGED <<payment, recorded>> /\ KnowsDue(p)'
    BY <1>1, <1>9 DEF OrderPayment, KnowsDue, Refunding, Typed, TypeOK
  <2> QED  BY <1>1, <1>2, <1>9, <2>1 DEF OrderPayment, Typed, TypeOK
<1>10. CASE OrderGateway(p) \/ OrderFails(p)
  <2>1. KnowsDue(p)'
    BY <1>1, <1>10 DEF OrderGateway, OrderFails, KnowsDue, Refunding, Typed, TypeOK
  <2> QED  BY <1>1, <1>2, <1>10, <2>1 DEF OrderGateway, OrderFails, Typed, TypeOK
<1>11. CASE OrderRecord(p)
  <2>1. KnowsDue(p)' /\ UNCHANGED recorded
    BY <1>1, <1>11 DEF OrderRecord, KnowsDue, Refunding, Typed, TypeOK
  <2>2. \A b \in Bookings : payment'[b] = payment[b] \/ payment'[b] = "PENDING"
    BY <1>1, <1>11 DEF OrderRecord, Typed, TypeOK
  <2>3. \A b \in Bookings : payment'[b] = payment[b] \/ StatusOf(b)'
    BY <2>2 DEF StatusOf
  <2> QED  BY <1>1, <1>2, <1>11, <2>1, <2>3 DEF OrderRecord, Typed, TypeOK
<1>12. CASE Approve(p) \/ Reject(p) \/ Complete(p)
  <2>1. KnowsDue(p)' /\ UNCHANGED <<payment, recorded>>
    BY <1>1, <1>12 DEF Approve, Reject, Complete, DecideWrite, KnowsDue, Refunding, Typed,
       TypeOK
  <2> QED  BY <1>1, <1>2, <1>12, <2>1 DEF Approve, Reject, Complete, DecideWrite, Typed, TypeOK
<1> QED  BY <1>3, <1>4, <1>5, <1>6, <1>7, <1>8, <1>9, <1>10, <1>11, <1>12 DEF Step

LEMMA NextRecorded == Recorded /\ [Next]_vars => Recorded'
<1> SUFFICES ASSUME Recorded, [Next]_vars PROVE Recorded'
  OBVIOUS
<1> USE DEF rows, world, locals, history, At, Goto
<1>1. Typed' /\ Typed
  BY NextTyped DEF Recorded
<1>2. ASSUME NEW p \in Handlers, Request(p) PROVE Recorded'
  <2>1. UNCHANGED <<payment, recorded>> /\ pc[p] = "idle"
    BY <1>2 DEF Request, OrderCall, VerifyCall, Webhook, VerifyRead, CancelRead,
            ApproveRead, RejectRead, CompleteRead, DecideRead
  <2>2. pc'[p] \in {"order_payment", "verify", "cancel_write", "approve", "reject", "complete"}
    BY <1>1, <1>2 DEF Request, OrderCall, VerifyCall, Webhook, VerifyRead, CancelRead,
            ApproveRead, RejectRead, CompleteRead, DecideRead, Typed, TypeOK
  <2>3. \A q \in Handlers \ {p} : pc'[q] = pc[q] /\ target'[q] = target[q] /\ due'[q] = due[q]
    BY <1>1, <1>2 DEF Request, OrderCall, VerifyCall, Webhook, VerifyRead, CancelRead,
            ApproveRead, RejectRead, CompleteRead, DecideRead, Typed, TypeOK
  <2> QED  BY <1>1, <2>1, <2>2, <2>3 DEF Recorded, KnowsDue, StatusOf, Refunding
<1>3. ASSUME NEW p \in Handlers, Step(p) PROVE Recorded'
  BY <1>1, <1>3, StepRecorded
<1>4. CASE UNCHANGED <<payment, recorded, pc, target, due>>
  BY <1>1, <1>4 DEF Recorded, KnowsDue, StatusOf
<1>5. CASE Crash
  BY <1>1, <1>5 DEF Crash, Recorded, KnowsDue, StatusOf, Refunding
<1> QED  BY <1>2, <1>3, <1>4, <1>5 DEF Next, Pay, vars

\* A payment is recorded as refunded only when the whole price is on record as refunded,
\* and as partially refunded only when something is.
THEOREM RefundsOnRecord == Spec => []RefundStatusBacked
<1>1. Recorded => RefundStatusBacked
  BY DEF Recorded, StatusOf, RefundStatusBacked
<1> QED  BY <1>1, InitRecorded, NextRecorded, PTL DEF Spec

-----------------------------------------------------------------------------
(* The refunds on record were paid back.                                   *)

\* A captured payment has a payment id, and so has the refund of one: the
\* answer of the providers without an id is never given.
Named ==
    /\ Typed
    /\ \A b \in Bookings : payment[b] = "CAPTURED" => paymentRef[b] # None
    /\ \A p \in Handlers : pc[p] = "refund_gateway" => ref[p] # None

\* What a request has paid back and not recorded yet.
InHand == [p \in Handlers |-> IF pc[p] = "refund_insert" THEN due[p] ELSE 0]

Ledger ==
    SumOver(recorded, Bookings) + SumOver(InHand, Handlers) <= SumOver(paidBack, Orders)

LEMMA FiniteSums == IsFiniteSet(Bookings) /\ IsFiniteSet(Handlers) /\ IsFiniteSet(Orders)
BY PaymentsAssumption

LEMMA SumsAreNumbers ==
    ASSUME TypeOK
    PROVE  /\ \A p \in Handlers : InHand[p] \in Nat
           /\ SumOver(recorded, Bookings) \in Int
           /\ SumOver(InHand, Handlers) \in Int
           /\ SumOver(paidBack, Orders) \in Int
<1>1. \A p \in Handlers : InHand[p] \in Nat
  BY PaymentsAssumption DEF InHand, TypeOK
<1>2. (\A o \in Orders : paidBack[o] \in Nat) /\ (\A b \in Bookings : recorded[b] \in Nat)
  BY DEF TypeOK
<1> QED  BY <1>1, <1>2, FiniteSums, SumType

LEMMA InitNamed == Init => Named /\ Ledger
<1> SUFFICES ASSUME Init PROVE Named /\ Ledger
  OBVIOUS
<1>1. Named
  BY InitTyped DEF Init, Named
<1>2. \A p \in Handlers : InHand[p] = 0
  BY DEF Init, InHand
<1>3. /\ \A b \in Bookings : recorded[b] = 0
      /\ \A o \in Orders : paidBack[o] = 0
  BY DEF Init
<1>4. /\ SumOver(InHand, Handlers) = SumOver(InHand, {})
      /\ SumOver(recorded, Bookings) = SumOver(recorded, {})
      /\ SumOver(paidBack, Orders) = SumOver(paidBack, {})
  BY <1>2, <1>3, FiniteSums, SumIgnoresZeroes
<1> QED  BY <1>1, <1>4, SumEmpty DEF Ledger

LEMMA NextNamed == ASSUME Named, [Next]_vars PROVE Named'
<1> USE DEF At, Goto, Leave, Forget, UpdatePayment, rows, world, locals, history
<1>1. Typed /\ Typed'
  BY NextTyped DEF Named
<1>2. ASSUME NEW p \in Handlers, \A q \in Handlers \ {p} : pc'[q] = pc[q] /\ ref'[q] = ref[q],
             pc'[p] = "refund_gateway" => ref'[p] # None,
             \A b \in Bookings : \/ paymentRef'[b] = paymentRef[b]
                                    /\ payment'[b] \in {payment[b], "PENDING", "REFUNDED",
                                                        "PARTIALLY_REFUNDED"}
                                 \/ paymentRef'[b] # None
      PROVE  Named'
  BY <1>1, <1>2 DEF Named
<1>3. ASSUME NEW p \in Handlers, Request(p) PROVE Named'
  <2>1. /\ UNCHANGED <<payment, paymentRef>>
        /\ pc'[p] # "refund_gateway"
        /\ \A q \in Handlers \ {p} : pc'[q] = pc[q] /\ ref'[q] = ref[q]
    BY <1>1, <1>3 DEF Request, OrderCall, VerifyCall, Webhook, VerifyRead, CancelRead,
                      ApproveRead, RejectRead, CompleteRead, DecideRead, Typed, TypeOK
  <2> QED  BY <1>2, <2>1
<1>4. ASSUME NEW p \in Handlers, OrderPayment(p) \/ OrderGateway(p) \/ OrderFails(p)
      PROVE  Named'
  <2>1. UNCHANGED <<payment, paymentRef>>
    BY <1>4 DEF OrderPayment, OrderGateway, OrderFails
  <2> QED  BY <1>1, <1>2, <1>4, <2>1
              DEF OrderPayment, OrderGateway, OrderFails, Typed, TypeOK
<1>5. ASSUME NEW p \in Handlers, OrderRecord(p) PROVE Named'
  <2>1. \A b \in Bookings : payment'[b] \in {payment[b], "PENDING"}
    BY <1>1, <1>5 DEF OrderRecord, Typed, TypeOK
  <2> QED  BY <1>1, <1>2, <1>5, <2>1 DEF OrderRecord, Typed, TypeOK
<1>6. ASSUME NEW p \in Handlers, Verify(p) \/ VerifyFails(p) \/ Confirm(p) PROVE Named'
  BY <1>1, <1>2, <1>6 DEF Verify, VerifyFails, Confirm, Typed, TypeOK
<1>7. ASSUME NEW p \in Handlers, Fail(p) \/ Capture(p) PROVE Named'
  <2>1. /\ target[p] \in Bookings /\ ref[p] # None
        /\ paymentRef' = [paymentRef EXCEPT ![target[p]] = ref[p]]
        /\ \E s : payment' = [payment EXCEPT ![target[p]] = s]
    BY <1>1, <1>7, PaymentsAssumption DEF Fail, Capture, Typed, LocalsOK
  <2>2. \A b \in Bookings : \/ paymentRef'[b] = paymentRef[b] /\ payment'[b] = payment[b]
                            \/ paymentRef'[b] # None
    BY <1>1, <2>1 DEF Typed, TypeOK
  <2>3. /\ \A q \in Handlers \ {p} : pc'[q] = pc[q] /\ ref'[q] = ref[q]
        /\ pc'[p] # "refund_gateway"
    BY <1>1, <1>7 DEF Fail, Capture, Typed, TypeOK
  <2> QED  BY <1>2, <2>2, <2>3
<1>8. ASSUME NEW p \in Handlers, Approve(p) \/ Reject(p) \/ Complete(p) PROVE Named'
  BY <1>1, <1>2, <1>8 DEF Approve, Reject, Complete, DecideWrite, Typed, TypeOK
<1>9. ASSUME NEW p \in Handlers, CancelWrite(p) PROVE Named'
  BY <1>1, <1>2, <1>9 DEF CancelWrite, Typed, TypeOK
<1>10. ASSUME NEW p \in Handlers, RefundRead(p) PROVE Named'
  <2>1. pc'[p] = "refund_gateway" => ref'[p] # None
    BY <1>1, <1>10 DEF RefundRead, Named, Typed, TypeOK, LocalsOK
  <2> QED  BY <1>1, <1>2, <1>10, <2>1 DEF RefundRead, Typed, TypeOK
<1>11. ASSUME NEW p \in Handlers, RefundGateway(p) \/ RefundFails(p) \/ RefundInsert(p)
       PROVE  Named'
  BY <1>1, <1>2, <1>11 DEF RefundGateway, RefundFails, RefundInsert, Typed, TypeOK
<1>12. ASSUME NEW p \in Handlers, RefundStatus(p) PROVE Named'
  <2>1. \A b \in Bookings : payment'[b] \in {payment[b], "REFUNDED", "PARTIALLY_REFUNDED"}
    BY <1>1, <1>12 DEF RefundStatus, Typed, TypeOK
  <2> QED  BY <1>1, <1>2, <1>12, <2>1 DEF RefundStatus, Typed, TypeOK
<1>13. CASE UNCHANGED <<payment, paymentRef, pc, ref>>
  BY <1>1, <1>13 DEF Named
<1>14. CASE Crash
  BY <1>1, <1>14 DEF Crash, Named
<1> QED  BY <1>3, <1>4, <1>5, <1>6, <1>7, <1>8, <1>9, <1>10, <1>11, <1>12, <1>13, <1>14
         DEF Next, Step, Pay, vars

\* The gateway pays back what the request then has in hand.
LEMMA GatewayBalanced ==
    ASSUME Named, Ledger, TypeOK', NEW p \in Handlers, RefundGateway(p)
    PROVE  Ledger'
<1>0. TypeOK
  BY DEF Named, Typed
<1>1. PICK o \in Orders : o = ref[p] /\ o # None /\ o \in paid
  <2>1. ref[p] # None /\ ref[p] \in paid
    BY DEF Named, RefundGateway, At
  <2> QED  BY <1>0, <2>1 DEF TypeOK
<1>2. PICK n \in Nat : n = due[p]
  BY <1>0, PaymentsAssumption DEF TypeOK
<1>3. /\ paidBack' = [paidBack EXCEPT ![o] = @ + n]
      /\ pc[p] = "refund_gateway" /\ pc' = [pc EXCEPT ![p] = "refund_insert"]
      /\ UNCHANGED <<recorded, due>>
  BY <1>1, <1>2 DEF RefundGateway, At, Goto, rows, locals
<1> DEFINE w == InHand v == InHand' x == paidBack y == paidBack'
<1>4. \A q \in Handlers : w[q] \in Int /\ v[q] \in Int /\ (q # p => v[q] = w[q])
  BY <1>0, <1>3, PaymentsAssumption DEF InHand, TypeOK
<1>5. w[p] = 0 /\ v[p] = n
  BY <1>0, <1>2, <1>3 DEF InHand, TypeOK
<1>6. \A q \in Orders : x[q] \in Int /\ y[q] \in Int /\ (q # o => y[q] = x[q])
  BY <1>0, <1>3 DEF TypeOK
<1>7. y[o] = x[o] + n /\ x[o] \in Int
  BY <1>0, <1>3 DEF TypeOK
<1>8. /\ SumOver(w, Handlers) \in Int /\ SumOver(x, Orders) \in Int
      /\ SumOver(recorded, Bookings) \in Int
  BY <1>0, SumsAreNumbers
<1> HIDE DEF w, v, x, y
<1>9. SumOver(v, Handlers) = SumOver(w, Handlers) + (v[p] - w[p])
  BY <1>4, FiniteSums, SumChangeOne
<1>10. SumOver(y, Orders) = SumOver(x, Orders) + (y[o] - x[o])
  BY <1>6, FiniteSums, SumChangeOne
<1>11. SumOver(recorded, Bookings) + SumOver(w, Handlers) <= SumOver(x, Orders)
  BY DEF Ledger, w, x
<1>12. SumOver(recorded, Bookings) + SumOver(v, Handlers) <= SumOver(y, Orders)
  BY <1>2, <1>5, <1>7, <1>8, <1>9, <1>10, <1>11
<1> QED  BY <1>3, <1>12 DEF Ledger, v, y

\* What was in hand goes on record.
LEMMA InsertBalanced ==
    ASSUME Named, Ledger, TypeOK', NEW p \in Handlers, RefundInsert(p)
    PROVE  Ledger'
<1>0. TypeOK /\ LocalsOK
  BY DEF Named, Typed
<1>1. PICK n \in Nat : n = due[p]
  BY <1>0, PaymentsAssumption DEF TypeOK
<1>2. PICK b \in Bookings : b = target[p]
  BY <1>0 DEF RefundInsert, At, LocalsOK
<1>3. /\ recorded' = [recorded EXCEPT ![b] = @ + n]
      /\ pc[p] = "refund_insert" /\ pc' = [pc EXCEPT ![p] = "refund_status"]
      /\ UNCHANGED <<due, paidBack>>
  BY <1>1, <1>2 DEF RefundInsert, At, Goto, world, locals
<1> DEFINE w == InHand v == InHand' x == recorded y == recorded'
<1>4. \A q \in Handlers : w[q] \in Int /\ v[q] \in Int /\ (q # p => v[q] = w[q])
  BY <1>0, <1>3, PaymentsAssumption DEF InHand, TypeOK
<1>5. w[p] = n /\ v[p] = 0
  BY <1>0, <1>1, <1>3 DEF InHand, TypeOK
<1>6. \A c \in Bookings : x[c] \in Int /\ y[c] \in Int /\ (c # b => y[c] = x[c])
  BY <1>0, <1>3 DEF TypeOK
<1>7. y[b] = x[b] + n /\ x[b] \in Int
  BY <1>0, <1>3 DEF TypeOK
<1>8. /\ SumOver(w, Handlers) \in Int /\ SumOver(x, Bookings) \in Int
      /\ SumOver(paidBack, Orders) \in Int
  BY <1>0, SumsAreNumbers
<1> HIDE DEF w, v, x, y
<1>9. SumOver(v, Handlers) = SumOver(w, Handlers) + (v[p] - w[p])
  BY <1>4, FiniteSums, SumChangeOne
<1>10. SumOver(y, Bookings) = SumOver(x, Bookings) + (y[b] - x[b])
  BY <1>6, FiniteSums, SumChangeOne
<1>11. SumOver(x, Bookings) + SumOver(w, Handlers) <= SumOver(paidBack, Orders)
  BY DEF Ledger, w, x
<1>12. SumOver(y, Bookings) + SumOver(v, Handlers) <= SumOver(paidBack, Orders)
  BY <1>1, <1>5, <1>7, <1>8, <1>9, <1>10, <1>11
<1> QED  BY <1>3, <1>12 DEF Ledger, v, y

\* A crash forgets what was in hand.
LEMMA CrashBalanced ==
    ASSUME Named, Ledger, Crash, TypeOK'
    PROVE  Ledger'
<1>0. TypeOK
  BY DEF Named, Typed
<1>1. UNCHANGED <<recorded, paidBack>> /\ pc' = [p \in Handlers |-> "idle"]
  BY DEF Crash, rows, world
<1> DEFINE w == InHand v == InHand'
<1>2. \A p \in Handlers : w[p] \in Int /\ v[p] \in Int /\ v[p] <= w[p]
  <2>1. \A p \in Handlers : w[p] \in Nat
    BY <1>0, SumsAreNumbers
  <2>2. \A p \in Handlers : v[p] = 0
    BY <1>1 DEF InHand
  <2> HIDE DEF w, v
  <2> QED  BY <2>1, <2>2
<1> HIDE DEF w, v
<1>3. SumOver(v, Handlers) <= SumOver(w, Handlers)
  BY <1>2, FiniteSums, SumMonotone
<1>4. SumOver(v, Handlers) \in Int /\ SumOver(w, Handlers) \in Int
  BY <1>2, FiniteSums, SumType
<1>5. SumOver(recorded, Bookings) \in Int /\ SumOver(paidBack, Orders) \in Int
  BY <1>0, SumsAreNumbers
<1>6. SumOver(recorded, Bookings) + SumOver(w, Handlers) <= SumOver(paidBack, Orders)
  BY DEF Ledger, w
<1>7. SumOver(recorded, Bookings) + SumOver(v, Handlers) <= SumOver(paidBack, Orders)
  BY <1>3, <1>4, <1>5, <1>6
<1> QED  BY <1>1, <1>7 DEF Ledger, v

LEMMA NextBalanced == Named /\ Ledger /\ [Next]_vars => Named' /\ Ledger'
<1> SUFFICES ASSUME Named, Ledger, [Next]_vars PROVE Named' /\ Ledger'
  OBVIOUS
<1>1. Named' /\ TypeOK /\ TypeOK'
  BY NextNamed DEF Named, Typed
<1> SUFFICES Ledger'
  BY <1>1
<1> USE DEF rows, world, locals, history
<1>2. ASSUME UNCHANGED <<recorded, paidBack>>, InHand' = InHand PROVE Ledger'
  BY <1>2 DEF Ledger
<1>3. CASE UNCHANGED <<recorded, paidBack, pc, due>>
  <2>1. InHand' = InHand
    BY <1>3 DEF InHand
  <2> QED  BY <1>2, <1>3, <2>1
<1>4. ASSUME NEW p \in Handlers, UNCHANGED <<recorded, paidBack>>,
             pc[p] # "refund_insert", pc'[p] # "refund_insert",
             \A q \in Handlers \ {p} : pc'[q] = pc[q] /\ due'[q] = due[q]
      PROVE  Ledger'
  <2>1. InHand' = InHand
    BY <1>4 DEF InHand
  <2> QED  BY <1>2, <1>4, <2>1
<1>5. ASSUME NEW p \in Handlers, Request(p) PROVE Ledger'
  <2>1. UNCHANGED <<recorded, paidBack>> /\ pc[p] = "idle"
    BY <1>5 DEF Request, OrderCall, VerifyCall, Webhook, VerifyRead, CancelRead,
                ApproveRead, RejectRead, CompleteRead, DecideRead, At
  <2>2. /\ pc'[p] # "refund_insert"
        /\ \A q \in Handlers \ {p} : pc'[q] = pc[q] /\ due'[q] = due[q]
    BY <1>1, <1>5 DEF Request, OrderCall, VerifyCall, Webhook, VerifyRead, CancelRead,
                      ApproveRead, RejectRead, CompleteRead, DecideRead, Goto, TypeOK
  <2> QED  BY <1>4, <2>1, <2>2
<1>6. ASSUME NEW p \in Handlers, Step(p) PROVE Ledger'
  <2> USE DEF Goto, At, Leave, Forget, TypeOK
  <2>1. CASE RefundGateway(p)
    BY <1>1, <2>1, GatewayBalanced
  <2>2. CASE RefundInsert(p)
    BY <1>1, <2>2, InsertBalanced
  <2>3. CASE OrderGateway(p)
    BY <1>1, <1>4, <2>3 DEF OrderGateway
  <2>4. CASE OrderPayment(p)
    BY <1>1, <1>4, <2>4 DEF OrderPayment
  <2>5. CASE OrderFails(p) \/ OrderRecord(p)
    BY <1>1, <1>4, <2>5 DEF OrderFails, OrderRecord
  <2>6. CASE Verify(p) \/ VerifyFails(p)
    BY <1>1, <1>4, <2>6 DEF Verify, VerifyFails
  <2>7. CASE Fail(p) \/ Capture(p) \/ Confirm(p)
    BY <1>1, <1>4, <2>7 DEF Fail, Capture, Confirm
  <2>8. CASE CancelWrite(p)
    BY <1>1, <1>4, <2>8 DEF CancelWrite
  <2>9. CASE RefundRead(p)
    BY <1>1, <1>4, <2>9 DEF RefundRead
  <2>10. CASE RefundFails(p) \/ RefundStatus(p)
    BY <1>1, <1>4, <2>10 DEF RefundFails, RefundStatus
  <2>11. CASE Approve(p) \/ Reject(p) \/ Complete(p)
    BY <1>1, <1>4, <2>11 DEF Approve, Reject, Complete, DecideWrite
  <2> QED
    BY <1>6, <2>1, <2>2, <2>3, <2>4, <2>5, <2>6, <2>7, <2>8, <2>9, <2>10, <2>11 DEF Step
<1>7. CASE Crash
  BY <1>1, <1>7, CrashBalanced
<1> QED  BY <1>3, <1>5, <1>6, <1>7 DEF Next, Pay, vars

\* Whatever requests interleave and whenever the server crashes, the refunds on
\* record add up to no more than the gateways have paid back, whichever payment
\* a row names; the answer a provider gives without a payment id, which would
\* break this, is never given.
THEOREM RefundsWerePaidBack == Spec => []RecordedRefundsAreReal
<1>1. Named /\ Ledger => RecordedRefundsAreReal
  <2> SUFFICES ASSUME Named, Ledger
               PROVE  SumOver(recorded, Bookings) <= SumOver(paidBack, Orders)
    BY DEF RecordedRefundsAreReal, SumBy, SumOver
  <2>1. TypeOK
    BY DEF Named, Typed
  <2> DEFINE zero == [p \in Handlers |-> 0] w == InHand
  <2>2. \A p \in Handlers : zero[p] \in Int /\ w[p] \in Int /\ zero[p] <= w[p] /\ zero[p] = 0
    BY <2>1, SumsAreNumbers
  <2>3. /\ SumOver(recorded, Bookings) \in Int /\ SumOver(w, Handlers) \in Int
        /\ SumOver(paidBack, Orders) \in Int
    BY <2>1, SumsAreNumbers
  <2>4. SumOver(recorded, Bookings) + SumOver(w, Handlers) <= SumOver(paidBack, Orders)
    BY DEF Ledger
  <2> HIDE DEF zero, w
  <2>5. SumOver(zero, Handlers) <= SumOver(w, Handlers)
    BY <2>2, FiniteSums, SumMonotone
  <2>6. SumOver(zero, Handlers) = SumOver(zero, {})
    <3>1. {} \in SUBSET Handlers
      OBVIOUS
    <3> QED  BY <2>2, <3>1, FiniteSums, SumIgnoresZeroes
  <2> QED  BY <2>3, <2>4, <2>5, <2>6, SumEmpty
<1> QED  BY <1>1, InitNamed, NextBalanced, PTL DEF Spec
=============================================================================
