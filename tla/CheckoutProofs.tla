----------------------------- MODULE CheckoutProofs -----------------------------
(***************************************************************************)
(* What Checkout guarantees for any number of bookings, checkouts and      *)
(* seats, whatever fails, is closed or is left while it runs.              *)
(***************************************************************************)
EXTENDS Checkout, TLAPS

\* The bookings the open dialogs are about.
Chosen == {cancelFor, reviewFor} \subseteq Bookings \cup {None}

\* The columns and locals that decide who is charged.
Columns ==
    /\ abandoned \cup twins \subseteq Bookings /\ overtaken \subseteq Calls
    /\ bStatus \in [Bookings -> Statuses]
    /\ payment \in [Bookings -> {"NONE", "PENDING", "CAPTURED", "REFUNDED"}]
    /\ op \in [Calls -> Steps]
    /\ arg \in [Calls -> Bookings \cup {None}]
    /\ Chosen
    /\ \A c \in Calls : op[c] = "cancel" => arg[c] \in Bookings

\* A checkout that has made its booking and may still pay for it.
Paying(c) == op[c] \in {"order", "verify"}

Live(b) == bStatus[b] \in Active

\* A checkout pays for a booking of its own, which is live or was given up unpaid.
Hands ==
    /\ \A c \in Calls : Paying(c) =>
          /\ arg[c] \in Bookings
          /\ Live(arg[c]) \/ arg[c] \in abandoned
          /\ payment[arg[c]] = (IF op[c] = "order" THEN "NONE" ELSE "PENDING")
    /\ \A c, d \in Calls : Paying(c) /\ Paying(d) /\ arg[c] = arg[d] => c = d

\* A row that is not there has no past.
Past == \A b \in Bookings : bStatus[b] = "NONE" =>
            payment[b] = "NONE" /\ b \notin abandoned \cup twins

\* Of two live bookings one was given up unpaid, and revived by its payment, or was
\* inserted by a call that another one overtook.
Single == \A a, b \in Bookings : a # b /\ Live(a) /\ Live(b) =>
              {a, b} \cap (abandoned \cup twins) # {}

\* A call between its check and its INSERT that no other overtook sees no live booking but
\* those given up; where transactions wait for each other there is one such call at most,
\* and none is overtaken.
Races ==
    /\ \A c \in Calls : op[c] = "insert" /\ c \notin overtaken =>
          \A b \in Bookings : Live(b) => b \in abandoned
    /\ Serialized => /\ twins = {}
                     /\ \A c \in Calls : op[c] = "insert" => c \notin overtaken
                     /\ \A c, d \in Calls : op[c] = "insert" /\ op[d] = "insert" => c = d

Inv == Columns /\ Hands /\ Past /\ Single /\ Races

\* Nothing is charged or booked before the first step.
LEMMA InitInv == Init => Inv
<1> SUFFICES ASSUME Init PROVE Inv
  OBVIOUS
<1>1. Columns
  BY CheckoutAssumption DEF Init, Columns, Chosen, Statuses, Steps
<1>2. Hands
  BY DEF Init, Hands, Paying
<1>3. Past /\ Single /\ Races
  BY CheckoutAssumption DEF Init, Past, Single, Races, Live, Active
<1> QED  BY <1>1, <1>2, <1>3 DEF Inv

\* A step that leaves the rows alone, and after which no checkout pays or is about to insert
\* that did not before, keeps the invariant.
LEMMA RowsKept ==
    ASSUME Inv, Columns', UNCHANGED <<bStatus, payment, abandoned, race>>,
           \A c \in Calls : Paying(c)' => op'[c] = op[c] /\ arg'[c] = arg[c],
           \A c \in Calls : op'[c] = "insert" => op[c] = "insert"
    PROVE  Inv'
<1>1. Hands'
  BY DEF Inv, Hands, Paying, Live
<1>2. Past' /\ Single'
  BY DEF Inv, Past, Single, Live, race
<1>3. Races'
  BY DEF Inv, Races, Live, race
<1> QED  BY <1>1, <1>2, <1>3 DEF Inv

\* The same for a step of the page, which changes no call.
LEMMA CallsKept ==
    ASSUME Inv, UNCHANGED <<bStatus, payment, abandoned, race, op, arg>>,
           Chosen'
    PROVE  Inv'
<1>1. Columns'
  BY DEF Inv, Columns, race
<1> QED  BY <1>1, RowsKept DEF race

\* The same for a step of one call that ends, or goes on without a payment.
LEMMA CallGoesOn ==
    ASSUME Inv, UNCHANGED <<bStatus, payment, abandoned, race>>,
           Chosen',
           NEW c \in Calls, NEW o \in Steps \ {"insert", "order", "verify"}, Goto(c, o),
           NEW b \in Bookings \cup {None}, arg' = [arg EXCEPT ![c] = b],
           o = "cancel" => b \in Bookings
    PROVE  Inv'
<1>1. Columns'
  BY DEF Inv, Columns, Goto, race
<1>2. \A d \in Calls : Paying(d)' => op'[d] = op[d] /\ arg'[d] = arg[d]
  BY DEF Inv, Columns, Goto, Paying
<1>3. \A d \in Calls : op'[d] = "insert" => op[d] = "insert"
  BY DEF Inv, Columns, Goto
<1> QED  BY <1>1, <1>2, <1>3, RowsKept

\* Steps of a call that neither book nor pay.
Resting == Steps \ {"insert", "order", "verify", "cancel"}

\* The same for a step of one call that keeps its booking.
LEMMA CallRests ==
    ASSUME Inv, UNCHANGED <<bStatus, payment, abandoned, race, arg, cancelFor, reviewFor>>,
           NEW c \in Calls, NEW o \in Resting, Goto(c, o)
    PROVE  Inv'
<1>1. arg' = [arg EXCEPT ![c] = arg[c]] /\ arg[c] \in Bookings \cup {None}
  BY DEF Inv, Columns
<1>2. Chosen'
  BY DEF Inv, Columns, Chosen
<1> QED  BY <1>1, <1>2, CallGoesOn DEF Resting

\* A booking that is given up is live no more, and if it was not paid then abandoned.
LEMMA GivenUp ==
    ASSUME Inv, Columns', UNCHANGED race,
           \A c \in Calls : Paying(c)' => op'[c] = op[c] /\ arg'[c] = arg[c],
           \A c \in Calls : op'[c] = "insert" => op[c] = "insert",
           NEW b \in Bookings, NEW s \in {"REJECTED", "CANCELLED"},
           bStatus' = [bStatus EXCEPT ![b] = s],
           abandoned' = IF payment[b] = "CAPTURED" THEN abandoned ELSE abandoned \cup {b},
           \/ payment[b] = "CAPTURED" /\ payment' = [payment EXCEPT ![b] = "REFUNDED"]
           \/ UNCHANGED payment
    PROVE  Inv'
<1>1. \A a \in Bookings \ {b} : bStatus'[a] = bStatus[a] /\ payment'[a] = payment[a]
                                /\ (a \in abandoned' <=> a \in abandoned)
  BY DEF Columns
<1>2. bStatus'[b] = s /\ (payment[b] # "CAPTURED" => payment'[b] = payment[b] /\
        b \in abandoned')
  BY DEF Columns
<1>3. ~Live(b)' /\ \A a \in Bookings \ {b} : Live(a)' <=> Live(a)
  BY <1>1, <1>2 DEF Live, Active
<1>4. Hands'
  BY <1>1, <1>2, <1>3 DEF Inv, Hands, Paying
<1>5. Past'
  BY <1>1, <1>2 DEF Inv, Past, race
<1>6. Single'
  BY <1>1, <1>3 DEF Inv, Single, race
<1>7. Races'
  BY <1>1, <1>3 DEF Inv, Races, race
<1> QED  BY <1>4, <1>5, <1>6, <1>7 DEF Inv

\* Every step of the page, of its calls, of the server and of the driver keeps the
\* invariant.
LEMMA Step == Inv /\ [Next]_vars => Inv'
<1> SUFFICES ASSUME Inv, [Next]_vars PROVE Inv'
  OBVIOUS
<1> USE DEF Inv, server, rows, race, detail, mine, calls, history
<1>1. ASSUME NEW c \in Calls, NEW p \in {"detail", "bookings"}, Visit(c, p) PROVE Inv'
  <2>1. LoadOf(p) \in Steps \ {"insert", "order", "verify", "cancel"}
    BY DEF LoadOf, Steps
  <2>2. arg' = [arg EXCEPT ![c] = arg[c]] /\ arg[c] \in Bookings \cup {None}
    BY <1>1 DEF Visit, Columns
  <2>3. UNCHANGED <<bStatus, payment, abandoned, race>> /\ Goto(c, LoadOf(p)) /\ Chosen'
    BY <1>1 DEF Visit, Chosen
  <2> QED  BY <2>1, <2>2, <2>3, CallGoesOn
<1>2. ASSUME NEW c \in Calls, Read(c) PROVE Inv'
  <2>1. PICK o \in {"loaded", "not_loaded"} : Goto(c, o)
    BY <1>2 DEF Read
  <2>2. arg' = [arg EXCEPT ![c] = arg[c]] /\ arg[c] \in Bookings \cup {None}
    BY <1>2 DEF Read, Columns
  <2> QED  BY <1>2, <2>1, <2>2, CallGoesOn DEF Read, Steps, Columns, Chosen
<1>3. ASSUME NEW c \in Calls, End(c), UNCHANGED <<bStatus, payment, abandoned, race>>,
             Chosen'
      PROVE  Inv'
  <2>1. "idle" \in Steps \ {"insert", "order", "verify"}
    BY DEF Steps
  <2> QED  BY <1>3, <2>1, CallGoesOn DEF End
<1>4. ASSUME NEW c \in Calls, Loaded(c) \/ Unpaid(c) \/ NotCancelled(c) \/ NotReviewed(c)
      PROVE  Inv'
  BY <1>3, <1>4 DEF Loaded, Unpaid, NotCancelled, NotReviewed, Columns, Chosen
<1>5. ASSUME NEW c \in Calls, Book(c) PROVE Inv'
  <2>1. UNCHANGED <<bStatus, payment, abandoned, twins, arg, cancelFor, reviewFor>>
    BY <1>5 DEF Book
  <2>2. CASE UNCHANGED overtaken /\ Goto(c, "unpaid")
    <3>1. "unpaid" \in Resting
      BY DEF Resting, Steps
    <3> QED  BY <2>1, <2>2, <3>1, CallRests
  <2>3. CASE /\ Unlocked /\ MayBook(seats[c]) /\ op[c] = "book"
             /\ overtaken' = overtaken \ {c} /\ Goto(c, "insert")
    <3>1. Columns'
      BY <2>1, <2>3 DEF Columns, Chosen, Goto, Steps
    <3>2. \A d \in Calls : op'[d] = IF d = c THEN "insert" ELSE op[d]
      BY <2>3 DEF Goto, Columns
    <3>3. Hands'
      BY <2>1, <3>2 DEF Hands, Paying, Live
    <3>4. Past' /\ Single'
      BY <2>1 DEF Past, Single, Live
    <3>5. Races'
      BY <2>1, <2>3, <3>2 DEF Races, Live, MayBook, Unlocked
    <3> QED  BY <3>1, <3>3, <3>4, <3>5
  <2> QED  BY <1>5, <2>2, <2>3 DEF Book
<1>5a. ASSUME NEW c \in Calls, Insert(c) PROVE Inv'
  <2>1. UNCHANGED <<payment, abandoned, cancelFor, reviewFor>> /\ op[c] = "insert"
    BY <1>5a DEF Insert
  <2>2. CASE UNCHANGED <<bStatus, race, arg>> /\ Goto(c, "unpaid")
    <3>1. "unpaid" \in Resting
      BY DEF Resting, Steps
    <3> QED  BY <2>1, <2>2, <3>1, CallRests
  <2>3. ASSUME NEW b \in Bookings, bStatus[b] = "NONE",
               bStatus' = [bStatus EXCEPT ![b] = IF AutoAccept THEN "CONFIRMED"
                                                 ELSE "REQUESTED"],
               twins' = IF c \in overtaken THEN twins \cup {b} ELSE twins,
               overtaken' = (overtaken \cup {d \in Calls : op[d] = "insert"}) \ {c},
               \/ arg' = [arg EXCEPT ![c] = b] /\ Goto(c, "order")
               \/ UNCHANGED arg /\ Goto(c, "unpaid")
        PROVE  Inv'
    <3>1. Columns'
      BY <2>1, <2>3 DEF Columns, Chosen, Goto, Statuses, Steps
    <3>2. ~Live(b) /\ Live(b)' /\ \A a \in Bookings \ {b} : Live(a)' <=> Live(a)
      BY <2>3 DEF Columns, Live, Active
    <3>3. \A d \in Calls : Paying(d) => arg[d] # b
      BY <2>3, <3>2 DEF Hands, Past
    <3>4. \A d \in Calls \ {c} : op'[d] = op[d] /\ arg'[d] = arg[d]
      BY <2>3 DEF Goto, Columns
    <3>5. op'[c] # "insert" /\ (Paying(c)' => op'[c] = "order" /\ arg'[c] = b)
      BY <2>3 DEF Goto, Columns, Paying
    <3>6. \A d \in Calls \ {c} : Paying(d)' <=> Paying(d)
      BY <3>4 DEF Paying
    <3>7. Hands'
      BY <2>1, <2>3, <3>2, <3>3, <3>4, <3>5, <3>6 DEF Hands, Past
    <3>8. Past'
      BY <2>1, <2>3 DEF Past, Columns
    <3>9. Single'
      <4>1. CASE c \in overtaken
        BY <2>1, <2>3, <3>2, <4>1 DEF Single
      <4>2. CASE c \notin overtaken
        <5>1. \A a \in Bookings \ {b} : Live(a) => a \in abandoned
          BY <2>1, <4>2 DEF Races
        <5> QED  BY <2>1, <2>3, <3>2, <4>2, <5>1 DEF Single
      <4> QED  BY <4>1, <4>2
    <3>10. Races'
      <4>1. \A d \in Calls : op'[d] = "insert" => d # c /\ op[d] = "insert" /\ d \in overtaken'
        BY <2>3, <3>4, <3>5
      <4>2. Serialized => twins' = {} /\ \A d \in Calls : op'[d] # "insert"
        BY <2>1, <2>3, <4>1 DEF Races
      <4> QED  BY <4>1, <4>2 DEF Races
    <3> QED  BY <3>1, <3>7, <3>8, <3>9, <3>10
  <2> QED  BY <1>5a, <2>2, <2>3 DEF Insert
<1>6. ASSUME NEW c \in Calls, Order(c) PROVE Inv'
  <2>1. CASE UNCHANGED payment /\ Goto(c, "unpaid")
    <3>1. UNCHANGED <<bStatus, payment, abandoned, race, arg, cancelFor, reviewFor>>
      BY <1>6, <2>1 DEF Order
    <3>2. "unpaid" \in Resting
      BY DEF Resting, Steps
    <3> QED  BY <2>1, <3>1, <3>2, CallRests
  <2>2. ASSUME payment' = [payment EXCEPT ![arg[c]] = "PENDING"],
               NEW o \in {"verify", "unpaid"}, Goto(c, o)
        PROVE  Inv'
    <3>1. UNCHANGED <<bStatus, abandoned, race, arg, cancelFor, reviewFor>> /\ Paying(c)
      BY <1>6 DEF Order, Paying
    <3>2. arg[c] \in Bookings /\ (Live(arg[c]) \/ arg[c] \in abandoned)
      BY <3>1 DEF Hands
    <3>3. Columns'
      BY <2>2, <3>1 DEF Columns, Chosen, Goto, Steps
    <3>4. \A d \in Calls : op'[d] = IF d = c THEN o ELSE op[d]
      BY <2>2 DEF Goto, Columns
    <3>5. \A d \in Calls \ {c} : Paying(d)' => Paying(d) /\ arg[d] # arg[c]
      BY <3>1, <3>4 DEF Paying, Hands
    <3>6. \A b \in Bookings : payment'[b] = IF b = arg[c] THEN "PENDING" ELSE payment[b]
      BY <2>2 DEF Columns
    <3>7. \A b \in Bookings : Live(b)' <=> Live(b)
      BY <3>1 DEF Live
    <3>8. Hands'
      BY <3>1, <3>2, <3>4, <3>5, <3>6, <3>7 DEF Hands
    <3>9. Past' /\ Single'
      BY <3>1, <3>2, <3>6, <3>7 DEF Past, Single, Live, Active
    <3>10. Races'
      BY <2>2, <3>1, <3>4, <3>7 DEF Races
    <3> QED  BY <3>3, <3>8, <3>9, <3>10
  <2> QED  BY <1>6, <2>1, <2>2 DEF Order
<1>7. ASSUME NEW c \in Calls, Verify(c) PROVE Inv'
  <2>1. CASE UNCHANGED <<payment, bStatus>> /\ Goto(c, "unpaid")
    <3>1. UNCHANGED <<bStatus, payment, abandoned, race, arg, cancelFor, reviewFor>>
      BY <1>7, <2>1 DEF Verify
    <3>2. "unpaid" \in Resting
      BY DEF Resting, Steps
    <3> QED  BY <2>1, <3>1, <3>2, CallRests
  <2>2. ASSUME payment' = [payment EXCEPT ![arg[c]] = "CAPTURED"],
               bStatus' = IF payment[arg[c]] = "CAPTURED" THEN bStatus
                          ELSE [bStatus EXCEPT ![arg[c]] = "CONFIRMED"],
               NEW o \in {"paid", "unpaid"}, Goto(c, o)
        PROVE  Inv'
    <3>1. UNCHANGED <<abandoned, race, arg, cancelFor, reviewFor>> /\ Paying(c)
      BY <1>7 DEF Verify, Paying
    <3>2. arg[c] \in Bookings /\ (Live(arg[c]) \/ arg[c] \in abandoned)
      BY <3>1 DEF Hands
    <3>3. Columns'
      BY <2>2, <3>1 DEF Columns, Chosen, Goto, Steps, Statuses
    <3>4. \A d \in Calls : op'[d] = IF d = c THEN o ELSE op[d]
      BY <2>2 DEF Goto, Columns
    <3>5. ~Paying(c)' /\ \A d \in Calls \ {c} : Paying(d)' => Paying(d) /\ arg[d] # arg[c]
      BY <3>1, <3>4 DEF Paying, Hands
    <3>6. \A b \in Bookings \ {arg[c]} : payment'[b] = payment[b] /\ bStatus'[b] = bStatus[b]
      BY <2>2
    <3>7. \A b \in Bookings : b # arg[c] => (Live(b)' <=> Live(b))
      BY <3>6 DEF Live
    <3>8. Hands'
      BY <3>1, <3>4, <3>5, <3>6, <3>7 DEF Hands
    <3>9. payment[arg[c]] # "CAPTURED" /\ bStatus'[arg[c]] = "CONFIRMED"
      BY <1>7, <2>2, <3>1, <3>2 DEF Hands, Columns
    <3>10. Past'
      BY <3>1, <3>6, <3>9 DEF Past
    <3>11. Single'
      BY <3>1, <3>2, <3>7 DEF Single
    <3>12. Races'
      BY <2>2, <3>1, <3>2, <3>4, <3>7 DEF Races
    <3> QED  BY <3>3, <3>8, <3>10, <3>11, <3>12
  <2> QED  BY <1>7, <2>1, <2>2 DEF Verify
<1>8. ASSUME NEW c \in Calls, Paid(c) PROVE Inv'
  <2>1. CASE onPage[c]
    <3>1. Goto(c, "load_journey") /\ arg' = [arg EXCEPT ![c] = None]
      BY <1>8, <2>1 DEF Paid
    <3>2. UNCHANGED <<bStatus, payment, abandoned, race, cancelFor, reviewFor>>
      BY <1>8 DEF Paid
    <3>3. "load_journey" \in Steps \ {"insert", "order", "verify", "cancel"} /\ Chosen
      BY DEF Steps, Columns
    <3>4. Chosen'
      BY <3>2, <3>3 DEF Chosen
    <3>5. None \in Bookings \cup {None}
      OBVIOUS
    <3>6. "load_journey" \in Steps \ {"insert", "order", "verify"} /\ "load_journey" # "cancel"
      BY <3>3
    <3> QED  BY ONLY Inv, <3>1, <3>2, <3>4, <3>5, <3>6, CallGoesOn
  <2>2. CASE ~onPage[c]
    BY <1>3, <1>8, <2>2 DEF Paid, Columns, Chosen
  <2> QED  BY <2>1, <2>2
<1>9. ASSUME NEW c \in Calls, Cancel(c) PROVE Inv'
  <2>1. PICK o \in {"cancelled", "not_cancelled"} : Goto(c, o)
    BY <1>9 DEF Cancel
  <2>2. o \in Resting /\ arg[c] \in Bookings
    BY <1>9 DEF Resting, Steps, Cancel, Columns
  <2>3. UNCHANGED <<race, arg, cancelFor, reviewFor>>
    BY <1>9 DEF Cancel
  <2>4. CASE UNCHANGED <<bStatus, payment, abandoned>>
    BY <2>1, <2>2, <2>3, <2>4, CallRests
  <2>5. CASE CancelRow(arg[c])
    <3>1. Columns'
      BY <2>1, <2>2, <2>3, <2>5 DEF CancelRow, Columns, Chosen, Goto, Statuses, Resting
    <3>2. \A d \in Calls : Paying(d)' => op'[d] = op[d] /\ arg'[d] = arg[d]
      BY <2>1, <2>3 DEF Paying, Goto
    <3>3. \A d \in Calls : op'[d] = "insert" => op[d] = "insert"
      BY <2>1, <2>2 DEF Goto, Columns
    <3> QED  BY <2>2, <2>3, <2>5, <3>1, <3>2, <3>3, GivenUp DEF CancelRow
  <2> QED  BY <1>9, <2>4, <2>5 DEF Cancel
<1>10. ASSUME NEW c \in Calls, NEW b \in Bookings \cup {None}, Reload(c, b),
              UNCHANGED <<bStatus, payment, abandoned, race>>, Chosen'
       PROVE  Inv'
  <2>1. "load_list" \in Steps \ {"insert", "order", "verify", "cancel"}
    BY DEF Steps
  <2> QED  BY <1>10, <2>1, CallGoesOn DEF Reload
<1>11. ASSUME NEW c \in Calls, Cancelled(c) \/ Reviewed(c) PROVE Inv'
  <2>1. arg[c] \in Bookings \cup {None} /\ None \in Bookings \cup {None}
    BY DEF Columns
  <2>2. UNCHANGED <<bStatus, payment, abandoned, race>> /\ Chosen'
    BY <1>11 DEF Cancelled, Reviewed, Columns, Chosen
  <2>3. End(c) \/ Reload(c, arg[c]) \/ Reload(c, None)
    BY <1>11 DEF Cancelled, Reviewed
  <2> QED  BY <1>3, <1>10, <2>1, <2>2, <2>3
<1>12. ASSUME NEW c \in Calls, Review(c) PROVE Inv'
  <2>1. PICK o \in {"reviewed", "not_reviewed"} : Goto(c, o)
    BY <1>12 DEF Review
  <2>2. o \in Resting
    BY DEF Resting, Steps
  <2>3. UNCHANGED <<bStatus, payment, abandoned, race, arg, cancelFor, reviewFor>>
    BY <1>12 DEF Review
  <2> QED  BY <2>1, <2>2, <2>3, CallRests
<1>13. ASSUME OpenDialog \/ CloseDialog \/ KeepBooking \/ CloseReview
              \/ \E b \in Bookings : AskCancel(b) \/ OpenReview(b)
       PROVE  Inv'
  <2>1. UNCHANGED <<bStatus, payment, abandoned, race, op, arg>>
    BY <1>13 DEF OpenDialog, CloseDialog, KeepBooking, CloseReview, AskCancel, OpenReview
  <2>2. Chosen'
    BY <1>13 DEF OpenDialog, CloseDialog, KeepBooking, CloseReview, AskCancel, OpenReview,
       Columns, Chosen
  <2> QED  BY <2>1, <2>2, CallsKept
<1>14. ASSUME NEW c \in Calls, NEW o \in {"book", "cancel", "review"},
         NEW b \in Bookings \cup {None},
              NEW n, NEW d, Begin(c, o, b, n, d), o = "cancel" => b \in Bookings,
              UNCHANGED <<bStatus, payment, abandoned, race, cancelFor, reviewFor>>
       PROVE  Inv'
  <2>1. o \in Steps \ {"insert", "order", "verify"} /\ Chosen'
    BY <1>14 DEF Steps, Columns, Chosen
  <2> QED  BY <1>14, <2>1, CallGoesOn DEF Begin
<1>15. ASSUME NEW c \in Calls, NEW n \in 1..MaxSeats, Pay(c, n) PROVE Inv'
  <2>1. Begin(c, "book", None, n, TRUE) /\
          UNCHANGED <<bStatus, payment, abandoned, race, cancelFor, reviewFor>>
    BY <1>15 DEF Pay
  <2> QED  BY <2>1, <1>14
<1>16. ASSUME NEW c \in Calls, ConfirmCancel(c) PROVE Inv'
  <2>1. cancelFor \in Bookings
    BY <1>16 DEF ConfirmCancel, Columns, Chosen
  <2>2. Begin(c, "cancel", cancelFor, 0, FALSE)
        /\ UNCHANGED <<bStatus, payment, abandoned, race, cancelFor, reviewFor>>
    BY <1>16 DEF ConfirmCancel
  <2> QED  BY <2>1, <2>2, <1>14
<1>17. ASSUME NEW c \in Calls, SubmitReview(c) PROVE Inv'
  <2>1. reviewFor \in Bookings
    BY <1>17 DEF SubmitReview, Columns, Chosen
  <2>2. Begin(c, "review", reviewFor, 0, TRUE)
        /\ UNCHANGED <<bStatus, payment, abandoned, race, cancelFor, reviewFor>>
    BY <1>17 DEF SubmitReview
  <2> QED  BY <2>1, <2>2, <1>14
<1>18. ASSUME NEW b \in Bookings, DriverApproves(b) PROVE Inv'
  <2>1. Columns'
    BY <1>18 DEF DriverApproves, Columns, Chosen, Statuses
  <2>2. \A a \in Bookings : Live(a)' <=> Live(a)
    BY <1>18 DEF DriverApproves, Live, Active
  <2>3. Hands'
    BY <1>18, <2>2 DEF DriverApproves, Hands, Paying
  <2>4. Past' /\ Single' /\ Races'
    BY <1>18, <2>2 DEF DriverApproves, Past, Single, Races
  <2> QED  BY <2>1, <2>3, <2>4
<1>19. ASSUME NEW b \in Bookings, DriverRejects(b) PROVE Inv'
  <2>1. Columns'
    BY <1>19 DEF DriverRejects, Columns, Chosen, Statuses
  <2>2. \A d \in Calls : Paying(d)' => op'[d] = op[d] /\ arg'[d] = arg[d]
    BY <1>19 DEF DriverRejects
  <2>3. UNCHANGED <<race, op, payment>> /\ "REJECTED" \in {"REJECTED", "CANCELLED"}
    BY <1>19 DEF DriverRejects
  <2>4. /\ bStatus' = [bStatus EXCEPT ![b] = "REJECTED"]
        /\ abandoned' = IF payment[b] = "CAPTURED" THEN abandoned ELSE abandoned \cup {b}
    BY <1>19 DEF DriverRejects
  <2> QED  BY <2>1, <2>2, <2>3, <2>4, GivenUp
<1>20. ASSUME DriverCompletes PROVE Inv'
  <2>1. Columns'
    BY <1>20 DEF DriverCompletes, Columns, Chosen, Statuses
  <2>2. UNCHANGED <<payment, race, op, arg>> /\ abandoned \subseteq abandoned'
    BY <1>20 DEF DriverCompletes
  <2>3. \A b \in Bookings : /\ Live(b)' => Live(b)
                            /\ Live(b) => Live(b)' \/ payment[b] = "CAPTURED" \/ b \in abandoned'
                            /\ bStatus'[b] = "NONE" <=> bStatus[b] = "NONE"
    BY <1>20 DEF DriverCompletes, Columns, Live, Active
  <2>4. \A b \in Bookings : bStatus[b] = "NONE" => (b \in abandoned' <=> b \in abandoned)
    BY <1>20 DEF DriverCompletes
  <2>5. Hands'
    BY <2>2, <2>3 DEF Hands, Paying
  <2>6. Past' /\ Single' /\ Races'
    BY <2>2, <2>3, <2>4 DEF Past, Single, Races
  <2> QED  BY <2>1, <2>5, <2>6
<1>20a. ASSUME OtherRejected PROVE Inv'
  <2>1. UNCHANGED <<bStatus, payment, abandoned, race, op, arg>> /\ Chosen'
    BY <1>20a DEF OtherRejected, Columns, Chosen
  <2> QED  BY <2>1, CallsKept
<1>21. CASE UNCHANGED vars
  <2>1. UNCHANGED <<bStatus, payment, abandoned, race, op, arg>> /\ Chosen'
    BY <1>21 DEF vars, Columns, Chosen
  <2> QED  BY <2>1, CallsKept
<1> QED
  BY <1>1, <1>2, <1>4, <1>5, <1>5a, <1>6, <1>7, <1>8, <1>9, <1>11, <1>12, <1>13, <1>15, <1>16,
     <1>17, <1>18, <1>19, <1>20, <1>20a, <1>21 DEF Next

\* The invariant holds of every behaviour.
THEOREM Correct == Spec => []Inv
<1>1. Inv /\ [Next]_vars => Inv'
  BY Step
<1> QED  BY <1>1, InitInv, PTL DEF Spec

\* Whatever is tried again, closed or left while it runs, and whatever requests fail, the
\* passenger pays for one active booking of the journey, unless one was given up while its
\* checkout had yet to pay for it or, where transactions do not wait for each other, was
\* inserted by a call that another one overtook between its check and its INSERT.
THEOREM NobodyPaysTwice == Spec => []ChargedOnce
<1>1. Inv => ChargedOnce
  BY DEF Inv, Single, Races, ChargedOnce, Live
<1> QED  BY <1>1, Correct, PTL

-----------------------------------------------------------------------------
(* What the pages show                                                     *)

\* The types of the page, and of what the calls hold of it.
RowShapes ==
    /\ available \in Nat /\ acts \in 0..MaxActs
    /\ bSeats \in [Bookings -> 0..TotalSeats]
    /\ seats \in [Calls -> 0..TotalSeats]
    /\ reviewed \subseteq Bookings
    /\ \A c \in Calls : op[c] = "review" => arg[c] \in Bookings
    /\ \A c \in Calls : op[c] = "insert" => gotSeats[c] \in Nat /\ gotSeats[c] >= seats[c]
PageShapes ==
    /\ page \in {"elsewhere", "detail", "bookings"}
    /\ dialog \in [processing : BOOLEAN, error : BOOLEAN, voucher : BOOLEAN]
    /\ seatsShown \in Nat \cup {None} /\ gotSeats \in [Calls -> Nat \cup {None}]
    /\ listShown \in [Bookings -> Statuses] \cup {None}
    /\ gotList \in [Calls -> [Bookings -> Statuses] \cup {None}]
FlagShapes ==
    /\ over \in BOOLEAN /\ loading \in BOOLEAN /\ failed \in BOOLEAN /\ bookOpen \in BOOLEAN
    /\ isCancelling \in BOOLEAN /\ isSubmitting \in BOOLEAN
    /\ owed \in BOOLEAN /\ moved \in BOOLEAN /\ blurred \in BOOLEAN
    /\ onPage \in [Calls -> BOOLEAN] /\ inDialog \in [Calls -> BOOLEAN]

\* The steps of the calls of either page.
OfDetail == {"load_journey", "loaded", "not_loaded", "book", "insert", "order", "verify",
  "paid", "unpaid"}
OfList   == {"load_list", "loaded", "not_loaded", "cancel", "cancelled", "not_cancelled",
             "review", "reviewed", "not_reviewed"}

\* A call whose page is mounted is one of that page.  Unless loads overlapped, one call
\* loads the page at a time, and the page shows that it does.
Mounted ==
    /\ \A c \in Calls : onPage[c] => \/ page = "detail" /\ op[c] \in OfDetail
                                     \/ page = "bookings" /\ op[c] \in OfList
    /\ ~blurred => /\ \A c, d \in Calls : Loading(c) /\ Loading(d) => c = d
                   /\ \A c \in Calls : Loading(c) => loading

\* A checkout of the page that made its booking, and a cancellation, before they load.
Booked(c)  == onPage[c] /\ op[c] \in {"order", "verify", "paid", "unpaid"} /\ arg[c] # None
GaveUp(c)  == onPage[c] /\ op[c] = "cancelled"

\* With nothing moved or blurred, what a load has been answered and what is shown is what
\* the server has, or a call that changed it will load.
SeatsKnown ==
    page = "detail" /\ ~moved /\ ~blurred /\ (\A c \in Calls : ~Booked(c)) =>
        /\ \A c \in Calls : onPage[c] /\ op[c] = "loaded" => gotSeats[c] = available
        /\ DetailShown => seatsShown = available
ListKnown ==
    page = "bookings" /\ ~moved /\ ~blurred /\ (\A c \in Calls : ~GaveUp(c)) =>
        /\ \A c \in Calls : onPage[c] /\ op[c] = "loaded" => gotList[c] = bStatus
        /\ ListShown => listShown = bStatus

\* The state of a dialog that has just been mounted.
LEMMA FreshDialog == Fresh \in [processing : BOOLEAN, error : BOOLEAN, voucher : BOOLEAN]
BY DEF Fresh

\* Every step keeps the types.
LEMMA ShapesStep == Columns /\ RowShapes /\ PageShapes /\ FlagShapes /\
  [Next]_vars => RowShapes' /\ PageShapes' /\ FlagShapes'
<1> SUFFICES ASSUME Columns, RowShapes, PageShapes, FlagShapes, [Next]_vars
             PROVE  RowShapes' /\ PageShapes' /\ FlagShapes'
  OBVIOUS
<1> USE CheckoutAssumption DEF server, rows, race, detail, mine, calls, history
<1>1. ASSUME NEW c \in Calls, NEW p \in {"detail", "bookings"}, Visit(c, p)
      PROVE  RowShapes' /\ PageShapes' /\ FlagShapes'
  <2>1. RowShapes'
    BY <1>1 DEF Visit, Act, LoadOf, Goto, RowShapes, Columns
  <2>2. PageShapes'
    BY <1>1 DEF Visit, Fresh, PageShapes
  <2>3. FlagShapes'
    BY <1>1 DEF Visit, LoadOf, Goto, Fresh, FlagShapes
  <2> QED  BY <2>1, <2>2, <2>3
<1>2. ASSUME NEW c \in Calls, Read(c) PROVE RowShapes' /\ PageShapes' /\ FlagShapes'
  <2>1. RowShapes'
    BY <1>2 DEF Read, Goto, RowShapes, PageShapes, Columns
  <2>2. PageShapes'
    BY <1>2 DEF Read, PageShapes, RowShapes, Columns
  <2>3. FlagShapes'
    BY <1>2 DEF Read, Goto, FlagShapes
  <2> QED  BY <2>1, <2>2, <2>3
<1>3. ASSUME NEW c \in Calls, Loaded(c) PROVE RowShapes' /\ PageShapes' /\ FlagShapes'
  <2>1. RowShapes'
    BY <1>3 DEF Loaded, End, Goto, RowShapes
  <2>2. PageShapes'
    BY <1>3 DEF Loaded, End, PageShapes
  <2>3. FlagShapes'
    BY <1>3 DEF Loaded, End, Goto, FlagShapes
  <2> QED  BY <2>1, <2>2, <2>3
<1>4. ASSUME NEW c \in Calls, Book(c) PROVE RowShapes' /\ PageShapes' /\ FlagShapes'
  <2>1. RowShapes'
    BY <1>4 DEF Book, MayBook, Goto, RowShapes, PageShapes, Columns
  <2>2. PageShapes'
    BY <1>4 DEF Book, PageShapes, RowShapes
  <2>3. FlagShapes'
    BY <1>4 DEF Book, FlagShapes
  <2> QED  BY <2>1, <2>2, <2>3
<1>4a. ASSUME NEW c \in Calls, Insert(c) PROVE RowShapes' /\ PageShapes' /\ FlagShapes'
  <2>1. RowShapes'
    <3>1. available' \in Nat
      BY <1>4a DEF Insert, RowShapes, PageShapes
    <3>2. bSeats' \in [Bookings -> 0..TotalSeats]
      BY <1>4a DEF Insert, RowShapes
    <3>3. \A d \in Calls : op'[d] = "insert" =>
              op[d] = "insert" /\ d # c /\ gotSeats'[d] = gotSeats[d]
      BY <1>4a DEF Insert, Goto, PageShapes, Columns
    <3>4. \A d \in Calls : op'[d] = "review" => op[d] = "review" /\ arg'[d] = arg[d]
      BY <1>4a DEF Insert, Goto, Columns
    <3> QED  BY <1>4a, <3>1, <3>2, <3>3, <3>4 DEF Insert, RowShapes
  <2>2. PageShapes'
    BY <1>4a DEF Insert, PageShapes
  <2>3. FlagShapes'
    BY <1>4a DEF Insert, Goto, FlagShapes
  <2> QED  BY <2>1, <2>2, <2>3
<1>5. ASSUME NEW c \in Calls, Order(c) PROVE RowShapes' /\ PageShapes' /\ FlagShapes'
  <2>1. RowShapes'
    BY <1>5 DEF Order, Goto, RowShapes, Columns
  <2>2. PageShapes'
    BY <1>5 DEF Order, PageShapes
  <2>3. FlagShapes'
    BY <1>5 DEF Order, FlagShapes
  <2> QED  BY <2>1, <2>2, <2>3
<1>6. ASSUME NEW c \in Calls, Verify(c) PROVE RowShapes' /\ PageShapes' /\ FlagShapes'
  <2>1. RowShapes'
    BY <1>6 DEF Verify, Goto, RowShapes, Columns
  <2>2. PageShapes'
    BY <1>6 DEF Verify, PageShapes
  <2>3. FlagShapes'
    BY <1>6 DEF Verify, Goto, FlagShapes
  <2> QED  BY <2>1, <2>2, <2>3
<1>7. ASSUME NEW c \in Calls, Paid(c) PROVE RowShapes' /\ PageShapes' /\ FlagShapes'
  <2>1. RowShapes'
    BY <1>7 DEF Paid, Goto, End, RowShapes, PageShapes, Columns
  <2>2. PageShapes'
    <3>1. dialog' \in [processing : BOOLEAN, error : BOOLEAN, voucher : BOOLEAN]
      <4>1. dialog' = Fresh \/ dialog' = dialog
        BY <1>7 DEF Paid
      <4> QED  BY <4>1, FreshDialog DEF PageShapes
    <3>2. /\ gotSeats' \in [Calls -> Nat \cup {None}]
          /\ gotList' \in [Calls -> [Bookings -> Statuses] \cup {None}]
      BY <1>7 DEF Paid, End, PageShapes
    <3> QED  BY <1>7, <3>1, <3>2 DEF Paid, PageShapes
  <2>3. FlagShapes'
    BY <1>7 DEF Paid, Goto, End, Fresh, FlagShapes
  <2> QED  BY <2>1, <2>2, <2>3
<1>8. ASSUME NEW c \in Calls, Unpaid(c) PROVE RowShapes' /\ PageShapes' /\ FlagShapes'
  <2>1. RowShapes'
    BY <1>8 DEF Unpaid, Goto, End, RowShapes
  <2>2. PageShapes'
    BY <1>8 DEF Unpaid, Goto, End, PageShapes, RowShapes, Columns, Statuses
  <2>3. FlagShapes'
    BY <1>8 DEF Unpaid, End, FlagShapes
  <2> QED  BY <2>1, <2>2, <2>3
<1>9. ASSUME NEW c \in Calls, Cancel(c) PROVE RowShapes' /\ PageShapes' /\ FlagShapes'
  <2>1. RowShapes'
    BY <1>9 DEF Cancel, CancelRow, Goto, RowShapes, Columns
  <2>2. PageShapes'
    BY <1>9 DEF Cancel, PageShapes
  <2>3. FlagShapes'
    BY <1>9 DEF Cancel, CancelRow, Goto, FlagShapes
  <2> QED  BY <2>1, <2>2, <2>3
<1>10. ASSUME NEW c \in Calls, Cancelled(c) PROVE RowShapes' /\ PageShapes' /\ FlagShapes'
  <2>1. RowShapes'
    BY <1>10 DEF Cancelled, Reload, End, Goto, RowShapes, PageShapes, Columns
  <2>2. PageShapes'
    BY <1>10 DEF Cancelled, Reload, End, PageShapes, RowShapes
  <2>3. FlagShapes'
    BY <1>10 DEF Cancelled, Reload, End, Goto, FlagShapes
  <2> QED  BY <2>1, <2>2, <2>3
<1>11. ASSUME NEW c \in Calls, NotCancelled(c) PROVE RowShapes' /\ PageShapes' /\ FlagShapes'
  <2>1. RowShapes'
    BY <1>11 DEF NotCancelled, End, Goto, RowShapes
  <2>2. PageShapes'
    BY <1>11 DEF NotCancelled, End, PageShapes
  <2>3. FlagShapes'
    BY <1>11 DEF NotCancelled, End, Goto, FlagShapes
  <2> QED  BY <2>1, <2>2, <2>3
<1>12. ASSUME NEW c \in Calls, Review(c) PROVE RowShapes' /\ PageShapes' /\ FlagShapes'
  <2>1. RowShapes'
    BY <1>12 DEF Review, Goto, RowShapes, Columns
  <2>2. PageShapes'
    BY <1>12 DEF Review, PageShapes
  <2>3. FlagShapes'
    BY <1>12 DEF Review, FlagShapes
  <2> QED  BY <2>1, <2>2, <2>3
<1>13. ASSUME NEW c \in Calls, Reviewed(c) PROVE RowShapes' /\ PageShapes' /\ FlagShapes'
  <2>1. RowShapes'
    <3>1. CASE onPage[c]
      BY <1>13, <3>1 DEF Reviewed, Reload, Goto, RowShapes, PageShapes, Columns
    <3>2. CASE ~onPage[c]
      BY <1>13, <3>2 DEF Reviewed, End, Goto, RowShapes, PageShapes, Columns
    <3> QED  BY <3>1, <3>2
  <2>2. PageShapes'
    BY <1>13 DEF Reviewed, Reload, End, PageShapes
  <2>3. FlagShapes'
    BY <1>13 DEF Reviewed, Reload, End, Goto, FlagShapes
  <2> QED  BY <2>1, <2>2, <2>3
<1>14. ASSUME NEW c \in Calls, NotReviewed(c) PROVE RowShapes' /\ PageShapes' /\ FlagShapes'
  <2>1. RowShapes'
    BY <1>14 DEF NotReviewed, End, Goto, RowShapes
  <2>2. PageShapes'
    BY <1>14 DEF NotReviewed, End, PageShapes
  <2>3. FlagShapes'
    BY <1>14 DEF NotReviewed, End, FlagShapes
  <2> QED  BY <2>1, <2>2, <2>3
<1>15. ASSUME OpenDialog PROVE RowShapes' /\ PageShapes' /\ FlagShapes'
  <2>1. RowShapes'
    BY <1>15 DEF OpenDialog, RowShapes
  <2>2. PageShapes'
    BY <1>15 DEF OpenDialog, Fresh, PageShapes
  <2>3. FlagShapes'
    BY <1>15 DEF OpenDialog, FlagShapes
  <2> QED  BY <2>1, <2>2, <2>3
<1>16. ASSUME CloseDialog PROVE RowShapes' /\ PageShapes' /\ FlagShapes'
  <2>1. RowShapes'
    BY <1>16 DEF CloseDialog, RowShapes
  <2>2. PageShapes'
    BY <1>16 DEF CloseDialog, Fresh, PageShapes
  <2>3. FlagShapes'
    BY <1>16 DEF CloseDialog, Fresh, FlagShapes
  <2> QED  BY <2>1, <2>2, <2>3
<1>17. ASSUME NEW c \in Calls, NEW n \in 1..MaxSeats, Pay(c, n)
       PROVE  RowShapes' /\ PageShapes' /\ FlagShapes'
  <2>1. RowShapes'
    BY <1>17 DEF Pay, Act, Begin, Goto, RowShapes
  <2>2. PageShapes'
    BY <1>17 DEF Pay, Begin, Goto, PageShapes, RowShapes, Columns, Statuses
  <2>3. FlagShapes'
    BY <1>17 DEF Pay, Begin, Goto, FlagShapes
  <2> QED  BY <2>1, <2>2, <2>3
<1>18. ASSUME NEW b \in Bookings, AskCancel(b) PROVE RowShapes' /\ PageShapes' /\ FlagShapes'
  <2>1. RowShapes'
    BY <1>18 DEF AskCancel, RowShapes
  <2>2. PageShapes'
    BY <1>18 DEF AskCancel, PageShapes
  <2>3. FlagShapes'
    BY <1>18 DEF AskCancel, FlagShapes
  <2> QED  BY <2>1, <2>2, <2>3
<1>19. ASSUME NEW b \in Bookings, OpenReview(b) PROVE RowShapes' /\ PageShapes' /\ FlagShapes'
  <2>1. RowShapes'
    BY <1>19 DEF OpenReview, RowShapes
  <2>2. PageShapes'
    BY <1>19 DEF OpenReview, PageShapes
  <2>3. FlagShapes'
    BY <1>19 DEF OpenReview, FlagShapes
  <2> QED  BY <2>1, <2>2, <2>3
<1>20. ASSUME KeepBooking PROVE RowShapes' /\ PageShapes' /\ FlagShapes'
  <2>1. RowShapes'
    BY <1>20 DEF KeepBooking, RowShapes
  <2>2. PageShapes'
    BY <1>20 DEF KeepBooking, PageShapes
  <2>3. FlagShapes'
    BY <1>20 DEF KeepBooking, FlagShapes
  <2> QED  BY <2>1, <2>2, <2>3
<1>21. ASSUME CloseReview PROVE RowShapes' /\ PageShapes' /\ FlagShapes'
  <2>1. RowShapes'
    BY <1>21 DEF CloseReview, RowShapes
  <2>2. PageShapes'
    BY <1>21 DEF CloseReview, PageShapes
  <2>3. FlagShapes'
    BY <1>21 DEF CloseReview, FlagShapes
  <2> QED  BY <2>1, <2>2, <2>3
<1>22. ASSUME NEW c \in Calls, ConfirmCancel(c) PROVE RowShapes' /\ PageShapes' /\ FlagShapes'
  <2>1. RowShapes'
    BY <1>22 DEF ConfirmCancel, Act, Begin, Goto, RowShapes
  <2>2. PageShapes'
    BY <1>22 DEF ConfirmCancel, Begin, PageShapes
  <2>3. FlagShapes'
    BY <1>22 DEF ConfirmCancel, Begin, Goto, FlagShapes
  <2> QED  BY <2>1, <2>2, <2>3
<1>23. ASSUME NEW c \in Calls, SubmitReview(c) PROVE RowShapes' /\ PageShapes' /\ FlagShapes'
  <2>1. RowShapes'
    BY <1>23 DEF SubmitReview, Act, Begin, Goto, RowShapes, Columns, Chosen
  <2>2. PageShapes'
    BY <1>23 DEF SubmitReview, Begin, PageShapes
  <2>3. FlagShapes'
    BY <1>23 DEF SubmitReview, Begin, Goto, FlagShapes
  <2> QED  BY <2>1, <2>2, <2>3
<1>24. ASSUME NEW b \in Bookings, DriverApproves(b)
       PROVE  RowShapes' /\ PageShapes' /\ FlagShapes'
  <2>1. RowShapes'
    BY <1>24 DEF DriverApproves, Act, RowShapes, Columns
  <2>2. PageShapes'
    BY <1>24 DEF DriverApproves, PageShapes
  <2>3. FlagShapes'
    BY <1>24 DEF DriverApproves, FlagShapes
  <2> QED  BY <2>1, <2>2, <2>3
<1>25. ASSUME NEW b \in Bookings, DriverRejects(b)
       PROVE  RowShapes' /\ PageShapes' /\ FlagShapes'
  <2>1. RowShapes'
    <3>1. available' \in Nat
      BY <1>25 DEF DriverRejects, RowShapes
    <3> QED  BY <1>25, <3>1 DEF DriverRejects, Act, RowShapes
  <2>2. PageShapes'
    BY <1>25 DEF DriverRejects, PageShapes
  <2>3. FlagShapes'
    BY <1>25 DEF DriverRejects, FlagShapes
  <2> QED  BY <2>1, <2>2, <2>3
<1>26. ASSUME DriverCompletes PROVE RowShapes' /\ PageShapes' /\ FlagShapes'
  <2>1. RowShapes'
    BY <1>26 DEF DriverCompletes, Act, RowShapes, Columns
  <2>2. PageShapes'
    BY <1>26 DEF DriverCompletes, PageShapes
  <2>3. FlagShapes'
    BY <1>26 DEF DriverCompletes, FlagShapes
  <2> QED  BY <2>1, <2>2, <2>3
<1>26a. ASSUME OtherRejected PROVE RowShapes' /\ PageShapes' /\ FlagShapes'
  <2>1. RowShapes'
    <3>1. available' \in Nat
      BY <1>26a DEF OtherRejected, RowShapes
    <3> QED  BY <1>26a, <3>1 DEF OtherRejected, Act, RowShapes
  <2>2. PageShapes'
    BY <1>26a DEF OtherRejected, PageShapes
  <2>3. FlagShapes'
    BY <1>26a DEF OtherRejected, FlagShapes
  <2> QED  BY <2>1, <2>2, <2>3
<1>27. CASE UNCHANGED vars
  <2>1. RowShapes'
    BY <1>27 DEF vars, RowShapes
  <2>2. PageShapes'
    BY <1>27 DEF vars, PageShapes
  <2>3. FlagShapes'
    BY <1>27 DEF vars, FlagShapes
  <2> QED  BY <2>1, <2>2, <2>3
<1> QED  BY <1>1, <1>2, <1>3, <1>4, <1>5, <1>6, <1>7, <1>8, <1>9, <1>10, <1>11, <1>12, <1>13,
            <1>14, <1>15, <1>16, <1>17, <1>18, <1>19, <1>20, <1>21, <1>22, <1>23, <1>24, <1>25,
            <1>4a, <1>26, <1>26a, <1>27 DEF Next

\* Every step leaves the calls with their page, and one load at a time.
LEMMA MountedStep == Columns /\ FlagShapes /\ Mounted /\ [Next]_vars => Mounted'
<1> SUFFICES ASSUME Columns, FlagShapes, Mounted, [Next]_vars PROVE Mounted'
  OBVIOUS
<1> USE CheckoutAssumption DEF server, rows, race, detail, mine, calls, history
<1>1. ASSUME NEW c \in Calls, NEW p \in {"detail", "bookings"}, Visit(c, p) PROVE Mounted'
  BY <1>1 DEF Visit, LoadOf, Goto, Columns, FlagShapes, Mounted, Loading, OfDetail, OfList
<1>2. ASSUME NEW c \in Calls, Read(c) PROVE Mounted'
  BY <1>2 DEF Read, Goto, Columns, Mounted, Loading, Loads, OfDetail, OfList
<1>3. ASSUME NEW c \in Calls, Loaded(c) PROVE Mounted'
  BY <1>3 DEF Loaded, End, Goto, FlagShapes, Mounted, Loading, Loads
<1>4. ASSUME NEW c \in Calls, Book(c) PROVE Mounted'
  BY <1>4 DEF Book, Goto, Columns, Mounted, Loading, Loads, OfDetail, OfList
<1>4a. ASSUME NEW c \in Calls, Insert(c) PROVE Mounted'
  BY <1>4a DEF Insert, Goto, Columns, Mounted, Loading, Loads, OfDetail, OfList
<1>5. ASSUME NEW c \in Calls, Order(c) PROVE Mounted'
  BY <1>5 DEF Order, Goto, Columns, Mounted, Loading, Loads, OfDetail, OfList
<1>6. ASSUME NEW c \in Calls, Verify(c) PROVE Mounted'
  BY <1>6 DEF Verify, Goto, Columns, Mounted, Loading, Loads, OfDetail, OfList
<1>7. ASSUME NEW c \in Calls, Paid(c) PROVE Mounted'
  BY <1>7 DEF Paid, Goto, End, Columns, FlagShapes, Mounted, Loading, OfDetail, OfList
<1>8. ASSUME NEW c \in Calls, Unpaid(c) PROVE Mounted'
  BY <1>8 DEF Unpaid, Goto, End, FlagShapes, Mounted, Loading
<1>9. ASSUME NEW c \in Calls, Cancel(c) PROVE Mounted'
  BY <1>9 DEF Cancel, Goto, Columns, Mounted, Loading, Loads, OfDetail, OfList
<1>10. ASSUME NEW c \in Calls, Cancelled(c) PROVE Mounted'
  BY <1>10 DEF Cancelled, Reload, End, Goto, Columns, FlagShapes, Mounted, Loading, OfDetail,
     OfList
<1>11. ASSUME NEW c \in Calls, NotCancelled(c) PROVE Mounted'
  BY <1>11 DEF NotCancelled, End, Goto, FlagShapes, Mounted, Loading
<1>12. ASSUME NEW c \in Calls, Review(c) PROVE Mounted'
  BY <1>12 DEF Review, Goto, Columns, Mounted, Loading, Loads, OfDetail, OfList
<1>13. ASSUME NEW c \in Calls, Reviewed(c) PROVE Mounted'
  BY <1>13 DEF Reviewed, Reload, End, Goto, Columns, FlagShapes, Mounted, Loading, OfDetail,
     OfList
<1>14. ASSUME NEW c \in Calls, NotReviewed(c) PROVE Mounted'
  BY <1>14 DEF NotReviewed, End, Goto, FlagShapes, Mounted, Loading
<1>15. ASSUME OpenDialog PROVE Mounted'
  BY <1>15 DEF OpenDialog, Mounted, Loading
<1>16. ASSUME CloseDialog PROVE Mounted'
  BY <1>16 DEF CloseDialog, Mounted, Loading
<1>17. ASSUME NEW c \in Calls, NEW n \in 1..MaxSeats, Pay(c, n) PROVE Mounted'
  BY <1>17 DEF Pay, Begin, Goto, Columns, Mounted, Loading, Loads, OfDetail, DialogShown,
     DetailShown, CanPay
<1>18. ASSUME NEW b \in Bookings, AskCancel(b) PROVE Mounted'
  BY <1>18 DEF AskCancel, Mounted, Loading
<1>19. ASSUME NEW b \in Bookings, OpenReview(b) PROVE Mounted'
  BY <1>19 DEF OpenReview, Mounted, Loading
<1>20. ASSUME KeepBooking PROVE Mounted'
  BY <1>20 DEF KeepBooking, Mounted, Loading
<1>21. ASSUME CloseReview PROVE Mounted'
  BY <1>21 DEF CloseReview, Mounted, Loading
<1>22. ASSUME NEW c \in Calls, ConfirmCancel(c) PROVE Mounted'
  BY <1>22 DEF ConfirmCancel, Begin, Goto, Columns, Mounted, Loading, Loads, OfList
<1>23. ASSUME NEW c \in Calls, SubmitReview(c) PROVE Mounted'
  BY <1>23 DEF SubmitReview, Begin, Goto, Columns, Mounted, Loading, Loads, OfList
<1>24. ASSUME NEW b \in Bookings, DriverApproves(b) PROVE Mounted'
  BY <1>24 DEF DriverApproves, Mounted, Loading
<1>25. ASSUME NEW b \in Bookings, DriverRejects(b) PROVE Mounted'
  BY <1>25 DEF DriverRejects, Mounted, Loading
<1>26. ASSUME DriverCompletes PROVE Mounted'
  BY <1>26 DEF DriverCompletes, Mounted, Loading
<1>26a. ASSUME OtherRejected PROVE Mounted'
  BY <1>26a DEF OtherRejected, Mounted, Loading
<1>27. CASE UNCHANGED vars
  BY <1>27 DEF vars, Mounted, Loading
<1> QED  BY <1>1, <1>2, <1>3, <1>4, <1>5, <1>6, <1>7, <1>8, <1>9, <1>10, <1>11, <1>12, <1>13,
            <1>14, <1>15, <1>16, <1>17, <1>18, <1>19, <1>20, <1>21, <1>22, <1>23, <1>24, <1>25,
            <1>4a, <1>26, <1>26a, <1>27 DEF Next

\* Every step keeps what is known of the pages.
LEMMA KnownStep ==
    ASSUME Columns, FlagShapes, PageShapes, Mounted, SeatsKnown, ListKnown, [Next]_vars
    PROVE  SeatsKnown' /\ ListKnown'
<1> USE CheckoutAssumption DEF server, rows, race, detail, mine, calls, history
<1>1. ASSUME NEW c \in Calls, NEW p \in {"detail", "bookings"}, Visit(c, p)
      PROVE  SeatsKnown' /\ ListKnown'
  <2>1. SeatsKnown'
    BY <1>1 DEF Visit, LoadOf, Goto, FlagShapes, Mounted, SeatsKnown, OfList, DetailShown
  <2>2. ListKnown'
    BY <1>1 DEF Visit, LoadOf, Goto, FlagShapes, Mounted, ListKnown, OfDetail, ListShown
  <2> QED  BY <2>1, <2>2
<1>2. ASSUME NEW c \in Calls, Read(c) PROVE SeatsKnown' /\ ListKnown'
  <2>1. SeatsKnown'
    BY <1>2 DEF Read, Goto, Columns, FlagShapes, PageShapes, Mounted, SeatsKnown, Loading,
       Loads, OfDetail, DetailShown, Booked
  <2>2. ListKnown'
    BY <1>2 DEF Read, Goto, Columns, FlagShapes, PageShapes, Mounted, ListKnown, Loading,
       Loads, OfList, ListShown, GaveUp
  <2> QED  BY <2>1, <2>2
<1>3. ASSUME NEW c \in Calls, Loaded(c) PROVE SeatsKnown' /\ ListKnown'
  <2>1. SeatsKnown'
    BY <1>3 DEF Loaded, End, Goto, FlagShapes, SeatsKnown, DetailShown, Booked
  <2>2. ListKnown'
    BY <1>3 DEF Loaded, End, Goto, FlagShapes, ListKnown, ListShown, GaveUp
  <2> QED  BY <2>1, <2>2
<1>4. ASSUME NEW c \in Calls, Book(c) PROVE SeatsKnown' /\ ListKnown'
  <2>1. SeatsKnown'
    <3>1. UNCHANGED <<page, loading, failed, seatsShown, available, onPage, arg, moved, blurred>>
      BY <1>4 DEF Book
    <3>2. \A d \in Calls : op'[d] = "loaded" => op[d] = "loaded" /\ gotSeats'[d] = gotSeats[d]
      BY <1>4 DEF Book, Goto, PageShapes, Columns
    <3>3. \A d \in Calls : Booked(d) => Booked(d)'
      BY <1>4 DEF Book, Goto, Columns, Booked
    <3> QED  BY <3>1, <3>2, <3>3 DEF SeatsKnown, DetailShown
  <2>2. ListKnown'
    BY <1>4 DEF Book, Goto, Columns, ListKnown, ListShown, GaveUp
  <2> QED  BY <2>1, <2>2
<1>4a. ASSUME NEW c \in Calls, Insert(c) PROVE SeatsKnown' /\ ListKnown'
  <2>1. SeatsKnown'
    <3>1. /\ op[c] = "insert" /\ \E l \in {"order", "unpaid"} : Goto(c, l)
          /\ UNCHANGED <<page, loading, failed, seatsShown, onPage, blurred>>
      BY <1>4a DEF Insert
    <3>2. \/ moved'
          \/ arg'[c] # None /\ op'[c] = "order" /\ onPage'[c]
          \/ UNCHANGED <<available, arg, moved>>
      <4>1. \/ /\ moved' = (moved \/ ~onPage[c]) /\ Goto(c, "order")
               /\ \E b \in Bookings : arg' = [arg EXCEPT ![c] = b]
            \/ moved' = TRUE
            \/ UNCHANGED <<available, arg, moved>>
        BY <1>4a DEF Insert
      <4> QED  BY <3>1, <4>1 DEF Goto, Columns
    <3>3. CASE moved'
      BY <3>3 DEF SeatsKnown
    <3>4. CASE arg'[c] # None /\ op'[c] = "order" /\ onPage'[c]
      BY <3>4 DEF SeatsKnown, Booked
    <3>5. CASE UNCHANGED <<available, arg, moved>>
      <4>1. \A d \in Calls : Booked(d) => Booked(d)'
        BY <3>1, <3>5 DEF Goto, Booked
      <4>2. \A d \in Calls : op'[d] = "loaded" => op[d] = "loaded" /\ gotSeats'[d] = gotSeats[d]
        BY <1>4a, <3>1 DEF Insert, Goto, PageShapes, Columns
      <4> QED  BY <3>1, <3>5, <4>1, <4>2 DEF SeatsKnown, DetailShown
    <3> QED  BY <3>2, <3>3, <3>4, <3>5
  <2>2. ListKnown'
    BY <1>4a DEF Insert, Goto, Columns, FlagShapes, PageShapes, Mounted, ListKnown,
       Loading, Loads, OfDetail, OfList, ListShown, GaveUp
  <2> QED  BY <2>1, <2>2
<1>5. ASSUME NEW c \in Calls, Order(c) PROVE SeatsKnown' /\ ListKnown'
  <2>1. SeatsKnown'
    BY <1>5 DEF Order, Goto, Columns, SeatsKnown, DetailShown, Booked
  <2>2. ListKnown'
    BY <1>5 DEF Order, Goto, Columns, ListKnown, ListShown, GaveUp
  <2> QED  BY <2>1, <2>2
<1>6. ASSUME NEW c \in Calls, Verify(c) PROVE SeatsKnown' /\ ListKnown'
  <2>1. SeatsKnown'
    BY <1>6 DEF Verify, Goto, Columns, FlagShapes, SeatsKnown, DetailShown, Booked
  <2>2. ListKnown'
    BY <1>6 DEF Verify, Goto, Columns, FlagShapes, PageShapes, Mounted, ListKnown, Loading,
       Loads, OfDetail, OfList, ListShown, GaveUp
  <2> QED  BY <2>1, <2>2
<1>7. ASSUME NEW c \in Calls, Paid(c) PROVE SeatsKnown' /\ ListKnown'
  <2>1. SeatsKnown'
    BY <1>7 DEF Paid, Goto, End, Columns, FlagShapes, PageShapes, SeatsKnown, Loading, Loads,
       DetailShown, Booked
  <2>2. ListKnown'
    BY <1>7 DEF Paid, Goto, End, Columns, FlagShapes, PageShapes, ListKnown, ListShown, GaveUp
  <2> QED  BY <2>1, <2>2
<1>8. ASSUME NEW c \in Calls, Unpaid(c) PROVE SeatsKnown' /\ ListKnown'
  <2>1. SeatsKnown'
    BY <1>8 DEF Unpaid, Goto, End, FlagShapes, SeatsKnown, DetailShown, Booked
  <2>2. ListKnown'
    BY <1>8 DEF Unpaid, Goto, End, FlagShapes, ListKnown, ListShown, GaveUp
  <2> QED  BY <2>1, <2>2
<1>9. ASSUME NEW c \in Calls, Cancel(c) PROVE SeatsKnown' /\ ListKnown'
  <2>1. SeatsKnown'
    BY <1>9 DEF Cancel, CancelRow, Goto, Columns, FlagShapes, PageShapes, Mounted, SeatsKnown,
       Loading, Loads, OfDetail, OfList, DetailShown, Booked
  <2>2. ListKnown'
    <3>1. CASE moved'
      BY <3>1 DEF ListKnown
    <3>2. CASE ~moved' /\ Goto(c, "cancelled")
      <4>1. onPage[c] /\ GaveUp(c)'
        BY <1>9, <3>2 DEF Cancel, Goto, FlagShapes, Columns, GaveUp
      <4> QED  BY <4>1 DEF ListKnown
    <3>3. CASE Goto(c, "not_cancelled") /\ UNCHANGED <<bStatus, moved>>
      BY <1>9, <3>3 DEF Cancel, Goto, Columns, ListKnown, ListShown, GaveUp
    <3> QED  BY <1>9, <3>1, <3>2, <3>3 DEF Cancel, FlagShapes
  <2> QED  BY <2>1, <2>2
<1>10. ASSUME NEW c \in Calls, Cancelled(c) PROVE SeatsKnown' /\ ListKnown'
  <2>1. SeatsKnown'
    BY <1>10 DEF Cancelled, Reload, End, Goto, Columns, FlagShapes, PageShapes, SeatsKnown,
       Loading, DetailShown, Booked
  <2>2. ListKnown'
    BY <1>10 DEF Cancelled, Reload, End, Goto, Columns, FlagShapes, PageShapes, ListKnown,
       Loading, Loads, ListShown, GaveUp
  <2> QED  BY <2>1, <2>2
<1>11. ASSUME NEW c \in Calls, NotCancelled(c) PROVE SeatsKnown' /\ ListKnown'
  <2>1. SeatsKnown'
    BY <1>11 DEF NotCancelled, End, Goto, SeatsKnown, DetailShown, Booked
  <2>2. ListKnown'
    BY <1>11 DEF NotCancelled, End, Goto, ListKnown, ListShown, GaveUp
  <2> QED  BY <2>1, <2>2
<1>12. ASSUME NEW c \in Calls, Review(c) PROVE SeatsKnown' /\ ListKnown'
  <2>1. SeatsKnown'
    BY <1>12 DEF Review, Goto, Columns, SeatsKnown, DetailShown, Booked
  <2>2. ListKnown'
    BY <1>12 DEF Review, Goto, Columns, ListKnown, ListShown, GaveUp
  <2> QED  BY <2>1, <2>2
<1>13. ASSUME NEW c \in Calls, Reviewed(c) PROVE SeatsKnown' /\ ListKnown'
  <2>1. SeatsKnown'
    BY <1>13 DEF Reviewed, End, Goto, Columns, FlagShapes, PageShapes, Mounted, SeatsKnown,
       OfDetail, DetailShown, Booked
  <2>2. ListKnown'
    BY <1>13 DEF Reviewed, Reload, End, Goto, Columns, FlagShapes, PageShapes, ListKnown,
       ListShown, GaveUp
  <2> QED  BY <2>1, <2>2
<1>14. ASSUME NEW c \in Calls, NotReviewed(c) PROVE SeatsKnown' /\ ListKnown'
  <2>1. SeatsKnown'
    BY <1>14 DEF NotReviewed, End, Goto, SeatsKnown, DetailShown, Booked
  <2>2. ListKnown'
    BY <1>14 DEF NotReviewed, End, Goto, ListKnown, ListShown, GaveUp
  <2> QED  BY <2>1, <2>2
<1>15. ASSUME OpenDialog PROVE SeatsKnown' /\ ListKnown'
  <2>1. SeatsKnown'
    BY <1>15 DEF OpenDialog, SeatsKnown, DetailShown, Booked
  <2>2. ListKnown'
    BY <1>15 DEF OpenDialog, ListKnown, ListShown, GaveUp
  <2> QED  BY <2>1, <2>2
<1>16. ASSUME CloseDialog PROVE SeatsKnown' /\ ListKnown'
  <2>1. SeatsKnown'
    BY <1>16 DEF CloseDialog, SeatsKnown, DetailShown, Booked
  <2>2. ListKnown'
    BY <1>16 DEF CloseDialog, ListKnown, ListShown, GaveUp
  <2> QED  BY <2>1, <2>2
<1>17. ASSUME NEW c \in Calls, NEW n \in 1..MaxSeats, Pay(c, n) PROVE SeatsKnown' /\ ListKnown'
  <2>1. SeatsKnown'
    BY <1>17 DEF Pay, Begin, Goto, SeatsKnown, DetailShown, Booked
  <2>2. ListKnown'
    BY <1>17 DEF Pay, Begin, Goto, ListKnown, ListShown, GaveUp
  <2> QED  BY <2>1, <2>2
<1>18. ASSUME NEW b \in Bookings, AskCancel(b) PROVE SeatsKnown' /\ ListKnown'
  <2>1. SeatsKnown'
    BY <1>18 DEF AskCancel, SeatsKnown, DetailShown, Booked
  <2>2. ListKnown'
    BY <1>18 DEF AskCancel, ListKnown, GaveUp
  <2> QED  BY <2>1, <2>2
<1>19. ASSUME NEW b \in Bookings, OpenReview(b) PROVE SeatsKnown' /\ ListKnown'
  <2>1. SeatsKnown'
    BY <1>19 DEF OpenReview, SeatsKnown, DetailShown, Booked
  <2>2. ListKnown'
    BY <1>19 DEF OpenReview, ListKnown, GaveUp
  <2> QED  BY <2>1, <2>2
<1>20. ASSUME KeepBooking PROVE SeatsKnown' /\ ListKnown'
  <2>1. SeatsKnown'
    BY <1>20 DEF KeepBooking, SeatsKnown
  <2>2. ListKnown'
    BY <1>20 DEF KeepBooking, ListKnown, ListShown, GaveUp
  <2> QED  BY <2>1, <2>2
<1>21. ASSUME CloseReview PROVE SeatsKnown' /\ ListKnown'
  <2>1. SeatsKnown'
    BY <1>21 DEF CloseReview, SeatsKnown
  <2>2. ListKnown'
    BY <1>21 DEF CloseReview, ListKnown, ListShown, GaveUp
  <2> QED  BY <2>1, <2>2
<1>22. ASSUME NEW c \in Calls, ConfirmCancel(c) PROVE SeatsKnown' /\ ListKnown'
  <2>1. SeatsKnown'
    BY <1>22 DEF ConfirmCancel, SeatsKnown
  <2>2. ListKnown'
    BY <1>22 DEF ConfirmCancel, Begin, Goto, ListKnown, ListShown, GaveUp
  <2> QED  BY <2>1, <2>2
<1>23. ASSUME NEW c \in Calls, SubmitReview(c) PROVE SeatsKnown' /\ ListKnown'
  <2>1. SeatsKnown'
    BY <1>23 DEF SubmitReview, SeatsKnown
  <2>2. ListKnown'
    BY <1>23 DEF SubmitReview, Begin, Goto, ListKnown, ListShown, GaveUp
  <2> QED  BY <2>1, <2>2
<1>24. ASSUME NEW b \in Bookings, DriverApproves(b) PROVE SeatsKnown' /\ ListKnown'
  <2>1. SeatsKnown'
    BY <1>24 DEF DriverApproves, SeatsKnown
  <2>2. ListKnown'
    BY <1>24 DEF DriverApproves, ListKnown
  <2> QED  BY <2>1, <2>2
<1>25. ASSUME NEW b \in Bookings, DriverRejects(b) PROVE SeatsKnown' /\ ListKnown'
  <2>1. SeatsKnown'
    BY <1>25 DEF DriverRejects, SeatsKnown
  <2>2. ListKnown'
    BY <1>25 DEF DriverRejects, ListKnown
  <2> QED  BY <2>1, <2>2
<1>26. ASSUME DriverCompletes PROVE SeatsKnown' /\ ListKnown'
  <2>1. SeatsKnown'
    BY <1>26 DEF DriverCompletes, SeatsKnown
  <2>2. ListKnown'
    BY <1>26 DEF DriverCompletes, ListKnown
  <2> QED  BY <2>1, <2>2
<1>26a. ASSUME OtherRejected PROVE SeatsKnown' /\ ListKnown'
  <2>1. SeatsKnown'
    BY <1>26a DEF OtherRejected, SeatsKnown
  <2>2. ListKnown'
    BY <1>26a DEF OtherRejected, ListKnown
  <2> QED  BY <2>1, <2>2
<1>27. CASE UNCHANGED vars
  <2>1. SeatsKnown'
    BY <1>27 DEF vars, SeatsKnown, DetailShown, Booked
  <2>2. ListKnown'
    BY <1>27 DEF vars, ListKnown, ListShown, GaveUp
  <2> QED  BY <2>1, <2>2
<1> QED  BY <1>1, <1>2, <1>3, <1>4, <1>5, <1>6, <1>7, <1>8, <1>9, <1>10, <1>11, <1>12, <1>13,
            <1>14, <1>15, <1>16, <1>17, <1>18, <1>19, <1>20, <1>21, <1>22, <1>23, <1>24, <1>25,
            <1>4a, <1>26, <1>26a, <1>27 DEF Next

\* What the pages show and hold.
Pages == RowShapes /\ PageShapes /\ FlagShapes /\ Mounted /\ SeatsKnown /\ ListKnown

\* Nothing is shown before the first page is visited.
LEMMA PagesInit == Init => Pages
<1> SUFFICES ASSUME Init PROVE Pages
  OBVIOUS
<1>1. RowShapes
  BY CheckoutAssumption DEF Init, RowShapes
<1>2. PageShapes
  BY FreshDialog DEF Init, PageShapes
<1>3. FlagShapes
  BY DEF Init, FlagShapes
<1>4. Mounted /\ SeatsKnown /\ ListKnown
  BY DEF Init, Mounted, SeatsKnown, ListKnown, Loading
<1> QED  BY <1>1, <1>2, <1>3, <1>4 DEF Pages

\* What the parts say of the types is all of TypeOK.
LEMMA PagesTyped == Columns /\ Pages => TypeOK
<1> SUFFICES ASSUME Columns, Pages PROVE TypeOK
  OBVIOUS
<1>1. {over, loading, failed, bookOpen, isCancelling, isSubmitting, owed, moved, blurred}
         \subseteq BOOLEAN
  BY DEF Columns, Pages, FlagShapes
<1>2. reviewed \cup abandoned \cup twins \subseteq Bookings /\ overtaken \subseteq Calls
  BY DEF Columns, Pages, RowShapes
<1> QED  BY <1>1, <1>2 DEF Columns, Chosen, Pages, RowShapes, PageShapes, FlagShapes, TypeOK

\* The pages show what the server has after the passenger's own acts, whatever calls
\* overlap and in whatever order they are answered, unless the server was changed behind
\* the page, or two loads of it overlapped or one failed, or a call has yet to load.
THEOREM ShownAsStored == Spec => []ShownIsCurrent
<1>1. Inv /\ Pages /\ [Next]_vars => Pages'
  BY ShapesStep, MountedStep, KnownStep DEF Inv, Pages
<1>2. ASSUME Inv, Pages PROVE ShownIsCurrent
  <2>1. SeatsShownAreCurrent
    <3> SUFFICES ASSUME DetailShown, ~moved, ~blurred,
                        \A c \in Calls : op[c] \notin {"order", "verify", "paid", "unpaid"}
                 PROVE  seatsShown = available
      BY DEF SeatsShownAreCurrent
    <3> QED  BY <1>2 DEF Pages, SeatsKnown, Booked, DetailShown
  <2>2. ListShownIsCurrent
    <3> SUFFICES ASSUME ListShown, ~moved, ~blurred,
                        \A c \in Calls : op[c] # "cancelled"
                 PROVE  listShown = bStatus
      BY DEF ListShownIsCurrent
    <3> QED  BY <1>2 DEF Pages, ListKnown, GaveUp, ListShown
  <2> QED  BY <1>2, <2>1, <2>2, PagesTyped DEF Inv, ShownIsCurrent
<1> QED  BY <1>1, <1>2, PagesInit, Correct, PTL DEF Spec
=================================================================================
