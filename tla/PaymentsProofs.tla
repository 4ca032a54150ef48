--------------------------- MODULE PaymentsProofs ---------------------------
(***************************************************************************)
(* Proofs about Payments, for any sets of bookings, rows and workers and   *)
(* any hold and checkout times: type correctness, the inductive invariant  *)
(* RowsConsistent, the safety invariants that follow from it, and that     *)
(* Payments implements what is promised of it: first the rows a reader sees*)
(* (BookingRows), then, from a step of those, the slot and the money of a  *)
(* booking (BookingLedger).                                                *)
(***************************************************************************)
EXTENDS Payments, TLAPS

-----------------------------------------------------------------------------
(* Type correctness *)

\* Writing provider_refund_id keeps the table's type.
LEMMA RefundSent ==
  ASSUME NEW f \in [Refunds -> RefundRow], NEW r \in Refunds
  PROVE  [f EXCEPT ![r].sent = TRUE] \in [Refunds -> RefundRow]
  BY DEF RefundRow

\* Inserting a refund row keeps the table's type.
LEMMA RefundInsert ==
  ASSUME TypeOK, NEW b \in Bookings, NEW p \in Payments,
         NEW amount \in RefundAmount, NEW as \in RefundStatus,
         InsertRefund(b, p, amount, as)
  PROVE  refund' \in [Refunds -> RefundRow]
<1>1. [booking |-> b, payment |-> p, amount |-> amount, status |-> as, sent |-> FALSE]
        \in RefundRow
  BY DEF RefundRow
<1>2. QED
  BY <1>1 DEF InsertRefund, TypeOK

\* The empty tables and the silent provider have the right types.
LEMMA TypeInit == Init => TypeOK
  BY ConstantsAssumption
  DEF Init, TypeOK, BookingStatus, PaymentRow, PaymentStatus, RefundRow, RefundStatus,
      RefundAmount, OpenCall, Answer, Idle, Events, EventType

\* Every step of the system keeps every variable's type.
LEMMA TypeNext == TypeOK /\ [Next]_vars => TypeOK'
<1> SUFFICES ASSUME TypeOK, [Next]_vars PROVE TypeOK'
  OBVIOUS
<1> USE ConstantsAssumption DEF TypeOK
<1>1. ASSUME NEW b \in Bookings, CreateHold(b) PROVE TypeOK'
  BY <1>1 DEF CreateHold, BookingStatus, providerVars, webhookVars
<1>2. ASSUME NEW b \in Bookings, StartCheckout(b) PROVE TypeOK'
  BY <1>2 DEF StartCheckout, Reissued, providerVars, webhookVars
<1>3. ASSUME NEW b \in Bookings, NEW p \in Payments, SubmitForPayment(b, p) PROVE TypeOK'
  BY <1>3 DEF SubmitForPayment, NewPayment, Transition, BookingStatus, PaymentRow, PaymentStatus,
              providerVars, webhookVars
<1>4. ASSUME NEW b \in Bookings, Cancel(b) PROVE TypeOK'
  <2>1. status' \in [Bookings -> BookingStatus]
    BY <1>4 DEF Cancel, Transition, BookingStatus
  <2>2. refund' \in [Refunds -> RefundRow]
    <3>1. CASE UNCHANGED refund
      BY <3>1
    <3>2. ASSUME NEW p \in Payments, NEW amount \in RefundAmount, NEW as \in RefundStatus,
                 InsertRefund(b, p, amount, as)
          PROVE  refund' \in [Refunds -> RefundRow]
      BY <3>2, RefundInsert
    <3>3. QED
      BY <1>4, <3>1, <3>2 DEF Cancel, RefundOnCancel, LivePaymentsOf, RefundAmount, RefundStatus
  <2>3. QED
    BY <1>4, <2>1, <2>2 DEF Cancel, providerVars, webhookVars
<1>5. ASSUME Tick PROVE TypeOK'
  BY <1>5 DEF Tick, Elapsed, providerVars, webhookVars
<1>6. ASSUME NEW b \in Bookings, ReapHold(b) PROVE TypeOK'
  BY <1>6 DEF ReapHold, Transition, BookingStatus, providerVars, webhookVars
<1>7. ASSUME NEW w \in Workers, NEW p \in Payments, ClaimCharge(w, p) PROVE TypeOK'
  BY <1>7 DEF ClaimCharge, OpenCall, Answer, Idle, bookingVars, providerVars, webhookVars
<1>8. ASSUME NEW w \in Workers, CallCharge(w) PROVE TypeOK'
  <2>1. worker' \in [Workers -> OpenCall]
    BY <1>8 DEF CallCharge, OpenCall, Answer, Idle
  <2>2. worker[w].row \in Payments
    BY <1>8 DEF CallCharge, OpenCall, Idle
  <2>3. /\ charges' \in [Payments -> Nat]
        /\ outcome' \in [Payments -> {"none", "succeeded", "failed"}]
        /\ net' \in [Events -> 0..2]
    <3>1. CASE UNCHANGED <<charges, outcome, net>>
      BY <3>1
    <3>2. ASSUME NEW how \in {"succeeded", "failed"}, ChargedWith(worker[w].row, how)
          PROVE  /\ charges' \in [Payments -> Nat]
                 /\ outcome' \in [Payments -> {"none", "succeeded", "failed"}]
                 /\ net' \in [Events -> 0..2]
      BY <3>1, <3>2 DEF ChargedWith, Schedule, Copies
    <3>3. QED
      BY <1>8, <3>1, <3>2 DEF CallCharge
  <2>4. QED
    BY <1>8, <2>1, <2>3 DEF CallCharge, bookingVars, webhookVars
<1>9. ASSUME NEW w \in Workers, FinishCharge(w) PROVE TypeOK'
  <2>1. worker' \in [Workers -> OpenCall]
    BY <1>9 DEF FinishCharge, ChargeAttached, OpenCall
  <2>2. payment' \in [Payments -> PaymentRow]
    <3>1. worker[w].row \in Payments
      BY <1>9 DEF FinishCharge, ChargeAttached, OpenCall, Idle
    <3>2. QED
      <4>1. [payment EXCEPT ![worker[w].row].attached = TRUE] \in [Payments -> PaymentRow]
        BY <3>1 DEF PaymentRow
      <4>2. QED
        BY <1>9, <4>1 DEF FinishCharge, ChargeAttached
  <2>3. QED
    BY <1>9, <2>1, <2>2 DEF FinishCharge, ChargeAttached, bookingVars, providerVars, webhookVars
<1>10. ASSUME NEW w \in Workers, NEW r \in Refunds, ClaimRefund(w, r) PROVE TypeOK'
  BY <1>10 DEF ClaimRefund, OpenCall, Answer, Idle, bookingVars, providerVars, webhookVars
<1>11. ASSUME NEW w \in Workers, CallRefund(w) PROVE TypeOK'
  <2>1. worker' \in [Workers -> OpenCall]
    BY <1>11 DEF CallRefund, OpenCall, Answer, Idle
  <2>2. returned' \in [Refunds -> Nat] /\ net' \in [Events -> 0..2]
    BY <1>11 DEF CallRefund, Returned, Schedule, Copies
  <2>3. QED
    BY <1>11, <2>1, <2>2 DEF CallRefund, bookingVars, webhookVars
<1>12. ASSUME NEW w \in Workers, FinishRefund(w) PROVE TypeOK'
  <2>1. worker' \in [Workers -> OpenCall]
    BY <1>12 DEF FinishRefund, OpenCall
  <2>2. refund' \in [Refunds -> RefundRow]
    <3>1. worker[w].row \in Refunds
      BY <1>12 DEF FinishRefund, OpenCall, Idle
    <3>2. QED
      <4>1. ASSUME NEW r \in Refunds
            PROVE  [refund EXCEPT ![r].sent = TRUE] \in [Refunds -> RefundRow]
        BY RefundSent
      <4>2. QED
        BY <1>12, <3>1, <4>1 DEF FinishRefund
  <2>3. QED
    BY <1>12, <2>1, <2>2 DEF FinishRefund, bookingVars, providerVars, webhookVars
<1>13. ASSUME NEW w \in Workers, Crash(w) PROVE TypeOK'
  BY <1>13 DEF Crash, OpenCall, Answer, Idle, bookingVars, providerVars, webhookVars
<1>14. ASSUME NEW e \in Events, Deliver(e) PROVE TypeOK'
  BY <1>14 DEF Deliver, Recorded, bookingVars
<1>15. ASSUME NEW e \in Events, Lose(e) PROVE TypeOK'
  BY <1>15 DEF Lose, bookingVars, webhookVars
<1>16. ASSUME NEW e \in Events, ParkUnmatched(e) PROVE TypeOK'
  BY <1>16 DEF ParkUnmatched, MarkProcessed, Events, bookingVars, providerVars
<1>17. ASSUME NEW p \in Payments, ApplyCapture(p) PROVE TypeOK'
  <2>1. inbox' \in [Events -> {"absent", "due", "processed"}]
    BY <1>17 DEF ApplyCapture, MarkProcessed
  <2>2. payment' \in [Payments -> PaymentRow]
    BY <1>17 DEF ApplyCapture, Settle, PaymentRow, PaymentStatus
  <2>3. status' \in [Bookings -> BookingStatus]
    BY <1>17 DEF ApplyCapture, ConfirmOrRefund, Transition, BookingStatus
  <2>4. refund' \in [Refunds -> RefundRow]
    <3>1. CASE UNCHANGED refund
      BY <3>1
    <3>2. CASE InsertRefund(payment[p].booking, p, "FULL", "PENDING")
      <4>1. [booking |-> payment[p].booking, payment |-> p, amount |-> "FULL",
             status |-> "PENDING", sent |-> FALSE] \in RefundRow
        BY DEF RefundRow, RefundAmount, RefundStatus, PaymentRow
      <4>2. QED
        BY <3>2, <4>1 DEF InsertRefund
    <3>3. QED
      BY <1>17, <3>1, <3>2 DEF ApplyCapture, ConfirmOrRefund
  <2>5. QED
    BY <1>17, <2>1, <2>2, <2>3, <2>4 DEF ApplyCapture, providerVars
<1>18. ASSUME NEW p \in Payments, ApplyDecline(p) PROVE TypeOK'
  <2>1. inbox' \in [Events -> {"absent", "due", "processed"}]
    BY <1>18 DEF ApplyDecline, MarkProcessed
  <2>2. payment' \in [Payments -> PaymentRow]
    BY <1>18 DEF ApplyDecline, Settle, PaymentRow, PaymentStatus
  <2>3. status' \in [Bookings -> BookingStatus]
    BY <1>18 DEF ApplyDecline, Transition, BookingStatus
  <2>4. QED
    BY <1>18, <2>1, <2>2, <2>3 DEF ApplyDecline, providerVars
<1>19. ASSUME NEW p \in Payments, ApplyRefund(p) PROVE TypeOK'
  <2>1. inbox' \in [Events -> {"absent", "due", "processed"}]
    BY <1>19 DEF ApplyRefund, MarkProcessed
  <2>2. refund' \in [Refunds -> RefundRow]
    <3>1. ASSUME NEW r \in Refunds
          PROVE  [refund EXCEPT ![r].status = "SUCCEEDED"] \in [Refunds -> RefundRow]
      BY DEF RefundRow, RefundStatus
    <3>2. QED
      BY <1>19, <3>1 DEF ApplyRefund, LiveRefundsOf
  <2>3. status' \in [Bookings -> BookingStatus]
    BY <1>19 DEF ApplyRefund, Transition, BookingStatus
  <2>4. QED
    BY <1>19, <2>1, <2>2, <2>3 DEF ApplyRefund, providerVars
<1>20. CASE UNCHANGED vars
  BY <1>20 DEF vars, bookingVars, providerVars, webhookVars
<1>21. ASSUME NEW e \in Events, ProcessEvent(e) PROVE TypeOK'
  BY <1>16, <1>17, <1>18, <1>19, <1>21 DEF ProcessEvent, Events
<1>22. QED
  BY <1>1, <1>2, <1>3, <1>4, <1>5, <1>6, <1>7, <1>8, <1>9, <1>10, <1>11, <1>12, <1>13,
     <1>14, <1>15, <1>20, <1>21
  DEF Next, CustomerStep, WorkerStep, WebhookStep

\* Type correctness, for every value of the constants.
THEOREM TypeCorrect == Spec => []TypeOK
<1>1. QED
  BY TypeInit, TypeNext, PTL DEF Spec

-----------------------------------------------------------------------------
(* The inductive invariant: one lemma per action *)

\* Empty tables are consistent.
LEMMA RowsInit == Init => RowsConsistent
  BY ConstantsAssumption
  DEF Init, RowsConsistent, PaymentRows, OnePaymentPerBooking, RefundRows, OneRefundPerBooking,
      BookingBacked, ProviderRows, CallRows, Scheduled, Events, EventType, Idle

\* Steps that move the clock or read nothing back change no row.
LEMMA TimePreserves ==
  ASSUME RowsConsistent, UNCHANGED <<status, payment, refund, worker, providerVars, inbox>>
  PROVE  RowsConsistent'
  BY DEF RowsConsistent, PaymentRows, OnePaymentPerBooking, RefundRows, OneRefundPerBooking,
         BookingBacked, ProviderRows, CallRows, Scheduled, LivePayment, providerVars

\* A new hold: no payment or refund row can name a booking not inserted yet.
LEMMA CreateHoldPreserves ==
  ASSUME TypeOK, RowsConsistent, NEW b \in Bookings, CreateHold(b)
  PROVE  RowsConsistent'
<1> USE DEF CreateHold, TypeOK, providerVars, webhookVars
<1>1. \A c \in Bookings : status'[c] = IF c = b THEN "HELD" ELSE status[c]
  OBVIOUS
<1>2. \A p \in Payments : payment[p].booking # b
  BY ConstantsAssumption DEF RowsConsistent, PaymentRows, PaymentRow, PaymentStatus
<1>3. \A r \in Refunds : refund[r].booking # b
  BY ConstantsAssumption DEF RowsConsistent, RefundRows, RefundRow
<1>4. PaymentRows'
  BY <1>1, <1>2, ConstantsAssumption DEF RowsConsistent, PaymentRows, PaymentRow, PaymentStatus
<1>5. RefundRows'
  BY <1>1, <1>3 DEF RowsConsistent, RefundRows
<1>6. BookingBacked'
  BY <1>1, <1>2, <1>3 DEF RowsConsistent, BookingBacked
<1>7. QED
  BY <1>4, <1>5, <1>6
  DEF RowsConsistent, OnePaymentPerBooking, OneRefundPerBooking, ProviderRows, CallRows, Scheduled

\* reapHolds: an expiring booking has at most a PENDING payment, and no refund.
LEMMA ReapPreserves ==
  ASSUME TypeOK, RowsConsistent, NEW b \in Bookings, ReapHold(b)
  PROVE  RowsConsistent'
<1> USE DEF ReapHold, Reapable, Transition, TypeOK, providerVars, webhookVars
<1>1. \A c \in Bookings : status'[c] = IF c = b THEN "EXPIRED" ELSE status[c]
  OBVIOUS
<1>2. status[b] \in {"HELD", "PENDING_PAYMENT"}
  OBVIOUS
<1>3. \A r \in Refunds : refund[r].booking # b
  BY <1>2, ConstantsAssumption DEF RowsConsistent, RefundRows, RefundRow
<1>4. \A p \in Payments : payment[p].booking = b => payment[p].status = "PENDING"
  BY <1>2, ConstantsAssumption DEF RowsConsistent, PaymentRows, PaymentRow, PaymentStatus
<1>5. PaymentRows'
  BY <1>1, <1>4, ConstantsAssumption DEF RowsConsistent, PaymentRows, PaymentRow, PaymentStatus
<1>6. RefundRows'
  BY <1>1, <1>3 DEF RowsConsistent, RefundRows
<1>7. BookingBacked'
  BY <1>1 DEF RowsConsistent, BookingBacked
<1>8. QED
  BY <1>5, <1>6, <1>7
  DEF RowsConsistent, OnePaymentPerBooking, OneRefundPerBooking, ProviderRows, CallRows, Scheduled

\* submitForPayment: the first payment of a booking that has no refund.
LEMMA SubmitPreserves ==
  ASSUME TypeOK, RowsConsistent, NEW b \in Bookings, NEW p \in Payments, SubmitForPayment(b, p)
  PROVE  RowsConsistent'
<1> USE DEF SubmitForPayment, NewPayment, Transition, TypeOK, providerVars, webhookVars
<1>1. \A c \in Bookings : status'[c] = IF c = b THEN "PENDING_PAYMENT" ELSE status[c]
  OBVIOUS
<1>2. \A q \in Payments : payment'[q] = IF q = p THEN [booking |-> b, status |-> "PENDING",
                                                       attached |-> FALSE]
                                        ELSE payment[q]
  OBVIOUS
<1>3. \A q \in Payments : payment[q].booking # b
  BY ConstantsAssumption DEF RowsConsistent, PaymentRows, PaymentRow, PaymentStatus
<1>4. \A r \in Refunds : refund[r].booking # b /\ refund[r].payment # p
  BY ConstantsAssumption DEF RowsConsistent, RefundRows, RefundRow
<1>5. PaymentRows'
  BY <1>1, <1>2, <1>3, ConstantsAssumption
  DEF RowsConsistent, PaymentRows, PaymentRow, PaymentStatus
<1>6. OnePaymentPerBooking'
  BY <1>2, <1>3 DEF RowsConsistent, OnePaymentPerBooking
<1>7. RefundRows'
  BY <1>1, <1>2, <1>4 DEF RowsConsistent, RefundRows
<1>8. BookingBacked'
  BY <1>1, <1>2, <1>3 DEF RowsConsistent, BookingBacked
<1>9. ProviderRows'
  BY <1>2 DEF RowsConsistent, PaymentRows, ProviderRows, Scheduled
<1>10. CallRows'
  BY <1>2 DEF RowsConsistent, CallRows, OpenCall, Idle
<1>11. QED
  BY <1>5, <1>6, <1>7, <1>8, <1>9, <1>10 DEF RowsConsistent, OneRefundPerBooking

\* Where a refund row is inserted, everything else about refunds is as before.
LEMMA InsertedRow ==
  ASSUME TypeOK, NEW b \in Bookings, NEW p \in Payments, NEW amount \in RefundAmount,
         NEW as \in RefundStatus, InsertRefund(b, p, amount, as)
  PROVE  \E r \in Refunds :
           /\ refund[r].status = "ABSENT"
           /\ refund'[r] = [booking |-> b, payment |-> p, amount |-> amount,
                            status |-> as, sent |-> FALSE]
           /\ \A s \in Refunds \ {r} : refund'[s] = refund[s]
  BY DEF InsertRefund, TypeOK

\* A hold or a confirmed booking has no refund row.
LEMMA NoRefundBeforeRelease ==
  ASSUME TypeOK, RowsConsistent, NEW b \in Bookings,
         status[b] \in {"HELD", "PENDING_PAYMENT", "CONFIRMED", "FAILED"}
  PROVE  \A r \in Refunds : refund[r].booking # b
  BY ConstantsAssumption DEF TypeOK, RowsConsistent, RefundRows, RefundRow

\* cancel: either nothing was captured, or the refund row lands with the
\* transition.
LEMMA CancelPreserves ==
  ASSUME TypeOK, RowsConsistent, NEW b \in Bookings, Cancel(b)
  PROVE  RowsConsistent'
<1> USE DEF providerVars, webhookVars
<1>1. \A c \in Bookings : status'[c] = IF c = b THEN "CANCELLED" ELSE status[c]
  BY DEF Cancel, Transition, TypeOK
<1>2. status[b] \in {"HELD", "CONFIRMED"}
  BY DEF Cancel, Transition, Cancellable, Legal, Matrix, SellingTransitions,
         ReturningTransitions
<1>3. \A r \in Refunds : refund[r].booking # b
  BY <1>2, NoRefundBeforeRelease
<1>4. UNCHANGED <<payment, worker, charges, outcome, returned, net, inbox>>
  BY DEF Cancel
<1>5. ASSUME UNCHANGED refund, \A p \in Payments : payment[p].booking # b
      PROVE  RowsConsistent'
  <2>1. PaymentRows'
    BY <1>1, <1>4, <1>5, ConstantsAssumption
    DEF RowsConsistent, PaymentRows, PaymentRow, PaymentStatus, TypeOK
  <2>2. RefundRows'
    BY <1>1, <1>3, <1>4, <1>5 DEF RowsConsistent, RefundRows
  <2>3. BookingBacked'
    BY <1>1, <1>4, <1>5 DEF RowsConsistent, BookingBacked
  <2>4. QED
    BY <2>1, <2>2, <2>3, <1>4, <1>5
    DEF RowsConsistent, OnePaymentPerBooking, OneRefundPerBooking, ProviderRows, CallRows,
        Scheduled
<1>6. ASSUME NEW p \in Payments, payment[p].booking = b, payment[p].status = "CAPTURED",
             NEW amount \in RefundAmount, NEW as \in RefundStatus,
             InsertRefund(b, p, amount, as),
             \/ amount = "POLICY" /\ as = "PENDING"
             \/ amount = "NOTHING" /\ as = "SUCCEEDED"
      PROVE  RowsConsistent'
  <2>1. PICK r \in Refunds :
          /\ refund[r].status = "ABSENT"
          /\ refund'[r] = [booking |-> b, payment |-> p, amount |-> amount,
                           status |-> as, sent |-> FALSE]
          /\ \A s \in Refunds \ {r} : refund'[s] = refund[s]
    BY <1>6, InsertedRow
  <2>2. \A q \in Payments : payment[q].booking = b => q = p
    BY <1>6 DEF RowsConsistent, OnePaymentPerBooking
  <2>3. PaymentRows'
    <3>1. ASSUME NEW q \in Payments, q # p PROVE PaymentRows!(q)'
      <4>1. \A s \in Refunds : refund[s].payment = q => refund'[s].payment = q
        BY <2>1, ConstantsAssumption DEF RowsConsistent, RefundRows, RefundRow
      <4>2. QED
        BY <1>1, <1>4, <2>2, <3>1, <4>1, ConstantsAssumption
        DEF RowsConsistent, PaymentRows, PaymentRow, PaymentStatus, TypeOK
    <3>2. PaymentRows!(p)'
      BY <1>1, <1>4, <1>6, <2>1, ConstantsAssumption
      DEF RowsConsistent, PaymentRows, PaymentRow, PaymentStatus, TypeOK
    <3>3. QED
      BY <3>1, <3>2 DEF PaymentRows
  <2>4. RefundRows'
    <3>1. returned[r] = 0
      BY <2>1 DEF RowsConsistent, RefundRows
    <3>2. QED
      <4>1. ASSUME NEW s \in Refunds \ {r} PROVE RefundRows!(s)'
        BY <1>1, <1>3, <1>4, <2>1 DEF RowsConsistent, RefundRows
      <4>2. /\ refund'[r].booking = b /\ refund'[r].payment = p
            /\ refund'[r].amount = amount /\ refund'[r].status = as
        BY <2>1
      <4>3. /\ status'[b] = "CANCELLED" /\ returned'[r] = 0
            /\ payment'[p].booking = b /\ payment'[p].status = "CAPTURED"
        BY <1>1, <1>4, <1>6, <3>1
      <4>4. RefundRows!(r)'
        BY <1>6, <4>2, <4>3
      <4>5. QED
        BY <4>1, <4>4 DEF RefundRows
  <2>5. OneRefundPerBooking'
    BY <1>3, <2>1 DEF RowsConsistent, OneRefundPerBooking
  <2>6. BookingBacked'
    BY <1>1, <1>3, <1>4, <2>1, <2>2 DEF RowsConsistent, BookingBacked
  <2>7. ProviderRows'
    BY <1>4, <2>1 DEF RowsConsistent, RefundRows, ProviderRows, Scheduled
  <2>8. CallRows'
    BY <1>4, <2>1 DEF RowsConsistent, CallRows, TypeOK, OpenCall, Idle
  <2>9. QED
    BY <1>4, <2>3, <2>4, <2>5, <2>6, <2>7, <2>8 DEF RowsConsistent, OnePaymentPerBooking
<1>7. CASE \E p \in Payments : payment[p].booking = b /\ payment[p].status = "CAPTURED"
  BY <1>6, <1>7 DEF Cancel, RefundOnCancel, LivePaymentsOf, LivePayment, RefundAmount,
                    RefundStatus
<1>8. CASE ~\E p \in Payments : payment[p].booking = b /\ payment[p].status = "CAPTURED"
  <2>1. \A p \in Payments : payment[p].booking # b
    BY <1>2, <1>8, ConstantsAssumption
    DEF RowsConsistent, PaymentRows, BookingBacked, PaymentRow, PaymentStatus, TypeOK
  <2>2. UNCHANGED refund
    BY <1>8 DEF Cancel, RefundOnCancel, LivePaymentsOf
  <2>3. QED
    BY <1>5, <2>1, <2>2
<1>9. QED
  BY <1>7, <1>8

\* claimUnsubmitted: FOR UPDATE SKIP LOCKED gives the row to one worker.
LEMMA ClaimChargePreserves ==
  ASSUME TypeOK, RowsConsistent, NEW w \in Workers, NEW p \in Payments, ClaimCharge(w, p)
  PROVE  RowsConsistent'
<1> USE DEF ClaimCharge, TypeOK, bookingVars, providerVars, webhookVars
<1>1. \A v \in Workers : worker'[v] = IF v = w THEN [job |-> "charge", row |-> p,
                                                     answer |-> "waiting"]
                                      ELSE worker[v]
  OBVIOUS
<1>2. CallRows'
  BY <1>1 DEF RowsConsistent, CallRows, Unsubmitted, Locked, OpenCall, Idle
<1>3. QED
  BY <1>2 DEF RowsConsistent, PaymentRows, OnePaymentPerBooking, RefundRows,
              OneRefundPerBooking, BookingBacked, ProviderRows, Scheduled

\* claimDue of refunds: FOR UPDATE SKIP LOCKED gives the row to one worker.
LEMMA ClaimRefundPreserves ==
  ASSUME TypeOK, RowsConsistent, NEW w \in Workers, NEW r \in Refunds, ClaimRefund(w, r)
  PROVE  RowsConsistent'
<1> USE DEF ClaimRefund, TypeOK, bookingVars, providerVars, webhookVars
<1>1. \A v \in Workers : worker'[v] = IF v = w THEN [job |-> "refund", row |-> r,
                                                     answer |-> "waiting"]
                                      ELSE worker[v]
  OBVIOUS
<1>2. CallRows'
  BY <1>1 DEF RowsConsistent, CallRows, RefundDue, Locked, OpenCall, Idle
<1>3. QED
  BY <1>2 DEF RowsConsistent, PaymentRows, OnePaymentPerBooking, RefundRows,
              OneRefundPerBooking, BookingBacked, ProviderRows, Scheduled

\* A rollback leaves every row as it was and frees the one it held.
LEMMA CrashPreserves ==
  ASSUME TypeOK, RowsConsistent, NEW w \in Workers, Crash(w)
  PROVE  RowsConsistent'
<1> USE DEF Crash, TypeOK, bookingVars, providerVars, webhookVars
<1>1. \A v \in Workers : worker'[v] = IF v = w THEN Idle ELSE worker[v]
  BY DEF OpenCall
<1>2. CallRows'
  BY <1>1, ConstantsAssumption DEF RowsConsistent, CallRows, OpenCall, Idle
<1>3. QED
  BY <1>2 DEF RowsConsistent, PaymentRows, OnePaymentPerBooking, RefundRows,
              OneRefundPerBooking, BookingBacked, ProviderRows, Scheduled

\* A charge request: the provider's key makes the first one count and no other.
LEMMA CallChargePreserves ==
  ASSUME TypeOK, RowsConsistent, NEW w \in Workers, CallCharge(w)
  PROVE  RowsConsistent'
<1>1. PICK p \in Payments : worker[w].row = p /\ worker[w].job = "charge"
  BY DEF CallCharge, TypeOK, OpenCall, Idle
<1>2. PICK a \in {"accepted", "refused"} : worker' = [worker EXCEPT ![w].answer = a]
  BY DEF CallCharge
<1>3. UNCHANGED <<status, payment, refund, returned, inbox>>
  BY DEF CallCharge, bookingVars, webhookVars
<1>4. \A v \in Workers : /\ worker'[v].row = worker[v].row
                         /\ worker'[v].job = worker[v].job
                         /\ v # w => worker'[v] = worker[v]
  BY <1>2 DEF TypeOK, OpenCall, Idle
<1>5. ~payment[p].attached /\ payment[p].status = "PENDING"
  BY <1>1 DEF RowsConsistent, CallRows
<1>6. ASSUME UNCHANGED <<charges, outcome, net>>,
             worker'[w].answer = "accepted" => charges[p] = 1
      PROVE  RowsConsistent'
  <2>1. CallRows'
    BY <1>1, <1>3, <1>4, <1>6 DEF RowsConsistent, CallRows
  <2>2. QED
    BY <2>1, <1>3, <1>6 DEF RowsConsistent, PaymentRows, OnePaymentPerBooking, RefundRows,
       OneRefundPerBooking, BookingBacked, ProviderRows, Scheduled
<1>7. ASSUME NEW how \in {"succeeded", "failed"}, charges[p] = 0, ChargedWith(p, how)
      PROVE  RowsConsistent'
  <2>1. /\ charges' = [charges EXCEPT ![p] = 1]
        /\ outcome' = [outcome EXCEPT ![p] = how]
        /\ \E copies \in {1, 2} : net' = [net EXCEPT ![<<p, OutcomeEvent(how)>>] = copies]
    BY <1>7 DEF ChargedWith, Schedule, Copies
  <2>2. /\ \A q \in Payments : charges'[q] = IF q = p THEN 1 ELSE charges[q]
        /\ \A q \in Payments : outcome'[q] = IF q = p THEN how ELSE outcome[q]
    BY <2>1 DEF TypeOK
  <2>3. outcome[p] = "none"
    BY <1>1, <1>7 DEF RowsConsistent, ProviderRows
  <2>4. PaymentRows'
    BY <1>3, <1>5, <2>2 DEF RowsConsistent, PaymentRows
  <2>5. ProviderRows'
    <3>1. ASSUME NEW q \in Payments
          PROVE  /\ charges'[q] <= 1
                 /\ charges'[q] = 0 <=> outcome'[q] = "none"
                 /\ payment'[q].attached => charges'[q] = 1
      <4>0. /\ charges[q] <= 1
            /\ charges[q] = 0 <=> outcome[q] = "none"
            /\ payment[q].attached => charges[q] = 1
        BY DEF RowsConsistent, ProviderRows
      <4>1. charges'[q] <= 1
        BY <2>2, <4>0
      <4>2. charges'[q] = 0 <=> outcome'[q] = "none"
        BY <1>7, <2>2, <4>0
      <4>3. payment'[q].attached => charges'[q] = 1
        BY <1>3, <1>5, <2>2, <4>0
      <4>4. QED
        BY <4>1, <4>2, <4>3
    <3>2. ASSUME NEW e \in Events, e # <<p, OutcomeEvent(how)>>, Scheduled(e)'
          PROVE  Scheduled(e)
      BY <1>3, <2>1, <3>2 DEF Scheduled, TypeOK
    <3>3. ASSUME NEW q \in Payments, Scheduled(<<q, "charge.succeeded">>)'
          PROVE  outcome'[q] = "succeeded"
      BY <2>2, <2>3, <3>2, <3>3
      DEF RowsConsistent, ProviderRows, OutcomeEvent, Events, EventType
    <3>4. ASSUME NEW q \in Payments, Scheduled(<<q, "charge.failed">>)'
          PROVE  outcome'[q] = "failed"
      BY <2>2, <2>3, <3>2, <3>4
      DEF RowsConsistent, ProviderRows, OutcomeEvent, Events, EventType
    <3>5. ASSUME NEW q \in Payments, Scheduled(<<q, "refund.succeeded">>)'
          PROVE  \E r \in Refunds : refund'[r].payment = q /\ returned'[r] > 0
      <4>1. Scheduled(<<q, "refund.succeeded">>)
        BY <3>2, <3>5 DEF OutcomeEvent, Events, EventType
      <4>2. QED
        BY <1>3, <4>1 DEF RowsConsistent, ProviderRows
    <3>6. QED
      BY <1>3, <3>1, <3>3, <3>4, <3>5 DEF RowsConsistent, ProviderRows
  <2>6. CallRows'
    BY <1>1, <1>3, <1>4, <2>1, ConstantsAssumption DEF RowsConsistent, CallRows, TypeOK, OpenCall, Idle
  <2>7. QED
    BY <1>3, <2>4, <2>5, <2>6 DEF RowsConsistent, OnePaymentPerBooking, RefundRows,
       OneRefundPerBooking, BookingBacked
<1>8. charges[p] \in {0, 1}
  <2>1. charges[p] \in Nat
    BY DEF TypeOK
  <2>2. charges[p] <= 1
    BY DEF RowsConsistent, ProviderRows
  <2>3. QED
    BY <2>1, <2>2
<1>9. \/ \E how \in {"succeeded", "failed"} : ChargedWith(p, how)
      \/ UNCHANGED <<charges, outcome, net>> /\ worker'[w].answer = "refused"
  BY <1>1 DEF CallCharge, TypeOK, OpenCall, Idle
<1>10. QED
  BY <1>6, <1>7, <1>8, <1>9 DEF ChargedWith

\* attachChargeId: only a row the provider has a charge for gets its id.
LEMMA FinishChargePreserves ==
  ASSUME TypeOK, RowsConsistent, NEW w \in Workers, FinishCharge(w)
  PROVE  RowsConsistent'
<1>1. PICK p \in Payments : worker[w].row = p /\ worker[w].job = "charge"
  BY DEF FinishCharge, ChargeAttached, TypeOK, OpenCall, Idle
<1>2. UNCHANGED <<status, refund, charges, outcome, returned, net, inbox>>
  BY DEF FinishCharge, ChargeAttached, bookingVars, providerVars, webhookVars
<1>3. /\ payment[p].status = "PENDING"
      /\ worker[w].answer = "accepted" => charges[p] = 1
  BY <1>1 DEF RowsConsistent, CallRows
<1>4. \A q \in Payments : /\ payment'[q].booking = payment[q].booking
                          /\ payment'[q].status = payment[q].status
                          /\ q # p => payment'[q].attached = payment[q].attached
                          /\ payment[q].attached => payment'[q].attached
                          /\ payment'[q].attached /\ ~payment[q].attached =>
                               q = p /\ worker[w].answer = "accepted"
  BY <1>1 DEF FinishCharge, ChargeAttached, TypeOK, PaymentRow
<1>5. \A v \in Workers : worker'[v] = IF v = w THEN Idle ELSE worker[v]
  BY DEF FinishCharge, ChargeAttached, TypeOK
<1>6. PaymentRows'
  BY <1>2, <1>3, <1>4 DEF RowsConsistent, PaymentRows
<1>7. ProviderRows'
  BY <1>2, <1>3, <1>4 DEF RowsConsistent, ProviderRows, Scheduled
<1>8. CallRows'
  BY <1>1, <1>2, <1>4, <1>5, ConstantsAssumption
  DEF RowsConsistent, CallRows, TypeOK, OpenCall, Idle
<1>9. OnePaymentPerBooking' /\ RefundRows' /\ OneRefundPerBooking' /\ BookingBacked'
  BY <1>2, <1>4 DEF RowsConsistent, OnePaymentPerBooking, RefundRows, OneRefundPerBooking,
                    BookingBacked
<1>10. QED
  BY <1>6, <1>7, <1>8, <1>9 DEF RowsConsistent

\* A refund request, for the captured payment of a refund still PENDING.
LEMMA CallRefundPreserves ==
  ASSUME TypeOK, RowsConsistent, NEW w \in Workers, CallRefund(w)
  PROVE  RowsConsistent'
<1>1. PICK r \in Refunds : worker[w].row = r /\ worker[w].job = "refund"
  BY DEF CallRefund, TypeOK, OpenCall, Idle
<1>2. PICK a \in {"accepted", "refused"} : worker' = [worker EXCEPT ![w].answer = a]
  BY DEF CallRefund
<1>3. UNCHANGED <<status, payment, refund, charges, outcome, inbox>>
  BY DEF CallRefund, bookingVars, webhookVars
<1>4. \A v \in Workers : /\ worker'[v].row = worker[v].row
                         /\ worker'[v].job = worker[v].job
                         /\ v # w => worker'[v] = worker[v]
  BY <1>2 DEF TypeOK, OpenCall, Idle
<1>5. refund[r].status = "PENDING"
  BY <1>1 DEF RowsConsistent, CallRows
<1>6. refund[r].payment \in Payments
  BY <1>5 DEF RowsConsistent, RefundRows
<1>7. CallRows'
  BY <1>1, <1>3, <1>4, ConstantsAssumption DEF RowsConsistent, CallRows, TypeOK, OpenCall, Idle
<1>8. ASSUME UNCHANGED <<returned, net>>
      PROVE  RowsConsistent'
  BY <1>3, <1>7, <1>8 DEF RowsConsistent, PaymentRows, OnePaymentPerBooking, RefundRows,
     OneRefundPerBooking, BookingBacked, ProviderRows, Scheduled
<1>9. ASSUME returned[r] = 0, Returned(r)
      PROVE  RowsConsistent'
  <2>1. /\ returned' = [returned EXCEPT ![r] = 1]
        /\ \E copies \in {1, 2} :
             net' = [net EXCEPT ![<<refund[r].payment, "refund.succeeded">>] = copies]
    BY <1>9 DEF Returned, Schedule, Copies
  <2>2. \A s \in Refunds : returned'[s] = IF s = r THEN 1 ELSE returned[s]
    BY <2>1 DEF TypeOK
  <2>3. PaymentRows'
    BY <1>3 DEF RowsConsistent, PaymentRows
  <2>4. RefundRows'
    BY <1>3, <1>5, <2>2 DEF RowsConsistent, RefundRows
  <2>5. ProviderRows'
    <3>1. ASSUME NEW e \in Events, e # <<refund[r].payment, "refund.succeeded">>, Scheduled(e)'
          PROVE  Scheduled(e)
      BY <1>3, <2>1, <3>1 DEF Scheduled, TypeOK
    <3>2. ASSUME NEW q \in Payments, Scheduled(<<q, "charge.succeeded">>)'
          PROVE  outcome'[q] = "succeeded"
      <4>1. Scheduled(<<q, "charge.succeeded">>)
        BY <3>1, <3>2 DEF Events, EventType
      <4>2. QED
        BY <1>3, <4>1 DEF RowsConsistent, ProviderRows
    <3>3. ASSUME NEW q \in Payments, Scheduled(<<q, "charge.failed">>)'
          PROVE  outcome'[q] = "failed"
      <4>1. Scheduled(<<q, "charge.failed">>)
        BY <3>1, <3>3 DEF Events, EventType
      <4>2. QED
        BY <1>3, <4>1 DEF RowsConsistent, ProviderRows
    <3>4. ASSUME NEW q \in Payments, Scheduled(<<q, "refund.succeeded">>)'
          PROVE  \E s \in Refunds : refund'[s].payment = q /\ returned'[s] > 0
      <4>1. CASE q = refund[r].payment
        BY <1>3, <2>2, <4>1
      <4>2. CASE q # refund[r].payment
        <5>1. Scheduled(<<q, "refund.succeeded">>)
          BY <3>1, <3>4, <4>2 DEF Events, EventType
        <5>2. PICK s \in Refunds : refund[s].payment = q /\ returned[s] > 0
          BY <5>1 DEF RowsConsistent, ProviderRows
        <5>3. refund'[s].payment = q /\ returned'[s] > 0
          BY <1>3, <2>2, <5>2
        <5>4. QED
          BY <5>3
      <4>3. QED
        BY <4>1, <4>2
    <3>5. \A s \in Refunds : returned'[s] <= 1
      <4>1. \A s \in Refunds : returned[s] <= 1
        BY DEF RowsConsistent, ProviderRows
      <4>2. QED
        BY <2>2, <4>1
    <3>6. QED
      BY <1>3, <3>2, <3>3, <3>4, <3>5 DEF RowsConsistent, ProviderRows
  <2>6. QED
    BY <1>3, <1>7, <2>3, <2>4, <2>5 DEF RowsConsistent, OnePaymentPerBooking,
       OneRefundPerBooking, BookingBacked
<1>10. Returned(r) \/ UNCHANGED <<returned, net>>
  BY <1>1 DEF CallRefund
<1>11. QED
  BY <1>8, <1>9, <1>10 DEF Returned

\* attachProviderId: changes only the sent flag of the row the worker holds.
LEMMA FinishRefundPreserves ==
  ASSUME TypeOK, RowsConsistent, NEW w \in Workers, FinishRefund(w)
  PROVE  RowsConsistent'
<1>1. PICK r \in Refunds : worker[w].row = r /\ worker[w].job = "refund"
  BY DEF FinishRefund, TypeOK, OpenCall, Idle
<1>2. UNCHANGED <<status, payment, charges, outcome, returned, net, inbox>>
  BY DEF FinishRefund, bookingVars, providerVars, webhookVars
<1>3. \A s \in Refunds : /\ refund'[s].booking = refund[s].booking
                         /\ refund'[s].payment = refund[s].payment
                         /\ refund'[s].amount = refund[s].amount
                         /\ refund'[s].status = refund[s].status
                         /\ s # r => refund'[s].sent = refund[s].sent
  BY <1>1 DEF FinishRefund, TypeOK, RefundRow
<1>4. \A v \in Workers : worker'[v] = IF v = w THEN Idle ELSE worker[v]
  BY DEF FinishRefund, TypeOK
<1>5. CallRows'
  <2>1. \A v, u \in Workers : worker'[u].job # "idle" /\ worker'[v].row = worker'[u].row => v = u
    BY <1>4, ConstantsAssumption DEF RowsConsistent, CallRows, TypeOK, OpenCall, Idle
  <2>2. ASSUME NEW v \in Workers, worker'[v].job = "charge"
        PROVE  /\ payment'[worker'[v].row].status = "PENDING"
               /\ ~payment'[worker'[v].row].attached
               /\ worker'[v].answer = "accepted" => charges'[worker'[v].row] = 1
    BY <1>2, <1>4, <2>2 DEF RowsConsistent, CallRows, Idle
  <2>3. ASSUME NEW v \in Workers, worker'[v].job = "refund"
        PROVE  /\ refund'[worker'[v].row].status = "PENDING"
               /\ ~refund'[worker'[v].row].sent
    <3>1. worker'[v] = worker[v] /\ v # w
      BY <1>4, <2>3 DEF Idle
    <3>2. worker[v].row # r /\ worker[v].row \in Refunds
      BY <1>1, <2>3, <3>1 DEF RowsConsistent, CallRows, TypeOK, OpenCall, Idle
    <3>3. refund[worker[v].row].status = "PENDING" /\ ~refund[worker[v].row].sent
      BY <2>3, <3>1 DEF RowsConsistent, CallRows
    <3>4. QED
      BY <1>3, <3>1, <3>2, <3>3
  <2>4. QED
    BY <2>1, <2>2, <2>3 DEF CallRows
<1>6. PaymentRows' /\ RefundRows' /\ ProviderRows'
  BY <1>2, <1>3 DEF RowsConsistent, PaymentRows, RefundRows, ProviderRows, Scheduled
<1>7. OnePaymentPerBooking' /\ OneRefundPerBooking' /\ BookingBacked'
  BY <1>2, <1>3 DEF RowsConsistent, OnePaymentPerBooking, OneRefundPerBooking, BookingBacked
<1>8. QED
  BY <1>5, <1>6, <1>7 DEF RowsConsistent

\* A step that schedules no event and changes no row keeps the invariant.
LEMMA MessagesPreserve ==
  ASSUME RowsConsistent,
         UNCHANGED <<status, payment, refund, worker, charges, outcome, returned>>,
         \A e \in Events : Scheduled(e)' => Scheduled(e)
  PROVE  RowsConsistent'
<1>1. ProviderRows'
  BY DEF RowsConsistent, ProviderRows, Events, EventType
<1>2. QED
  BY <1>1 DEF RowsConsistent, PaymentRows, OnePaymentPerBooking, RefundRows,
     OneRefundPerBooking, BookingBacked, CallRows

\* Recording a webhook: only an event that was scheduled can arrive.
LEMMA DeliverPreserves ==
  ASSUME TypeOK, RowsConsistent, NEW e \in Events, Deliver(e)
  PROVE  RowsConsistent'
<1>1. \A f \in Events : Scheduled(f)' => Scheduled(f)
  BY DEF Deliver, Recorded, Scheduled, TypeOK
<1>2. QED
  BY <1>1, MessagesPreserve DEF Deliver, Recorded, bookingVars

\* Losing a webhook schedules nothing.
LEMMA LosePreserves ==
  ASSUME TypeOK, RowsConsistent, NEW e \in Events, Lose(e)
  PROVE  RowsConsistent'
<1>1. \A f \in Events : Scheduled(f)' => Scheduled(f)
  BY DEF Lose, Scheduled, TypeOK, webhookVars
<1>2. QED
  BY <1>1, MessagesPreserve DEF Lose, bookingVars

\* Marking an event processed schedules nothing.
LEMMA ProcessedWasScheduled ==
  ASSUME TypeOK, NEW e \in Events, MarkProcessed(e), UNCHANGED net
  PROVE  \A f \in Events : Scheduled(f)' => Scheduled(f)
  BY DEF MarkProcessed, Scheduled, TypeOK

\* Parking an unmatched webhook changes no row.
LEMMA ParkPreserves ==
  ASSUME TypeOK, RowsConsistent, NEW e \in Events, ParkUnmatched(e)
  PROVE  RowsConsistent'
<1>1. UNCHANGED <<status, payment, refund, worker, charges, outcome, returned, net>>
  BY DEF ParkUnmatched, bookingVars, providerVars
<1>2. QED
  BY <1>1, MessagesPreserve, ProcessedWasScheduled DEF ParkUnmatched

\* A booking whose payment is in flight has no other payment and no refund.
LEMMA PaymentInFlight ==
  ASSUME TypeOK, RowsConsistent, NEW p \in Payments, payment[p].status = "PENDING"
  PROVE  /\ payment[p].booking \in Bookings
         /\ status[payment[p].booking] \in {"PENDING_PAYMENT", "EXPIRED"}
         /\ \A q \in Payments : payment[q].booking = payment[p].booking => q = p
         /\ \A r \in Refunds : refund[r].booking # payment[p].booking /\ refund[r].payment # p
<1>1. payment[p].booking \in Bookings
  BY ConstantsAssumption DEF TypeOK, RowsConsistent, PaymentRows, PaymentRow
<1>2. status[payment[p].booking] \in {"PENDING_PAYMENT", "EXPIRED"}
  BY DEF RowsConsistent, PaymentRows
<1>3. \A q \in Payments : payment[q].booking = payment[p].booking => q = p
  BY DEF RowsConsistent, OnePaymentPerBooking
<1>4. ASSUME NEW r \in Refunds
      PROVE  refund[r].booking # payment[p].booking /\ refund[r].payment # p
  <2>1. CASE refund[r].status = "ABSENT"
    BY <1>1, <2>1, ConstantsAssumption DEF RowsConsistent, RefundRows
  <2>2. CASE refund[r].status # "ABSENT"
    BY <1>3, <2>2 DEF RowsConsistent, RefundRows
  <2>3. QED
    BY <2>1, <2>2
<1>5. QED
  BY <1>1, <1>2, <1>3, <1>4

\* A submitted payment has no provider call open on it.
LEMMA AttachedIsNotCalled ==
  ASSUME TypeOK, RowsConsistent, NEW p \in Payments, payment[p].attached
  PROVE  \A w \in Workers : worker[w].job = "charge" => worker[w].row # p
  BY DEF RowsConsistent, CallRows

\* capture: money taken confirms the booking or is owed back, in one commit.
LEMMA ApplyCapturePreserves ==
  ASSUME TypeOK, RowsConsistent, NEW p \in Payments, ApplyCapture(p)
  PROVE  RowsConsistent'
<1> DEFINE e == <<p, "charge.succeeded">>
<1>1. e \in Events
  BY DEF Events, EventType
<1>2. MarkProcessed(e) /\ payment[p].attached
  BY DEF ApplyCapture
<1>3. UNCHANGED <<worker, charges, outcome, returned, net>>
  BY DEF ApplyCapture, providerVars
<1>4. \A f \in Events : Scheduled(f)' => Scheduled(f)
  BY <1>1, <1>2, <1>3, ProcessedWasScheduled
<1>5. CASE payment[p].status # "PENDING"
  BY <1>3, <1>4, <1>5, MessagesPreserve DEF ApplyCapture
<1>6. CASE payment[p].status = "PENDING"
  <2>1. PICK b \in Bookings : b = payment[p].booking
    BY <1>6, PaymentInFlight
  <2>2. /\ status[b] \in {"PENDING_PAYMENT", "EXPIRED"}
        /\ \A q \in Payments : payment[q].booking = b => q = p
        /\ \A r \in Refunds : refund[r].booking # b /\ refund[r].payment # p
    BY <1>6, <2>1, PaymentInFlight
  <2>3. outcome[p] = "succeeded"
    <3>1. Scheduled(e)
      BY <1>2 DEF MarkProcessed, Scheduled
    <3>2. QED
      BY <3>1 DEF RowsConsistent, ProviderRows
  <2>4. \A q \in Payments : /\ payment'[q].booking = payment[q].booking
                            /\ payment'[q].attached = payment[q].attached
                            /\ payment'[q].status = IF q = p THEN "CAPTURED"
                                                    ELSE payment[q].status
    BY <1>6 DEF ApplyCapture, Settle, TypeOK, PaymentRow
  <2>5. OnePaymentPerBooking'
    BY <1>6, <2>4 DEF RowsConsistent, OnePaymentPerBooking
  <2>6. CallRows'
    <3>1. \A w \in Workers : worker[w].job = "charge" =>
            worker[w].row \in Payments /\ worker[w].row # p
      BY <1>2, AttachedIsNotCalled DEF TypeOK, OpenCall, Idle
    <3>2. \A r \in Refunds : refund[r].status # "ABSENT" => refund'[r] = refund[r]
      BY <1>6 DEF ApplyCapture, ConfirmOrRefund, InsertRefund, TypeOK
    <3>3. \A w \in Workers : worker[w].job = "refund" =>
            worker[w].row \in Refunds /\ refund[worker[w].row].status = "PENDING"
      BY DEF TypeOK, OpenCall, Idle, RowsConsistent, CallRows
    <3>4. QED
      BY <1>3, <2>4, <3>1, <3>2, <3>3 DEF RowsConsistent, CallRows
  <2>7. CASE Transition(b, "PENDING_PAYMENT", "CONFIRMED") /\ UNCHANGED refund
    <3>1. \A c \in Bookings : status'[c] = IF c = b THEN "CONFIRMED" ELSE status[c]
      BY <2>7 DEF Transition, TypeOK
    <3>2. PaymentRows'
      <4>1. ASSUME NEW q \in Payments, q # p PROVE PaymentRows!(q)'
        BY <1>3, <2>1, <2>2, <2>4, <2>7, <3>1, <4>1, ConstantsAssumption
        DEF RowsConsistent, PaymentRows, TypeOK, PaymentRow, PaymentStatus
      <4>2. PaymentRows!(p)'
        BY <1>2, <1>3, <2>1, <2>3, <2>4, <2>7, <3>1, ConstantsAssumption
      <4>3. QED
        BY <4>1, <4>2 DEF PaymentRows
    <3>3. RefundRows'
      BY <1>3, <1>6, <2>2, <2>4, <2>7, <3>1 DEF RowsConsistent, RefundRows
    <3>4. BookingBacked'
      BY <1>6, <2>1, <2>2, <2>4, <2>7, <3>1 DEF RowsConsistent, BookingBacked
    <3>5. ProviderRows' /\ OneRefundPerBooking'
      BY <1>3, <1>4, <2>4, <2>7
      DEF RowsConsistent, ProviderRows, OneRefundPerBooking, Events, EventType
    <3>6. QED
      BY <2>5, <2>6, <3>2, <3>3, <3>4, <3>5 DEF RowsConsistent
  <2>8. CASE status[b] = "EXPIRED" /\ InsertRefund(b, p, "FULL", "PENDING") /\ UNCHANGED status
    <3>1. PICK r \in Refunds :
            /\ refund[r].status = "ABSENT"
            /\ refund'[r] = [booking |-> b, payment |-> p, amount |-> "FULL",
                             status |-> "PENDING", sent |-> FALSE]
            /\ \A s \in Refunds \ {r} : refund'[s] = refund[s]
      BY <2>8, InsertedRow DEF RefundAmount, RefundStatus
    <3>2. \A s \in Refunds : refund[s].status = "ABSENT" => refund[s].payment = None
      BY DEF RowsConsistent, RefundRows
    <3>3. PaymentRows'
      <4>1. ASSUME NEW q \in Payments, q # p PROVE PaymentRows!(q)'
        <5>1. \A s \in Refunds : refund[s].payment = q => refund'[s].payment = q
          BY <3>1, <3>2, ConstantsAssumption
        <5>2. QED
          BY <1>3, <2>4, <2>8, <4>1, <5>1 DEF RowsConsistent, PaymentRows
      <4>2. PaymentRows!(p)'
        BY <1>2, <1>3, <2>1, <2>3, <2>4, <2>8, <3>1, ConstantsAssumption
      <4>3. QED
        BY <4>1, <4>2 DEF PaymentRows
    <3>4. RefundRows'
      <4>1. ASSUME NEW s \in Refunds \ {r} PROVE RefundRows!(s)'
        BY <1>3, <1>6, <2>2, <2>4, <2>8, <3>1 DEF RowsConsistent, RefundRows
      <4>2. /\ refund'[r].booking = b /\ refund'[r].payment = p
            /\ refund'[r].amount = "FULL" /\ refund'[r].status = "PENDING"
        BY <3>1
      <4>3. status'[b] = "EXPIRED" /\ payment'[p].booking = b /\ payment'[p].status = "CAPTURED"
        BY <2>1, <2>4, <2>8
      <4>4. RefundRows!(r)'
        BY <4>2, <4>3
      <4>5. QED
        BY <4>1, <4>4 DEF RefundRows
    <3>5. BookingBacked'
      <4>1. ASSUME NEW c \in Bookings PROVE BookingBacked!(c)'
        BY <1>6, <2>1, <2>4, <2>8, <3>1, <4>1 DEF RowsConsistent, BookingBacked
      <4>2. QED
        BY <4>1 DEF BookingBacked
    <3>6. ProviderRows' /\ OneRefundPerBooking'
      <4>1. OneRefundPerBooking'
        BY <2>2, <3>1 DEF RowsConsistent, OneRefundPerBooking
      <4>2. \A q \in Payments, s \in Refunds :
              refund[s].payment = q => refund'[s].payment = q
        BY <3>1, <3>2, ConstantsAssumption
      <4>3. ProviderRows'
        BY <1>3, <1>4, <2>4, <4>2 DEF RowsConsistent, ProviderRows, Events, EventType
      <4>4. QED
        BY <4>1, <4>3
    <3>7. QED
      BY <2>5, <2>6, <3>3, <3>4, <3>5, <3>6 DEF RowsConsistent
  <2>9. QED
    <3>1. LiveRefundsOf(b) = {}
      BY <2>2 DEF LiveRefundsOf
    <3>2. ConfirmOrRefund(b, p)
      BY <1>6, <2>1 DEF ApplyCapture
    <3>3. QED
      BY <2>2, <2>7, <2>8, <3>1, <3>2 DEF ConfirmOrRefund
<1>7. QED
  BY <1>5, <1>6

\* A declined charge: the payment fails, and the booking if it still waits.
LEMMA ApplyDeclinePreserves ==
  ASSUME TypeOK, RowsConsistent, NEW p \in Payments, ApplyDecline(p)
  PROVE  RowsConsistent'
<1> DEFINE e == <<p, "charge.failed">>
<1>1. e \in Events
  BY DEF Events, EventType
<1>2. MarkProcessed(e) /\ payment[p].attached
  BY DEF ApplyDecline
<1>3. UNCHANGED <<refund, worker, charges, outcome, returned, net>>
  BY DEF ApplyDecline, providerVars
<1>4. \A f \in Events : Scheduled(f)' => Scheduled(f)
  BY <1>1, <1>2, <1>3, ProcessedWasScheduled
<1>5. CASE payment[p].status # "PENDING"
  BY <1>3, <1>4, <1>5, MessagesPreserve DEF ApplyDecline
<1>6. CASE payment[p].status = "PENDING"
  <2>1. PICK b \in Bookings : b = payment[p].booking
    BY <1>6, PaymentInFlight
  <2>2. /\ status[b] \in {"PENDING_PAYMENT", "EXPIRED"}
        /\ \A q \in Payments : payment[q].booking = b => q = p
        /\ \A r \in Refunds : refund[r].booking # b /\ refund[r].payment # p
    BY <1>6, <2>1, PaymentInFlight
  <2>3. outcome[p] = "failed"
    <3>1. Scheduled(e)
      BY <1>2 DEF MarkProcessed, Scheduled
    <3>2. QED
      BY <3>1 DEF RowsConsistent, ProviderRows
  <2>4. \A q \in Payments : /\ payment'[q].booking = payment[q].booking
                            /\ payment'[q].attached = payment[q].attached
                            /\ payment'[q].status = IF q = p THEN "FAILED"
                                                    ELSE payment[q].status
    BY <1>6 DEF ApplyDecline, Settle, TypeOK, PaymentRow
  <2>5. \A c \in Bookings : IF c = b THEN status'[c] \in {"FAILED", "EXPIRED"}
                                     ELSE status'[c] = status[c]
    BY <1>6, <2>1, <2>2 DEF ApplyDecline, Transition, TypeOK
  <2>6. PaymentRows'
    <3>1. ASSUME NEW q \in Payments, q # p PROVE PaymentRows!(q)'
      BY <1>3, <2>1, <2>2, <2>4, <2>5, <3>1, ConstantsAssumption
      DEF RowsConsistent, PaymentRows, TypeOK, PaymentRow, PaymentStatus
    <3>2. PaymentRows!(p)'
      BY <2>1, <1>3, <2>3, <2>4, <2>5, ConstantsAssumption
    <3>3. QED
      BY <3>1, <3>2 DEF PaymentRows
  <2>7. RefundRows'
    BY <1>3, <1>6, <2>2, <2>4, <2>5 DEF RowsConsistent, RefundRows
  <2>8. BookingBacked'
    BY <1>3, <1>6, <2>1, <2>4, <2>5 DEF RowsConsistent, BookingBacked
  <2>9. CallRows'
    <3>1. \A w \in Workers : worker[w].job = "charge" =>
            worker[w].row \in Payments /\ worker[w].row # p
      BY <1>2, AttachedIsNotCalled DEF TypeOK, OpenCall, Idle
    <3>2. QED
      BY <1>3, <2>4, <3>1 DEF RowsConsistent, CallRows
  <2>10. OnePaymentPerBooking' /\ OneRefundPerBooking' /\ ProviderRows'
    BY <1>3, <1>4, <1>6, <2>4
    DEF RowsConsistent, OnePaymentPerBooking, OneRefundPerBooking, ProviderRows, Events, EventType
  <2>11. QED
    BY <2>6, <2>7, <2>8, <2>9, <2>10 DEF RowsConsistent
<1>7. QED
  BY <1>5, <1>6

\* refunded: the one refund of the booking settles and the booking follows.
LEMMA ApplyRefundPreserves ==
  ASSUME TypeOK, RowsConsistent, NEW p \in Payments, ApplyRefund(p)
  PROVE  RowsConsistent'
<1>b. PICK b : b = payment[p].booking
  OBVIOUS
<1> DEFINE e == <<p, "refund.succeeded">>
           live == {r \in LiveRefundsOf(b) : refund[r].status = "PENDING"}
<1>1. e \in Events
  BY DEF Events, EventType
<1>2. MarkProcessed(e) /\ payment[p].attached
  BY DEF ApplyRefund
<1>3. UNCHANGED <<payment, worker, charges, outcome, returned, net>>
  BY DEF ApplyRefund, providerVars
<1>4. \A f \in Events : Scheduled(f)' => Scheduled(f)
  BY <1>1, <1>2, <1>3, ProcessedWasScheduled
<1>5. CASE live = {}
  BY <1>b, <1>3, <1>4, <1>5, MessagesPreserve DEF ApplyRefund
<1>6. CASE live # {}
  <2>1. PICK r \in Refunds : /\ refund[r].booking = b
                             /\ refund[r].status = "PENDING"
                             /\ ~Locked(r)
                             /\ refund' = [refund EXCEPT ![r].status = "SUCCEEDED"]
                             /\ Transition(b, status[b], "REFUNDED")
    BY <1>b, <1>6 DEF ApplyRefund, LiveRefundsOf
  <2>2. /\ b \in Bookings
        /\ refund[r].payment \in Payments
        /\ payment[refund[r].payment].booking = b
        /\ payment[refund[r].payment].status = "CAPTURED"
        /\ refund[r].amount # "NOTHING"
        /\ \A q \in Payments : payment[q].booking = b => q = refund[r].payment
        /\ \A s \in Refunds : refund[s].booking = b => s = r
    BY <1>b, <2>1 DEF RowsConsistent, RefundRows, OneRefundPerBooking, OnePaymentPerBooking
  <2>3. returned[r] > 0
    <3>1. Scheduled(e)
      BY <1>2 DEF MarkProcessed, Scheduled
    <3>2. PICK s \in Refunds : refund[s].payment = p /\ returned[s] > 0
      BY <3>1 DEF RowsConsistent, ProviderRows
    <3>3. refund[s].status # "ABSENT"
      BY <3>2 DEF RowsConsistent, RefundRows
    <3>4. refund[s].booking = b
      BY <1>b, <3>2, <3>3 DEF RowsConsistent, RefundRows
    <3>5. QED
      BY <2>2, <3>2, <3>4
  <2>4. \A s \in Refunds : /\ refund'[s].booking = refund[s].booking
                           /\ refund'[s].payment = refund[s].payment
                           /\ refund'[s].amount = refund[s].amount
                           /\ refund'[s].sent = refund[s].sent
                           /\ refund'[s].status = IF s = r THEN "SUCCEEDED"
                                                  ELSE refund[s].status
    BY <2>1 DEF TypeOK, RefundRow
  <2>5. \A c \in Bookings : status'[c] = IF c = b THEN "REFUNDED" ELSE status[c]
    BY <2>1, <2>2 DEF Transition, TypeOK
  <2>6. PaymentRows'
    <3>1. ASSUME NEW q \in Payments, q # refund[r].payment PROVE PaymentRows!(q)'
      <4>1. payment[q].booking # b
        BY <2>2, <3>1
      <4>2. \A s \in Refunds : refund'[s].payment = refund[s].payment
        BY <2>4
      <4>3. payment[q].booking \in Bookings \cup {None}
        BY DEF TypeOK, PaymentRow
      <4>4. payment[q].booking \in Bookings => status'[payment[q].booking] = status[payment[q].booking]
        BY <2>5, <4>1
      <4>5. payment[q].status \in PaymentStatus
        BY DEF TypeOK, PaymentRow
      <4>6. PaymentRows!(q)
        BY DEF RowsConsistent, PaymentRows
      <4>7. QED
        BY <1>3, <4>2, <4>3, <4>4, <4>5, <4>6
    <3>2. ASSUME NEW q \in Payments, q = refund[r].payment PROVE PaymentRows!(q)'
      <4>1. payment[q].attached /\ outcome[q] = "succeeded"
        BY <2>2, <3>2 DEF RowsConsistent, PaymentRows
      <4>2. status'[payment'[q].booking] = "REFUNDED" /\ payment'[q].status = "CAPTURED"
        BY <1>3, <2>2, <2>5, <3>2
      <4>3. refund'[r].payment = q
        BY <2>4, <3>2
      <4>4. payment'[q].booking # None
        BY <1>3, <2>2, <3>2, ConstantsAssumption
      <4>5. QED
        BY <1>3, <4>1, <4>2, <4>3, <4>4
    <3>3. QED
      BY <3>1, <3>2 DEF PaymentRows
  <2>7. RefundRows'
    <3>1. ASSUME NEW s \in Refunds \ {r} PROVE RefundRows!(s)'
      BY <1>3, <2>2, <2>4, <2>5 DEF RowsConsistent, RefundRows
    <3>2. RefundRows!(r)'
      BY <1>3, <2>1, <2>2, <2>3, <2>4, <2>5
    <3>3. QED
      BY <3>1, <3>2 DEF RefundRows
  <2>8. BookingBacked'
    <3>1. refund'[r].booking = b /\ refund'[r].status = "SUCCEEDED" /\ refund'[r].amount # "NOTHING"
      BY <2>1, <2>2, <2>4
    <3>2. ASSUME NEW c \in Bookings, c # b PROVE BookingBacked!(c)'
      BY <1>3, <2>1, <2>4, <2>5, <3>2 DEF RowsConsistent, BookingBacked
    <3>3. BookingBacked!(b)'
      BY <2>2, <2>5, <3>1
    <3>4. QED
      BY <3>2, <3>3 DEF BookingBacked
  <2>9. CallRows'
    <3>1. \A w \in Workers : worker[w].row # r
      BY <2>1 DEF Locked
    <3>2. \A w \in Workers : worker[w].job = "refund" => worker[w].row \in Refunds
      BY DEF TypeOK, OpenCall, Idle
    <3>3. QED
      BY <1>3, <2>4, <3>1, <3>2 DEF RowsConsistent, CallRows
  <2>10. OnePaymentPerBooking' /\ OneRefundPerBooking'
    BY <1>3, <2>1, <2>4 DEF RowsConsistent, OnePaymentPerBooking, OneRefundPerBooking
  <2>11. ProviderRows'
    BY <1>3, <1>4, <2>4 DEF RowsConsistent, ProviderRows, Events, EventType
  <2>12. QED
    BY <2>6, <2>7, <2>8, <2>9, <2>10, <2>11 DEF RowsConsistent
<1>7. QED
  BY <1>5, <1>6

\* Every step of the system keeps the rows of each booking hanging together.
LEMMA RowsNext == TypeOK /\ RowsConsistent /\ [Next]_vars => RowsConsistent'
<1> SUFFICES ASSUME TypeOK, RowsConsistent, [Next]_vars PROVE RowsConsistent'
  OBVIOUS
<1>1. CASE CustomerStep
  <2>1. ASSUME NEW b \in Bookings, StartCheckout(b) PROVE RowsConsistent'
    BY <2>1, TimePreserves DEF StartCheckout, webhookVars
  <2>2. QED
    BY <1>1, <2>1, CreateHoldPreserves, SubmitPreserves, CancelPreserves DEF CustomerStep
<1>2. CASE Tick
  BY <1>2, TimePreserves DEF Tick, webhookVars
<1>3. CASE \E b \in Bookings : ReapHold(b)
  BY <1>3, ReapPreserves
<1>4. CASE WorkerStep
  BY <1>4, ClaimChargePreserves, CallChargePreserves, FinishChargePreserves, ClaimRefundPreserves,
     CallRefundPreserves, FinishRefundPreserves, CrashPreserves DEF WorkerStep
<1>5. CASE WebhookStep
  <2>1. ASSUME NEW e \in Events, ProcessEvent(e) PROVE RowsConsistent'
    <3>1. e[1] \in Payments
      BY DEF Events
    <3>2. QED
      BY <2>1, <3>1, ParkPreserves, ApplyCapturePreserves, ApplyDeclinePreserves,
         ApplyRefundPreserves DEF ProcessEvent
  <2>2. QED
    BY <1>5, <2>1, DeliverPreserves, LosePreserves DEF WebhookStep
<1>6. CASE UNCHANGED vars
  BY <1>6, TimePreserves DEF vars, bookingVars, webhookVars
<1>7. QED
  BY <1>1, <1>2, <1>3, <1>4, <1>5, <1>6 DEF Next

\* In every reachable state the booking, payment and refund rows, the open calls
\* and the provider's records fit together.
THEOREM RowsAlwaysConsistent == Spec => []RowsConsistent
<1>1. TypeOK /\ RowsConsistent /\ [Next]_vars => TypeOK' /\ RowsConsistent'
  BY TypeNext, RowsNext
<1>2. QED
  BY TypeInit, RowsInit, <1>1, PTL DEF Spec

\* The inductive invariant as one formula: the types, and rows, calls and provider fit together.
THEOREM InvariantHolds == Spec => []IInv
<1>1. QED
  BY TypeCorrect, RowsAlwaysConsistent, PTL DEF IInv

-----------------------------------------------------------------------------
(* The safety invariants *)

\* submitOne's retries never charge a booking twice (jobs.ts submitOne under
\* the provider's idempotency key).
THEOREM ChargedOnce == Spec => []CustomerChargedOnce
<1>1. TypeOK /\ RowsConsistent => CustomerChargedOnce
  <2> SUFFICES ASSUME TypeOK, RowsConsistent, NEW p \in Payments
               PROVE  /\ charges[p] <= 1
                      /\ \A q \in Payments \ {p} : charges[p] > 0 /\ charges[q] > 0 =>
                           payment[p].booking # payment[q].booking
    BY DEF CustomerChargedOnce
  <2>1. charges[p] <= 1
    BY DEF RowsConsistent, ProviderRows
  <2>2. ASSUME NEW q \in Payments \ {p}, charges[p] > 0, charges[q] > 0
        PROVE  payment[p].booking # payment[q].booking
    <3>1. charges[p] # 0
      BY <2>2
    <3>2. payment[p].status # "ABSENT"
      BY <3>1 DEF RowsConsistent, PaymentRows
    <3>3. QED
      BY <2>2, <3>2 DEF RowsConsistent, OnePaymentPerBooking
  <2>3. QED
    BY <2>1, <2>2
<1>2. QED
  BY TypeCorrect, RowsAlwaysConsistent, <1>1, PTL

\* A captured payment's booking exists and its refund, if any, is live.
LEMMA CapturedBacking ==
  ASSUME TypeOK, RowsConsistent, NEW p \in Payments, payment[p].status = "CAPTURED"
  PROVE  \/ status[payment[p].booking] = "CONFIRMED"
         \/ /\ status[payment[p].booking] \in {"EXPIRED", "CANCELLED", "REFUNDED"}
            /\ \E r \in LiveRefundsOf(payment[p].booking) : refund[r].payment = p
<1>1. CASE status[payment[p].booking] = "CONFIRMED"
  BY <1>1
<1>2. CASE status[payment[p].booking] # "CONFIRMED"
  <2>1. PICK r \in Refunds : refund[r].payment = p
    BY <1>2 DEF RowsConsistent, PaymentRows
  <2>2. refund[r].status # "ABSENT"
    BY <2>1, ConstantsAssumption DEF RowsConsistent, RefundRows
  <2>3. refund[r].booking = payment[p].booking
    BY <2>1, <2>2 DEF RowsConsistent, RefundRows
  <2>4. refund[r].status \in RefundStatus
    BY DEF TypeOK, RefundRow
  <2>5. r \in LiveRefundsOf(payment[p].booking)
    BY <2>2, <2>3, <2>4 DEF LiveRefundsOf, LiveRefund, RefundStatus
  <2>6. status[payment[p].booking] \in {"EXPIRED", "CANCELLED", "REFUNDED"}
    BY <1>2 DEF RowsConsistent, PaymentRows
  <2>7. QED
    BY <2>1, <2>5, <2>6
<1>3. QED
  BY <1>1, <1>2

\* INV-5: captured money has an outcome in the same commit (jobs.ts capture,
\* cancellationService.intendRefund).
THEOREM CaptureSettled == Spec => []CaptureHasOutcome
<1>1. TypeOK /\ RowsConsistent => CaptureHasOutcome
  BY CapturedBacking DEF CaptureHasOutcome
<1>2. QED
  BY TypeCorrect, RowsAlwaysConsistent, <1>1, PTL

\* INV-5: a confirmed booking is paid for and nobody is giving the money back.
THEOREM ConfirmedPaid == Spec => []ConfirmedIsPaidFor
<1>1. TypeOK /\ RowsConsistent => ConfirmedIsPaidFor
  <2> SUFFICES ASSUME TypeOK, RowsConsistent, NEW b \in Bookings, status[b] = "CONFIRMED"
               PROVE  /\ \E p \in LivePaymentsOf(b) :
                           payment[p].status = "CAPTURED" /\ outcome[p] = "succeeded"
                      /\ LiveRefundsOf(b) = {}
    BY DEF ConfirmedIsPaidFor
  <2>1. PICK p \in Payments : payment[p].booking = b /\ payment[p].status = "CAPTURED"
    BY DEF RowsConsistent, BookingBacked
  <2>2. outcome[p] = "succeeded"
    BY <2>1 DEF RowsConsistent, PaymentRows
  <2>3. LiveRefundsOf(b) = {}
    BY NoRefundBeforeRelease DEF LiveRefundsOf
  <2>4. QED
    BY <2>1, <2>2, <2>3 DEF LivePaymentsOf, LivePayment
<1>2. QED
  BY TypeCorrect, RowsAlwaysConsistent, <1>1, PTL

\* INV-4: a late capture is owed back in full (jobs.ts capture's else branch).
THEOREM LateCaptureOwed == Spec => []LateCaptureOwedInFull
<1>1. TypeOK /\ RowsConsistent => LateCaptureOwedInFull
  <2> SUFFICES ASSUME TypeOK, RowsConsistent, NEW p \in Payments,
                      payment[p].status = "CAPTURED", status[payment[p].booking] = "EXPIRED"
               PROVE  \E r \in LiveRefundsOf(payment[p].booking) :
                        refund[r].payment = p /\ refund[r].amount = "FULL"
    BY DEF LateCaptureOwedInFull
  <2>1. PICK r \in LiveRefundsOf(payment[p].booking) : refund[r].payment = p
    BY CapturedBacking
  <2>2. r \in Refunds /\ refund[r].booking = payment[p].booking /\ LiveRefund(r)
    BY <2>1 DEF LiveRefundsOf
  <2>3. refund[r].amount = "FULL"
    BY <2>2 DEF RowsConsistent, RefundRows, LiveRefund
  <2>4. QED
    BY <2>1, <2>3
<1>2. QED
  BY TypeCorrect, RowsAlwaysConsistent, <1>1, PTL

\* A charge is paid back at most once, only if it succeeded and something is
\* due (jobs.ts refundOne's retries under the provider's idempotency key).
THEOREM ReturnedAtMostOnce == Spec => []MoneyReturnedOnce
<1>1. TypeOK /\ RowsConsistent => MoneyReturnedOnce
  <2> SUFFICES ASSUME TypeOK, RowsConsistent, NEW r \in Refunds, returned[r] > 0
               PROVE  /\ returned[r] = 1
                      /\ refund[r].amount # "NOTHING"
                      /\ outcome[refund[r].payment] = "succeeded"
                      /\ \A s \in Refunds \ {r} : returned[s] > 0 =>
                           refund[s].payment # refund[r].payment
    BY DEF MoneyReturnedOnce
  <2>1. returned[r] = 1
    <3>1. returned[r] \in Nat
      BY DEF TypeOK
    <3>2. returned[r] <= 1
      BY DEF RowsConsistent, ProviderRows
    <3>3. QED
      BY <3>1, <3>2
  <2>2. ASSUME NEW s \in Refunds, returned[s] > 0
        PROVE  /\ refund[s].status \in {"PENDING", "SUCCEEDED"}
               /\ refund[s].payment \in Payments
               /\ payment[refund[s].payment].booking = refund[s].booking
               /\ payment[refund[s].payment].status = "CAPTURED"
    <3>1. returned[s] # 0
      BY <2>2
    <3>2. refund[s].status # "ABSENT" /\ refund[s].status \in RefundStatus
      BY <3>1 DEF RowsConsistent, RefundRows, TypeOK, RefundRow
    <3>3. QED
      BY <3>2 DEF RowsConsistent, RefundRows, RefundStatus
  <2>3. refund[r].amount # "NOTHING"
    <3>1. returned[r] # 0
      BY <2>1
    <3>2. QED
      BY <2>2, <3>1 DEF RowsConsistent, RefundRows
  <2>4. outcome[refund[r].payment] = "succeeded"
    BY <2>2 DEF RowsConsistent, PaymentRows
  <2>5. ASSUME NEW s \in Refunds \ {r}, returned[s] > 0
        PROVE  refund[s].payment # refund[r].payment
    BY <2>2, <2>5 DEF RowsConsistent, OneRefundPerBooking
  <2>6. QED
    BY <2>1, <2>3, <2>4, <2>5
<1>2. QED
  BY TypeCorrect, RowsAlwaysConsistent, <1>1, PTL

\* REFUNDED, the settled refund row and the provider's refund agree (jobs.ts
\* refunded).
THEOREM RefundedMatches == Spec => []RefundedIsReturned
<1>1. TypeOK /\ RowsConsistent => RefundedIsReturned
  <2>1. ASSUME TypeOK, RowsConsistent, NEW b \in Bookings, status[b] = "REFUNDED"
        PROVE  \E r \in LiveRefundsOf(b) :
                 refund[r].status = "SUCCEEDED" /\ refund[r].amount # "NOTHING"
    BY <2>1 DEF RowsConsistent, BookingBacked, LiveRefundsOf, LiveRefund
  <2>2. ASSUME TypeOK, RowsConsistent, NEW r \in Refunds,
               refund[r].status = "SUCCEEDED", refund[r].amount # "NOTHING"
        PROVE  status[refund[r].booking] = "REFUNDED" /\ returned[r] > 0
    BY <2>2 DEF RowsConsistent, RefundRows
  <2>3. QED
    BY <2>1, <2>2 DEF RefundedIsReturned
<1>2. QED
  BY TypeCorrect, RowsAlwaysConsistent, <1>1, PTL

\* A payment's final status is what the provider did with the charge (jobs.ts
\* capture and apply).
THEOREM LedgerAgrees == Spec => []LedgerMatchesProvider
<1>1. RowsConsistent => LedgerMatchesProvider
  BY DEF RowsConsistent, PaymentRows, LedgerMatchesProvider
<1>2. QED
  BY RowsAlwaysConsistent, <1>1, PTL

\* No due refund event asks the trigger for a transition it refuses (jobs.ts
\* refunded inside the processWebhooks batch).
THEOREM BatchNeverAborts == Spec => []WorkerNeverAborts
<1>1. RowsConsistent => WorkerNeverAborts
  BY DEF RowsConsistent, RefundRows, WorkerNeverAborts, LiveRefundsOf, LiveRefund, Legal, Matrix,
         ReturningTransitions
<1>2. QED
  BY RowsAlwaysConsistent, <1>1, PTL

\* What submitOne and refundOne read before the provider call still holds when
\* they write its answer.
THEOREM ClaimsStayValid == Spec => []ClaimStaysValid
<1>1. RowsConsistent => ClaimStaysValid
  BY DEF RowsConsistent, CallRows, ClaimStaysValid
<1>2. QED
  BY RowsAlwaysConsistent, <1>1, PTL

\* INV-4: nothing that arrives late sells an expired hold (005's matrix and the
\* guards of jobs.ts apply and capture).
THEOREM ExpiredStaysUnsold == Spec => ExpiredNeverSold
<1>1. ASSUME [Next]_vars, NEW b \in Bookings, TypeOK, status[b] = "EXPIRED"
      PROVE  status'[b] \in {"EXPIRED", "REFUNDED"}
  <2>1. ASSUME NEW c \in Bookings, NEW from, from # "EXPIRED", NEW to, Transition(c, from, to)
        PROVE  status'[b] = "EXPIRED"
    BY <1>1, <2>1 DEF Transition, TypeOK
  <2>2. CASE CustomerStep
    BY <1>1, <2>1, <2>2 DEF CustomerStep, CreateHold, StartCheckout, SubmitForPayment, NewPayment, Cancel,
       Cancellable, TypeOK
  <2>3. CASE \E c \in Bookings : ReapHold(c)
    BY <1>1, <2>1, <2>3 DEF ReapHold, Reapable
  <2>4. CASE WebhookStep
    <3>1. ASSUME NEW p \in Payments, ApplyCapture(p) PROVE status'[b] = "EXPIRED"
      BY <1>1, <3>1 DEF ApplyCapture, ConfirmOrRefund, Transition, TypeOK
    <3>2. ASSUME NEW p \in Payments, ApplyDecline(p) PROVE status'[b] = "EXPIRED"
      BY <1>1, <3>2 DEF ApplyDecline, Transition, TypeOK
    <3>3. ASSUME NEW p \in Payments, ApplyRefund(p) PROVE status'[b] \in {"EXPIRED", "REFUNDED"}
      BY <1>1, <3>3 DEF ApplyRefund, Transition, TypeOK
    <3>4. ASSUME NEW e \in Events, ProcessEvent(e) PROVE status'[b] \in {"EXPIRED", "REFUNDED"}
      BY <1>1, <3>1, <3>2, <3>3, <3>4 DEF ProcessEvent, ParkUnmatched, Events, bookingVars
    <3>5. QED
      BY <1>1, <2>4, <3>4 DEF WebhookStep, Deliver, Recorded, Lose, bookingVars
  <2>5. CASE Tick \/ WorkerStep \/ UNCHANGED vars
    BY <1>1, <2>5 DEF Tick, WorkerStep, ClaimCharge, CallCharge, FinishCharge, ChargeAttached, ClaimRefund,
       CallRefund, FinishRefund, Crash, vars, bookingVars
  <2>6. QED
    BY <1>1, <2>2, <2>3, <2>4, <2>5 DEF Next
<1>2. [Next]_vars /\ TypeOK =>
        [\A b \in Bookings : status[b] = "EXPIRED" => status'[b] \in {"EXPIRED", "REFUNDED"}]_vars
  BY <1>1
<1>3. QED
  BY TypeCorrect, <1>2, PTL DEF Spec, ExpiredNeverSold

-----------------------------------------------------------------------------
(* What a reader sees of a booking *)

\* A booking with a payment row shows that row's status, for it has no second.
LEMMA PaidShown ==
  ASSUME IInv, NEW p \in Payments, NEW b \in Bookings, payment[p].booking = b
  PROVE  PaidOf(b) = payment[p].status
<1>1. {q \in Payments : payment[q].booking = b} = {p}
  BY ConstantsAssumption
  DEF IInv, RowsConsistent, PaymentRows, OnePaymentPerBooking
<1>2. (CHOOSE q \in {p} : TRUE) = p
  OBVIOUS
<1>3. QED
  BY <1>1, <1>2 DEF PaidOf

\* One without reads ABSENT.
LEMMA PaidAbsent ==
  ASSUME NEW b \in Bookings, \A p \in Payments : payment[p].booking # b
  PROVE  PaidOf(b) = "ABSENT"
<1>1. {q \in Payments : payment[q].booking = b} = {}
  OBVIOUS
<1>2. QED
  BY <1>1 DEF PaidOf

\* The same for the refund row.
LEMMA BackShown ==
  ASSUME IInv, NEW r \in Refunds, NEW b \in Bookings, refund[r].booking = b
  PROVE  BackOf(b) = refund[r].status
<1>1. {s \in Refunds : refund[s].booking = b} = {r}
  BY ConstantsAssumption
  DEF IInv, RowsConsistent, RefundRows, OneRefundPerBooking
<1>2. (CHOOSE s \in {r} : TRUE) = r
  OBVIOUS
<1>3. QED
  BY <1>1, <1>2 DEF BackOf

LEMMA BackAbsent ==
  ASSUME NEW b \in Bookings, \A r \in Refunds : refund[r].booking # b
  PROVE  BackOf(b) = "ABSENT"
<1>1. {s \in Refunds : refund[s].booking = b} = {}
  OBVIOUS
<1>2. QED
  BY <1>1 DEF BackOf

\* What is shown, in one formula, so that it can be used of both ends of a step.
Shown ==
  \A b \in Bookings :
    /\ \A p \in Payments : payment[p].booking = b => PaidOf(b) = payment[p].status
    /\ (\A p \in Payments : payment[p].booking # b) => PaidOf(b) = "ABSENT"
    /\ \A r \in Refunds : refund[r].booking = b => BackOf(b) = refund[r].status
    /\ (\A r \in Refunds : refund[r].booking # b) => BackOf(b) = "ABSENT"

LEMMA WhatIsShown == IInv => Shown
  BY PaidShown, PaidAbsent, BackShown, BackAbsent DEF Shown

-----------------------------------------------------------------------------
(* One lemma per commit: the step a reader sees *)

\* What a step leaves of a table is shown as it was.
LEMMA PaidUnchanged ==
  ASSUME Shown, Shown',
         \A p \in Payments : /\ payment'[p].booking = payment[p].booking
                             /\ payment'[p].status = payment[p].status
  PROVE  \A b \in Bookings : PaidOf(b)' = PaidOf(b)
  BY DEF Shown

LEMMA BackUnchanged ==
  ASSUME Shown, Shown',
         \A r \in Refunds : /\ refund'[r].booking = refund[r].booking
                            /\ refund'[r].status = refund[r].status
  PROVE  \A b \in Bookings : BackOf(b)' = BackOf(b)
  BY DEF Shown

\* createHold.
LEMMA HoldShown ==
  ASSUME IInv, Shown, Shown', NEW b \in Bookings, CreateHold(b)
  PROVE  Rows!Hold(b)
<1>1. \A c \in Bookings : PaidOf(c)' = PaidOf(c)
  BY PaidUnchanged DEF CreateHold
<1>2. \A c \in Bookings : BackOf(c)' = BackOf(c)
  BY BackUnchanged DEF CreateHold
<1>3. QED
  BY <1>1, <1>2 DEF CreateHold, Rows!Hold

\* POST /checkout.
LEMMA CheckoutShown ==
  ASSUME IInv, Shown, Shown', NEW b \in Bookings, StartCheckout(b)
  PROVE  Rows!Reissue(b)
<1>1. \A c \in Bookings : PaidOf(c)' = PaidOf(c)
  BY PaidUnchanged DEF StartCheckout
<1>2. \A c \in Bookings : BackOf(c)' = BackOf(c)
  BY BackUnchanged DEF StartCheckout
<1>3. QED
  BY <1>1, <1>2 DEF StartCheckout, Reissued, Rows!Reissue

\* POST /pay.
LEMMA SubmitShown ==
  ASSUME IInv, Shown, Shown', NEW b \in Bookings, NEW p \in Payments, SubmitForPayment(b, p)
  PROVE  Rows!Submit(b)
<1> USE DEF SubmitForPayment
<1>1. \A c \in Bookings : BackOf(c)' = BackOf(c)
  BY BackUnchanged
<1>2. /\ payment[p].booking = None
      /\ \A q \in Payments : payment[q].booking # b
      /\ payment'[p].booking = b /\ payment'[p].status = "PENDING"
      /\ \A q \in Payments \ {p} : payment'[q] = payment[q]
  BY ConstantsAssumption
  DEF NewPayment, Transition, IInv, TypeOK, RowsConsistent, PaymentRows, PaymentRow, PaymentStatus
<1>3. PaidOf(b) = "ABSENT" /\ PaidOf(b)' = "PENDING"
  BY <1>2 DEF Shown
<1>4. \A c \in Bookings \ {b} : PaidOf(c)' = PaidOf(c)
  BY <1>2, ConstantsAssumption DEF Shown
<1>5. QED
  BY <1>1, <1>3, <1>4
  DEF Transition, Legal, Rows!Submit, Rows!Move, Rows!Legal, Matrix, Rows!Matrix,
      SellingTransitions, Rows!SellingTransitions, ReturningTransitions, Rows!ReturningTransitions

\* reapHolds.
LEMMA ExpireShown ==
  ASSUME IInv, Shown, Shown', NEW b \in Bookings, ReapHold(b)
  PROVE  Rows!Expire(b)
<1>1. \A c \in Bookings : PaidOf(c)' = PaidOf(c)
  BY PaidUnchanged DEF ReapHold
<1>2. \A c \in Bookings : BackOf(c)' = BackOf(c)
  BY BackUnchanged DEF ReapHold
<1>3. QED
  BY <1>1, <1>2
  DEF ReapHold, Reapable, Transition, Legal, Rows!Expire, Rows!Move, Rows!Legal, Matrix,
      Rows!Matrix, SellingTransitions, Rows!SellingTransitions, ReturningTransitions,
      Rows!ReturningTransitions

\* A refund row is inserted with its status, for a booking that had none.
LEMMA InsertShown ==
  ASSUME IInv, Shown, Shown', NEW b \in Bookings, NEW p \in Payments,
         NEW amount \in RefundAmount, NEW as \in RefundStatus,
         \A s \in Refunds : refund[s].booking # b,
         InsertRefund(b, p, amount, as)
  PROVE  /\ BackOf(b) = "ABSENT" /\ BackOf(b)' = as
         /\ \A c \in Bookings \ {b} : BackOf(c)' = BackOf(c)
<1>1. PICK r \in Refunds :
        /\ refund[r].status = "ABSENT"
        /\ refund'[r] = [booking |-> b, payment |-> p, amount |-> amount,
                         status |-> as, sent |-> FALSE]
        /\ \A s \in Refunds \ {r} : refund'[s] = refund[s]
  BY InsertedRow DEF IInv
<1>2. refund[r].booking = None /\ refund'[r].booking = b /\ refund'[r].status = as
  BY <1>1 DEF IInv, RowsConsistent, RefundRows
<1>3. BackOf(b) = "ABSENT" /\ BackOf(b)' = as
  BY <1>2 DEF Shown
<1>4. \A c \in Bookings \ {b} : BackOf(c)' = BackOf(c)
  BY <1>1, <1>2, ConstantsAssumption DEF Shown
<1>5. QED
  BY <1>3, <1>4

\* cancel: the refund row, if one is due, lands with the transition.
LEMMA CancelShown ==
  ASSUME IInv, Shown, Shown', NEW b \in Bookings, Cancel(b)
  PROVE  Rows!CancelIt(b)
<1>1. \A c \in Bookings : PaidOf(c)' = PaidOf(c)
  BY PaidUnchanged DEF Cancel
<1>2. status[b] \in {"HELD", "CONFIRMED"} /\ status' = [status EXCEPT ![b] = "CANCELLED"]
  BY DEF Cancel, Transition, Cancellable, Legal, Matrix, SellingTransitions,
         ReturningTransitions
<1>3. \A r \in Refunds : refund[r].booking # b
  BY <1>2, NoRefundBeforeRelease DEF IInv
<1>4. BackOf(b) = "ABSENT"
  BY <1>3 DEF Shown
<1>5. CASE \E p \in Payments : payment[p].booking = b /\ payment[p].status = "CAPTURED"
  <2>1. PaidOf(b) = "CAPTURED"
    BY <1>5 DEF Shown
  <2>2. PICK p \in Payments : \/ InsertRefund(b, p, "POLICY", "PENDING")
                              \/ InsertRefund(b, p, "NOTHING", "SUCCEEDED")
    BY <1>5 DEF Cancel, RefundOnCancel, LivePaymentsOf, LivePayment
  <2>3. \E due \in {"PENDING", "SUCCEEDED"} :
          /\ BackOf(b)' = due
          /\ \A c \in Bookings \ {b} : BackOf(c)' = BackOf(c)
    BY <1>3, <2>2, InsertShown DEF RefundAmount, RefundStatus
  <2>4. \E due \in {"PENDING", "SUCCEEDED"} :
          [c \in Bookings |-> BackOf(c)]' = [[c \in Bookings |-> BackOf(c)] EXCEPT ![b] = due]
    BY <2>3
  <2>5. QED
    BY <1>1, <1>2, <1>4, <2>1, <2>4
    DEF Cancel, Rows!CancelIt, Rows!Move, Rows!Legal, Rows!Matrix, Rows!SellingTransitions
<1>6. CASE ~\E p \in Payments : payment[p].booking = b /\ payment[p].status = "CAPTURED"
  <2>1. PaidOf(b) # "CAPTURED"
    BY <1>6 DEF Shown
  <2>2. UNCHANGED refund
    BY <1>6 DEF Cancel, RefundOnCancel, LivePaymentsOf
  <2>3. \A c \in Bookings : BackOf(c)' = BackOf(c)
    BY <2>2, BackUnchanged
  <2>4. QED
    BY <1>1, <1>2, <2>1, <2>3
    DEF Cancel, Rows!CancelIt, Rows!Move, Rows!Legal, Rows!Matrix, Rows!SellingTransitions
<1>7. QED
  BY <1>5, <1>6

\* A payment row is settled: its booking shows the new status, no other does.
LEMMA SettleShown ==
  ASSUME IInv, Shown, Shown', NEW p \in Payments, NEW to \in {"CAPTURED", "FAILED"},
         NEW b \in Bookings, payment[p].booking = b, Settle(p, to)
  PROVE  /\ PaidOf(b) = "PENDING" /\ PaidOf(b)' = to
         /\ \A c \in Bookings \ {b} : PaidOf(c)' = PaidOf(c)
<1>1. /\ payment'[p].booking = b /\ payment'[p].status = to
      /\ \A q \in Payments \ {p} : payment'[q] = payment[q]
  BY DEF Settle, IInv, TypeOK, PaymentRow
<1>2. PaidOf(b) = "PENDING" /\ PaidOf(b)' = to
  BY <1>1 DEF Shown, Settle
<1>3. \A c \in Bookings \ {b} : PaidOf(c)' = PaidOf(c)
  BY <1>1 DEF Shown
<1>4. QED
  BY <1>2, <1>3

\* processWebhooks on charge.succeeded: sold in time, owed back when late, or a
\* replay that shows as nothing.
LEMMA CaptureShown ==
  ASSUME IInv, Shown, Shown', NEW p \in Payments, ApplyCapture(p)
  PROVE  (\E b \in Bookings : Rows!Captured(b)) \/ UNCHANGED Rows!rowVars
<1>1. CASE payment[p].status = "PENDING"
  <2> PICK b \in Bookings : /\ payment[p].booking = b
                            /\ status[b] \in {"PENDING_PAYMENT", "EXPIRED"}
                            /\ \A r \in Refunds : refund[r].booking # b
    BY <1>1, PaymentInFlight DEF IInv
  <2>1. Settle(p, "CAPTURED") /\ ConfirmOrRefund(b, p) /\ UNCHANGED ttl
    BY <1>1 DEF ApplyCapture
  <2>2. /\ PaidOf(b) = "PENDING" /\ PaidOf(b)' = "CAPTURED"
        /\ \A c \in Bookings \ {b} : PaidOf(c)' = PaidOf(c)
    BY <2>1, SettleShown
  <2>3. CASE Transition(b, "PENDING_PAYMENT", "CONFIRMED") /\ UNCHANGED refund
    <3>1. \A c \in Bookings : BackOf(c)' = BackOf(c)
      BY <2>3, BackUnchanged
    <3>2. Rows!Captured(b)
      BY <2>1, <2>2, <2>3, <3>1
      DEF Transition, Rows!Captured, Rows!Move, Rows!Legal, Rows!Matrix, Rows!SellingTransitions
    <3>3. QED
      BY <3>2
  <2>4. CASE status[b] = "EXPIRED" /\ UNCHANGED status /\ InsertRefund(b, p, "FULL", "PENDING")
    <3>1. /\ BackOf(b) = "ABSENT" /\ BackOf(b)' = "PENDING"
          /\ \A c \in Bookings \ {b} : BackOf(c)' = BackOf(c)
      BY <2>4, InsertShown DEF RefundAmount, RefundStatus
    <3>2. Rows!Captured(b)
      BY <2>1, <2>2, <2>4, <3>1 DEF Rows!Captured
    <3>3. QED
      BY <3>2
  <2>5. QED
    BY <2>1, <2>3, <2>4 DEF ConfirmOrRefund, LiveRefundsOf
<1>2. CASE payment[p].status # "PENDING"
  <2>1. UNCHANGED <<status, ttl, payment, refund>>
    BY <1>2 DEF ApplyCapture
  <2>2. \A c \in Bookings : PaidOf(c)' = PaidOf(c) /\ BackOf(c)' = BackOf(c)
    BY <2>1, PaidUnchanged, BackUnchanged
  <2>3. QED
    BY <2>1, <2>2 DEF Rows!rowVars
<1>3. QED
  BY <1>1, <1>2

\* processWebhooks on charge.failed.
LEMMA DeclineShown ==
  ASSUME IInv, Shown, Shown', NEW p \in Payments, ApplyDecline(p)
  PROVE  (\E b \in Bookings : Rows!Declined(b)) \/ UNCHANGED Rows!rowVars
<1>1. UNCHANGED <<ttl, refund>> /\ \A c \in Bookings : BackOf(c)' = BackOf(c)
  BY BackUnchanged DEF ApplyDecline
<1>2. CASE payment[p].status = "PENDING"
  <2> PICK b \in Bookings : /\ payment[p].booking = b
                            /\ status[b] \in {"PENDING_PAYMENT", "EXPIRED"}
    BY <1>2, PaymentInFlight DEF IInv
  <2>1. /\ Settle(p, "FAILED")
        /\ \/ Transition(b, "PENDING_PAYMENT", "FAILED")
           \/ status[b] # "PENDING_PAYMENT" /\ UNCHANGED status
    BY <1>2 DEF ApplyDecline
  <2>2. /\ PaidOf(b) = "PENDING" /\ PaidOf(b)' = "FAILED"
        /\ \A c \in Bookings \ {b} : PaidOf(c)' = PaidOf(c)
    BY <2>1, SettleShown
  <2>3. Rows!Declined(b)
    BY <1>1, <2>1, <2>2
    DEF Transition, Rows!Declined, Rows!Move, Rows!Legal, Rows!Matrix, Rows!SellingTransitions
  <2>4. QED
    BY <2>3
<1>3. CASE payment[p].status # "PENDING"
  <2>1. UNCHANGED <<status, payment>>
    BY <1>3 DEF ApplyDecline
  <2>2. \A c \in Bookings : PaidOf(c)' = PaidOf(c)
    BY <2>1, PaidUnchanged
  <2>3. QED
    BY <1>1, <2>1, <2>2 DEF Rows!rowVars
<1>4. QED
  BY <1>2, <1>3

\* processWebhooks on refund.succeeded.
LEMMA RefundShown ==
  ASSUME IInv, Shown, Shown', NEW p \in Payments, ApplyRefund(p)
  PROVE  (\E b \in Bookings : Rows!MoneyBack(b)) \/ UNCHANGED Rows!rowVars
<1> DEFINE live == {r \in LiveRefundsOf(payment[p].booking) : refund[r].status = "PENDING"}
<1>1. UNCHANGED <<ttl, payment>> /\ \A c \in Bookings : PaidOf(c)' = PaidOf(c)
  BY PaidUnchanged DEF ApplyRefund
<1>2. CASE live # {}
  <2>1. PICK r \in live :
          /\ refund' = [refund EXCEPT ![r].status = "SUCCEEDED"]
          /\ Transition(payment[p].booking, status[payment[p].booking], "REFUNDED")
    BY <1>2 DEF ApplyRefund
  <2>2. r \in Refunds /\ refund[r].status = "PENDING"
    BY DEF LiveRefundsOf
  <2>3. PICK b \in Bookings : payment[p].booking = b /\ refund[r].booking = b
    BY <2>2 DEF IInv, RowsConsistent, RefundRows, LiveRefundsOf
  <2>4. /\ refund'[r].booking = b /\ refund'[r].status = "SUCCEEDED"
        /\ \A s \in Refunds \ {r} : refund'[s] = refund[s]
    BY <2>1, <2>2, <2>3 DEF IInv, TypeOK, RefundRow
  <2>5. BackOf(b) = "PENDING" /\ BackOf(b)' = "SUCCEEDED"
    BY <2>2, <2>3, <2>4 DEF Shown
  <2>6. \A c \in Bookings \ {b} : BackOf(c)' = BackOf(c)
    BY <2>3, <2>4 DEF Shown
  <2>7. Rows!MoneyBack(b)
    BY <1>1, <2>1, <2>3, <2>5, <2>6
    DEF Transition, Legal, Rows!MoneyBack, Rows!Move, Rows!Legal, Matrix, Rows!Matrix,
        SellingTransitions, Rows!SellingTransitions, ReturningTransitions,
        Rows!ReturningTransitions
  <2>8. QED
    BY <2>7
<1>3. CASE live = {}
  <2>1. UNCHANGED <<status, refund>>
    BY <1>3 DEF ApplyRefund
  <2>2. \A c \in Bookings : BackOf(c)' = BackOf(c)
    BY <2>1, BackUnchanged
  <2>3. QED
    BY <1>1, <2>1, <2>2 DEF Rows!rowVars
<1>4. QED
  BY <1>2, <1>3

\* The clock.
LEMMA TickShown ==
  ASSUME IInv, Shown, Shown', Tick
  PROVE  Rows!TimePasses
<1>1. \A c \in Bookings : PaidOf(c)' = PaidOf(c) /\ BackOf(c)' = BackOf(c)
  BY PaidUnchanged, BackUnchanged DEF Tick
<1>2. QED
  BY <1>1 DEF Tick, Elapsed, Rows!TimePasses

\* Claims, provider calls, their answers, crashes and the webhook intake are
\* out of sight: a charge id and a provider refund id are not shown.
LEMMA JobsUnseen ==
  ASSUME IInv, Shown, Shown', UNCHANGED <<status, ttl>>,
         \A p \in Payments : /\ payment'[p].booking = payment[p].booking
                             /\ payment'[p].status = payment[p].status,
         \A r \in Refunds : /\ refund'[r].booking = refund[r].booking
                            /\ refund'[r].status = refund[r].status
  PROVE  UNCHANGED Rows!rowVars
  BY PaidUnchanged, BackUnchanged DEF Rows!rowVars

LEMMA WorkerUnseen ==
  ASSUME IInv, Shown, Shown', WorkerStep
  PROVE  UNCHANGED Rows!rowVars
<1>1. UNCHANGED <<status, ttl>>
  BY DEF WorkerStep, ClaimCharge, CallCharge, FinishCharge, ClaimRefund, CallRefund,
         FinishRefund, Crash, bookingVars
<1>2. \A p \in Payments : /\ payment'[p].booking = payment[p].booking
                          /\ payment'[p].status = payment[p].status
  <2>1. ASSUME NEW w \in Workers, FinishCharge(w), NEW p \in Payments
        PROVE  /\ payment'[p].booking = payment[p].booking
               /\ payment'[p].status = payment[p].status
    BY <2>1 DEF FinishCharge, ChargeAttached, IInv, TypeOK, PaymentRow
  <2>2. QED
    BY <2>1 DEF WorkerStep, ClaimCharge, CallCharge, ClaimRefund, CallRefund, FinishRefund, Crash
<1>3. \A r \in Refunds : /\ refund'[r].booking = refund[r].booking
                         /\ refund'[r].status = refund[r].status
  <2>1. ASSUME NEW w \in Workers, FinishRefund(w), NEW r \in Refunds
        PROVE  /\ refund'[r].booking = refund[r].booking
               /\ refund'[r].status = refund[r].status
    BY <2>1 DEF FinishRefund, IInv, TypeOK, RefundRow
  <2>2. QED
    BY <2>1 DEF WorkerStep, ClaimCharge, CallCharge, FinishCharge, ClaimRefund, CallRefund, Crash
<1>4. QED
  BY <1>1, <1>2, <1>3, JobsUnseen

-----------------------------------------------------------------------------
(* The refinement *)

\* Empty tables show as absent rows.
LEMMA RowsShownInit == Init => Rows!RowsInit
<1> SUFFICES ASSUME Init PROVE Rows!RowsInit
  OBVIOUS
<1>1. \A b \in Bookings : PaidOf(b) = "ABSENT" /\ BackOf(b) = "ABSENT"
  BY PaidAbsent, BackAbsent, ConstantsAssumption DEF Init
<1>2. QED
  BY <1>1 DEF Init, Rows!RowsInit

\* Every step of the system shows as one step of BookingRows or as none.
LEMMA RowsShownNext ==
  IInv /\ Shown /\ Shown' /\ [Next]_vars => [Rows!RowsNext]_Rows!rowVars
<1> SUFFICES ASSUME IInv, Shown, Shown', [Next]_vars PROVE [Rows!RowsNext]_Rows!rowVars
  OBVIOUS
<1>1. CASE CustomerStep
  BY <1>1, HoldShown, CheckoutShown, SubmitShown, CancelShown
  DEF CustomerStep, Rows!RowsNext, Rows!RowStep
<1>2. CASE Tick
  BY <1>2, TickShown DEF Rows!RowsNext
<1>3. CASE \E b \in Bookings : ReapHold(b)
  BY <1>3, ExpireShown DEF Rows!RowsNext, Rows!RowStep
<1>4. CASE WorkerStep
  BY <1>4, WorkerUnseen
<1>5. CASE WebhookStep
  <2>1. ASSUME NEW e \in Events, Deliver(e) \/ Lose(e) \/ ParkUnmatched(e)
        PROVE  UNCHANGED Rows!rowVars
    BY <2>1, JobsUnseen DEF Deliver, Lose, ParkUnmatched, bookingVars
  <2>2. ASSUME NEW e \in Events, ProcessEvent(e), ~ParkUnmatched(e)
        PROVE  (\E b \in Bookings : Rows!RowStep(b)) \/ UNCHANGED Rows!rowVars
    <3>1. e[1] \in Payments
      BY DEF Events
    <3>2. QED
      BY <2>2, <3>1, CaptureShown, DeclineShown, RefundShown DEF ProcessEvent, Rows!RowStep
  <2>3. QED
    BY <1>5, <2>1, <2>2 DEF WebhookStep, Rows!RowsNext
<1>6. CASE UNCHANGED vars
  BY <1>6, JobsUnseen DEF vars, bookingVars
<1>7. QED
  BY <1>1, <1>2, <1>3, <1>4, <1>5, <1>6 DEF Next

\* Read from outside, a booking is the machine the pages are built on, with any
\* number of replicas claiming, calling, crashing and retrying behind it.
THEOREM PaymentsImplementRows == Spec => ImplementsRows
<1>1. Spec => []Shown
  BY InvariantHolds, WhatIsShown, PTL
<1>2. QED
  BY RowsShownInit, RowsShownNext, InvariantHolds, <1>1, PTL
  DEF Spec, ImplementsRows, Rows!RowsSpec

-----------------------------------------------------------------------------
(* The ledger: slot and money, read off what is shown *)

\* How a booking's status, payment and refund go together, as they are shown.
Coherent ==
  \A b \in Bookings :
    /\ status[b] \in BookingStatus
    /\ PaidOf(b) \in PaymentStatus /\ BackOf(b) \in RefundStatus
    /\ PaidOf(b) = "CAPTURED" =>
         \/ status[b] = "CONFIRMED" /\ BackOf(b) = "ABSENT"
         \/ status[b] = "EXPIRED" /\ BackOf(b) = "PENDING"
         \/ status[b] = "CANCELLED" /\ BackOf(b) \in {"PENDING", "SUCCEEDED"}
         \/ status[b] = "REFUNDED" /\ BackOf(b) = "SUCCEEDED"
    /\ PaidOf(b) # "CAPTURED" => BackOf(b) = "ABSENT" /\ status[b] \notin {"CONFIRMED", "REFUNDED"}

\* The money of a booking as a function of what is shown.
MoneyShown ==
  \A b \in Bookings :
    MoneyOf(b) = IF PaidOf(b) # "CAPTURED" THEN "none"
                 ELSE IF BackOf(b) = "ABSENT" THEN "taken"
                 ELSE IF BackOf(b) = "PENDING" THEN "owed"
                 ELSE IF status[b] = "CANCELLED" THEN "kept" ELSE "returned"

LEMMA RowsCohere == IInv => Coherent
<1> SUFFICES ASSUME IInv, NEW b \in Bookings PROVE Coherent!(b)
  BY DEF Coherent
<1>1. status[b] \in BookingStatus
  BY DEF IInv, TypeOK
<1>2. CASE \E p \in Payments : payment[p].booking = b
  <2>1. PICK p \in Payments : payment[p].booking = b
    BY <1>2
  <2>2. PaidOf(b) = payment[p].status /\ payment[p].status \in PaymentStatus
    BY <2>1, PaidShown DEF IInv, TypeOK, PaymentRow
  <2>3. CASE \E r \in Refunds : refund[r].booking = b
    <3>1. PICK r \in Refunds : refund[r].booking = b
      BY <2>3
    <3>2. BackOf(b) = refund[r].status
      BY <3>1, BackShown
    <3>3. refund[r].status \in {"PENDING", "SUCCEEDED"}
      BY <3>1, ConstantsAssumption
      DEF IInv, TypeOK, RefundRow, RefundStatus, RowsConsistent, RefundRows
    <3>4. refund[r].payment = p /\ payment[p].status = "CAPTURED"
      BY <2>1, <3>1, <3>3 DEF IInv, RowsConsistent, RefundRows, OnePaymentPerBooking
    <3>5. \/ status[b] \in {"EXPIRED", "CANCELLED"} /\ refund[r].status = "PENDING"
          \/ status[b] \in {"CANCELLED", "REFUNDED"} /\ refund[r].status = "SUCCEEDED"
      BY <3>1, <3>3 DEF IInv, RowsConsistent, RefundRows
    <3>6. QED
      BY <1>1, <2>2, <3>2, <3>4, <3>5 DEF RefundStatus
  <2>4. CASE \A r \in Refunds : refund[r].booking # b
    <3>1. BackOf(b) = "ABSENT"
      BY <2>4, BackAbsent
    <3>2. status[b] # "REFUNDED"
      BY <2>4 DEF IInv, RowsConsistent, BookingBacked
    <3>3. payment[p].status = "CAPTURED" => status[b] = "CONFIRMED"
      BY <2>1, <2>4, ConstantsAssumption
      DEF IInv, RowsConsistent, PaymentRows, RefundRows, OnePaymentPerBooking
    <3>4. status[b] = "CONFIRMED" => payment[p].status = "CAPTURED"
      BY <2>1 DEF IInv, RowsConsistent, BookingBacked, OnePaymentPerBooking
    <3>5. QED
      BY <1>1, <2>2, <3>1, <3>2, <3>3, <3>4 DEF RefundStatus
  <2>5. QED
    BY <2>3, <2>4
<1>3. CASE \A p \in Payments : payment[p].booking # b
  <2>1. \A r \in Refunds : refund[r].booking # b
    BY <1>3, ConstantsAssumption DEF IInv, RowsConsistent, RefundRows
  <2>2. PaidOf(b) = "ABSENT" /\ BackOf(b) = "ABSENT"
    BY <1>3, <2>1, PaidAbsent, BackAbsent
  <2>3. status[b] \notin {"CONFIRMED", "REFUNDED"}
    BY <1>3, <2>1 DEF IInv, RowsConsistent, BookingBacked
  <2>4. QED
    BY <1>1, <2>2, <2>3 DEF PaymentStatus, RefundStatus
<1>4. QED
  BY <1>2, <1>3

LEMMA MoneyIsShown == IInv => MoneyShown
<1> SUFFICES ASSUME IInv, NEW b \in Bookings PROVE MoneyShown!(b)
  BY DEF MoneyShown
<1> DEFINE captured == \E p \in Payments : payment[p].booking = b /\ payment[p].status = "CAPTURED"
<1>1. captured <=> PaidOf(b) = "CAPTURED"
  BY PaidShown, PaidAbsent
<1>2. Coherent!(b)
  BY RowsCohere DEF Coherent
<1>3. CASE \E r \in Refunds : refund[r].booking = b
  <2>1. PICK r \in Refunds : refund[r].booking = b
    BY <1>3
  <2>2. /\ BackOf(b) = refund[r].status
        /\ refund[r].status \in {"PENDING", "SUCCEEDED"}
    BY <2>1, BackShown, ConstantsAssumption
    DEF IInv, TypeOK, RefundRow, RefundStatus, RowsConsistent, RefundRows
  <2>3. LiveRefundsOf(b) = {r}
    BY <2>1, <2>2 DEF LiveRefundsOf, LiveRefund, IInv, RowsConsistent, OneRefundPerBooking
  <2>4. refund[r].status = "SUCCEEDED" => (refund[r].amount = "NOTHING" <=> status[b] = "CANCELLED")
    BY <2>1 DEF IInv, RowsConsistent, RefundRows
  <2>5. QED
    BY <1>1, <1>2, <2>2, <2>3, <2>4 DEF MoneyOf
<1>4. CASE \A r \in Refunds : refund[r].booking # b
  <2>1. LiveRefundsOf(b) = {} /\ BackOf(b) = "ABSENT"
    BY <1>4, BackAbsent DEF LiveRefundsOf
  <2>2. QED
    BY <1>1, <2>1 DEF MoneyOf
<1>5. QED
  BY <1>3, <1>4

\* Both readings of a booking hold at both ends of a step.
Readable == Coherent /\ MoneyShown

\* What changes of which booking in each step a reader sees.
LEMMA RowStepIsLocal ==
  ASSUME status \in [Bookings -> BookingStatus], NEW b \in Bookings, Rows!RowStep(b)
  PROVE  \A c \in Bookings \ {b} : /\ status'[c] = status[c]
                                   /\ PaidOf(c)' = PaidOf(c)
                                   /\ BackOf(c)' = BackOf(c)
<1> DEFINE paid == [c \in Bookings |-> PaidOf(c)]
           back == [c \in Bookings |-> BackOf(c)]
<1>1. \/ UNCHANGED status
      \/ \E to : status' = [status EXCEPT ![b] = to]
  BY DEF Rows!RowStep, Rows!Hold, Rows!Reissue, Rows!Submit, Rows!CancelIt, Rows!Expire,
         Rows!Captured, Rows!Declined, Rows!MoneyBack, Rows!Move
<1>2. \/ UNCHANGED paid
      \/ \E to : paid' = [paid EXCEPT ![b] = to]
  BY DEF Rows!RowStep, Rows!Hold, Rows!Reissue, Rows!Submit, Rows!CancelIt, Rows!Expire,
         Rows!Captured, Rows!Declined, Rows!MoneyBack, Rows!Move
<1>3. \/ UNCHANGED back
      \/ \E to : back' = [back EXCEPT ![b] = to]
  BY DEF Rows!RowStep, Rows!Hold, Rows!Reissue, Rows!Submit, Rows!CancelIt, Rows!Expire,
         Rows!Captured, Rows!Declined, Rows!MoneyBack, Rows!Move
<1>4. \A c \in Bookings \ {b} : status'[c] = status[c]
  BY <1>1
<1>5. \A c \in Bookings \ {b} : PaidOf(c)' = PaidOf(c)
  <2>1. \A c \in Bookings \ {b} : paid'[c] = paid[c]
    BY <1>2
  <2>2. QED
    BY <2>1
<1>6. \A c \in Bookings \ {b} : BackOf(c)' = BackOf(c)
  <2>1. \A c \in Bookings \ {b} : back'[c] = back[c]
    BY <1>3
  <2>2. QED
    BY <2>1
<1>7. QED
  BY <1>4, <1>5, <1>6

\* A step of one booking leaves the slot and the money of every other.
LEMMA OthersStay ==
  ASSUME status \in [Bookings -> BookingStatus], Readable, Readable',
         NEW b \in Bookings, Rows!RowStep(b)
  PROVE  \A c \in Bookings \ {b} : SlotOf(c)' = SlotOf(c) /\ MoneyOf(c)' = MoneyOf(c)
<1>1. \A c \in Bookings \ {b} : SlotOf(c)' = SlotOf(c)
  BY RowStepIsLocal DEF SlotOf
<1>2. \A c \in Bookings \ {b} : MoneyOf(c)' = MoneyOf(c)
  BY RowStepIsLocal DEF Readable, MoneyShown
<1>3. QED
  BY <1>1, <1>2

\* Every step a reader sees is a step of the ledger, or none: submitting and
\* declining a late payment move neither the slot nor the money.
LEMMA RowStepMovesLedger ==
  ASSUME status \in [Bookings -> BookingStatus], Readable, Readable',
         NEW b \in Bookings, Rows!RowStep(b)
  PROVE  [Ledger!Next]_Ledger!ledgerVars
<1> USE DEF Readable
<1>1. \A c \in Bookings \ {b} : SlotOf(c)' = SlotOf(c) /\ MoneyOf(c)' = MoneyOf(c)
  BY OthersStay
<1>2. CASE SlotOf(b)' = SlotOf(b) /\ MoneyOf(b)' = MoneyOf(b)
  BY <1>1, <1>2 DEF Ledger!ledgerVars
<1>3. ASSUME NEW s0, NEW m0, NEW s1, NEW m1,
             SlotOf(b) = s0, MoneyOf(b) = m0, SlotOf(b)' = s1, MoneyOf(b)' = m1
      PROVE  Ledger!Move(b, s0, m0, s1, m1)
  BY <1>1, <1>3 DEF Ledger!Move
<1>4. /\ Coherent!(b) /\ Coherent!(b)'
      /\ MoneyShown!(b) /\ MoneyShown!(b)'
  BY DEF Coherent, MoneyShown
<1>5. CASE Rows!Hold(b)
  <2>1. status[b] = "ABSENT" /\ status'[b] = "HELD"
    BY <1>5 DEF Rows!Hold
  <2>2. SlotOf(b) = "free" /\ SlotOf(b)' = "held" /\ MoneyOf(b) = "none" /\ MoneyOf(b)' = "none"
    BY <1>4, <2>1 DEF SlotOf
  <2>3. QED
    BY <1>3, <2>2 DEF Ledger!Next, Ledger!Hold
<1>6. CASE Rows!Reissue(b)
  <2>1. status'[b] = status[b] /\ PaidOf(b)' = PaidOf(b) /\ BackOf(b)' = BackOf(b)
    BY <1>6 DEF Rows!Reissue
  <2>2. QED
    BY <1>2, <1>4, <2>1 DEF SlotOf
<1>7. CASE Rows!Submit(b)
  <2>1. status[b] = "HELD" /\ status'[b] = "PENDING_PAYMENT"
    BY <1>7 DEF Rows!Submit, Rows!Move
  <2>2. QED
    BY <1>2, <1>4, <2>1 DEF SlotOf
<1>8. CASE Rows!CancelIt(b)
  <2>1. status[b] \in {"HELD", "CONFIRMED"} /\ status'[b] = "CANCELLED" /\ PaidOf(b)' = PaidOf(b)
    BY <1>8 DEF Rows!CancelIt, Rows!Move
  <2>2. SlotOf(b)' = "closed"
    BY <2>1 DEF SlotOf
  <2>3. CASE status[b] = "HELD"
    <3>1. SlotOf(b) = "held" /\ MoneyOf(b) = "none" /\ MoneyOf(b)' = "none"
      BY <1>4, <2>1, <2>3 DEF SlotOf
    <3>2. QED
      BY <1>3, <2>2, <3>1 DEF Ledger!Next, Ledger!Abandon
  <2>4. CASE status[b] = "CONFIRMED"
    <3>1. SlotOf(b) = "sold" /\ MoneyOf(b) = "taken" /\ MoneyOf(b)' \in {"owed", "kept"}
      BY <1>4, <2>1, <2>4 DEF SlotOf
    <3>2. QED
      BY <1>3, <2>2, <3>1 DEF Ledger!Next, Ledger!Withdraw
  <2>5. QED
    BY <2>1, <2>3, <2>4
<1>9. CASE Rows!Expire(b)
  <2>1. status[b] \in {"HELD", "PENDING_PAYMENT"} /\ status'[b] = "EXPIRED" /\ PaidOf(b)' = PaidOf(b)
    BY <1>9 DEF Rows!Expire, Rows!Move
  <2>2. SlotOf(b) = "held" /\ SlotOf(b)' = "lapsed" /\ MoneyOf(b) = "none" /\ MoneyOf(b)' = "none"
    BY <1>4, <2>1 DEF SlotOf
  <2>3. QED
    BY <1>3, <2>2 DEF Ledger!Next, Ledger!Lapse
<1>10. CASE Rows!Captured(b)
  <2>1. /\ PaidOf(b) = "PENDING" /\ PaidOf(b)' = "CAPTURED"
        /\ \/ status[b] = "PENDING_PAYMENT" /\ status'[b] = "CONFIRMED"
           \/ status[b] = "EXPIRED" /\ status'[b] = "EXPIRED"
    BY <1>10 DEF Rows!Captured, Rows!Move
  <2>2. CASE status[b] = "PENDING_PAYMENT" /\ status'[b] = "CONFIRMED"
    <3>1. SlotOf(b) = "held" /\ SlotOf(b)' = "sold" /\ MoneyOf(b) = "none" /\ MoneyOf(b)' = "taken"
      BY <1>4, <2>1, <2>2 DEF SlotOf
    <3>2. QED
      BY <1>3, <3>1 DEF Ledger!Next, Ledger!Sell
  <2>3. CASE status[b] = "EXPIRED" /\ status'[b] = "EXPIRED"
    <3>1. SlotOf(b) = "lapsed" /\ SlotOf(b)' = "lapsed" /\ MoneyOf(b) = "none" /\ MoneyOf(b)' = "owed"
      BY <1>4, <2>1, <2>3 DEF SlotOf
    <3>2. QED
      BY <1>3, <3>1 DEF Ledger!Next, Ledger!TakeLate
  <2>4. QED
    BY <2>1, <2>2, <2>3
<1>11. CASE Rows!Declined(b)
  <2>1. /\ PaidOf(b) = "PENDING" /\ PaidOf(b)' = "FAILED"
        /\ \/ status[b] = "PENDING_PAYMENT" /\ status'[b] = "FAILED"
           \/ status[b] = "EXPIRED" /\ status'[b] = "EXPIRED"
    BY <1>11 DEF Rows!Declined, Rows!Move
  <2>2. MoneyOf(b) = "none" /\ MoneyOf(b)' = "none"
    BY <1>4, <2>1
  <2>3. CASE status[b] = "PENDING_PAYMENT" /\ status'[b] = "FAILED"
    <3>1. SlotOf(b) = "held" /\ SlotOf(b)' = "closed"
      BY <2>3 DEF SlotOf
    <3>2. QED
      BY <1>3, <2>2, <3>1 DEF Ledger!Next, Ledger!Abandon
  <2>4. CASE status[b] = "EXPIRED" /\ status'[b] = "EXPIRED"
    BY <1>2, <2>2, <2>4 DEF SlotOf
  <2>5. QED
    BY <2>1, <2>3, <2>4
<1>12. CASE Rows!MoneyBack(b)
  <2>1. /\ BackOf(b) = "PENDING" /\ BackOf(b)' = "SUCCEEDED" /\ status'[b] = "REFUNDED"
    BY <1>12 DEF Rows!MoneyBack, Rows!Move
  <2>2. PaidOf(b) = "CAPTURED" /\ status[b] \in {"EXPIRED", "CANCELLED"}
    BY <1>4, <2>1
  <2>3. PaidOf(b)' = "CAPTURED"
    BY <1>12, <2>2 DEF Rows!MoneyBack
  <2>4. /\ SlotOf(b) \in {"lapsed", "closed"} /\ SlotOf(b)' = "closed"
        /\ MoneyOf(b) = "owed" /\ MoneyOf(b)' = "returned"
    BY <1>4, <2>1, <2>2, <2>3 DEF SlotOf
  <2>5. QED
    BY <1>3, <2>4 DEF Ledger!Next, Ledger!Return
<1>13. QED
  BY <1>5, <1>6, <1>7, <1>8, <1>9, <1>10, <1>11, <1>12 DEF Rows!RowStep

\* The clock and steps that show as nothing move nothing.
LEMMA UnseenMovesNothing ==
  ASSUME Readable, Readable', Rows!TimePasses \/ UNCHANGED Rows!rowVars
  PROVE  UNCHANGED Ledger!ledgerVars
<1>1. UNCHANGED <<status, [b \in Bookings |-> PaidOf(b)], [b \in Bookings |-> BackOf(b)]>>
  BY DEF Rows!TimePasses, Rows!rowVars
<1>2. \A b \in Bookings : PaidOf(b)' = PaidOf(b) /\ BackOf(b)' = BackOf(b)
  <2>1. \A b \in Bookings : /\ [c \in Bookings |-> PaidOf(c)]'[b] = [c \in Bookings |-> PaidOf(c)][b]
                            /\ [c \in Bookings |-> BackOf(c)]'[b] = [c \in Bookings |-> BackOf(c)][b]
    BY <1>1
  <2>2. QED
    BY <2>1
<1>3. \A b \in Bookings : SlotOf(b)' = SlotOf(b)
  BY <1>1 DEF SlotOf
<1>4. \A b \in Bookings : MoneyOf(b)' = MoneyOf(b)
  BY <1>1, <1>2 DEF Readable, MoneyShown
<1>5. QED
  BY <1>3, <1>4 DEF Ledger!ledgerVars

\* An empty table has free slots and no money.
LEMMA LedgerInit == Init /\ Readable => Ledger!Init
<1> SUFFICES ASSUME Init, Readable PROVE Ledger!Init
  OBVIOUS
<1>1. \A b \in Bookings : PaidOf(b) = "ABSENT"
  BY PaidAbsent, ConstantsAssumption DEF Init
<1>2. \A b \in Bookings : SlotOf(b) = "free" /\ MoneyOf(b) = "none"
  BY <1>1 DEF Init, SlotOf, Readable, MoneyShown
<1>3. QED
  BY <1>2 DEF Ledger!Init

\* The jobs, the callbacks and the rows together never take money for a slot
\* that is gone without owing it in the same step, nor give it back twice.
THEOREM PaymentsImplementLedger == Spec => ImplementsLedger
<1>1. Spec => []Readable
  BY InvariantHolds, RowsCohere, MoneyIsShown, PTL DEF Readable
<1>2. Spec => []Shown
  BY InvariantHolds, WhatIsShown, PTL
<1>3. IInv /\ Shown /\ Shown' /\ Readable /\ Readable' /\ [Next]_vars
        => [Ledger!Next]_Ledger!ledgerVars
  <2> SUFFICES ASSUME IInv, Shown, Shown', Readable, Readable', [Next]_vars
               PROVE  [Ledger!Next]_Ledger!ledgerVars
    OBVIOUS
  <2>1. [Rows!RowsNext]_Rows!rowVars
    BY RowsShownNext
  <2>2. CASE \E b \in Bookings : Rows!RowStep(b)
    BY <2>2, RowStepMovesLedger DEF IInv, TypeOK
  <2>3. CASE Rows!TimePasses \/ UNCHANGED Rows!rowVars
    BY <2>3, UnseenMovesNothing
  <2>4. QED
    BY <2>1, <2>2, <2>3 DEF Rows!RowsNext
<1>4. QED
  BY LedgerInit, InvariantHolds, <1>1, <1>2, <1>3, PTL DEF Spec, ImplementsLedger, Ledger!Spec
=============================================================================
