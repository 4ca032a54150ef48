------------------------------ MODULE Payments ------------------------------
(***************************************************************************)
(* The life of a booking and of the money behind it: the customer's calls  *)
(* (hold, checkout, pay, cancel), the background jobs every API replica    *)
(* runs, the rows they share in PostgreSQL, and the payment provider they  *)
(* talk to.                                                                *)
(*                                                                         *)
(* A transaction that only touches the database is one action: it runs     *)
(* under the row locks it takes first (FOR UPDATE, or the UPDATE itself),  *)
(* so it takes effect at one instant.  The two transactions that call the  *)
(* provider while they hold a row (submitOne, refundOne) are three steps:  *)
(* claim, call, finish, with a crash possible at each.                     *)
(***************************************************************************)
EXTENDS BookingStates, Integers, FiniteSets

CONSTANTS
  Bookings,        \* booking rows
  Payments,        \* payment rows; a row's idempotency key is its identity
  Refunds,         \* refund rows; the provider's idempotency key is the row id
  Workers,         \* worker loops, one per API replica
  Free,            \* bookings whose total is zero (payments.amount_minor > 0)
  None,            \* "no row"
  HoldTtl,         \* clock ticks a hold lasts (8 minutes in the code)
  CheckoutWindow,  \* clock ticks checkout guarantees (10 minutes in the code)
  Lossy            \* whether a delivery may be forged, or lost on the way

ASSUME ConstantsAssumption ==
  /\ Free \subseteq Bookings
  /\ None \notin Bookings \cup Payments \cup Refunds
  /\ Payments \cap Refunds = {}
  /\ HoldTtl \in Nat \ {0}
  /\ CheckoutWindow \in Nat \ {0}
  /\ Lossy \in BOOLEAN

VARIABLES
  status,     \* bookings.status
  ttl,        \* ticks left until bookings.expires_at; 0 is expired
  payment,    \* payments
  refund,     \* refunds
  worker,     \* the provider call each worker has open, if any
  charges,    \* provider: how many charges it made under each payment's key
  outcome,    \* provider: how that charge ended
  returned,   \* provider: how many refunds it made under each refund's key
  net,        \* provider: deliveries of each event still to arrive
  inbox,      \* webhook_events, unique on (charge_id, event_type)
  unmatched   \* unmatched_webhooks, by the charge they name

bookingVars  == <<status, ttl>>
providerVars == <<charges, outcome, returned, net>>
webhookVars  == <<inbox, unmatched>>
vars == <<bookingVars, payment, refund, worker, providerVars, webhookVars>>

-----------------------------------------------------------------------------
(* Rows *)

PaymentStatus == {"ABSENT", "PENDING", "CAPTURED", "FAILED"}
RefundStatus  == {"ABSENT", "PENDING", "SUCCEEDED"}

\* What a refund row pays back: the whole charge, the share the booking's
\* refund policy gives, or nothing (the row that records a 0% band).
RefundAmount == {"FULL", "POLICY", "NOTHING"}

\* "attached" is charge_id IS NOT NULL.
PaymentRow == [booking: Bookings \cup {None}, status: PaymentStatus,
               attached: BOOLEAN]

\* "sent" is provider_refund_id IS NOT NULL.
RefundRow == [booking: Bookings \cup {None}, payment: Payments \cup {None},
              amount: RefundAmount, status: RefundStatus, sent: BOOLEAN]

\* An open provider transaction: the row it holds FOR UPDATE and what the
\* provider has answered so far.
Answer   == {"waiting", "accepted", "refused"}
Idle     == [job |-> "idle", row |-> None, answer |-> "waiting"]
OpenCall == [job: {"charge"}, row: Payments, answer: Answer]
              \cup [job: {"refund"}, row: Refunds, answer: Answer]
              \cup {Idle}

EventType == {"charge.succeeded", "charge.failed", "refund.succeeded"}
Events    == Payments \X EventType

LivePayment(p) == payment[p].status \in {"PENDING", "CAPTURED"}
LiveRefund(r)  == refund[r].status \in {"PENDING", "SUCCEEDED"}

\* paymentRepo.findLive / refundRepo.findLive.
LivePaymentsOf(b) == {p \in Payments : payment[p].booking = b /\ LivePayment(p)}
LiveRefundsOf(b)  == {r \in Refunds : refund[r].booking = b /\ LiveRefund(r)}

\* The row is locked FOR UPDATE by an open provider transaction.
Locked(row) == \E w \in Workers : worker[w].row = row

\* An event on its way, recorded or already processed.
Scheduled(e) == net[e] > 0 \/ inbox[e] # "absent"

-----------------------------------------------------------------------------
(* Statements several transactions share *)

\* bookingRepo.transition, when its WHERE status = from matches: the trigger
\* must let the pair through, or the statement raises and nothing is written.
Transition(b, from, to) ==
  /\ status[b] = from
  /\ Legal(from, to)
  /\ status' = [status EXCEPT ![b] = to]

\* Seeded fault: the payment and booking parameters are swapped.
InsertRefundSwapped(b, p, amount, as) ==
  /\ LiveRefundsOf(b) = {}
  /\ \E r \in Refunds :
       /\ refund[r].status = "ABSENT"
       /\ refund' = [refund EXCEPT ![r] =
            [booking |-> p, payment |-> b, amount |-> amount, status |-> as,
             sent |-> FALSE]]

\* refundRepo.intend and nothingDue: one_live_refund_per_booking refuses a
\* second live row.
InsertRefund(b, p, amount, as) ==
  /\ LiveRefundsOf(b) = {}
  /\ \E r \in Refunds :
       /\ refund[r].status = "ABSENT"
       /\ refund' = [refund EXCEPT ![r] =
            [booking |-> b, payment |-> p, amount |-> amount, status |-> as,
             sent |-> FALSE]]

\* What the chaos plan of a charge or a refund leaves open here: a duplicate is
\* a second delivery.  (Its 500s are CallCharge's refused answers; a race, a
\* delay and the jitter are deliveries that may take any time.)
Copies == {1, 2}

\* The provider queues the deliveries of e.
Schedule(e) == \E copies \in Copies : net' = [net EXCEPT ![e] = copies]

-----------------------------------------------------------------------------
(* The customer's calls *)

\* POST /bookings: the inventory side of createHold is modelled in Inventory.
CreateHold(b) ==
  /\ status[b] = "ABSENT"
  /\ status' = [status EXCEPT ![b] = "HELD"]
  /\ ttl' = [ttl EXCEPT ![b] = HoldTtl]
  /\ UNCHANGED <<payment, refund, worker, providerVars, webhookVars>>

\* reissueHold's GREATEST(expires_at, now() + window).
Reissued(b) == IF ttl[b] < CheckoutWindow THEN CheckoutWindow ELSE ttl[b]

\* POST /bookings/:id/checkout.
StartCheckout(b) ==
  /\ status[b] = "HELD"
  /\ ttl[b] > 0
  /\ Reissued(b) # ttl[b] => Legal("HELD", "HELD")
  /\ ttl' = [ttl EXCEPT ![b] = Reissued(b)]
  /\ UNCHANGED <<status, payment, refund, worker, providerVars, webhookVars>>

\* paymentRepo.insertPending: the key is there before any call is.
NewPayment(b) == [booking |-> b, status |-> "PENDING", attached |-> FALSE]

\* POST /bookings/:id/pay.  A live charge is returned as it is: no step.
SubmitForPayment(b, p) ==
  /\ LivePaymentsOf(b) = {}
  /\ status[b] = "HELD"
  /\ ttl[b] > 0
  /\ b \notin Free
  /\ payment[p].status = "ABSENT"
  /\ payment' = [payment EXCEPT ![p] = NewPayment(b)]
  /\ Transition(b, "HELD", "PENDING_PAYMENT")
  /\ UNCHANGED <<ttl, refund, worker, providerVars, webhookVars>>

\* Seeded fault: the refund intent is left to a later transaction.
RefundOnCancelDeferred(b) == UNCHANGED refund

\* The refund half of cancel: what a captured payment gets back is the
\* policy's share, or a row recording that nothing is due.
RefundOnCancel(b) ==
  LET captured == {p \in LivePaymentsOf(b) : payment[p].status = "CAPTURED"}
  IN  IF captured = {}
      THEN UNCHANGED refund
      ELSE \E p \in captured :
             \/ InsertRefund(b, p, "POLICY", "PENDING")
             \/ InsertRefund(b, p, "NOTHING", "SUCCEEDED")

\* Seeded fault: the refund is written and the booking is not moved.
CancelWithoutTransition(b) ==
  /\ status[b] \in Cancellable
  /\ RefundOnCancel(b)
  /\ UNCHANGED <<status, ttl, payment, worker, providerVars, webhookVars>>

\* POST /bookings/:id/cancel.  A booking already cancelled or refunded is a
\* replay and PENDING_PAYMENT is refused by the trigger: no step for either.
Cancel(b) ==
  /\ status[b] \in Cancellable
  /\ Transition(b, status[b], "CANCELLED")
  /\ RefundOnCancel(b)
  /\ UNCHANGED <<ttl, payment, worker, providerVars, webhookVars>>

-----------------------------------------------------------------------------
(* Time and the reaper *)

Elapsed(b) == IF ttl[b] > 0 THEN ttl[b] - 1 ELSE 0

\* One clock for every hold: now() moves on.
Tick ==
  /\ \E b \in Bookings : ttl[b] > 0
  /\ ttl' = [b \in Bookings |-> Elapsed(b)]
  /\ UNCHANGED <<status, payment, refund, worker, providerVars, webhookVars>>

\* Seeded fault: the reaper forgets bookings whose payment is in flight.
ReapableHeldOnly(b) == status[b] = "HELD" /\ ttl[b] = 0

\* bookingRepo.claimExpired's WHERE.
Reapable(b) == status[b] \in {"HELD", "PENDING_PAYMENT"} /\ ttl[b] = 0

\* reapHolds, one booking of its batch.
ReapHold(b) ==
  /\ Reapable(b)
  /\ Transition(b, status[b], "EXPIRED")
  /\ UNCHANGED <<ttl, payment, refund, worker, providerVars, webhookVars>>

-----------------------------------------------------------------------------
(* submitPendingCharges: a payment row is the queue entry *)

\* Seeded fault: a submission that was answered 500 is not tried again.
UnsubmittedOnce(p) ==
  payment[p].status = "PENDING" /\ ~payment[p].attached /\ ~Locked(p) /\ charges[p] = 0

\* paymentRepo.claimUnsubmitted: PENDING, no charge id, SKIP LOCKED.
Unsubmitted(p) ==
  payment[p].status = "PENDING" /\ ~payment[p].attached /\ ~Locked(p)

ClaimCharge(w, p) ==
  /\ worker[w] = Idle
  /\ Unsubmitted(p)
  /\ worker' = [worker EXCEPT ![w] = [job |-> "charge", row |-> p, answer |-> "waiting"]]
  /\ UNCHANGED <<bookingVars, payment, refund, providerVars, webhookVars>>

OutcomeEvent(how) == IF how = "succeeded" THEN "charge.succeeded" ELSE "charge.failed"

\* Seeded fault: the key changes on every attempt, so a retry charges again.
ChargedAfreshWith(p, how) ==
  /\ charges' = [charges EXCEPT ![p] = @ + 1]
  /\ outcome' = [outcome EXCEPT ![p] = how]
  /\ Schedule(<<p, OutcomeEvent(how)>>)

\* The provider under an idempotency key: the first request makes the charge
\* and schedules its outcome, any other finds the charge made.
ChargedWith(p, how) ==
  IF charges[p] = 0
  THEN /\ charges' = [charges EXCEPT ![p] = 1]
       /\ outcome' = [outcome EXCEPT ![p] = how]
       /\ Schedule(<<p, OutcomeEvent(how)>>)
  ELSE UNCHANGED <<charges, outcome, net>>

\* POST /paygate/charges inside the open transaction.  The answer may be a 500
\* or a timeout although the charge was made, or the request may never arrive.
CallCharge(w) ==
  /\ worker[w].job = "charge"
  /\ worker[w].answer = "waiting"
  /\ \/ /\ \E how \in {"succeeded", "failed"} : ChargedWith(worker[w].row, how)
        /\ \E a \in {"accepted", "refused"} : worker' = [worker EXCEPT ![w].answer = a]
     \/ /\ UNCHANGED <<charges, outcome, net>>
        /\ worker' = [worker EXCEPT ![w].answer = "refused"]
  /\ UNCHANGED <<bookingVars, payment, refund, returned, webhookVars>>

\* paymentRepo.attachChargeId.
ChargeAttached(p) == [payment EXCEPT ![p].attached = TRUE]

\* attachChargeId and COMMIT, or nothing when the call failed.
FinishCharge(w) ==
  /\ worker[w].job = "charge"
  /\ worker[w].answer # "waiting"
  /\ payment' = IF worker[w].answer = "accepted"
                THEN ChargeAttached(worker[w].row)
                ELSE payment
  /\ worker' = [worker EXCEPT ![w] = Idle]
  /\ UNCHANGED <<bookingVars, refund, providerVars, webhookVars>>

\* The replica dies or its connection drops: the open transaction rolls back.
Crash(w) ==
  /\ worker[w] # Idle
  /\ worker' = [worker EXCEPT ![w] = Idle]
  /\ UNCHANGED <<bookingVars, payment, refund, providerVars, webhookVars>>

-----------------------------------------------------------------------------
(* driveRefunds *)

\* refundRepo.claimDue: PENDING, not sent, SKIP LOCKED.  next_attempt_at only
\* delays a row, so a due row may be claimed at any later time.
RefundDue(r) == refund[r].status = "PENDING" /\ ~refund[r].sent /\ ~Locked(r)

\* refundOne up to its provider call; a refund of a charge that was never
\* submitted is deferred, which changes no row the model keeps.
ClaimRefund(w, r) ==
  /\ worker[w] = Idle
  /\ RefundDue(r)
  /\ payment[refund[r].payment].attached
  /\ worker' = [worker EXCEPT ![w] = [job |-> "refund", row |-> r, answer |-> "waiting"]]
  /\ UNCHANGED <<bookingVars, payment, refund, providerVars, webhookVars>>

\* Seeded fault: the key changes on every attempt, so a retry refunds again.
ReturnedAfresh(r) ==
  /\ returned' = [returned EXCEPT ![r] = @ + 1]
  /\ Schedule(<<refund[r].payment, "refund.succeeded">>)

\* The provider under a refund's idempotency key.
Returned(r) ==
  IF returned[r] = 0
  THEN /\ returned' = [returned EXCEPT ![r] = 1]
       /\ Schedule(<<refund[r].payment, "refund.succeeded">>)
  ELSE UNCHANGED <<returned, net>>

\* POST /paygate/refunds: the same idempotency contract, and a charge the
\* provider does not know is answered 404.
CallRefund(w) ==
  /\ worker[w].job = "refund"
  /\ worker[w].answer = "waiting"
  /\ \/ /\ charges[refund[worker[w].row].payment] > 0
        /\ Returned(worker[w].row)
        /\ \E a \in {"accepted", "refused"} : worker' = [worker EXCEPT ![w].answer = a]
     \/ /\ UNCHANGED <<returned, net>>
        /\ worker' = [worker EXCEPT ![w].answer = "refused"]
  /\ UNCHANGED <<bookingVars, payment, refund, charges, outcome, webhookVars>>

\* Seeded fault: the refund is settled by the 202, not by the callback.
FinishRefundSettling(w) ==
  /\ worker[w].job = "refund"
  /\ worker[w].answer # "waiting"
  /\ refund' = IF worker[w].answer = "accepted"
               THEN [refund EXCEPT ![worker[w].row].status = "SUCCEEDED"]
               ELSE refund
  /\ worker' = [worker EXCEPT ![w] = Idle]
  /\ UNCHANGED <<bookingVars, payment, providerVars, webhookVars>>

\* Seeded fault: a call that was refused leaves the row marked as sent.
FinishRefundAlwaysSent(w) ==
  /\ worker[w].job = "refund"
  /\ worker[w].answer # "waiting"
  /\ refund' = [refund EXCEPT ![worker[w].row].sent = TRUE]
  /\ worker' = [worker EXCEPT ![w] = Idle]
  /\ UNCHANGED <<bookingVars, payment, providerVars, webhookVars>>

\* attachProviderId or defer, and COMMIT.
FinishRefund(w) ==
  /\ worker[w].job = "refund"
  /\ worker[w].answer # "waiting"
  /\ refund' = IF worker[w].answer = "accepted"
               THEN [refund EXCEPT ![worker[w].row].sent = TRUE]
               ELSE refund
  /\ worker' = [worker EXCEPT ![w] = Idle]
  /\ UNCHANGED <<bookingVars, payment, providerVars, webhookVars>>

-----------------------------------------------------------------------------
(* Webhooks: intake, then processWebhooks one event at a time *)

\* webhookRepo.record: ON CONFLICT (charge_id, event_type) DO NOTHING.
Recorded(e) == IF inbox[e] = "absent" THEN [inbox EXCEPT ![e] = "due"] ELSE inbox

\* A genuine delivery arrives: recorded once per (charge, event type).
Deliver(e) ==
  /\ net[e] > 0
  /\ net' = [net EXCEPT ![e] = @ - 1]
  /\ inbox' = Recorded(e)
  /\ UNCHANGED <<bookingVars, payment, refund, worker, charges, outcome, returned, unmatched>>

\* A delivery with a bad signature is refused and one that finds the merchant
\* down is dropped; the provider sends neither again.
Lose(e) ==
  /\ Lossy
  /\ net[e] > 0
  /\ net' = [net EXCEPT ![e] = @ - 1]
  /\ UNCHANGED <<bookingVars, payment, refund, worker, charges, outcome, returned, webhookVars>>

\* markProcessed.
MarkProcessed(e) ==
  /\ inbox[e] = "due"
  /\ inbox' = [inbox EXCEPT ![e] = "processed"]

\* findByChargeId found no payment: the event is parked and marked processed.
ParkUnmatched(e) ==
  /\ ~payment[e[1]].attached
  /\ MarkProcessed(e)
  /\ unmatched' = unmatched \cup {e[1]}
  /\ UNCHANGED <<bookingVars, payment, refund, worker, providerVars>>

\* paymentRepo.settle when it updates a row.
Settle(p, to) ==
  /\ payment[p].status = "PENDING"
  /\ payment' = [payment EXCEPT ![p].status = to]

\* Seeded fault: a capture confirms the booking without asking its status.
ConfirmOrRefundUnguarded(b, p) ==
  /\ status' = [status EXCEPT ![b] = "CONFIRMED"]
  /\ UNCHANGED refund

\* Seeded fault: a late capture gets what the cancellation policy would give.
ConfirmOrRefundByPolicy(b, p) ==
  \/ /\ Transition(b, "PENDING_PAYMENT", "CONFIRMED")
     /\ UNCHANGED refund
  \/ /\ status[b] # "PENDING_PAYMENT"
     /\ InsertRefund(b, p, "POLICY", "PENDING")
     /\ UNCHANGED status

\* capture after its settle: confirm the booking if it still waits for this
\* payment, otherwise owe the money back unless a refund is already live.
ConfirmOrRefund(b, p) ==
  \/ /\ Transition(b, "PENDING_PAYMENT", "CONFIRMED")
     /\ UNCHANGED refund
  \/ /\ status[b] # "PENDING_PAYMENT"
     /\ IF LiveRefundsOf(b) # {}
        THEN UNCHANGED refund
        ELSE InsertRefund(b, p, "FULL", "PENDING")
     /\ UNCHANGED status

ApplyCapture(p) ==
  /\ payment[p].attached
  /\ MarkProcessed(<<p, "charge.succeeded">>)
  /\ IF payment[p].status = "PENDING"
     THEN Settle(p, "CAPTURED") /\ ConfirmOrRefund(payment[p].booking, p)
     ELSE UNCHANGED <<status, payment, refund>>
  /\ UNCHANGED <<ttl, worker, providerVars, unmatched>>

ApplyDecline(p) ==
  LET b == payment[p].booking
  IN  /\ payment[p].attached
      /\ MarkProcessed(<<p, "charge.failed">>)
      /\ IF payment[p].status # "PENDING"
         THEN UNCHANGED <<status, payment>>
         ELSE /\ Settle(p, "FAILED")
              /\ IF status[b] = "PENDING_PAYMENT"
                 THEN Transition(b, "PENDING_PAYMENT", "FAILED")
                 ELSE UNCHANGED status
      /\ UNCHANGED <<ttl, refund, worker, providerVars, unmatched>>

\* refunded: settling waits for a worker that holds the refund row; the
\* transition starts from whatever status the booking has.
ApplyRefund(p) ==
  LET b    == payment[p].booking
      live == {r \in LiveRefundsOf(b) : refund[r].status = "PENDING"}
  IN  /\ payment[p].attached
      /\ MarkProcessed(<<p, "refund.succeeded">>)
      /\ IF live = {}
         THEN UNCHANGED <<status, refund>>
         ELSE \E r \in live :
                /\ ~Locked(r)
                /\ refund' = [refund EXCEPT ![r].status = "SUCCEEDED"]
                /\ Transition(b, status[b], "REFUNDED")
      /\ UNCHANGED <<ttl, payment, worker, providerVars, unmatched>>

\* processWebhooks, one event of its batch.
ProcessEvent(e) ==
  \/ ParkUnmatched(e)
  \/ e[2] = "charge.succeeded" /\ ApplyCapture(e[1])
  \/ e[2] = "charge.failed" /\ ApplyDecline(e[1])
  \/ e[2] = "refund.succeeded" /\ ApplyRefund(e[1])

-----------------------------------------------------------------------------
(* The specification *)

Init ==
  /\ status = [b \in Bookings |-> "ABSENT"]
  /\ ttl = [b \in Bookings |-> 0]
  /\ payment = [p \in Payments |->
       [booking |-> None, status |-> "ABSENT", attached |-> FALSE]]
  /\ refund = [r \in Refunds |->
       [booking |-> None, payment |-> None, amount |-> "NOTHING",
        status |-> "ABSENT", sent |-> FALSE]]
  /\ worker = [w \in Workers |-> Idle]
  /\ charges = [p \in Payments |-> 0]
  /\ outcome = [p \in Payments |-> "none"]
  /\ returned = [r \in Refunds |-> 0]
  /\ net = [e \in Events |-> 0]
  /\ inbox = [e \in Events |-> "absent"]
  /\ unmatched = {}

CustomerStep ==
  \E b \in Bookings : \/ CreateHold(b)
                      \/ StartCheckout(b)
                      \/ \E p \in Payments : SubmitForPayment(b, p)
                      \/ Cancel(b)

WorkerStep ==
  \E w \in Workers : \/ \E p \in Payments : ClaimCharge(w, p)
                     \/ CallCharge(w)
                     \/ FinishCharge(w)
                     \/ \E r \in Refunds : ClaimRefund(w, r)
                     \/ CallRefund(w)
                     \/ FinishRefund(w)
                     \/ Crash(w)

WebhookStep == \E e \in Events : Deliver(e) \/ Lose(e) \/ ProcessEvent(e)

Next ==
  \/ CustomerStep
  \/ Tick
  \/ \E b \in Bookings : ReapHold(b)
  \/ WorkerStep
  \/ WebhookStep

Spec == Init /\ [][Next]_vars

\* A submission goes through: some worker claims the row, the provider's
\* acceptance reaches it in time, and its transaction commits.
Claimed(row) ==
  \E w \in Workers : \/ row \in Payments /\ ClaimCharge(w, row)
                     \/ row \in Refunds /\ ClaimRefund(w, row)
Accepted(row) ==
  \E w \in Workers : /\ worker[w].row = row
                     /\ CallCharge(w) \/ CallRefund(w)
                     /\ worker'[w].answer = "accepted"
Committed(row) ==
  \E w \in Workers : /\ worker[w].row = row
                     /\ worker[w].answer = "accepted"
                     /\ FinishCharge(w) \/ FinishRefund(w)

\* The clock runs, every replica's loop keeps ticking, a call ends within its
\* timeout, a submission that is retried goes through in the end, and every
\* delivery is retried by nobody but arrives (Lossy says whether it may not).
\* Strong fairness is for rows another transaction may hold now and again:
\* PostgreSQL queues the waiter, and SKIP LOCKED comes back on the next tick.
Fairness ==
  /\ WF_vars(Tick)
  /\ \A b \in Bookings : WF_vars(ReapHold(b))
  /\ \A w \in Workers : /\ WF_vars(CallCharge(w) \/ CallRefund(w))
                        /\ WF_vars(FinishCharge(w) \/ FinishRefund(w))
  /\ \A row \in Payments \cup Refunds :
       SF_vars(Claimed(row)) /\ SF_vars(Accepted(row)) /\ SF_vars(Committed(row))
  /\ \A e \in Events : WF_vars(Deliver(e)) /\ SF_vars(ProcessEvent(e))

FairSpec == Spec /\ Fairness

-----------------------------------------------------------------------------
(* Safety *)

\* Every variable has its type; an open call is for a row of its job's table.
TypeOK ==
  /\ status \in [Bookings -> BookingStatus]
  /\ ttl \in [Bookings -> Nat]
  /\ payment \in [Payments -> PaymentRow]
  /\ refund \in [Refunds -> RefundRow]
  /\ worker \in [Workers -> OpenCall]
  /\ charges \in [Payments -> Nat]
  /\ outcome \in [Payments -> {"none", "succeeded", "failed"}]
  /\ returned \in [Refunds -> Nat]
  /\ net \in [Events -> 0..2]
  /\ inbox \in [Events -> {"absent", "due", "processed"}]
  /\ unmatched \subseteq Payments

\* INV-3 as the customer's card sees it: however often a submission is retried
\* after a 500, a timeout or a crash, and whoever retries it, the provider
\* makes at most one charge for a booking.
CustomerChargedOnce ==
  \A p \in Payments :
    /\ charges[p] <= 1
    /\ \A q \in Payments \ {p} :
         charges[p] > 0 /\ charges[q] > 0 => payment[p].booking # payment[q].booking

\* INV-5, first half: captured money always has an outcome in the same commit,
\* a booking that is confirmed or a live refund of that very payment.
CaptureHasOutcome ==
  \A p \in Payments : payment[p].status = "CAPTURED" =>
    \/ status[payment[p].booking] = "CONFIRMED"
    \/ \E r \in LiveRefundsOf(payment[p].booking) : refund[r].payment = p

\* INV-5, second half: a slot is only kept against money the provider really
\* took and nobody has decided to give back.
ConfirmedIsPaidFor ==
  \A b \in Bookings : status[b] = "CONFIRMED" =>
    /\ \E p \in LivePaymentsOf(b) : payment[p].status = "CAPTURED" /\ outcome[p] = "succeeded"
    /\ LiveRefundsOf(b) = {}

\* INV-4: a capture that lands on an expired hold is owed back in full.
LateCaptureOwedInFull ==
  \A p \in Payments :
    payment[p].status = "CAPTURED" /\ status[payment[p].booking] = "EXPIRED" =>
      \E r \in LiveRefundsOf(payment[p].booking) :
        refund[r].payment = p /\ refund[r].amount = "FULL"

\* Money goes back at most once per charge, only for a charge that succeeded,
\* and never for a cancellation whose band refunds nothing.
MoneyReturnedOnce ==
  \A r \in Refunds : returned[r] > 0 =>
    /\ returned[r] = 1
    /\ refund[r].amount # "NOTHING"
    /\ outcome[refund[r].payment] = "succeeded"
    /\ \A s \in Refunds \ {r} : returned[s] > 0 => refund[s].payment # refund[r].payment

\* A booking reads REFUNDED exactly when a refund of it has been settled, and
\* a settled refund (other than the zero one) is one the provider made.
RefundedIsReturned ==
  /\ \A r \in Refunds :
       refund[r].status = "SUCCEEDED" /\ refund[r].amount # "NOTHING" =>
         status[refund[r].booking] = "REFUNDED" /\ returned[r] > 0
  /\ \A b \in Bookings : status[b] = "REFUNDED" =>
       \E r \in LiveRefundsOf(b) : refund[r].status = "SUCCEEDED" /\ refund[r].amount # "NOTHING"

\* The ledger never contradicts the provider: FAILED is a charge that took
\* nothing and CAPTURED is one that did, also after retries and crashes.
LedgerMatchesProvider ==
  \A p \in Payments :
    /\ payment[p].status = "CAPTURED" => outcome[p] = "succeeded"
    /\ payment[p].status = "FAILED" => outcome[p] = "failed"

\* The webhook batch is one transaction and its catch block writes through it:
\* an event whose transition the trigger refuses would roll back the batch and
\* come first in the next one, for ever.  No event that can be due does.
WorkerNeverAborts ==
  \A p \in Payments :
    inbox[<<p, "refund.succeeded">>] = "due" =>
      \A r \in LiveRefundsOf(payment[p].booking) :
        refund[r].status = "PENDING" => Legal(status[refund[r].booking], "REFUNDED")

\* What a worker read before its provider call still holds when it writes the
\* answer: nobody else has the row, submitted it or settled it.
ClaimStaysValid ==
  \A w \in Workers :
    /\ worker[w].job # "idle" => \A v \in Workers \ {w} : worker[v].row # worker[w].row
    /\ worker[w].job = "charge" =>
         payment[worker[w].row].status = "PENDING" /\ ~payment[worker[w].row].attached
    /\ worker[w].job = "refund" =>
         refund[worker[w].row].status = "PENDING" /\ ~refund[worker[w].row].sent

\* INV-4 as a step: a hold that expired is never sold afterwards, whatever
\* arrives late; at most its money goes back.
ExpiredNeverSold ==
  [][\A b \in Bookings : status[b] = "EXPIRED" => status'[b] \in {"EXPIRED", "REFUNDED"}]_vars

-----------------------------------------------------------------------------
(* The inductive invariant: how the rows of one booking hang together *)

\* A payment row belongs to one booking, its booking has left HELD for good,
\* and its status fixes what the booking can be.
PaymentRows ==
  \A p \in Payments :
    /\ payment[p].status = "ABSENT" <=> payment[p].booking = None
    /\ payment[p].status = "ABSENT" => ~payment[p].attached /\ charges[p] = 0
    /\ payment[p].status = "PENDING" =>
         status[payment[p].booking] \in {"PENDING_PAYMENT", "EXPIRED"}
    /\ payment[p].status = "FAILED" =>
         /\ status[payment[p].booking] \in {"FAILED", "EXPIRED"}
         /\ outcome[p] = "failed"
    /\ payment[p].status = "CAPTURED" =>
         /\ payment[p].attached
         /\ outcome[p] = "succeeded"
         /\ \/ status[payment[p].booking] = "CONFIRMED"
            \/ /\ status[payment[p].booking] \in {"EXPIRED", "CANCELLED", "REFUNDED"}
               /\ \E r \in Refunds : refund[r].payment = p

OnePaymentPerBooking ==
  \A p, q \in Payments :
    payment[p].status # "ABSENT" /\ payment[p].booking = payment[q].booking => p = q

\* A refund row is for the captured payment of its own booking, which is no
\* longer for sale; its amount and status fix what the booking can be.
RefundRows ==
  \A r \in Refunds :
    /\ refund[r].status = "ABSENT" => refund[r].booking = None /\ refund[r].payment = None
    /\ refund[r].status = "ABSENT" => returned[r] = 0
    /\ refund[r].status # "ABSENT" =>
         /\ refund[r].booking \in Bookings
         /\ refund[r].payment \in Payments
         /\ payment[refund[r].payment].booking = refund[r].booking
         /\ payment[refund[r].payment].status = "CAPTURED"
         /\ status[refund[r].booking] \in {"EXPIRED", "CANCELLED", "REFUNDED"}
    /\ refund[r].status = "PENDING" =>
         /\ refund[r].amount # "NOTHING"
         /\ status[refund[r].booking] # "REFUNDED"
         /\ status[refund[r].booking] = "EXPIRED" => refund[r].amount = "FULL"
    /\ refund[r].status = "SUCCEEDED" =>
         IF refund[r].amount = "NOTHING"
         THEN status[refund[r].booking] = "CANCELLED" /\ returned[r] = 0
         ELSE status[refund[r].booking] = "REFUNDED" /\ returned[r] > 0

OneRefundPerBooking ==
  \A r, s \in Refunds :
    refund[r].status # "ABSENT" /\ refund[r].booking = refund[s].booking => r = s

\* A booking that says it is sold or refunded has the rows to show for it.
BookingBacked ==
  \A b \in Bookings :
    /\ status[b] = "CONFIRMED" =>
         \E p \in Payments : payment[p].booking = b /\ payment[p].status = "CAPTURED"
    /\ status[b] = "REFUNDED" =>
         \E r \in Refunds : /\ refund[r].booking = b
                           /\ refund[r].status = "SUCCEEDED"
                           /\ refund[r].amount # "NOTHING"

\* The provider holds one charge per key, one refund per key, and every event
\* on the way or recorded is about something it did.
ProviderRows ==
  /\ \A p \in Payments :
       /\ charges[p] <= 1
       /\ charges[p] = 0 <=> outcome[p] = "none"
       /\ payment[p].attached => charges[p] = 1
       /\ Scheduled(<<p, "charge.succeeded">>) => outcome[p] = "succeeded"
       /\ Scheduled(<<p, "charge.failed">>) => outcome[p] = "failed"
       /\ Scheduled(<<p, "refund.succeeded">>) =>
            \E r \in Refunds : refund[r].payment = p /\ returned[r] > 0
  /\ \A r \in Refunds : returned[r] <= 1

\* An open call is for a row nobody else has, still as it was read.
CallRows ==
  /\ \A v, w \in Workers :
       worker[w].job # "idle" /\ worker[v].row = worker[w].row => v = w
  /\ \A w \in Workers :
       /\ worker[w].job = "charge" =>
            /\ payment[worker[w].row].status = "PENDING"
            /\ ~payment[worker[w].row].attached
            /\ worker[w].answer = "accepted" => charges[worker[w].row] = 1
       /\ worker[w].job = "refund" =>
            /\ refund[worker[w].row].status = "PENDING"
            /\ ~refund[worker[w].row].sent

\* Inductive: each part is preserved by every step from the conjunction, and
\* together they give the safety invariants above.
RowsConsistent ==
  /\ PaymentRows
  /\ OnePaymentPerBooking
  /\ RefundRows
  /\ OneRefundPerBooking
  /\ BookingBacked
  /\ ProviderRows
  /\ CallRows

\* The inductive invariant, with the types it needs.
IInv == TypeOK /\ RowsConsistent

-----------------------------------------------------------------------------
(* Liveness, of FairSpec *)

\* The slot behind a payment in flight comes back to sale or is sold: a
\* provider that stays silent cannot block it for ever.
PaymentInFlightResolves ==
  \A b \in Bookings : status[b] = "PENDING_PAYMENT" ~> status[b] # "PENDING_PAYMENT"

\* A payment row is a job that cannot be lost: through refusals, timeouts and
\* crashes it ends up submitted, with its charge id stored.
ChargeIsSubmitted ==
  \A p \in Payments : payment[p].status = "PENDING" ~> charges[p] > 0 /\ payment[p].attached

\* Money owed is paid back and the booking follows it to REFUNDED, provided
\* the provider's callback is not lost.
OwedRefundIsPaid ==
  \A r \in Refunds : refund[r].status = "PENDING" ~>
    refund[r].status = "SUCCEEDED" /\ status[refund[r].booking] = "REFUNDED"

\* What ARCHITECTURE.md 4D says of a callback that outruns its charge id: it is
\* deferred, so when the charge lands the ordinary retry applies it.  Money the
\* provider took would then always reach the ledger when no delivery is lost.
CaptureIsRecorded ==
  \A p \in Payments : outcome[p] = "succeeded" ~> payment[p].status = "CAPTURED"

-----------------------------------------------------------------------------
(* Refinement: the slot and the money of each booking, read off the rows *)

SlotOf(b) ==
  CASE status[b] = "ABSENT" -> "free"
    [] status[b] \in {"DRAFT", "HELD", "PENDING_PAYMENT"} -> "held"
    [] status[b] \in {"CONFIRMED", "COMPLETED"} -> "sold"
    [] status[b] = "EXPIRED" -> "lapsed"
    [] status[b] \in {"FAILED", "CANCELLED", "REFUNDED"} -> "closed"

MoneyOf(b) ==
  LET captured == \E p \in Payments :
                    payment[p].booking = b /\ payment[p].status = "CAPTURED"
  IN  CASE ~captured -> "none"
        [] captured /\ LiveRefundsOf(b) = {} -> "taken"
        [] captured /\ \E r \in LiveRefundsOf(b) : refund[r].status = "PENDING" -> "owed"
        [] captured /\ \E r \in LiveRefundsOf(b) :
             refund[r].status = "SUCCEEDED" /\ refund[r].amount = "NOTHING" -> "kept"
        [] OTHER -> "returned"

Ledger == INSTANCE BookingLedger
            WITH slot <- [b \in Bookings |-> SlotOf(b)],
                 money <- [b \in Bookings |-> MoneyOf(b)]

\* The jobs, the callbacks and the rows together do nothing to a booking that
\* the ledger does not allow: in particular no step takes money for a slot that
\* is gone without owing it in the same step.
ImplementsLedger == Ledger!Spec

\* What a reader sees of a booking's payment and refund: a booking never has a
\* second row of either (OnePaymentPerBooking, OneRefundPerBooking).
PaidOf(b) == LET own == {p \in Payments : payment[p].booking = b}
             IN  IF own = {} THEN "ABSENT" ELSE payment[CHOOSE p \in own : TRUE].status
BackOf(b) == LET own == {r \in Refunds : refund[r].booking = b}
             IN  IF own = {} THEN "ABSENT" ELSE refund[CHOOSE r \in own : TRUE].status

Rows == INSTANCE BookingRows
          WITH paid <- [b \in Bookings |-> PaidOf(b)],
               back <- [b \in Bookings |-> BackOf(b)]

\* Read from outside, a booking is the simple machine the pages are built on:
\* with all the claims, retries, crashes and late callbacks, each commit shows
\* as one of its steps or not at all.
ImplementsRows == Rows!RowsSpec
=============================================================================
