----------------------------- MODULE BookingRows -----------------------------
(***************************************************************************)
(* What the rows of a booking show to those who only read them: its        *)
(* status, the time its hold has left, and how its one payment and its one *)
(* refund stand.  Each action is one commit of the API or of a job; claims,*)
(* provider calls, callbacks and retries are out of sight.  Payments is    *)
(* checked to implement this module, and the pages are built on it.        *)
(***************************************************************************)
EXTENDS BookingStates, Naturals

CONSTANTS
  Bookings,        \* booking rows
  Free,            \* bookings whose total is zero
  HoldTtl,         \* clock ticks a hold lasts
  CheckoutWindow   \* clock ticks checkout guarantees

VARIABLES
  status,  \* bookings.status
  ttl,     \* ticks left until bookings.expires_at; 0 is expired
  paid,    \* the status of the booking's payment row
  back     \* the status of the booking's refund row

rowVars == <<status, ttl, paid, back>>

Move(b, to) == /\ Legal(status[b], to)
               /\ status' = [status EXCEPT ![b] = to]

\* A slot is taken.
Hold(b) ==
  /\ status[b] = "ABSENT"
  /\ status' = [status EXCEPT ![b] = "HELD"]
  /\ ttl' = [ttl EXCEPT ![b] = HoldTtl]
  /\ UNCHANGED <<paid, back>>

\* Checkout gives a hold that has not run out its window.
Reissue(b) ==
  /\ status[b] = "HELD"
  /\ ttl[b] > 0
  /\ ttl' = [ttl EXCEPT ![b] = IF ttl[b] < CheckoutWindow THEN CheckoutWindow ELSE ttl[b]]
  /\ UNCHANGED <<status, paid, back>>

\* A hold that has not run out is submitted for payment: once.
Submit(b) ==
  /\ status[b] = "HELD"
  /\ ttl[b] > 0
  /\ b \notin Free
  /\ paid[b] = "ABSENT"
  /\ Move(b, "PENDING_PAYMENT")
  /\ paid' = [paid EXCEPT ![b] = "PENDING"]
  /\ UNCHANGED <<ttl, back>>

\* Cancelling decides in the same commit what becomes of money taken: some of
\* it is owed, or none and the zero refund is complete as it is written.
CancelIt(b) ==
  /\ status[b] \in {"HELD", "CONFIRMED"}
  /\ Move(b, "CANCELLED")
  /\ IF paid[b] = "CAPTURED"
     THEN /\ back[b] = "ABSENT"
          /\ \E due \in {"PENDING", "SUCCEEDED"} : back' = [back EXCEPT ![b] = due]
     ELSE UNCHANGED back
  /\ UNCHANGED <<ttl, paid>>

\* The reaper takes a hold that ran out, also from under a payment.
Expire(b) ==
  /\ status[b] \in {"HELD", "PENDING_PAYMENT"}
  /\ ttl[b] = 0
  /\ Move(b, "EXPIRED")
  /\ UNCHANGED <<ttl, paid, back>>

\* Seeded fault: the late capture is recorded and nothing is owed for it.
CapturedUnanswered(b) ==
  /\ paid[b] = "PENDING"
  /\ paid' = [paid EXCEPT ![b] = "CAPTURED"]
  /\ IF status[b] = "PENDING_PAYMENT" THEN Move(b, "CONFIRMED") ELSE UNCHANGED status
  /\ UNCHANGED <<ttl, back>>

\* The money arrives: in time it sells the slot, late it is owed back.
Captured(b) ==
  /\ paid[b] = "PENDING"
  /\ paid' = [paid EXCEPT ![b] = "CAPTURED"]
  /\ \/ /\ status[b] = "PENDING_PAYMENT"
        /\ Move(b, "CONFIRMED")
        /\ UNCHANGED back
     \/ /\ status[b] = "EXPIRED"
        /\ back[b] = "ABSENT"
        /\ back' = [back EXCEPT ![b] = "PENDING"]
        /\ UNCHANGED status
  /\ UNCHANGED ttl

\* The charge is declined: the slot is given up, if it was not already.
Declined(b) ==
  /\ paid[b] = "PENDING"
  /\ paid' = [paid EXCEPT ![b] = "FAILED"]
  /\ \/ status[b] = "PENDING_PAYMENT" /\ Move(b, "FAILED")
     \/ status[b] = "EXPIRED" /\ UNCHANGED status
  /\ UNCHANGED <<ttl, back>>

\* The provider has returned the money.
MoneyBack(b) ==
  /\ back[b] = "PENDING"
  /\ back' = [back EXCEPT ![b] = "SUCCEEDED"]
  /\ Move(b, "REFUNDED")
  /\ UNCHANGED <<ttl, paid>>

\* now() moves on.
TimePasses ==
  /\ \E b \in Bookings : ttl[b] > 0
  /\ ttl' = [b \in Bookings |-> IF ttl[b] > 0 THEN ttl[b] - 1 ELSE 0]
  /\ UNCHANGED <<status, paid, back>>

RowsInit ==
  /\ status = [b \in Bookings |-> "ABSENT"]
  /\ ttl = [b \in Bookings |-> 0]
  /\ paid = [b \in Bookings |-> "ABSENT"]
  /\ back = [b \in Bookings |-> "ABSENT"]

RowStep(b) ==
  \/ Hold(b) \/ Reissue(b) \/ Submit(b) \/ CancelIt(b) \/ Expire(b)
  \/ Captured(b) \/ Declined(b) \/ MoneyBack(b)

RowsNext == (\E b \in Bookings : RowStep(b)) \/ TimePasses

RowsSpec == RowsInit /\ [][RowsNext]_rowVars
=============================================================================
