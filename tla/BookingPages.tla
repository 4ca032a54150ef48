---------------------------- MODULE BookingPages ----------------------------
(***************************************************************************)
(* One browser tab on a booking's checkout page or detail page, over the   *)
(* rows of the booking: the cached answer the page draws, the GET that     *)
(* refreshes it, the call the customer has open, and the wait for a        *)
(* payment's outcome.  Whatever else happens to the booking (another tab,  *)
(* the jobs, the provider's callbacks) is a step of BookingRows.           *)
(*                                                                         *)
(* GET /bookings/:id reads the booking row first and then, without a       *)
(* transaction, the payment and the refund side by side, so its answer may *)
(* be made of three different moments.  The query library is external: one *)
(* request at a time for a key; a poll that finds one open waits for it, a *)
(* refetch after a write drops it and asks again.                          *)
(***************************************************************************)
EXTENDS BookingRows

CONSTANTS
  Watched,     \* the booking the tab is about
  PollCeiling  \* clock ticks a page polls (a minute in the code)

ASSUME PagesAssumption ==
  /\ Watched \in Bookings
  /\ PollCeiling \in Nat \ {0}
  /\ HoldTtl \in Nat /\ CheckoutWindow \in Nat

VARIABLES
  page,    \* the page in front, or "away"
  copy,    \* the cached answer
  asking,  \* the GET in flight, with what the server has read for it
  failed,  \* the last GET ended in an error
  wait,    \* the checkout page's own state
  call,    \* the POST the page has open
  said    \* what the last cancel was said to have done

pageVars == <<page, copy, asking, failed, wait, call, said>>
allVars == <<rowVars, pageVars>>

-----------------------------------------------------------------------------
(* What a page holds *)

\* A booking as GET /bookings/:id answers it; "UNREAD" is not read yet.
View == [status: BookingStatus \cup {"UNREAD"}, ttl: Nat,
         payment: {"UNREAD", "ABSENT", "PENDING", "CAPTURED", "FAILED"},
         refund: {"UNREAD", "ABSENT", "PENDING", "SUCCEEDED"}]
Blank == [status |-> "UNREAD", ttl |-> 0, payment |-> "UNREAD", refund |-> "UNREAD"]

NotAsking == [open |-> FALSE, view |-> Blank]
Sent      == [open |-> TRUE, view |-> Blank]

NoCall == [op |-> "none", answer |-> "none", ttl |-> 0]

\* "asked" is pollStarted > 0, "own" an expiresAt that checkout answered, with
\* "left" ticks to go, "rang" that the countdown has fired.
NotWaiting == [started |-> FALSE, polling |-> FALSE, asked |-> FALSE, age |-> 0,
               own |-> FALSE, left |-> 0, rang |-> FALSE]

\* Seeded fault: SETTLED is "anything other than PENDING_PAYMENT".
SettledByNegation == BookingStatus \ {"PENDING_PAYMENT"}

\* The statuses that end the wait.
Settled == {"CONFIRMED", "COMPLETED", "FAILED", "EXPIRED", "CANCELLED", "REFUNDED"}

\* A page with data and no error draws it.
Drawing == page # "away" /\ copy # Blank /\ ~failed

\* The banner of the checkout page.
Outcome ==
  CASE page # "checkout" \/ ~Drawing -> "none"
    [] copy.status \in {"CONFIRMED", "COMPLETED"} -> "confirmed"
    [] copy.status = "EXPIRED" /\ copy.refund # "ABSENT" -> "refunding"
    [] copy.status = "EXPIRED" /\ copy.refund = "ABSENT" -> "released"
    [] copy.status = "FAILED" -> "declined"
    [] copy.status \in {"CANCELLED", "REFUNDED"} -> "cancelled"
    [] copy.status = "PENDING_PAYMENT" /\ wait.asked /\ ~wait.polling -> "still pending"
    [] copy.status \in {"HELD", "PENDING_PAYMENT"} /\ wait.polling -> "waiting"
    [] OTHER -> "none"

\* The booking page: the status badge and the money card, and the Cancel button.
Drawn == [badge |-> copy.status, payment |-> copy.payment, refund |-> copy.refund]

CancelOffered == page = "detail" /\ Drawing /\ copy.status \in Cancellable /\ call = NoCall

\* The checkout page's Pay button: drawn for a held booking, and loading (so
\* not to be pressed) while a call is open.
PayOffered == page = "checkout" /\ Drawing /\ copy.status = "HELD" /\ call = NoCall

\* The page is drawn again: the countdown's onExpire is a new function, which
\* arms it once more.
Redrawn(w) == [w EXCEPT !.rang = FALSE]

-----------------------------------------------------------------------------
(* The query *)

\* A fetch that finds one open leaves it to answer.
FetchUnlessOpen == asking' = IF asking.open THEN asking ELSE Sent

\* invalidateQueries and refetch: a request already open is dropped.
Refetch == asking' = Sent

\* Mounting a page: its local state is new; data older than the stale time,
\* or an error, is fetched again and newer data is not.
OpenPage(where) ==
  /\ page = "away"
  /\ status[Watched] # "ABSENT"
  /\ page' = where
  /\ \/ FetchUnlessOpen
     \/ copy # Blank /\ ~failed /\ UNCHANGED asking
  /\ failed' = (failed /\ copy # Blank)
  /\ UNCHANGED <<rowVars, copy, wait, call, said>>

\* Going elsewhere: the local state is gone.  A call that is still open goes on,
\* and its callbacks toast and ask again wherever the user is by then, which is
\* not followed.  A GET still open goes on; that it only fills the
\* cache is the same as its answer coming before the page is left, or failing.
LeavePage ==
  /\ page # "away"
  /\ page' = "away"
  /\ wait' = NotWaiting
  /\ call' = NoCall
  /\ said' = "nothing yet"
  /\ asking' = NotAsking
  /\ UNCHANGED <<rowVars, copy, failed>>

\* bookingRepo.findById, before anything else is read.  (expires_at is only
\* looked at on a held booking.)
ReadBooking ==
  /\ asking.open /\ asking.view.status = "UNREAD"
  /\ asking' = [asking EXCEPT !.view.status = status[Watched],
                              !.view.ttl = IF status[Watched] = "HELD" THEN ttl[Watched] ELSE 0]
  /\ UNCHANGED <<rowVars, page, copy, failed, wait, call, said>>

\* Seeded fault: the payment and the refund are read before the booking row.
ReadMoneyFirst ==
  /\ asking.open
  /\ \/ /\ asking.view.payment = "UNREAD"
        /\ asking' = [asking EXCEPT !.view.payment = paid[Watched]]
     \/ /\ asking.view.refund = "UNREAD"
        /\ asking' = [asking EXCEPT !.view.refund = back[Watched]]
  /\ UNCHANGED <<rowVars, page, copy, failed, wait, call, said>>

\* Promise.all: the payment and the refund, each on a connection of its own.
ReadMoney ==
  /\ asking.view.status # "UNREAD"
  /\ \/ /\ asking.view.payment = "UNREAD"
        /\ asking' = [asking EXCEPT !.view.payment = paid[Watched]]
     \/ /\ asking.view.refund = "UNREAD"
        /\ asking' = [asking EXCEPT !.view.refund = back[Watched]]
  /\ UNCHANGED <<rowVars, page, copy, failed, wait, call, said>>

\* The answer reaches the cache; the same data is not drawn again.
Arrive ==
  /\ asking.open
  /\ "UNREAD" \notin {asking.view.status, asking.view.payment, asking.view.refund}
  /\ copy' = asking.view
  /\ asking' = NotAsking
  /\ failed' = FALSE
  /\ wait' = IF asking.view = copy /\ ~failed THEN wait ELSE Redrawn(wait)
  /\ UNCHANGED <<rowVars, page, call, said>>

\* The request and its retries all failed.
FailGet ==
  /\ asking.open
  /\ asking' = NotAsking
  /\ failed' = TRUE
  /\ wait' = Redrawn(wait)
  /\ UNCHANGED <<rowVars, page, copy, call, said>>

-----------------------------------------------------------------------------
(* The checkout page's effects *)

\* Seeded fault: polling starts without noting when.
PollingUndated(w) == [Redrawn(w) EXCEPT !.polling = TRUE, !.age = 0]

\* beginPolling.
Polling(w) == [Redrawn(w) EXCEPT !.polling = TRUE, !.asked = TRUE, !.age = 0]

\* The first data a mounted page sees decides, once, what it does: a hold is
\* re-issued, a payment in flight is waited for.
StartPage ==
  /\ page = "checkout"
  /\ copy # Blank
  /\ ~wait.started
  /\ LET w == [wait EXCEPT !.started = TRUE]
     IN  /\ wait' = IF copy.status = "PENDING_PAYMENT" THEN Polling(w) ELSE w
         /\ call' = IF copy.status = "HELD"
                    THEN [op |-> "checkout", answer |-> "waiting", ttl |-> 0]
                    ELSE call
  /\ UNCHANGED <<rowVars, page, copy, asking, failed, said>>

\* refetchInterval.
Poll ==
  /\ page = "checkout"
  /\ wait.polling
  /\ ~asking.open
  /\ FetchUnlessOpen
  /\ UNCHANGED <<rowVars, page, copy, failed, wait, call, said>>

\* The effect that sees a settled status: stop, and refresh every booking.
StopPolling ==
  /\ page = "checkout"
  /\ wait.polling
  /\ copy.status \in Settled
  /\ wait' = [Redrawn(wait) EXCEPT !.polling = FALSE]
  /\ Refetch
  /\ UNCHANGED <<rowVars, page, copy, failed, call, said>>

\* The effect's timer past the ceiling.
GiveUp ==
  /\ page = "checkout"
  /\ wait.polling
  /\ copy.status \notin Settled
  /\ wait.age = PollCeiling
  /\ wait' = [Redrawn(wait) EXCEPT !.polling = FALSE]
  /\ UNCHANGED <<rowVars, page, copy, asking, failed, call, said>>

\* The countdown follows what checkout answered, and until then the row.
TicksLeft == IF wait.own THEN wait.left ELSE copy.ttl

\* The countdown reaches zero: it asks once what became of the hold.
Ring ==
  /\ page = "checkout" /\ Drawing
  /\ copy.status = "HELD"
  /\ TicksLeft = 0
  /\ ~wait.rang
  /\ wait' = [wait EXCEPT !.rang = TRUE]
  /\ Refetch
  /\ UNCHANGED <<rowVars, page, copy, failed, call, said>>

-----------------------------------------------------------------------------
(* The customer's calls from this tab *)

PressPay ==
  /\ PayOffered
  /\ wait.started
  /\ call' = [op |-> "pay", answer |-> "waiting", ttl |-> 0]
  /\ wait' = Redrawn(wait)
  /\ UNCHANGED <<rowVars, page, copy, asking, failed, said>>

\* The dialog on the booking page; its button is loading while a call is open.
PressCancel ==
  /\ CancelOffered
  /\ call' = [op |-> "cancel", answer |-> "waiting", ttl |-> 0]
  /\ UNCHANGED <<rowVars, page, copy, asking, failed, wait, said>>

Answered(how) == call' = [call EXCEPT !.answer = how]

ServeCheckout ==
  /\ call.op = "checkout" /\ call.answer = "waiting"
  /\ \/ /\ Reissue(Watched)
        /\ call' = [call EXCEPT !.answer = "ok", !.ttl = ttl'[Watched]]
     \/ /\ status[Watched] # "HELD" \/ ttl[Watched] = 0
        /\ UNCHANGED rowVars
        /\ Answered("error")
  /\ UNCHANGED <<page, copy, asking, failed, wait, said>>

\* 202 for a charge made now, 200 for one found.
ServePay ==
  /\ call.op = "pay" /\ call.answer = "waiting"
  /\ \/ /\ Submit(Watched)
        /\ Answered("created")
     \/ /\ paid[Watched] \in {"PENDING", "CAPTURED"}
        /\ UNCHANGED rowVars
        /\ Answered("found")
     \/ /\ paid[Watched] \notin {"PENDING", "CAPTURED"}
        /\ status[Watched] # "HELD" \/ ttl[Watched] = 0 \/ Watched \in Free
        /\ UNCHANGED rowVars
        /\ Answered("error")
  /\ UNCHANGED <<page, copy, asking, failed, wait, said>>

\* Seeded fault: a repeated cancel does not look the refund up.
ServeCancelForgetful ==
  /\ call.op = "cancel" /\ call.answer = "waiting"
  /\ \/ /\ CancelIt(Watched)
        /\ Answered(IF back'[Watched] = "ABSENT" THEN "nothing" ELSE "refund")
     \/ /\ status[Watched] \in {"CANCELLED", "REFUNDED"}
        /\ UNCHANGED rowVars
        /\ Answered("nothing")
  /\ UNCHANGED <<page, copy, asking, failed, wait, said>>

\* A repeated cancel answers with the refund the first one made; a payment in
\* flight and a booking that ended otherwise are refused.
ServeCancel ==
  /\ call.op = "cancel" /\ call.answer = "waiting"
  /\ \/ /\ CancelIt(Watched)
        /\ Answered(IF back'[Watched] = "ABSENT" THEN "nothing" ELSE "refund")
     \/ /\ status[Watched] \in {"CANCELLED", "REFUNDED"}
        /\ UNCHANGED rowVars
        /\ Answered(IF back[Watched] = "ABSENT" THEN "nothing" ELSE "refund")
     \/ /\ status[Watched] \notin {"HELD", "CONFIRMED", "CANCELLED", "REFUNDED"}
        /\ UNCHANGED rowVars
        /\ Answered("error")
  /\ UNCHANGED <<page, copy, asking, failed, wait, said>>

\* The connection drops, before the server has acted or after.
LoseAnswer ==
  /\ call.answer \notin {"none", "error"}
  /\ call' = [call EXCEPT !.answer = "error", !.ttl = 0]
  /\ UNCHANGED <<rowVars, page, copy, asking, failed, wait, said>>

\* Seeded fault: the toast tells what any call answered.
SaidOfAnything(fine) == call.answer

\* The toast of a cancel.
SaidOfCancel(fine) == IF fine /\ call.op = "cancel" THEN call.answer ELSE said

\* The mutation settles: an error is only shown; checkout sets the deadline;
\* pay begins the wait and cancel says what it did, and both refresh the view.
HearAnswer ==
  /\ call.answer \notin {"none", "waiting"}
  /\ call' = NoCall
  /\ LET fine == call.answer # "error"
     IN  /\ wait' = CASE fine /\ call.op = "checkout" ->
                           [Redrawn(wait) EXCEPT !.own = TRUE, !.left = call.ttl]
                      [] fine /\ call.op = "pay" -> Polling(wait)
                      [] OTHER -> Redrawn(wait)
         /\ IF fine /\ call.op \in {"pay", "cancel"} THEN Refetch ELSE UNCHANGED asking
         /\ said' = SaidOfCancel(fine)
  /\ UNCHANGED <<rowVars, page, copy, failed>>

-----------------------------------------------------------------------------
(* The specification *)

Less(n) == IF n > 0 THEN n - 1 ELSE 0

\* One clock for the rows, the deadlines a page shows and its poll timer.
\* (A page whose clock is off sees its countdown end early or late; it only
\* asks the server then.)
Clock ==
  /\ TimePasses \/ (UNCHANGED rowVars /\ \A b \in Bookings : ttl[b] = 0)
  /\ \/ \E b \in Bookings : ttl[b] > 0
     \/ wait.polling /\ wait.age < PollCeiling
  /\ wait' = [wait EXCEPT !.left = Less(wait.left),
                          !.age = IF wait.polling /\ wait.age < PollCeiling
                                  THEN wait.age + 1 ELSE wait.age]
  /\ copy' = [copy EXCEPT !.ttl = Less(copy.ttl)]
  /\ asking' = [asking EXCEPT !.view.ttl = Less(asking.view.ttl)]
  /\ call' = [call EXCEPT !.ttl = Less(call.ttl)]
  /\ UNCHANGED <<page, failed, said>>

PagesInit ==
  /\ RowsInit
  /\ page = "away"
  /\ copy = Blank
  /\ asking = NotAsking
  /\ failed = FALSE
  /\ wait = NotWaiting
  /\ call = NoCall
  /\ said = "nothing yet"

QueryStep == ReadBooking \/ ReadMoney \/ Arrive \/ FailGet

EffectStep == StartPage \/ Poll \/ StopPolling \/ GiveUp \/ Ring

CallStep == PressPay \/ PressCancel \/ ServeCheckout \/ ServePay \/ ServeCancel
              \/ LoseAnswer \/ HearAnswer

\* Other tabs and devices, the reaper, the jobs and the provider.
ElsewhereStep ==
  /\ \E b \in Bookings : RowStep(b)
  /\ UNCHANGED pageVars

PagesNext ==
  \/ \E where \in {"checkout", "detail"} : OpenPage(where)
  \/ LeavePage
  \/ QueryStep
  \/ EffectStep
  \/ CallStep
  \/ Clock
  \/ ElsewhereStep

PagesSpec == PagesInit /\ [][PagesNext]_allVars

\* The clock runs, React runs its effects and the browser its timers, and a
\* request ends: answered, or failed after its retries.
PagesFairness ==
  /\ WF_allVars(Clock)
  /\ WF_allVars(StartPage) /\ WF_allVars(Poll)
  /\ WF_allVars(StopPolling) /\ WF_allVars(GiveUp)
  /\ WF_allVars(ReadBooking) /\ WF_allVars(ReadMoney) /\ WF_allVars(Arrive)
  /\ WF_allVars(ServeCheckout \/ ServePay \/ ServeCancel) /\ WF_allVars(HearAnswer)

FairPagesSpec == PagesSpec /\ PagesFairness

-----------------------------------------------------------------------------
(* Properties *)

\* Every variable has its type.
PagesTypeOK ==
  /\ page \in {"away", "checkout", "detail"}
  /\ copy \in View
  /\ asking \in [open: BOOLEAN, view: View]
  /\ failed \in BOOLEAN
  /\ wait \in [started: BOOLEAN, polling: BOOLEAN, asked: BOOLEAN, age: 0..PollCeiling,
               own: BOOLEAN, left: Nat, rang: BOOLEAN]
  /\ call \in [op: {"none", "checkout", "pay", "cancel"},
               answer: {"none", "waiting", "ok", "created", "found", "nothing",
                        "refund", "error"},
               ttl: Nat]
  /\ said \in {"nothing yet", "nothing", "refund"}

\* findById reads three rows at three moments with the jobs running between
\* them, yet the page never draws a sale without its captured payment, a
\* decline without the failed one, a refunded booking whose refund is still
\* on its way, or a cancelled one whose captured money has no refund.
ViewIsCoherent ==
  /\ Drawn.badge = "CONFIRMED" => Drawn.payment = "CAPTURED"
  /\ Drawn.badge = "FAILED" => Drawn.payment = "FAILED"
  /\ Drawn.badge = "REFUNDED" => Drawn.payment = "CAPTURED" /\ Drawn.refund = "SUCCEEDED"
  /\ Drawn.badge = "CANCELLED" /\ Drawn.payment = "CAPTURED" => Drawn.refund # "ABSENT"

\* Once a payment was accepted and its refresh has come back, the page that
\* asked does not draw the hold, and its Pay button, again: no answer read
\* before the payment overwrites one read after it.
PaidPageNotHeld ==
  wait.asked /\ ~asking.open /\ ~failed => copy.status # "HELD"

\* The page says "Still with the provider" only when it has asked for the
\* whole minute: the wait is not over before it has begun, although the cached
\* booking is still HELD when polling starts.
GaveUpHonestly == Outcome = "still pending" => wait.age = PollCeiling

\* "Cancelled. Nothing had been charged." is never said of a booking the
\* provider has charged, however late the answer comes and whoever else
\* cancelled first.
NothingChargedIsTrue ==
  said = "nothing" => paid[Watched] = "ABSENT"

\* A page that draws a payment in flight and says that it updates itself comes
\* to an outcome, to the note that it is still pending or to an error it
\* shows, unless the customer leaves: however long the provider is silent.
Ended == page # "checkout" \/ failed \/ copy.status \in Settled \/ Outcome = "still pending"
WaitIsAnswered == Outcome = "waiting" /\ copy.status = "PENDING_PAYMENT" ~> Ended

-----------------------------------------------------------------------------
(* The inductive invariant *)

RowsTypeOK ==
  /\ status \in [Bookings -> BookingStatus]
  /\ ttl \in [Bookings -> Nat]
  /\ paid \in [Bookings -> {"ABSENT", "PENDING", "CAPTURED", "FAILED"}]
  /\ back \in [Bookings -> {"ABSENT", "PENDING", "SUCCEEDED"}]

\* What a booking's status says of its money.
RowsAgree ==
  \A b \in Bookings :
    /\ status[b] \in {"ABSENT", "HELD"} => paid[b] = "ABSENT"
    /\ status[b] = "PENDING_PAYMENT" => paid[b] = "PENDING"
    /\ status[b] = "CONFIRMED" => paid[b] = "CAPTURED"
    /\ status[b] = "FAILED" => paid[b] = "FAILED"
    /\ status[b] = "REFUNDED" => back[b] = "SUCCEEDED"
    /\ status[b] = "CANCELLED" => \/ paid[b] = "ABSENT"
                                  \/ paid[b] = "CAPTURED" /\ back[b] # "ABSENT"
    /\ back[b] # "ABSENT" => paid[b] = "CAPTURED"

\* A status from after the hold.
PastHold(s) == s \notin {"UNREAD", "ABSENT", "HELD"}

\* What has been read for v is what was so when its status was read, or later;
\* and what it says for good is so still.
ReadInOrder(v) ==
  /\ v.status = "UNREAD" => v.payment = "UNREAD" /\ v.refund = "UNREAD"
  /\ PastHold(v.status) => PastHold(status[Watched])
  /\ v.status \in Settled => status[Watched] \in Settled
  /\ v.status = "CONFIRMED" =>
       paid[Watched] = "CAPTURED" /\ v.payment \in {"UNREAD", "CAPTURED"}
  /\ v.status = "FAILED" =>
       paid[Watched] = "FAILED" /\ v.payment \in {"UNREAD", "FAILED"}
  /\ v.status = "REFUNDED" =>
       /\ status[Watched] = "REFUNDED"
       /\ v.payment \in {"UNREAD", "CAPTURED"} /\ v.refund \in {"UNREAD", "SUCCEEDED"}
  /\ v.status = "CANCELLED" =>
       /\ status[Watched] \in {"CANCELLED", "REFUNDED"}
       /\ v.payment \in {"UNREAD", "ABSENT", "CAPTURED"}
       /\ v.payment = "CAPTURED" => paid[Watched] = "CAPTURED"
       /\ v.refund = "ABSENT" => /\ status[Watched] = "CANCELLED" /\ paid[Watched] = "ABSENT"
                                 /\ v.payment \in {"UNREAD", "ABSENT"}

\* The GET in flight reads a status no older than the cached one.
ReadsAfterCopy ==
  asking.view.status # "UNREAD" =>
    /\ PastHold(copy.status) => PastHold(asking.view.status)
    /\ copy.status \in Settled => asking.view.status \in Settled

\* A page that waits for a payment has one, and stops for a reason.
WaitHasCause ==
  /\ wait.asked => PastHold(status[Watched]) /\ asking.view.status # "HELD"
  /\ wait.asked /\ ~wait.polling => wait.age = PollCeiling \/ copy.status \in Settled
  /\ PaidPageNotHeld

\* What a call has answered is still so.
AnswersStand ==
  /\ call.op = "pay" => \/ call.answer \in {"waiting", "error"}
                        \/ call.answer \in {"created", "found"} /\ paid[Watched] # "ABSENT"
  /\ call.op = "cancel" => call.answer \in {"waiting", "nothing", "refund", "error"}
  /\ said = "nothing" \/ (call.op = "cancel" /\ call.answer = "nothing") =>
       status[Watched] = "CANCELLED" /\ paid[Watched] = "ABSENT"

PagesInv ==
  /\ PagesTypeOK /\ RowsTypeOK /\ RowsAgree
  /\ ReadInOrder(asking.view) /\ ReadInOrder(copy) /\ ViewIsCoherent /\ ReadsAfterCopy
  /\ WaitHasCause /\ AnswersStand
=============================================================================
