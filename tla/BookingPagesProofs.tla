------------------------- MODULE BookingPagesProofs -------------------------
(***************************************************************************)
(* Theorems about BookingPages, for any set of bookings, any deadlines and *)
(* any polling ceiling: what the checkout and booking pages draw is        *)
(* coherent although it is read at three moments, and what they say of a   *)
(* payment or a cancellation is true.                                      *)
(*                                                                         *)
(* The argument has two halves.  The rows only go on (RowsGoOn): a status  *)
(* past the hold, an ended one and a final payment stay so.  And the status*)
(* is read first (ReadInOrder), so whatever it says of the money was so    *)
(* when the money was read, and is so still.                               *)
(***************************************************************************)
EXTENDS BookingPages, TLAPS

-----------------------------------------------------------------------------
(* The rows *)

\* What never comes back on the booking the tab is about.
RowsGoOn ==
  /\ PastHold(status[Watched]) => PastHold(status'[Watched])
  /\ status[Watched] \in Settled => status'[Watched] \in Settled
  /\ paid[Watched] # "ABSENT" => paid'[Watched] # "ABSENT"
  /\ paid[Watched] \in {"CAPTURED", "FAILED"} => paid'[Watched] = paid[Watched]
  /\ status[Watched] = "REFUNDED" => status'[Watched] = "REFUNDED"
  /\ status[Watched] = "CANCELLED" => status'[Watched] \in {"CANCELLED", "REFUNDED"}
  /\ status[Watched] = "CANCELLED" /\ paid[Watched] = "ABSENT" =>
       status'[Watched] = "CANCELLED" /\ paid'[Watched] = "ABSENT"

RowsOK == RowsTypeOK /\ RowsAgree

\* A commit of the API or of a job.
LEMMA RowStepGoesOn ==
  ASSUME RowsOK, NEW b \in Bookings, RowStep(b)
  PROVE  RowsOK' /\ RowsGoOn
<1> USE PagesAssumption DEF RowsOK, RowsTypeOK, RowsAgree, RowsGoOn, PastHold, Settled
<1>1. CASE Hold(b)
  BY <1>1 DEF Hold, BookingStatus
<1>2. CASE Reissue(b)
  BY <1>2 DEF Reissue
<1>3. CASE Submit(b)
  BY <1>3 DEF Submit, Move, BookingStatus
<1>4. CASE CancelIt(b)
  BY <1>4 DEF CancelIt, Move, BookingStatus
<1>5. CASE Expire(b)
  BY <1>5 DEF Expire, Move, BookingStatus
<1>6. CASE Captured(b)
  BY <1>6 DEF Captured, Move, BookingStatus
<1>7. CASE Declined(b)
  BY <1>7 DEF Declined, Move, BookingStatus
<1>8. CASE MoneyBack(b)
  <2>1. status[b] \in {"CANCELLED", "EXPIRED"}
    BY <1>8 DEF MoneyBack, Move, Legal, Matrix, SellingTransitions, ReturningTransitions
  <2>2. QED
    BY <1>8, <2>1 DEF MoneyBack, Move, BookingStatus
<1>9. QED
  BY <1>1, <1>2, <1>3, <1>4, <1>5, <1>6, <1>7, <1>8 DEF RowStep

\* The clock, and a step that is not the rows'.
LEMMA RowsStill ==
  ASSUME RowsOK, TimePasses \/ UNCHANGED rowVars
  PROVE  RowsOK' /\ RowsGoOn
<1> USE PagesAssumption DEF RowsOK, RowsTypeOK, RowsAgree, RowsGoOn, PastHold, Settled
<1>1. CASE TimePasses
  BY <1>1 DEF TimePasses
<1>2. CASE UNCHANGED rowVars
  BY <1>2 DEF rowVars
<1>3. QED
  BY <1>1, <1>2

\* So every step of the pages' specification moves the rows on, or not at all.
LEMMA RowsAlwaysGoOn ==
  ASSUME RowsOK, [PagesNext]_allVars
  PROVE  RowsOK' /\ RowsGoOn
<1>1. CASE UNCHANGED rowVars
  BY <1>1, RowsStill
<1>2. CASE TimePasses
  BY <1>2, RowsStill
<1>3. CASE \E b \in Bookings : RowStep(b)
  BY <1>3, RowStepGoesOn
<1>4. CASE ServeCheckout \/ ServePay \/ ServeCancel
  <2>1. RowStep(Watched) \/ UNCHANGED rowVars
    BY <1>4 DEF ServeCheckout, ServePay, ServeCancel, RowStep
  <2>2. QED
    BY <2>1, RowStepGoesOn, RowsStill, PagesAssumption
<1>5. CASE Clock
  BY <1>5, RowsStill DEF Clock
<1>6. QED
  BY <1>1, <1>2, <1>3, <1>4, <1>5
  DEF PagesNext, allVars, OpenPage, LeavePage, QueryStep, ReadBooking, ReadMoney, Arrive,
      FailGet, EffectStep, StartPage, Poll, StopPolling, GiveUp, Ring, CallStep, PressPay,
      PressCancel, LoseAnswer, HearAnswer, ElsewhereStep

-----------------------------------------------------------------------------
(* Types *)

GetType  == [open: BOOLEAN, view: View]
WaitType == [started: BOOLEAN, polling: BOOLEAN, asked: BOOLEAN, age: 0..PollCeiling,
             own: BOOLEAN, left: Nat, rang: BOOLEAN]
CallType == [op: {"none", "checkout", "pay", "cancel"},
             answer: {"none", "waiting", "ok", "created", "found", "nothing",
                      "refund", "error"},
             ttl: Nat]

TabOK ==
  /\ page \in {"away", "checkout", "detail"}
  /\ copy \in View
  /\ asking \in GetType
  /\ failed \in BOOLEAN
  /\ wait \in WaitType
  /\ call \in CallType
  /\ said \in {"nothing yet", "nothing", "refund"}

LEMMA TabTypes == PagesTypeOK <=> TabOK
  BY DEF PagesTypeOK, TabOK, GetType, WaitType, CallType

\* The empty states of the tab have their types.
LEMMA EmptyTypes ==
  Blank \in View /\ NotAsking \in GetType /\ Sent \in GetType /\ NoCall \in CallType
  BY DEF Blank, View, NotAsking, Sent, NoCall, GetType, CallType

\* What is written to the checkout page's state is one.
LEMMA WaitTypes ==
  /\ NotWaiting \in WaitType
  /\ \A w \in WaitType :
       /\ Redrawn(w) \in WaitType
       /\ Polling(w) \in WaitType
       /\ [w EXCEPT !.started = TRUE] \in WaitType
       /\ [w EXCEPT !.rang = TRUE] \in WaitType
       /\ [w EXCEPT !.polling = FALSE] \in WaitType
       /\ \A n \in Nat : [w EXCEPT !.own = TRUE, !.left = n] \in WaitType
       /\ \A n \in Nat, a \in 0..PollCeiling : [w EXCEPT !.left = n, !.age = a] \in WaitType
<1>1. 0 \in 0..PollCeiling
  BY PagesAssumption
<1>2. NotWaiting \in WaitType
  BY <1>1 DEF NotWaiting, WaitType
<1>3. ASSUME NEW w \in WaitType
      PROVE  /\ [w EXCEPT !.rang = FALSE] \in WaitType
             /\ [w EXCEPT !.polling = TRUE, !.asked = TRUE, !.age = 0] \in WaitType
             /\ [w EXCEPT !.started = TRUE] \in WaitType
             /\ [w EXCEPT !.rang = TRUE] \in WaitType
             /\ [w EXCEPT !.polling = FALSE] \in WaitType
             /\ \A n \in Nat : [w EXCEPT !.own = TRUE, !.left = n] \in WaitType
             /\ \A n \in Nat, a \in 0..PollCeiling : [w EXCEPT !.left = n, !.age = a] \in WaitType
  BY <1>1, <1>3 DEF WaitType
<1>4. QED
  BY <1>2, <1>3 DEF Redrawn, Polling

\* What is read, or ticks down, stays a view.
LEMMA ViewTypes ==
  ASSUME NEW g \in GetType, NEW v \in View, NEW n \in Nat
  PROVE  /\ g.view \in View
         /\ [v EXCEPT !.ttl = n] \in View
         /\ [g EXCEPT !.view.ttl = n] \in GetType
         /\ \A s \in BookingStatus :
              [g EXCEPT !.view.status = s, !.view.ttl = n] \in GetType
         /\ \A s \in {"ABSENT", "PENDING", "CAPTURED", "FAILED"} :
              [g EXCEPT !.view.payment = s] \in GetType
         /\ \A s \in {"ABSENT", "PENDING", "SUCCEEDED"} :
              [g EXCEPT !.view.refund = s] \in GetType
  BY DEF GetType, View

LEMMA CallTypes ==
  ASSUME NEW c \in CallType
  PROVE  /\ c.ttl \in Nat
         /\ \A n \in Nat : [c EXCEPT !.ttl = n] \in CallType
         /\ \A a \in {"ok", "created", "found", "nothing", "refund", "error"} :
              /\ [c EXCEPT !.answer = a] \in CallType
              /\ \A n \in Nat : [c EXCEPT !.answer = a, !.ttl = n] \in CallType
  BY DEF CallType

LEMMA LessType == \A n \in Nat : Less(n) \in Nat
  BY DEF Less

LEMMA AgeType ==
  ASSUME NEW a \in 0..PollCeiling, NEW on \in BOOLEAN
  PROVE  (IF on /\ a < PollCeiling THEN a + 1 ELSE a) \in 0..PollCeiling
<1>1. CASE on /\ a < PollCeiling
  <2>1. a + 1 \in 0..PollCeiling
    BY <1>1, PagesAssumption
  <2>2. QED
    BY <1>1, <2>1
<1>2. CASE ~(on /\ a < PollCeiling)
  BY <1>2
<1>3. QED
  BY <1>1, <1>2

\* The tab's variables keep their types.
LEMMA TypesKept == PagesInv /\ [PagesNext]_allVars => PagesTypeOK'
<1> SUFFICES ASSUME PagesInv, [PagesNext]_allVars PROVE TabOK'
  BY TabTypes DEF PagesTypeOK, TabOK, GetType, WaitType, CallType
<1>0. TabOK /\ RowsOK
  BY TabTypes DEF PagesInv, RowsOK
<1> USE <1>0, EmptyTypes DEF TabOK
<1>1. ASSUME NEW where \in {"checkout", "detail"}, OpenPage(where) PROVE TabOK'
  <2>1. failed' \in BOOLEAN /\ asking' \in GetType
    BY <1>1 DEF OpenPage, FetchUnlessOpen
  <2>2. QED
    BY <1>1, <2>1 DEF OpenPage
<1>2. CASE LeavePage
  BY <1>2, WaitTypes DEF LeavePage
<1>3. CASE QueryStep
  <2>1. CASE ReadBooking
    <3>1. status[Watched] \in BookingStatus /\ ttl[Watched] \in Nat
      BY PagesAssumption DEF RowsOK, RowsTypeOK
    <3>2. asking' \in GetType
      BY <2>1, <3>1, ViewTypes DEF ReadBooking
    <3>3. QED
      BY <2>1, <3>2 DEF ReadBooking
  <2>2. CASE ReadMoney
    <3>1. /\ paid[Watched] \in {"ABSENT", "PENDING", "CAPTURED", "FAILED"}
          /\ back[Watched] \in {"ABSENT", "PENDING", "SUCCEEDED"}
      BY PagesAssumption DEF RowsOK, RowsTypeOK
    <3>2. asking' \in GetType
      BY <2>2, <3>1, ViewTypes DEF ReadMoney
    <3>3. QED
      BY <2>2, <3>2 DEF ReadMoney
  <2>3. CASE Arrive
    <3>1. asking.view \in View
      BY DEF GetType
    <3>2. QED
      BY <2>3, <3>1, WaitTypes DEF Arrive
  <2>4. CASE FailGet
    BY <2>4, WaitTypes DEF FailGet
  <2>5. QED
    BY <1>3, <2>1, <2>2, <2>3, <2>4 DEF QueryStep
<1>4. CASE EffectStep
  <2>1. CASE StartPage
    <3> DEFINE w == [wait EXCEPT !.started = TRUE]
    <3>1. wait' \in {w, Polling(w)}
      BY <2>1 DEF StartPage
    <3>2. w \in WaitType
      BY WaitTypes
    <3>3. wait' \in WaitType
      BY <3>1, <3>2, WaitTypes
    <3>4. [op |-> "checkout", answer |-> "waiting", ttl |-> 0] \in CallType
      BY DEF CallType
    <3>5. call' \in CallType
      BY <2>1, <3>4 DEF StartPage
    <3>6. QED
      BY <2>1, <3>3, <3>5 DEF StartPage
  <2>2. CASE Poll
    BY <2>2 DEF Poll, FetchUnlessOpen
  <2>3. CASE StopPolling
    <3>1. wait' \in WaitType
      BY <2>3, WaitTypes DEF StopPolling
    <3>2. QED
      BY <2>3, <3>1 DEF StopPolling, Refetch
  <2>4. CASE GiveUp
    <3>1. wait' \in WaitType
      BY <2>4, WaitTypes DEF GiveUp
    <3>2. QED
      BY <2>4, <3>1 DEF GiveUp
  <2>5. CASE Ring
    BY <2>5, WaitTypes DEF Ring, Refetch
  <2>6. QED
    BY <1>4, <2>1, <2>2, <2>3, <2>4, <2>5 DEF EffectStep
<1>5. CASE CallStep
  <2>1. CASE PressPay
    <3>1. [op |-> "pay", answer |-> "waiting", ttl |-> 0] \in CallType
      BY DEF CallType
    <3>2. QED
      BY <2>1, <3>1, WaitTypes DEF PressPay
  <2>2. CASE PressCancel
    <3>1. [op |-> "cancel", answer |-> "waiting", ttl |-> 0] \in CallType
      BY DEF CallType
    <3>2. QED
      BY <2>2, <3>1 DEF PressCancel
  <2>3. CASE ServeCheckout
    <3>1. ttl'[Watched] \in Nat
      BY RowsAlwaysGoOn, PagesAssumption DEF RowsOK, RowsTypeOK
    <3>2. \/ \E n \in Nat : call' = [call EXCEPT !.answer = "ok", !.ttl = n]
          \/ call' = [call EXCEPT !.answer = "error"]
      BY <2>3, <3>1 DEF ServeCheckout, Answered
    <3>3. CASE call' = [call EXCEPT !.answer = "error"]
      BY <2>3, <3>3, CallTypes DEF ServeCheckout
    <3>4. ASSUME NEW n \in Nat, call' = [call EXCEPT !.answer = "ok", !.ttl = n]
          PROVE  call' \in CallType
      BY <3>4, CallTypes
    <3>5. QED
      BY <2>3, <3>2, <3>3, <3>4 DEF ServeCheckout
  <2>4. CASE ServePay
    <3>1. \E a \in {"created", "found", "error"} : call' = [call EXCEPT !.answer = a]
      BY <2>4 DEF ServePay, Answered
    <3>2. call' \in CallType
      BY <3>1, CallTypes
    <3>3. QED
      BY <2>4, <3>2 DEF ServePay
  <2>5. CASE ServeCancel
    <3>1. \E a \in {"nothing", "refund", "error"} : call' = [call EXCEPT !.answer = a]
      BY <2>5 DEF ServeCancel, Answered
    <3>2. call' \in CallType
      BY <3>1, CallTypes
    <3>3. QED
      BY <2>5, <3>2 DEF ServeCancel
  <2>6. CASE LoseAnswer
    <3>1. call' \in CallType
      BY <2>6 DEF LoseAnswer, CallType
    <3>2. QED
      BY <2>6, <3>1 DEF LoseAnswer
  <2>7. CASE HearAnswer
    <3>1. said' \in {"nothing yet", "nothing", "refund"}
      BY <2>7 DEF HearAnswer, SaidOfCancel, PagesInv, AnswersStand
    <3>2. asking' \in GetType
      BY <2>7 DEF HearAnswer, Refetch
    <3>3. wait' \in {[Redrawn(wait) EXCEPT !.own = TRUE, !.left = call.ttl],
                     Polling(wait), Redrawn(wait)}
      BY <2>7 DEF HearAnswer
    <3>4. call.ttl \in Nat
      BY DEF CallType
    <3>5. Redrawn(wait) \in WaitType
      BY WaitTypes
    <3>6. [Redrawn(wait) EXCEPT !.own = TRUE, !.left = call.ttl] \in WaitType
      BY <3>4, <3>5, WaitTypes
    <3>7. Polling(wait) \in WaitType
      BY WaitTypes
    <3>8. wait' \in WaitType
      BY <3>3, <3>5, <3>6, <3>7
    <3>9. QED
      BY <2>7, <3>1, <3>2, <3>8 DEF HearAnswer
  <2>8. QED
    BY <1>5, <2>1, <2>2, <2>3, <2>4, <2>5, <2>6, <2>7 DEF CallStep
<1>6. CASE Clock
  <2>1. \A n \in Nat : Less(n) \in Nat
    BY LessType
  <2>2. wait.left \in Nat /\ wait.age \in 0..PollCeiling /\ call.ttl \in Nat
        /\ copy.ttl \in Nat /\ asking.view.ttl \in Nat
    BY DEF WaitType, CallType, View, GetType
  <2>3. (IF wait.polling /\ wait.age < PollCeiling THEN wait.age + 1 ELSE wait.age)
          \in 0..PollCeiling
    <3>1. wait.polling \in BOOLEAN
      BY DEF WaitType
    <3>2. QED
      BY <2>2, <3>1, AgeType
  <2>4. wait' \in WaitType
    BY <1>6, <2>1, <2>2, <2>3, WaitTypes DEF Clock
  <2>5. copy' \in View
    BY <1>6, <2>1, <2>2, ViewTypes DEF Clock
  <2>6. asking' \in GetType
    BY <1>6, <2>1, <2>2, ViewTypes DEF Clock
  <2>7. call' \in CallType
    BY <1>6, <2>1, <2>2, CallTypes DEF Clock
  <2>8. QED
    BY <1>6, <2>4, <2>5, <2>6, <2>7 DEF Clock
<1>7. CASE ElsewhereStep
  BY <1>7 DEF ElsewhereStep, pageVars
<1>8. CASE UNCHANGED allVars
  BY <1>8 DEF allVars, pageVars
<1>9. QED
  BY <1>1, <1>2, <1>3, <1>4, <1>5, <1>6, <1>7, <1>8 DEF PagesNext

-----------------------------------------------------------------------------
(* What is read *)

\* How a step touches the GET in flight.
LEMMA AskingMoves ==
  ASSUME [PagesNext]_allVars
  PROVE  \/ ReadBooking \/ ReadMoney
         \/ asking' \in {NotAsking, Sent}
         \/ asking' = asking
         \/ asking' = [asking EXCEPT !.view.ttl = Less(asking.view.ttl)]
  BY DEF PagesNext, allVars, pageVars, OpenPage, FetchUnlessOpen, Refetch, LeavePage,
     QueryStep, Arrive, FailGet, EffectStep, StartPage, Poll, StopPolling, GiveUp, Ring,
     CallStep, PressPay, PressCancel, ServeCheckout, ServePay, ServeCancel, LoseAnswer,
     HearAnswer, Clock, ElsewhereStep

\* And the cached answer.
LEMMA CopyMoves ==
  ASSUME [PagesNext]_allVars
  PROVE  Arrive \/ copy' = copy \/ copy' = [copy EXCEPT !.ttl = Less(copy.ttl)]
  BY DEF PagesNext, allVars, pageVars, OpenPage, LeavePage, QueryStep, ReadBooking,
     ReadMoney, FailGet, EffectStep, StartPage, Poll, StopPolling, GiveUp, Ring, CallStep,
     PressPay, PressCancel, ServeCheckout, ServePay, ServeCancel, LoseAnswer, HearAnswer,
     Clock, ElsewhereStep

\* Two views that differ in the time left alone.
Same(v, w) == v.status = w.status /\ v.payment = w.payment /\ v.refund = w.refund

LEMMA TickedSame ==
  ASSUME TabOK
  PROVE  /\ Same([copy EXCEPT !.ttl = Less(copy.ttl)], copy)
         /\ Same([asking EXCEPT !.view.ttl = Less(asking.view.ttl)].view, asking.view)
         /\ [asking EXCEPT !.view.ttl = Less(asking.view.ttl)].open = asking.open
  BY DEF TabOK, View, GetType, Same

\* The GET's view is read further, dropped, or as it was; the cached one is
\* replaced by it, or as it was.
LEMMA AskingViewMoves ==
  ASSUME TabOK, [PagesNext]_allVars
  PROVE  ReadBooking \/ ReadMoney \/ asking'.view = Blank \/ Same(asking'.view, asking.view)
<1>1. CASE asking' \in {NotAsking, Sent}
  BY <1>1 DEF NotAsking, Sent
<1>2. CASE asking' = asking
  BY <1>2 DEF Same
<1>3. CASE asking' = [asking EXCEPT !.view.ttl = Less(asking.view.ttl)]
  BY <1>3, TickedSame
<1>4. QED
  BY <1>1, <1>2, <1>3, AskingMoves

LEMMA CopyViewMoves ==
  ASSUME TabOK, [PagesNext]_allVars
  PROVE  Arrive \/ Same(copy', copy)
  BY CopyMoves, TickedSame DEF Same

\* What a view says stays true as the rows go on.
LEMMA OrderKept ==
  ASSUME RowsOK, RowsGoOn, NEW v, NEW w, Same(w, v), ReadInOrder(v)
  PROVE  ReadInOrder(w)'
  BY DEF RowsGoOn, Same, ReadInOrder

LEMMA BlankInOrder == ReadInOrder(Blank)'
  BY DEF ReadInOrder, Blank, PastHold, Settled

\* findById: the booking row, then its money.
LEMMA AskingInOrder ==
  ASSUME PagesInv, [PagesNext]_allVars
  PROVE  ReadInOrder(asking.view)'
<1>1. TabOK /\ RowsOK /\ RowsOK' /\ RowsGoOn /\ ReadInOrder(asking.view)
  BY TabTypes, RowsAlwaysGoOn DEF PagesInv, RowsOK
<1>2. CASE ReadBooking
  <2>1. /\ asking'.view.status = status[Watched]
        /\ asking'.view.payment = "UNREAD" /\ asking'.view.refund = "UNREAD"
        /\ UNCHANGED rowVars
    BY <1>1, <1>2 DEF ReadBooking, ReadInOrder, TabOK, GetType, View
  <2>2. QED
    BY <1>1, <2>1, PagesAssumption
    DEF ReadInOrder, RowsOK, RowsAgree, RowsTypeOK, rowVars, BookingStatus
<1>3. CASE ReadMoney
  <2>1. /\ asking'.view.status = asking.view.status /\ asking.view.status # "UNREAD"
        /\ \/ asking'.view.payment = paid[Watched] /\ asking'.view.refund = asking.view.refund
           \/ asking'.view.refund = back[Watched] /\ asking'.view.payment = asking.view.payment
        /\ UNCHANGED rowVars
    <3>1. asking \in GetType /\ asking.view.status # "UNREAD" /\ UNCHANGED rowVars
      BY <1>1, <1>3 DEF ReadMoney, TabOK
    <3>2. CASE asking' = [asking EXCEPT !.view.payment = paid[Watched]]
      BY <3>1, <3>2 DEF GetType, View
    <3>3. CASE asking' = [asking EXCEPT !.view.refund = back[Watched]]
      BY <3>1, <3>3 DEF GetType, View
    <3>4. QED
      BY <1>3, <3>2, <3>3 DEF ReadMoney
  <2>2. QED
    BY <1>1, <2>1, PagesAssumption
    DEF ReadInOrder, RowsOK, RowsAgree, RowsTypeOK, rowVars, BookingStatus
<1>4. CASE asking'.view = Blank
  BY <1>4, BlankInOrder DEF ReadInOrder
<1>5. CASE Same(asking'.view, asking.view)
  BY <1>1, <1>5 DEF RowsGoOn, Same, ReadInOrder
<1>6. QED
  BY <1>1, <1>2, <1>3, <1>4, <1>5, AskingViewMoves

\* The cache holds a whole answer, or what it held.
LEMMA CopyInOrder ==
  ASSUME PagesInv, [PagesNext]_allVars
  PROVE  ReadInOrder(copy)' /\ ViewIsCoherent'
<1>1. TabOK /\ RowsOK /\ RowsGoOn /\ ReadInOrder(asking.view) /\ ReadInOrder(copy)
      /\ ViewIsCoherent
  BY TabTypes, RowsAlwaysGoOn DEF PagesInv, RowsOK
<1>2. CASE Arrive
  <2>1. copy' = asking.view /\ UNCHANGED rowVars
        /\ "UNREAD" \notin {asking.view.status, asking.view.payment, asking.view.refund}
    BY <1>2 DEF Arrive
  <2>2. QED
    BY <1>1, <2>1 DEF ReadInOrder, ViewIsCoherent, Drawn, rowVars, Settled
<1>3. CASE Same(copy', copy)
  BY <1>1, <1>3 DEF RowsGoOn, Same, ReadInOrder, ViewIsCoherent, Drawn
<1>4. QED
  BY <1>1, <1>2, <1>3, CopyViewMoves

\* A GET reads its status after the cached one was read.
LEMMA ReadsStayAfter ==
  ASSUME PagesInv, [PagesNext]_allVars
  PROVE  ReadsAfterCopy'
<1>1. TabOK /\ RowsOK /\ ReadInOrder(copy) /\ ReadsAfterCopy
  BY TabTypes DEF PagesInv, RowsOK
<1>2. CASE Arrive
  BY <1>2 DEF Arrive, NotAsking, Blank, ReadsAfterCopy
<1>3. CASE Same(copy', copy)
  <2>1. CASE ReadBooking
    <3>1. asking'.view.status = status[Watched]
      BY <1>1, <2>1 DEF ReadBooking, TabOK, GetType, View
    <3>2. QED
      BY <1>1, <1>3, <3>1 DEF ReadsAfterCopy, Same, ReadInOrder
  <2>2. CASE ReadMoney
    <3>1. asking'.view.status = asking.view.status
      BY <1>1, <2>2 DEF ReadMoney, TabOK, GetType, View
    <3>2. QED
      BY <1>1, <1>3, <3>1 DEF ReadsAfterCopy, Same
  <2>3. CASE asking'.view = Blank
    BY <2>3 DEF ReadsAfterCopy, Blank
  <2>4. CASE Same(asking'.view, asking.view)
    BY <1>1, <1>3, <2>4 DEF ReadsAfterCopy, Same
  <2>5. QED
    BY <1>1, <2>1, <2>2, <2>3, <2>4, AskingViewMoves
<1>4. QED
  BY <1>1, <1>2, <1>3, CopyViewMoves

-----------------------------------------------------------------------------
(* The wait and the calls *)

\* The wait keeps its cause: a payment, and a minute or an outcome.
LEMMA WaitKeepsCause ==
  ASSUME PagesInv, [PagesNext]_allVars
  PROVE  WaitHasCause'
<1>1. TabOK /\ RowsOK /\ RowsGoOn /\ ReadInOrder(copy) /\ ReadsAfterCopy /\ WaitHasCause
      /\ AnswersStand
  BY TabTypes, RowsAlwaysGoOn DEF PagesInv, RowsOK
<1>a. wait \in WaitType /\ asking \in GetType /\ copy \in View
  BY <1>1 DEF TabOK
\* As long as nobody begins to wait, the payment stays and no GET reads a hold.
<1>2. ASSUME wait'.asked => wait.asked
      PROVE  wait'.asked => PastHold(status'[Watched]) /\ asking'.view.status # "HELD"
  <2>1. CASE ReadBooking
    <3>1. asking'.view.status = status[Watched]
      BY <1>a, <2>1 DEF ReadBooking, GetType, View
    <3>2. QED
      BY <1>1, <1>2, <3>1 DEF WaitHasCause, RowsGoOn, PastHold
  <2>2. CASE ReadMoney
    <3>1. asking'.view.status = asking.view.status
      BY <1>a, <2>2 DEF ReadMoney, GetType, View
    <3>2. QED
      BY <1>1, <1>2, <3>1 DEF WaitHasCause, RowsGoOn
  <2>3. CASE asking'.view = Blank
    BY <1>1, <1>2, <2>3 DEF WaitHasCause, RowsGoOn, Blank
  <2>4. CASE Same(asking'.view, asking.view)
    BY <1>1, <1>2, <2>4 DEF WaitHasCause, RowsGoOn, Same
  <2>5. QED
    BY <1>1, <2>1, <2>2, <2>3, <2>4, AskingViewMoves
\* The steps that leave the wait and the cache alone, but for a redraw.
<1>3. ASSUME wait'.asked = wait.asked, wait'.polling = wait.polling, wait'.age = wait.age,
             copy'.status = copy.status,
             asking'.open \/ (asking'.open = asking.open /\ failed' = failed) \/ failed'
               \/ copy.status = "UNREAD"
      PROVE  WaitHasCause'
  BY <1>1, <1>2, <1>3 DEF WaitHasCause, PaidPageNotHeld
<1>4. ASSUME NEW where \in {"checkout", "detail"}, OpenPage(where) PROVE WaitHasCause'
  <2>1. asking'.open \/ (asking'.open = asking.open /\ failed' = failed) \/ failed'
          \/ copy.status = "UNREAD"
    <3>1. CASE FetchUnlessOpen
      BY <3>1, <1>a DEF FetchUnlessOpen, Sent, GetType
    <3>2. CASE ~failed /\ UNCHANGED asking
      BY <1>4, <1>1, <3>2 DEF OpenPage, TabOK
    <3>3. QED
      BY <1>4, <3>1, <3>2 DEF OpenPage
  <2>2. QED
    BY <1>3, <1>4, <2>1 DEF OpenPage
<1>5. CASE LeavePage
  BY <1>5 DEF LeavePage, NotWaiting, WaitHasCause, PaidPageNotHeld
<1>6. CASE ReadBooking \/ ReadMoney
  <2>1. asking'.open = asking.open
    BY <1>6, <1>a DEF ReadBooking, ReadMoney, GetType
  <2>2. QED
    BY <1>3, <1>6, <2>1 DEF ReadBooking, ReadMoney
<1>7. CASE Arrive
  <2>1. /\ wait'.asked = wait.asked /\ wait'.polling = wait.polling /\ wait'.age = wait.age
        /\ copy' = asking.view /\ asking.view.status # "UNREAD"
    BY <1>7, <1>a DEF Arrive, Redrawn, WaitType
  <2>2. QED
    BY <1>1, <1>2, <2>1 DEF WaitHasCause, ReadsAfterCopy, PaidPageNotHeld
<1>8. CASE FailGet \/ PressPay
  <2>1. wait'.asked = wait.asked /\ wait'.polling = wait.polling /\ wait'.age = wait.age
    BY <1>8, <1>a DEF FailGet, PressPay, Redrawn, WaitType
  <2>2. QED
    BY <1>3, <1>8, <2>1 DEF FailGet, PressPay
<1>9. CASE StartPage
  <2>1. CASE copy.status = "PENDING_PAYMENT"
    <3>1. wait'.asked /\ wait'.polling /\ UNCHANGED <<rowVars, copy, asking>>
      BY <1>9, <1>a, <2>1 DEF StartPage, Polling, Redrawn, WaitType
    <3>2. PastHold(copy.status)
      BY <2>1 DEF PastHold
    <3>3. PastHold(status[Watched]) /\ asking.view.status # "HELD"
      BY <1>1, <3>2 DEF ReadInOrder, ReadsAfterCopy, PastHold
    <3>4. QED
      BY <2>1, <3>1, <3>3 DEF WaitHasCause, PaidPageNotHeld, rowVars
  <2>2. CASE copy.status # "PENDING_PAYMENT"
    <3>1. wait'.asked = wait.asked /\ wait'.polling = wait.polling /\ wait'.age = wait.age
      BY <1>9, <1>a, <2>2 DEF StartPage, WaitType
    <3>2. QED
      BY <1>3, <1>9, <3>1 DEF StartPage
  <2>3. QED
    BY <2>1, <2>2
<1>10. CASE Poll \/ Ring
  <2>1. wait'.asked = wait.asked /\ wait'.polling = wait.polling /\ wait'.age = wait.age
        /\ asking'.open
    BY <1>10, <1>a DEF Poll, Ring, FetchUnlessOpen, Refetch, Sent, WaitType
  <2>2. QED
    BY <1>3, <1>10, <2>1 DEF Poll, Ring
<1>11. CASE StopPolling
  <2>1. wait'.asked = wait.asked /\ asking'.open /\ copy' = copy /\ copy.status \in Settled
    BY <1>11, <1>a DEF StopPolling, Redrawn, WaitType, Refetch, Sent
  <2>2. QED
    BY <1>2, <2>1 DEF WaitHasCause, PaidPageNotHeld
<1>12. CASE GiveUp
  <2>1. wait'.asked = wait.asked /\ wait'.age = PollCeiling /\ UNCHANGED <<copy, asking, failed>>
    BY <1>12, <1>a DEF GiveUp, Redrawn, WaitType
  <2>2. QED
    BY <1>1, <1>2, <2>1 DEF WaitHasCause, PaidPageNotHeld
<1>13. CASE HearAnswer
  <2>1. CASE call.answer # "error" /\ call.op = "pay"
    <3>1. wait'.asked /\ wait'.polling /\ asking' = Sent /\ UNCHANGED rowVars
      BY <1>13, <1>a, <2>1 DEF HearAnswer, Polling, Redrawn, WaitType, Refetch
    <3>2. paid[Watched] # "ABSENT"
      BY <1>1, <1>13, <2>1 DEF HearAnswer, AnswersStand
    <3>3. PastHold(status[Watched])
      BY <1>1, <3>2, PagesAssumption DEF RowsOK, RowsTypeOK, RowsAgree, PastHold, BookingStatus
    <3>4. QED
      BY <3>1, <3>3 DEF WaitHasCause, PaidPageNotHeld, rowVars, Sent, Blank
  <2>2. CASE ~(call.answer # "error" /\ call.op = "pay")
    <3>1. wait'.asked = wait.asked /\ wait'.polling = wait.polling /\ wait'.age = wait.age
      BY <1>13, <1>a, <2>2 DEF HearAnswer, Redrawn, WaitType
    <3>2. asking'.open \/ asking' = asking
      BY <1>13 DEF HearAnswer, Refetch, Sent
    <3>3. QED
      BY <1>3, <1>13, <3>1, <3>2 DEF HearAnswer
  <2>3. QED
    BY <2>1, <2>2
<1>14. CASE PressCancel \/ ServeCheckout \/ ServePay \/ ServeCancel \/ LoseAnswer
  BY <1>3, <1>14 DEF PressCancel, ServeCheckout, ServePay, ServeCancel, LoseAnswer
<1>15. CASE Clock
  <2>1. /\ wait'.asked = wait.asked /\ wait'.polling = wait.polling
        /\ wait.polling \/ wait'.age = wait.age
    BY <1>15, <1>a DEF Clock, WaitType
  <2>2. copy'.status = copy.status /\ asking'.open = asking.open /\ failed' = failed
    BY <1>15, <1>a DEF Clock, View, GetType
  <2>3. QED
    BY <1>1, <1>2, <2>1, <2>2 DEF WaitHasCause, PaidPageNotHeld
<1>16. CASE ElsewhereStep
  BY <1>3, <1>16 DEF ElsewhereStep, pageVars
<1>17. CASE UNCHANGED allVars
  BY <1>3, <1>17 DEF allVars, pageVars
<1>18. QED
  BY <1>4, <1>5, <1>6, <1>7, <1>8, <1>9, <1>10, <1>11, <1>12, <1>13, <1>14, <1>15, <1>16, <1>17
  DEF PagesNext, QueryStep, EffectStep, CallStep

\* What a call has answered, and the page has said of it, stands.
LEMMA AnswersKept ==
  ASSUME PagesInv, [PagesNext]_allVars
  PROVE  AnswersStand'
<1>1. TabOK /\ RowsOK /\ RowsOK' /\ RowsGoOn /\ AnswersStand
  BY TabTypes, RowsAlwaysGoOn DEF PagesInv, RowsOK
<1>a. call \in CallType
  BY <1>1 DEF TabOK
<1>2. ASSUME call'.op = call.op, call'.answer = call.answer, said' = said
      PROVE  AnswersStand'
  BY <1>1, <1>2 DEF AnswersStand, RowsGoOn
<1>3. ASSUME call'.op = "none" \/ call'.answer = "waiting", said' = said \/ said' = "nothing yet"
      PROVE  AnswersStand'
  <2>1. said' = "nothing" => said = "nothing"
    BY <1>3
  <2>2. QED
    BY <1>1, <1>3, <2>1 DEF AnswersStand, RowsGoOn
<1>4. CASE LeavePage
  BY <1>3, <1>4 DEF LeavePage, NoCall
<1>5. CASE StartPage
  BY <1>2, <1>3, <1>5 DEF StartPage
<1>6. CASE PressPay \/ PressCancel
  <2>1. call'.answer = "waiting" /\ said' = said
    BY <1>6 DEF PressPay, PressCancel
  <2>2. QED
    BY <1>3, <2>1
<1>7. CASE ServeCheckout
  BY <1>1, <1>a, <1>7 DEF ServeCheckout, Answered, CallType, AnswersStand, RowsGoOn
<1>8. CASE ServePay
  <2>1. /\ call.op = "pay" /\ call'.op = "pay" /\ said' = said
        /\ call'.answer = "error" \/ (call'.answer \in {"created", "found"} /\ paid'[Watched] # "ABSENT")
    BY <1>1, <1>a, <1>8, PagesAssumption
    DEF ServePay, Answered, CallType, Submit, rowVars, RowsOK, RowsTypeOK
  <2>2. QED
    BY <1>1, <2>1 DEF AnswersStand, RowsGoOn
<1>9. CASE ServeCancel
  <2>1. call.op = "cancel" /\ call'.op = "cancel" /\ said' = said
        /\ call'.answer \in {"nothing", "refund", "error"}
    BY <1>a, <1>9 DEF ServeCancel, Answered, CallType
  <2>2. ASSUME call'.answer = "nothing"
        PROVE  status'[Watched] = "CANCELLED" /\ paid'[Watched] = "ABSENT"
    <3>1. status'[Watched] \in {"CANCELLED", "REFUNDED"} /\ back'[Watched] = "ABSENT"
      BY <1>1, <1>a, <1>9, <2>2, PagesAssumption
      DEF ServeCancel, Answered, CallType, CancelIt, Move, rowVars, RowsOK, RowsTypeOK
    <3>2. QED
      BY <1>1, <3>1, PagesAssumption DEF RowsOK, RowsAgree, RowsTypeOK
  <2>3. QED
    BY <1>1, <2>1, <2>2 DEF AnswersStand, RowsGoOn
<1>10. CASE LoseAnswer
  BY <1>1, <1>a, <1>10 DEF LoseAnswer, CallType, AnswersStand, RowsGoOn
<1>11. CASE HearAnswer
  <2>1. call' = NoCall /\ (said' = said \/ (call.op = "cancel" /\ said' = call.answer))
    BY <1>11 DEF HearAnswer, SaidOfCancel
  <2>2. QED
    BY <1>1, <2>1 DEF AnswersStand, RowsGoOn, NoCall
<1>12. CASE Clock
  <2>1. call'.op = call.op /\ call'.answer = call.answer /\ said' = said
    BY <1>a, <1>12 DEF Clock, CallType
  <2>2. QED
    BY <1>2, <2>1
<1>13. ASSUME UNCHANGED <<call, said>> PROVE AnswersStand'
  BY <1>2, <1>13
<1>14. QED
  BY <1>4, <1>5, <1>6, <1>7, <1>8, <1>9, <1>10, <1>11, <1>12, <1>13
  DEF PagesNext, allVars, pageVars, OpenPage, QueryStep, ReadBooking, ReadMoney, Arrive,
      FailGet, EffectStep, Poll, StopPolling, GiveUp, Ring, CallStep, ElsewhereStep

-----------------------------------------------------------------------------
(* The theorems *)

LEMMA PagesInvInit == PagesInit => PagesInv
<1> SUFFICES ASSUME PagesInit PROVE PagesInv
  OBVIOUS
<1>1. PagesTypeOK
  BY TabTypes, EmptyTypes, WaitTypes DEF PagesInit, TabOK
<1>2. RowsTypeOK /\ RowsAgree
  BY DEF PagesInit, RowsInit, RowsTypeOK, RowsAgree, BookingStatus
<1>3. /\ ReadInOrder(asking.view) /\ ReadInOrder(copy) /\ ViewIsCoherent /\ ReadsAfterCopy
      /\ WaitHasCause /\ AnswersStand
  BY DEF PagesInit, NotAsking, Blank, NotWaiting, NoCall, ReadInOrder, PastHold, Settled,
     ViewIsCoherent, Drawn, ReadsAfterCopy, WaitHasCause, PaidPageNotHeld, AnswersStand
<1>4. QED
  BY <1>1, <1>2, <1>3 DEF PagesInv

LEMMA PagesInvKept == PagesInv /\ [PagesNext]_allVars => PagesInv'
<1> SUFFICES ASSUME PagesInv, [PagesNext]_allVars PROVE PagesInv'
  OBVIOUS
<1>1. RowsTypeOK' /\ RowsAgree'
  BY RowsAlwaysGoOn DEF PagesInv, RowsOK
<1>2. QED
  BY <1>1, TypesKept, AskingInOrder, CopyInOrder, ReadsStayAfter, WaitKeepsCause, AnswersKept
  DEF PagesInv

\* The rows of a booking agree, a GET reads them in an order that shows, and a
\* wait and an answer have their reasons, in every state.
THEOREM PagesInvHolds == PagesSpec => []PagesInv
<1>1. QED
  BY PagesInvInit, PagesInvKept, PTL DEF PagesSpec

\* bookingService.findById reads three rows at three moments: no badge is
\* drawn with money of another outcome all the same.
THEOREM ViewAlwaysCoherent == PagesSpec => []ViewIsCoherent
<1>1. PagesInv => ViewIsCoherent
  BY DEF PagesInv
<1>2. QED
  BY <1>1, PagesInvHolds, PTL

\* checkout/page.tsx: once the refresh after a payment is back, the page does
\* not draw the hold and its Pay button again.
THEOREM PaidPageNeverHeld == PagesSpec => []PaidPageNotHeld
<1>1. PagesInv => PaidPageNotHeld
  BY DEF PagesInv, WaitHasCause
<1>2. QED
  BY <1>1, PagesInvHolds, PTL

\* checkout/page.tsx: "Still with the provider" is only said when the page has
\* polled up to its ceiling.
THEOREM GivesUpHonestly == PagesSpec => []GaveUpHonestly
<1>1. ASSUME PagesInv PROVE GaveUpHonestly
  <2>1. Outcome = "still pending" =>
          wait.asked /\ ~wait.polling /\ copy.status = "PENDING_PAYMENT"
    BY DEF Outcome
  <2>2. "PENDING_PAYMENT" \notin Settled
    BY DEF Settled
  <2>3. QED
    BY <1>1, <2>1, <2>2 DEF GaveUpHonestly, PagesInv, WaitHasCause
<1>2. QED
  BY <1>1, PagesInvHolds, PTL

\* bookings/[id]/page.tsx: "Nothing had been charged" is only said of a booking that
\* was never charged, and stays true.
THEOREM NothingChargedStaysTrue == PagesSpec => []NothingChargedIsTrue
<1>1. PagesInv => NothingChargedIsTrue
  BY DEF PagesInv, AnswersStand, NothingChargedIsTrue
<1>2. QED
  BY <1>1, PagesInvHolds, PTL

\* Whatever a tab asks for, the rows move as BookingRows lets them: what holds of
\* the pages holds of the rows that Payments shows.
THEOREM PagesKeepRows == PagesSpec => RowsSpec
<1> USE PagesAssumption
<1>1. PagesInit => RowsInit
  BY DEF PagesInit
<1>2. [PagesNext]_allVars => [RowsNext]_rowVars
  <2> SUFFICES ASSUME [PagesNext]_allVars PROVE [RowsNext]_rowVars
    OBVIOUS
  <2>1. ASSUME NEW where \in {"checkout", "detail"}, OpenPage(where) PROVE UNCHANGED rowVars
    BY <2>1 DEF OpenPage
  <2>2. CASE LeavePage
    BY <2>2 DEF LeavePage
  <2>3. CASE QueryStep
    BY <2>3 DEF QueryStep, ReadBooking, ReadMoney, Arrive, FailGet
  <2>4. CASE EffectStep
    BY <2>4 DEF EffectStep, StartPage, Poll, StopPolling, GiveUp, Ring
  <2>5. CASE CallStep
    <3>1. UNCHANGED rowVars \/ RowStep(Watched)
      BY <2>5 DEF CallStep, PressPay, PressCancel, ServeCheckout, ServePay,
                  ServeCancel, LoseAnswer, HearAnswer, RowStep
    <3>2. QED
      BY <3>1 DEF RowsNext
  <2>6. CASE Clock
    BY <2>6 DEF Clock, RowsNext
  <2>7. CASE ElsewhereStep
    BY <2>7 DEF ElsewhereStep, RowsNext
  <2>8. CASE UNCHANGED allVars
    BY <2>8 DEF allVars
  <2>9. QED
    BY <2>1, <2>2, <2>3, <2>4, <2>5, <2>6, <2>7, <2>8 DEF PagesNext
<1>3. QED
  BY <1>1, <1>2, PTL DEF PagesSpec, RowsSpec
=============================================================================
