--------------------------- MODULE ReportsProofs ---------------------------
(***************************************************************************)
(* Proofs about Reports, for any finite tables and any set of workers: no  *)
(* report shows an imbalance, whatever commits fall between its statements.*)
(***************************************************************************)
EXTENDS Reports, PaymentsProofs, FiniteSetTheorems

-----------------------------------------------------------------------------
(* What the statements count *)

\* A set with n pairs for each of finitely many rows is finite.
LEMMA PairsFinite ==
  ASSUME NEW S, IsFiniteSet(S), NEW n \in [S -> Nat]
  PROVE  IsFiniteSet(UNION {{x} \X (1..n[x]) : x \in S})
<1> DEFINE All == {{x} \X (1..n[x]) : x \in S}
           of  == [x \in S |-> {x} \X (1..n[x])]
<1>1. of \in Surjection(S, All)
  BY DEF Surjection
<1>2. IsFiniteSet(All)
  BY <1>1, FS_Surjection
<1>3. ASSUME NEW x \in S PROVE IsFiniteSet({x} \X (1..n[x]))
  <2>1. IsFiniteSet({x})
    BY FS_Singleton
  <2>2. 1 \in Int /\ n[x] \in Int
    OBVIOUS
  <2>3. IsFiniteSet(1..n[x])
    BY <2>2, FS_Interval
  <2>4. QED
    BY <2>1, <2>3, FS_Product
<1>4. \A T \in All : IsFiniteSet(T)
  BY <1>3
<1>5. QED
  BY <1>2, <1>4, FS_UNION

\* Captured payments and settled refunds are of a booking, and pay an amount.
LEMMA RowsHaveAmounts ==
  ASSUME IInv
  PROVE  /\ \A p \in CapturedRows : payment[p].booking \in Bookings /\ Total[payment[p].booking] \in Nat
         /\ \A r \in Settled : refund[r].booking \in Bookings /\ AmountOf(r) \in Nat
<1>1. \A p \in CapturedRows : payment[p].booking \in Bookings
  BY DEF IInv, RowsConsistent, PaymentRows, CapturedRows, TypeOK, PaymentRow
<1>2. \A r \in Settled : refund[r].booking \in Bookings
  BY DEF IInv, RowsConsistent, RefundRows, Settled
<1>3. \A r \in Settled : refund[r].amount \in {"FULL", "POLICY", "NOTHING"}
  BY DEF IInv, TypeOK, RefundRow, RefundAmount, Settled
<1>4. \A b \in Bookings : Total[b] \in Nat /\ Back[b] \in Nat
  BY ReportsAssumption
<1>5. QED
  BY <1>1, <1>2, <1>3, <1>4 DEF AmountOf

\* Totals are numbers, for the tables are finite.
Numbers ==
  /\ IsFiniteSet(Taken) /\ IsFiniteSet(PaidBack) /\ IsFiniteSet(ByPolicy)
  /\ Captured \in Nat /\ Refunded \in Nat /\ Cardinality(ByPolicy) \in Nat

LEMMA TotalsAreNumbers == IInv => Numbers
<1> SUFFICES ASSUME IInv PROVE Numbers
  OBVIOUS
<1> DEFINE costs == [p \in CapturedRows |-> Total[payment[p].booking]]
           pays  == [r \in Settled |-> AmountOf(r)]
<1>1. IsFiniteSet(CapturedRows) /\ IsFiniteSet(Settled) /\ IsFiniteSet(ByPolicy)
  BY ReportsAssumption, FS_Subset DEF CapturedRows, Settled, ByPolicy
<1>2. costs \in [CapturedRows -> Nat] /\ pays \in [Settled -> Nat]
  BY RowsHaveAmounts
<1>3. /\ Taken = UNION {{p} \X (1..costs[p]) : p \in CapturedRows}
      /\ PaidBack = UNION {{r} \X (1..pays[r]) : r \in Settled}
  BY DEF Taken, PaidBack
<1>4. IsFiniteSet(Taken)
  <2> HIDE DEF costs, pays
  <2>1. IsFiniteSet(UNION {{p} \X (1..costs[p]) : p \in CapturedRows})
    BY <1>1, <1>2, PairsFinite
  <2>2. QED
    BY <1>3, <2>1
<1>5. IsFiniteSet(PaidBack)
  <2> HIDE DEF costs, pays
  <2>1. IsFiniteSet(UNION {{r} \X (1..pays[r]) : r \in Settled})
    BY <1>1, <1>2, PairsFinite
  <2>2. QED
    BY <1>3, <2>1
<1>6. QED
  BY <1>1, <1>4, <1>5, FS_CardinalityType DEF Numbers, Captured, Refunded

\* Rows that fit together have no discrepancy for reconciliation to count.
LEMMA NothingStands ==
  ASSUME IInv, \A b \in Bookings : status[b] # "COMPLETED"
  PROVE  Stranded = 0 /\ Unpaid = 0 /\ Orphans = 0 /\ Unrecorded \in Nat
<1> USE DEF IInv, RowsConsistent, Happened, HasRefund, HasCapture
<1>1. ASSUME NEW p \in Payments, payment[p].status = "CAPTURED",
             status[payment[p].booking] \notin Happened
      PROVE  HasRefund(payment[p].booking)
  BY <1>1, CapturedBacking DEF LiveRefundsOf
<1>2. Stranded = 0
  BY <1>1, FS_EmptySet DEF Stranded
<1>3. Unpaid = 0
  BY FS_EmptySet DEF Unpaid, BookingBacked
<1>4. ASSUME NEW r \in Refunds, refund[r].payment # None
      PROVE  payment[refund[r].payment].status = "CAPTURED"
  BY <1>4 DEF RefundRows
<1>5. Orphans = 0
  BY <1>4, FS_EmptySet DEF Orphans
<1>6. Unrecorded \in Nat
  BY ReportsAssumption, FS_Subset, FS_CardinalityType DEF Unrecorded, TypeOK
<1>7. QED
  BY <1>2, <1>3, <1>5, <1>6

\* What was paid back is a part of what was taken, but for a unit in each refund
\* by policy: a refund that paid something has a captured payment to itself, and
\* at most one unit more than that.
LEMMA RefundedNearCaptured == IInv => Refunded <= Captured + Cardinality(ByPolicy)
<1> SUFFICES ASSUME IInv PROVE Refunded <= Captured + Cardinality(ByPolicy)
  OBVIOUS
<1> DEFINE within == {u \in PaidBack : u[2] <= Total[refund[u[1]].booking]}
           over   == PaidBack \ within
           from   == [u \in within |-> <<refund[u[1]].payment, u[2]>>]
           of     == [u \in over |-> u[1]]
<1>1. Numbers
  BY TotalsAreNumbers
<1>2. \A u \in PaidBack : /\ u = <<u[1], u[2]>> /\ u[1] \in Settled
                           /\ u[2] \in Nat /\ 1 <= u[2] /\ u[2] <= AmountOf(u[1])
  BY RowsHaveAmounts DEF PaidBack
<1>3. \A r \in Settled : /\ refund[r].payment \in CapturedRows
                          /\ refund[r].booking = payment[refund[r].payment].booking
                          /\ refund[r].booking \in Bookings
  BY DEF Settled, IInv, RowsConsistent, RefundRows, CapturedRows
<1>4. \A r, s \in Settled : refund[r].booking = refund[s].booking => r = s
  BY DEF Settled, IInv, RowsConsistent, OneRefundPerBooking
<1>5. from \in Injection(within, Taken)
  <2>1. \A u \in within : from[u] \in Taken
    <3> SUFFICES ASSUME NEW u \in within PROVE from[u] \in Taken
      OBVIOUS
    <3>1. /\ refund[u[1]].payment \in CapturedRows
          /\ u[2] \in 1..Total[payment[refund[u[1]].payment].booking]
      BY <1>2, <1>3, RowsHaveAmounts
    <3>2. QED
      BY <3>1 DEF Taken
  <2>2. \A u, v \in within : from[u] = from[v] => u = v
    BY <1>2, <1>3, <1>4
  <2>3. QED
    BY <2>1, <2>2 DEF Injection, IsInjective
<1>6. \A u \in over : u[1] \in ByPolicy /\ u[2] = Total[refund[u[1]].booking] + 1
  <2> SUFFICES ASSUME NEW u \in over
               PROVE  u[1] \in ByPolicy /\ u[2] = Total[refund[u[1]].booking] + 1
    OBVIOUS
  <2>1. /\ u[1] \in Settled /\ u[2] \in Nat /\ 1 <= u[2] /\ u[2] <= AmountOf(u[1])
        /\ ~(u[2] <= Total[refund[u[1]].booking])
    BY <1>2
  <2>2. /\ Total[refund[u[1]].booking] \in Nat
        /\ Back[refund[u[1]].booking] \in Nat
        /\ Back[refund[u[1]].booking] <= Total[refund[u[1]].booking] + 1
    BY <1>3, <2>1, ReportsAssumption
  <2>3. refund[u[1]].amount \in {"FULL", "POLICY", "NOTHING"}
    BY <2>1 DEF IInv, TypeOK, RefundRow, RefundAmount, Settled
  <2>4. refund[u[1]].amount = "POLICY"
    BY <2>1, <2>2, <2>3 DEF AmountOf
  <2>5. QED
    BY <2>1, <2>2, <2>4 DEF AmountOf, ByPolicy
<1>7. of \in Injection(over, ByPolicy)
  <2>1. ASSUME NEW u \in over, NEW v \in over, of[u] = of[v] PROVE u = v
    <3>1. u[1] = v[1]
      BY <2>1
    <3>2. u[2] = v[2]
      BY <1>6, <3>1
    <3>3. u = <<u[1], u[2]>> /\ v = <<v[1], v[2]>>
      BY <1>2
    <3>4. QED
      BY <3>1, <3>2, <3>3
  <2>2. QED
    BY <1>6, <2>1 DEF Injection, IsInjective
<1>8. /\ IsFiniteSet(within) /\ Cardinality(within) <= Captured
      /\ IsFiniteSet(over) /\ Cardinality(over) <= Cardinality(ByPolicy)
  BY <1>1, <1>5, <1>7, FS_Injection DEF Numbers, Captured
<1>9. Refunded = Cardinality(within) + Cardinality(over)
  <2>1. PaidBack = within \cup over /\ within \cap over = {}
    OBVIOUS
  <2> HIDE DEF within, over
  <2>2. Cardinality(within \cup over) = Cardinality(within) + Cardinality(over) - Cardinality(within \cap over)
    BY <1>8, FS_Union
  <2>3. Refunded = Cardinality(within \cup over) /\ Cardinality(within \cap over) = 0
    BY <2>1, FS_EmptySet, Zenon DEF Refunded
  <2>4. Cardinality(within) \in Nat /\ Cardinality(over) \in Nat
    BY <1>8, FS_CardinalityType
  <2>5. QED
    BY <2>2, <2>3, <2>4
<1>10. Cardinality(within) \in Nat /\ Cardinality(over) \in Nat
  BY <1>8, FS_CardinalityType
<1>11. QED
  BY <1>1, <1>8, <1>9, <1>10 DEF Numbers

-----------------------------------------------------------------------------
(* What a commit can change under a report *)

\* No job moves a booking to COMPLETED.
LEMMA NeverCompleted ==
  ASSUME IInv, IInv', [Next]_vars, \A b \in Bookings : status[b] # "COMPLETED"
  PROVE  \A b \in Bookings : status'[b] # "COMPLETED"
<1>1. Shown /\ Shown'
  BY WhatIsShown, PTL
<1>2. [Rows!RowsNext]_Rows!rowVars
  BY <1>1, RowsShownNext
<1>3. status \in [Bookings -> BookingStatus]
  BY DEF IInv, TypeOK
<1>4. ASSUME NEW b \in Bookings, Rows!RowStep(b) PROVE status'[b] # "COMPLETED"
  BY <1>3, <1>4 DEF Rows!RowStep, Rows!Hold, Rows!Reissue, Rows!Submit, Rows!CancelIt, Rows!Expire,
         Rows!Captured, Rows!Declined, Rows!MoneyBack, Rows!Move
<1>5. ASSUME NEW b \in Bookings, Rows!RowStep(b) PROVE \A c \in Bookings : status'[c] # "COMPLETED"
  BY <1>3, <1>4, <1>5, RowStepIsLocal
<1>6. QED
  BY <1>2, <1>5 DEF Rows!RowsNext, Rows!TimePasses, Rows!rowVars

\* A captured payment stays captured, and with its booking.
LEMMA CapturedStays ==
  ASSUME IInv, [Next]_vars
  PROVE  \A p \in CapturedRows : p \in CapturedRows' /\ payment'[p].booking = payment[p].booking
<1> SUFFICES ASSUME NEW p \in Payments, payment[p].status = "CAPTURED"
             PROVE  payment'[p].status = "CAPTURED" /\ payment'[p].booking = payment[p].booking
  BY DEF CapturedRows
<1>1. payment \in [Payments -> PaymentRow]
  BY DEF IInv, TypeOK
<1>2. CASE CustomerStep
  BY <1>1, <1>2 DEF CustomerStep, CreateHold, StartCheckout, SubmitForPayment, Cancel
<1>3. CASE WorkerStep
  BY <1>1, <1>3
  DEF WorkerStep, ClaimCharge, CallCharge, FinishCharge, ChargeAttached, ClaimRefund, CallRefund,
      FinishRefund, Crash, PaymentRow
<1>4. CASE WebhookStep
  BY <1>1, <1>4
  DEF WebhookStep, Deliver, Lose, ProcessEvent, ParkUnmatched, ApplyCapture, ApplyDecline,
      ApplyRefund, Settle
<1>5. QED
  BY <1>2, <1>3, <1>4 DEF Next, Tick, ReapHold, vars

\* A settled refund row stays as it is.
LEMMA SettledStays ==
  ASSUME IInv, [Next]_vars
  PROVE  \A r \in Settled : r \in Settled' /\ AmountOf(r)' = AmountOf(r)
<1> SUFFICES ASSUME NEW r \in Refunds, refund[r].status = "SUCCEEDED"
             PROVE  /\ refund'[r].status = "SUCCEEDED"
                    /\ refund'[r].amount = refund[r].amount
                    /\ refund'[r].booking = refund[r].booking
  BY DEF Settled, AmountOf
<1>1. refund \in [Refunds -> RefundRow]
  BY DEF IInv, TypeOK
<1>2. CASE CustomerStep
  BY <1>1, <1>2
  DEF CustomerStep, CreateHold, StartCheckout, SubmitForPayment, Cancel, RefundOnCancel,
      InsertRefund
<1>3. CASE WorkerStep
  BY <1>1, <1>3
  DEF WorkerStep, ClaimCharge, CallCharge, FinishCharge, ClaimRefund, CallRefund,
      FinishRefund, Crash, RefundRow
<1>4. CASE WebhookStep
  BY <1>1, <1>4
  DEF WebhookStep, Deliver, Lose, ProcessEvent, ParkUnmatched, ApplyCapture, ApplyDecline,
      ApplyRefund, ConfirmOrRefund, InsertRefund, RefundRow
<1>5. QED
  BY <1>2, <1>3, <1>4 DEF Next, Tick, ReapHold, vars

\* Totals only grow.
LEMMA TotalsGrow ==
  ASSUME IInv, IInv', [Next]_vars
  PROVE  Captured <= Captured' /\ Refunded <= Refunded'
<1>1. Numbers /\ Numbers'
  BY TotalsAreNumbers, PTL
<1>2. Taken \subseteq Taken'
  BY CapturedStays DEF Taken
<1>3. PaidBack \subseteq PaidBack'
  BY SettledStays DEF PaidBack
<1>4. QED
  BY <1>1, <1>2, <1>3, FS_Subset DEF Numbers, Captured, Refunded

-----------------------------------------------------------------------------
(* The invariant *)

\* An answer that holds goes on holding.
LEMMA HoldsStays ==
  ASSUME IInv, IInv', [Next]_vars, NEW q, NEW n, Holds(q, n)
  PROVE  Holds(q, n)'
<1>1. Numbers /\ Numbers'
  BY TotalsAreNumbers, PTL
<1>2. QED
  BY <1>1, TotalsGrow DEF Holds, Numbers

\* No report is in front at first.
LEMMA ReportsInvInit == ReportsInit => ReportsInv
<1>1. Init => IInv
  BY TypeInit, RowsInit DEF IInv
<1>2. DOMAIN NoReport.answer = {}
  BY DEF NoReport
<1>3. Init => \A b \in Bookings : status[b] # "COMPLETED"
  BY DEF Init
<1>4. QED
  BY <1>1, <1>2, <1>3 DEF ReportsInit, ReportsInv, AnswersHold

\* A commit under a report leaves what it has heard true.
LEMMA CommitPreserves ==
  ASSUME ReportsInv, [Next]_vars, UNCHANGED report
  PROVE  ReportsInv'
<1>1. IInv'
  BY TypeNext, RowsNext DEF ReportsInv, IInv
<1>2. \A b \in Bookings : status'[b] # "COMPLETED"
  BY <1>1, NeverCompleted DEF ReportsInv, AnswersHold
<1>3. \A q, n : Holds(q, n) => Holds(q, n)'
  BY <1>1, HoldsStays DEF ReportsInv
<1>4. QED
  BY <1>1, <1>2, <1>3 DEF ReportsInv, AnswersHold, Answered

\* Whatever a statement answers holds at that moment.
LEMMA NowHolds ==
  ASSUME ReportsInv, NEW q, NEW n \in Now(q),
         q \in AtOnce \cup Statements
  PROVE  Holds(q, n)
<1>1. Stranded = 0 /\ Unpaid = 0 /\ Orphans = 0 /\ Unrecorded \in Nat
  BY NothingStands DEF ReportsInv, AnswersHold
<1>2. q \in {"stranded", "unpaid", "orphans", "unmatched", "captured", "refunded", "gross", "returned"}
  BY DEF AtOnce, InOrder, Statements
<1>3. Captured \in Nat /\ Refunded \in Nat
  BY TotalsAreNumbers DEF ReportsInv, Numbers
<1>4. QED
  BY <1>1, <1>2, <1>3 DEF Now, Holds

\* One more answer is heard.
LEMMA HearPreserves ==
  ASSUME ReportsInv, IInv', report # NoReport, NEW q \in DOMAIN report.answer, Hear(q), UNCHANGED vars
  PROVE  AnswersHold'
<1>1. q \in AtOnce \cup Statements
  BY DEF ReportsInv, AnswersHold, Report
<1>2. PICK n \in Now(q) : report' = [report EXCEPT !.answer[q] = n]
  BY DEF Hear
<1>3. Holds(q, n)
  BY <1>1, <1>2, NowHolds
<1>4. n \in Nat
  BY <1>3 DEF Holds
<1>5. \A r, m : Holds(r, m) => Holds(r, m)'
  BY HoldsStays DEF ReportsInv
<1>6. report' \in Report
  BY <1>2, <1>4 DEF ReportsInv, AnswersHold, Report
<1>7. /\ DOMAIN report'.answer = DOMAIN report.answer
      /\ report'.answer[q] = n
      /\ \A r \in DOMAIN report.answer \ {q} : report'.answer[r] = report.answer[r]
  BY <1>2 DEF ReportsInv, AnswersHold, Report
<1>8. \A r \in DOMAIN report'.answer : Answered(r)' => Holds(r, report.answer[r])'
  BY <1>3, <1>5, <1>7 DEF ReportsInv, AnswersHold, Answered
<1>9. QED
  BY <1>6, <1>8 DEF ReportsInv, AnswersHold, vars, bookingVars

\* A statement of the report reads the rows as they are.
LEMMA ReadPreserves ==
  ASSUME ReportsInv, ReadStep
  PROVE  ReportsInv'
<1>1. UNCHANGED vars /\ UNCHANGED status
  BY DEF ReadStep, vars, bookingVars
<1>2. IInv'
  BY <1>1, TypeNext, RowsNext DEF ReportsInv, IInv
<1>3. CASE AskReconciliation
  BY <1>1, <1>2, <1>3 DEF AskReconciliation, ReportsInv, AnswersHold, Report, Answered
<1>4. CASE AskRevenue
  BY <1>1, <1>2, <1>4 DEF AskRevenue, ReportsInv, AnswersHold, Report, Answered
<1>5. CASE NextStatement
  <2>1. /\ report # NoReport
        /\ \E q \in Statements : Hear(q)
    BY <1>5 DEF NextStatement, Statements, NoReport
  <2>2. DOMAIN report.answer = Statements
    BY <1>5, <2>1 DEF ReportsInv, AnswersHold, Report, NextStatement
  <2>3. QED
    BY <1>1, <1>2, <2>1, <2>2, HearPreserves DEF ReportsInv
<1>6. CASE AnyStatement
  <2>1. /\ report # NoReport
        /\ \E q \in AtOnce : Hear(q)
    BY <1>6 DEF AnyStatement, NoReport
  <2>2. DOMAIN report.answer = AtOnce
    BY <1>6, <2>1 DEF ReportsInv, AnswersHold, Report, AnyStatement
  <2>3. QED
    BY <1>1, <1>2, <2>1, <2>2, HearPreserves DEF ReportsInv
<1>7. CASE FailReport
  BY <1>1, <1>2, <1>7 DEF FailReport, ReportsInv, AnswersHold, NoReport
<1>8. QED
  BY <1>3, <1>4, <1>5, <1>6, <1>7 DEF ReadStep

\* The rows fit together and every answer heard so far holds, in every state of
\* a report that is being made or read.
THEOREM ReportsInvHolds == ReportsSpec => []ReportsInv
<1>1. ReportsInv /\ [ReportsNext]_readVars => ReportsInv'
  <2> SUFFICES ASSUME ReportsInv, [ReportsNext]_readVars PROVE ReportsInv'
    OBVIOUS
  <2>1. CASE ReadStep
    BY <2>1, ReadPreserves
  <2>2. CASE [Next]_vars /\ UNCHANGED report
    BY <2>2, CommitPreserves
  <2>3. QED
    BY <2>1, <2>2 DEF ReportsNext, readVars
<1>2. QED
  BY ReportsInvInit, <1>1, PTL DEF ReportsSpec

\* Reconciliation that reports zero discrepancies, and totals that were read at
\* different moments, are never contradicted by the rows: no statement sees a
\* booking whose money is unaccounted for, and no more is paid back than was
\* taken, but for the unit that rounding can add to a refund by policy.
THEOREM ReportsAlwaysStand == ReportsSpec => []ReportStands
<1>1. ReportsInv => ReportStands
  <2> SUFFICES ASSUME ReportsInv, Complete PROVE ReportStands
    BY RefundedNearCaptured DEF ReportStands, ReportsInv
  <2>1. \A q \in DOMAIN report.answer : Holds(q, report.answer[q])
    BY DEF Complete, ReportsInv, AnswersHold
  <2>2. Refunded <= Captured + Cardinality(ByPolicy)
    BY RefundedNearCaptured DEF ReportsInv
  <2>3. ASSUME report.kind = "reconciliation"
        PROVE  /\ Discrepancies = report.answer["unmatched"]
               /\ report.answer["captured"] <= Captured
               /\ report.answer["refunded"] <= Refunded
    <3>1. {"stranded", "unpaid", "orphans", "unmatched", "captured", "refunded"}
            \subseteq DOMAIN report.answer
      BY <2>3 DEF ReportsInv, AnswersHold, Report, NoReport, Statements, InOrder
    <3>2. QED
      BY <2>1, <3>1 DEF Discrepancies, Holds
  <2>4. ASSUME report.kind = "revenue"
        PROVE  report.answer["gross"] <= Captured /\ report.answer["returned"] <= Refunded
    <3>1. AtOnce = DOMAIN report.answer
      BY <2>4 DEF ReportsInv, AnswersHold, Report, NoReport
    <3>2. QED
      BY <2>1, <3>1 DEF AtOnce, Holds
  <2>5. QED
    BY <2>2, <2>3, <2>4 DEF ReportStands
<1>2. QED
  BY ReportsInvHolds, <1>1, PTL
=============================================================================
