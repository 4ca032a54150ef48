------------------------------ MODULE Reports ------------------------------
(***************************************************************************)
(* The money reports, read while the jobs and the callbacks of Payments    *)
(* move the rows under them.                                               *)
(*                                                                         *)
(* No report is one snapshot.  Reconciliation is six statements one after  *)
(* the other, the totals of a venue's revenue two at once, each a snapshot *)
(* of its own; any number of commits falls between two of them.            *)
(*                                                                         *)
(* Payments tells amounts apart as full, policy share or nothing; here     *)
(* every booking has amounts of its own.  What a policy gives back is      *)
(* settled when a booking is cancelled, once, and may be fixed beforehand. *)
(***************************************************************************)
EXTENDS Payments

CONSTANTS
  Total,  \* what a booking costs, in minor units
  Back    \* what its policy gives back at its cancellation

\* Tables are finite: the reports count their rows.  calculateRefund rounds the
\* room's part and the equipment's by themselves, which gives back up to one
\* unit more than the charge (TermsProofs, RefundAlwaysNearCharge).
ASSUME ReportsAssumption ==
  /\ IsFiniteSet(Payments) /\ IsFiniteSet(Refunds)
  /\ Total \in [Bookings -> Nat] /\ Back \in [Bookings -> Nat]
  /\ \A b \in Bookings : Total[b] = 0 <=> b \in Free
  /\ \A b \in Bookings : Back[b] <= Total[b] + 1

VARIABLE report  \* the report being made, or the one in front when complete

readVars == <<vars, report>>

-----------------------------------------------------------------------------
(* The statements *)

\* Whether any refund row names the booking, whatever its status.
HasRefund(b) == \E r \in Refunds : refund[r].booking = b
HasCapture(b) == \E p \in Payments : payment[p].booking = b /\ payment[p].status = "CAPTURED"
Happened == {"CONFIRMED", "COMPLETED"}

\* CAPTURE_WITHOUT_OUTCOME: money taken for a booking that neither happened nor
\* was refunded.
Stranded ==
  Cardinality({p \in Payments : /\ payment[p].status = "CAPTURED"
                                /\ status[payment[p].booking] \notin Happened
                                /\ ~HasRefund(payment[p].booking)})

\* CONFIRMED_WITHOUT_CAPTURE: a slot given away.
Unpaid == Cardinality({b \in Bookings : status[b] \in Happened /\ ~HasCapture(b)})

\* REFUND_WITHOUT_CAPTURE: a refund of a charge that was never captured.
Orphans ==
  Cardinality({r \in Refunds : refund[r].payment # None
                               /\ payment[refund[r].payment].status # "CAPTURED"})

\* UNMATCHED_CALLBACK: a callback that names a charge no payment row has.
Unrecorded == Cardinality({p \in unmatched : ~payment[p].attached})

\* SUM(p.amount_minor) over captured payments: a pair for each unit.
CapturedRows == {p \in Payments : payment[p].status = "CAPTURED"}
Taken    == UNION {{p} \X (1..Total[payment[p].booking]) : p \in CapturedRows}
Captured == Cardinality(Taken)

\* refunds.amount_minor.
AmountOf(r) == CASE refund[r].amount = "FULL" -> Total[refund[r].booking]
                 [] refund[r].amount = "POLICY" -> Back[refund[r].booking]
                 [] refund[r].amount = "NOTHING" -> 0

\* SUM(r.amount_minor) over refunds that succeeded.
Settled  == {r \in Refunds : refund[r].status = "SUCCEEDED"}
PaidBack == UNION {{r} \X (1..AmountOf(r)) : r \in Settled}
Refunded == Cardinality(PaidBack)

-----------------------------------------------------------------------------
(* Making a report *)

\* discrepancies, then tally.
InOrder == <<"stranded", "unpaid", "orphans", "unmatched", "captured", "refunded">>
Statements == {InOrder[i] : i \in DOMAIN InOrder}

\* venueRevenue's totals.
AtOnce == {"gross", "returned"}

Kinds == {"reconciliation", "revenue"}

NoReport == [kind |-> "none", answer |-> << >>]

\* What a statement may answer now.  Unmatched callbacks are looked for when a
\* platform admin asks; a venue's report has none.
Now(q) ==
  CASE q = "stranded" -> {Stranded}
    [] q = "unpaid" -> {Unpaid}
    [] q = "orphans" -> {Orphans}
    [] q = "unmatched" -> {Unrecorded, 0}
    [] q \in {"captured", "gross"} -> {Captured}
    [] q \in {"refunded", "returned"} -> {Refunded}

Answered(q) == report.answer[q] # None
Complete == /\ report.kind \in Kinds
            /\ \A q \in DOMAIN report.answer : Answered(q)

\* The page is opened, or its report run again; not while one is being made.
AskReconciliation ==
  /\ report = NoReport \/ Complete
  /\ report' = [kind |-> "reconciliation",
                answer |-> [q \in Statements |-> None]]

AskRevenue ==
  /\ report = NoReport \/ Complete
  /\ report' = [kind |-> "revenue", answer |-> [q \in AtOnce |-> None]]

Hear(q) == \E n \in Now(q) : report' = [report EXCEPT !.answer[q] = n]

\* reconcile awaits each statement before it sends the next.
NextStatement ==
  /\ report.kind = "reconciliation"
  /\ \E i \in DOMAIN InOrder :
       /\ \A j \in 1 .. (i - 1) : Answered(InOrder[j])
       /\ ~Answered(InOrder[i])
       /\ Hear(InOrder[i])

\* The statements of Promise.all are answered in any order.
AnyStatement ==
  /\ report.kind = "revenue"
  /\ \E q \in AtOnce : ~Answered(q) /\ Hear(q)

\* A statement or the call fails, and the page has an error to show.
FailReport ==
  /\ report.kind \in Kinds /\ ~Complete
  /\ report' = NoReport

ReadStep ==
  /\ \/ AskReconciliation
     \/ AskRevenue
     \/ NextStatement
     \/ AnyStatement
     \/ FailReport
  /\ UNCHANGED vars

-----------------------------------------------------------------------------
(* What the pages say of it *)

\* count; "Zero discrepancies" when it is zero.
Discrepancies ==
  report.answer["stranded"] + report.answer["unpaid"]
    + report.answer["orphans"] + report.answer["unmatched"]

-----------------------------------------------------------------------------
(* The specification *)

ReportsInit == Init /\ report = NoReport

ReportsNext == (Next /\ UNCHANGED report) \/ ReadStep

\* Nobody has to read a report: the fairness is that of Payments.
ReportsSpec == ReportsInit /\ [][ReportsNext]_readVars /\ Fairness

-----------------------------------------------------------------------------
(* Properties *)

\* Refunds that succeeded and gave back what a policy says.
ByPolicy == {r \in Settled : refund[r].amount = "POLICY"}

\* What a complete report says has stayed true while it was made and stays true
\* while it is read: none of its snapshots shows a booking whose money is
\* unaccounted for, so a venue is told "zero discrepancies", and no total is
\* more than the rows hold by now.  The rows have no more paid back than was
\* taken, but for a unit of rounding in each refund by policy.
ReportStands ==
  Complete =>
    /\ report.kind = "reconciliation" =>
         /\ Discrepancies = report.answer["unmatched"]
         /\ report.answer["captured"] <= Captured
         /\ report.answer["refunded"] <= Refunded
    /\ report.kind = "revenue" =>
         /\ report.answer["gross"] <= Captured
         /\ report.answer["returned"] <= Refunded
    /\ Refunded <= Captured + Cardinality(ByPolicy)

-----------------------------------------------------------------------------
(* The inductive invariant *)

\* An answer the rows still bear out: totals only grow.
Holds(q, n) ==
  /\ n \in Nat
  /\ q \in {"stranded", "unpaid", "orphans"} => n = 0
  /\ q \in {"captured", "gross"} => n <= Captured
  /\ q \in {"refunded", "returned"} => n <= Refunded

\* Each kind of report has the answers of its statements.
Report == [kind: {"reconciliation"}, answer: [Statements -> Nat \cup {None}]]
            \cup [kind: {"revenue"}, answer: [AtOnce -> Nat \cup {None}]]

\* Every answer heard so far holds, whatever was committed after it; and no job
\* of the system moves a booking to COMPLETED.
AnswersHold ==
  /\ \A b \in Bookings : status[b] # "COMPLETED"
  /\ report \in Report \cup {NoReport}
  /\ \A q \in DOMAIN report.answer : Answered(q) => Holds(q, report.answer[q])

ReportsInv == IInv /\ AnswersHold
=============================================================================
