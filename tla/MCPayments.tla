----------------------------- MODULE MCPayments -----------------------------
(* Small instances of Payments for TLC. *)
EXTENDS Payments, TLC

\* Rows and workers are interchangeable; the bookings are not, when one of
\* them is free.
RowSymmetry == Permutations(Payments) \cup Permutations(Refunds) \cup Permutations(Workers)
=============================================================================
