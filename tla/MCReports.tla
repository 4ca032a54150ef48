----------------------------- MODULE MCReports -----------------------------
(* A small instance of Reports for TLC. *)
EXTENDS Reports

CONSTANTS b1, p1, r1, w1, w2

\* An hour and a half of a room and of a type at a rate of 1, refunded in full:
\* two parts of 1.5, each rounded up.
MCTotal == [b \in Bookings |-> 3]
MCBack  == [b \in Bookings |-> 4]
=============================================================================
