--------------------------- MODULE MCBookingPages ---------------------------
(* A small instance of BookingPages for TLC. *)
EXTENDS BookingPages
=============================================================================
