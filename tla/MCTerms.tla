------------------------------ MODULE MCTerms ------------------------------
(* Small instances of Terms for TLC. *)
EXTENDS Terms, TLC

Band(before, room, equipment) == [before |-> before, room |-> room, equipment |-> equipment]

\* The platform's default, shortened, and two a venue may publish.
MCDefault  == <<Band(48, 100, 100), Band(24, 50, 100), Band(0, 0, 0)>>
MCPolicies == {<<Band(0, 25, 0), Band(48, 50, 75)>>, <<Band(0, 100, 100)>>}

MCHoursLeft == {-1, 0, 23, 24, 47, 48}

BookingSymmetry == Permutations(Bookings)
=============================================================================
