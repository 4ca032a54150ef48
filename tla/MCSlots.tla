------------------------------ MODULE MCSlots ------------------------------
(* Small instances of Slots for TLC. *)
EXTENDS Slots

Span(open, close) == [open |-> 4 * open, close |-> 4 * close]

\* Two windows on the first day and the third, one on the second and none
\* after; and hours that start later.
Usual == [d \in 0..6 |-> CASE d = 1 -> {Span(9, 12)}
                           [] d \in {0, 2} -> {Span(9, 11), Span(14, 15)}
                           [] OTHER -> {}]
Late  == [d \in 0..6 |-> IF d < 3 THEN {Span(10, 13)} ELSE {}]

MCSchedules == {Usual, Late}
Midnights   == {0, Day}

At(from, to) == [from |-> from, to |-> to]

\* On the first and second day: flush with opening, in and over a gap
\* between windows, outside them, and off the grid; local time is UTC + Offset.
MCAsks == {At(4 * h - Offset, 4 * h + 4 - Offset) : h \in {9, 11, 13, 35}}
            \cup {At(4 * 10 + 1, 4 * 11 + 1), At(4 * 9 - Offset, 4 * 15 - Offset)}
=============================================================================
