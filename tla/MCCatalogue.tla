---------------------------- MODULE MCCatalogue ----------------------------
(* A small instance of Catalogue for TLC. *)
EXTENDS Catalogue

CONSTANTS A, lahore, dubai, studio, loft

MCVenueOf == [r \in Rooms |-> A]
MCMoves   == {<<A, lahore>>, <<A, dubai>>}
MCWindows == {[from |-> 4, to |-> 9]}

\* Up to the window's start without its turnaround; the window's first half;
\* its second half, turnaround beyond the end.
MCHolds   == {[from |-> 0, to |-> 4], [from |-> 4, to |-> 8], [from |-> 5, to |-> 9]}
MCChanges == {<<loft, [rate |-> 1, active |-> on]>> : on \in BOOLEAN}
Filter(c, p, w) == [city |-> c, price |-> p, window |-> w]
MCWanted  == {NoFilter} \cup {Filter(c, None, w) : c \in {None, lahore}, w \in Windows}
                        \cup {Filter(lahore, 1, w) : w \in Windows}

\* Bound: while a move is open the page asks for no filter.  The page sees
\* nothing of the move, and its end lets the page go anywhere.
QuietMoves == \A v \in Venues : moving[v] # None => url = NoFilter /\ draft = NoFilter
=============================================================================
