---------------------------- MODULE MCInventory ----------------------------
(* Small instances of Inventory for TLC. *)
EXTENDS Inventory, TLC

CONSTANTS Studio, Loft

MCRooms == {Studio, Loft}
MCTypes == {1, 2}
MCVenueTypes == [r \in MCRooms |-> MCTypes]

Lines(first, second) == [t \in MCTypes |-> IF t = 1 THEN first ELSE second]
Asking(r, from, to, lines) == [room |-> r, from |-> from, to |-> to, lines |-> lines]

\* The first leaves no turnaround before the second.  The loft's runs across
\* both: of ten units and a tenth more there is enough for it and the first,
\* and not for it and the second.  The last is too short.
MCAsks == {
  Asking(Studio, 4, 8, Lines(5, 0)),
  Asking(Studio, 8, 12, Lines(6, 1)),
  Asking(Loft, 4, 10, Lines(6, 1)),
  Asking(Loft, 10, 12, Lines(0, 0))}

\* Slots that all overlap each other, and one of them with equipment.
ContestedAsks == {
  Asking(Studio, 4, 8, Lines(0, 0)),
  Asking(Studio, 6, 10, Lines(1, 1))}

RequestSymmetry == Permutations(Requests)
=============================================================================
