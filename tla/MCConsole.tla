----------------------------- MODULE MCConsole -----------------------------
(* A small instance of Console for TLC. *)
EXTENDS Console

CONSTANTS A, B, ann, root, settingsA, settingsB, roomB

\* Ann works at A; root is a platform admin.
MCHome    == [u \in Accounts |-> IF u = ann THEN A ELSE None]
MCVenueOf == [r \in Rows |-> IF r = settingsA THEN A ELSE B]
MCColumn  == [f \in Fields |-> IF f = "name" THEN "name" ELSE "hours"]
MCElsewhere == {<<settingsA, "name">>, <<settingsA, "tue">>}

\* Bound: a tab in which a sign-in has overtaken the page load's call is not
\* followed further; the two session properties are about others.
NotCrossed == ~crossed

\* Bound: one field at a time holds what another admin has typed,
Theirs == {at \in Rows \X Fields : row[at[1]][at[2]] = "theirs"}
OneReplaced == \A at, other \in Theirs : at = other

\* Bound: and meanwhile this tab's user leaves the room's page alone, whose row
\* is another.
RoomApart == Theirs # {} => roomB \notin {shown, saving.row} /\ cache[roomB] = None
=============================================================================
