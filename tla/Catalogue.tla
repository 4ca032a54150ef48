----------------------------- MODULE Catalogue -----------------------------
(***************************************************************************)
(* The cross-venue catalogue: venues and rooms as the platform and venue   *)
(* admins write them, the city each room copies from its venue, the search *)
(* over both and over the bookings, and a customer's search page, whose    *)
(* filters live in the URL.                                                *)
(*                                                                         *)
(* An INSERT of a room reads its venue's city when it starts and is seen   *)
(* by others when it commits: two steps.  So is a move: its two UPDATEs    *)
(* take the venue's row and, as of the second's snapshot, the rooms', and  *)
(* show at its commit.  Its first UPDATE needs no step of its own: others  *)
(* see nothing of it, and it only makes other moves wait earlier.  Other   *)
(* writes are one statement, and one step.  Capacity and amenities are     *)
(* filters of the same kind as the rate, and left out; holds are atomic    *)
(* (Inventory has their interleavings).  An answer kept from before the    *)
(* last write is not followed: it may list anything that was once so.      *)
(***************************************************************************)
EXTENDS Integers, FiniteSets

CONSTANTS
  Venues, Rooms, VenueOf, Cities,
  Rates,      \* hourly rates, by rank
  Prices,     \* the price filter's steps
  Windows,    \* what "Free for" offers
  Holds,      \* intervals customers hold
  Limit,      \* rooms a search answers with (60 from the page)
  Moves,      \* bound: the moves venues make
  Changes,    \* bound: what rooms are changed to
  Wanted,     \* bound: the filters this customer sets
  MaxBooked, MaxAsking,  \* bounds on bookings and on searches in flight
  None

Span == [from: Int, to: Int]

\* A row of rooms.
Row == [city: Cities, rate: Rates, active: BOOLEAN]

ASSUME ConstantsAssumption ==
  /\ IsFiniteSet(Rooms)
  /\ VenueOf \in [Rooms -> Venues]
  /\ Rates \subseteq Nat /\ Prices \subseteq Nat
  /\ Windows \subseteq Span /\ Holds \subseteq Span
  /\ \A s \in Windows \cup Holds : s.from < s.to
  /\ Limit \in Nat /\ MaxBooked \in Nat /\ MaxAsking \in Nat
  /\ Moves \subseteq Venues \X Cities
  /\ Changes \subseteq Rooms \X [rate: Rates, active: BOOLEAN]
  /\ None \notin Cities \cup Nat \cup Span \cup Row

VARIABLES
  city,      \* venues.city, None before there is the venue
  room,      \* the rows of rooms, None before they commit
  adding,    \* the city an INSERT in progress has read
  moving,    \* a move of a venue that has not ended: where to, and the rooms
             \* its UPDATE found and has locked
  booked,    \* bookings in a blocking status
  url,       \* the filters in the address bar
  draft,     \* the filters in the controls
  asking,    \* searches in flight
  kept,      \* answers the server would still give, each for its filters
  passing,   \* history: rooms whose INSERT and a move have met, neither rolled
             \* back so far, and the move has not ended
  overtaken  \* history: rooms whose INSERT met the last move of their venue

pageVars    == <<url, draft, asking, kept>>
serverVars  == <<city, room, adding, moving, booked, passing, overtaken>>
vars == <<serverVars, pageVars>>

-----------------------------------------------------------------------------
(* The server *)

Turnaround == 1

\* The room's exclusion constraint.
Overlap(a, b) == a.from < b.to + Turnaround /\ b.from < a.to + Turnaround

\* Seeded fault: bookings as their customers see them, without the turnaround.
FreeBetweenBookings(r, w) ==
  ~\E b \in booked : b.room = r /\ b.from < w.to /\ w.from < b.to

\* search's NOT EXISTS: no reserved range meets the window, taken as it is.
FreeFor(r, w) ==
  ~\E b \in booked : b.room = r /\ b.from < w.to /\ w.from < b.to + Turnaround

\* search's WHERE.
Suits(r, f) ==
  /\ room[r] # None /\ room[r].active
  /\ f.city \in {None, room[r].city}
  /\ f.price = None \/ room[r].rate <= f.price
  /\ f.window = None \/ FreeFor(r, f.window)

\* ORDER BY hourly_rate_minor, and no two rooms tie for long: by id.
Before(q, r) == room[q].rate < room[r].rate

\* The first Limit rooms; a tie is for the ids to break.
Search(f) ==
  {S \in SUBSET {r \in Rooms : Suits(r, f)} :
     LET all == {r \in Rooms : Suits(r, f)} IN
     /\ Cardinality(S) = IF Cardinality(all) < Limit THEN Cardinality(all) ELSE Limit
     /\ \A q \in all \ S, r \in S : ~Before(q, r)}

-----------------------------------------------------------------------------
(* The page *)

Filters == [city: Cities \cup {None}, price: Prices \cup {None}, window: Windows \cup {None}]
NoFilter == [city |-> None, price |-> None, window |-> None]

\* What the page draws: the answer kept for the filters in the URL.
Listed == {a \in kept : a.for = url}

-----------------------------------------------------------------------------
(* Venues and rooms *)

RoomsAt(v) == {r \in Rooms : VenueOf[r] = v}

\* POST /venues.
AddVenue(v, c) ==
  /\ city[v] = None
  /\ city' = [city EXCEPT ![v] = c]
  /\ kept' = {}
  /\ UNCHANGED <<room, adding, moving, booked, passing, overtaken, url, draft, asking>>

\* Seeded fault: the rooms are left behind.
MoveVenueAlone(v, c) ==
  /\ city[v] # None /\ moving[v] = None
  /\ moving' = [moving EXCEPT ![v] = [to |-> c, rooms |-> {}]]
  /\ passing' = passing \cup {r \in RoomsAt(v) : adding[r] # None}
  /\ UNCHANGED <<city, room, adding, booked, overtaken, pageVars>>

\* PATCH /venues/:id with a city, be it the same: the UPDATE of the venue, and
\* that of the rooms its snapshot shows; an INSERT still open is not among them.
MoveVenue(v, c) ==
  /\ city[v] # None /\ moving[v] = None
  /\ moving' = [moving EXCEPT ![v] =
                  [to |-> c, rooms |-> {r \in RoomsAt(v) : room[r] # None}]]
  /\ passing' = passing \cup {r \in RoomsAt(v) : adding[r] # None}
  /\ UNCHANGED <<city, room, adding, booked, overtaken, pageVars>>

\* Its end, of which others see nothing if it is rolled back.
MoveEnds(v) ==
  /\ moving[v] # None
  /\ moving' = [moving EXCEPT ![v] = None]
  /\ passing' = passing \ RoomsAt(v)
  /\ UNCHANGED <<adding, booked, url, draft, asking>>

CommitMove(v) ==
  /\ MoveEnds(v)
  /\ city' = [city EXCEPT ![v] = moving[v].to]
  /\ room' = [r \in Rooms |-> IF r \in moving[v].rooms
                              THEN [room[r] EXCEPT !.city = moving[v].to] ELSE room[r]]
  /\ overtaken' = (overtaken \ RoomsAt(v)) \cup (passing \cap RoomsAt(v))
  /\ kept' = {}

RollBackMove(v) == MoveEnds(v) /\ UNCHANGED <<city, room, overtaken, kept>>

\* POST /venues/:id/rooms: the INSERT, its city read in a subselect.
AddRoom(r) ==
  /\ city[VenueOf[r]] # None
  /\ room[r] = None /\ adding[r] = None
  /\ adding' = [adding EXCEPT ![r] = city[VenueOf[r]]]
  /\ passing' = IF moving[VenueOf[r]] = None THEN passing ELSE passing \cup {r}
  /\ UNCHANGED <<city, room, moving, booked, overtaken, pageVars>>

\* Its COMMIT, or not.
EndAddRoom(r, rate) ==
  /\ adding[r] # None
  /\ adding' = [adding EXCEPT ![r] = None]
  /\ \/ /\ room' = [room EXCEPT ![r] = [city |-> adding[r], rate |-> rate, active |-> TRUE]]
        /\ kept' = {}
        /\ UNCHANGED <<passing, overtaken>>
     \/ /\ passing' = passing \ {r}
        /\ overtaken' = overtaken \ {r}
        /\ UNCHANGED <<room, kept>>
  /\ UNCHANGED <<city, moving, booked, url, draft, asking>>

\* A move that has not ended has updated the room's row.
InMove(r) == LET m == moving[VenueOf[r]] IN m # None /\ r \in m.rooms

\* PATCH /rooms/:id, which waits for a move that has the row; the city is not
\* the caller's to change.
EditRoom(r, rate, active) ==
  /\ room[r] # None
  /\ ~InMove(r)
  /\ room' = [room EXCEPT ![r].rate = rate, ![r].active = active]
  /\ kept' = {}
  /\ UNCHANGED <<city, adding, moving, booked, passing, overtaken, url, draft, asking>>

\* What createHold asks of a room's bookings.
Takes(r, h) == \A b \in booked : b.room = r => ~Overlap(b, h)

\* POST /bookings by anybody.
Hold(r, h) ==
  /\ room[r] # None /\ room[r].active
  /\ Takes(r, h)
  /\ booked' = booked \cup {[room |-> r, from |-> h.from, to |-> h.to]}
  /\ kept' = {}
  /\ UNCHANGED <<city, room, adding, moving, passing, overtaken, url, draft, asking>>

\* A booking is cancelled, expires or fails.
Release(b) ==
  /\ booked' = booked \ {b}
  /\ kept' = {}
  /\ UNCHANGED <<city, room, adding, moving, passing, overtaken, url, draft, asking>>

-----------------------------------------------------------------------------
(* The search page *)

\* A control other than "Free for" changes the draft only.
SetCity(c) ==
  /\ draft' = [draft EXCEPT !.city = c]
  /\ UNCHANGED <<serverVars, url, asking, kept>>

SetPrice(p) ==
  /\ draft' = [draft EXCEPT !.price = p]
  /\ UNCHANGED <<serverVars, url, asking, kept>>

\* The URL is the source of truth: the controls follow it.
GoTo(f) ==
  /\ url' = f
  /\ draft' = f
  /\ UNCHANGED <<serverVars, asking, kept>>

\* "Free for" goes to the draft with its window, at once.
FreeForWindow(w) == GoTo([draft EXCEPT !.window = w])

Apply == draft # url /\ GoTo(draft)
Clear == url # NoFilter /\ GoTo(NoFilter)

\* The page's query, on a URL without an answer or with one that is stale.
Ask ==
  /\ url \notin asking
  /\ Cardinality(asking) < MaxAsking
  /\ asking' = asking \cup {url}
  /\ UNCHANGED <<serverVars, url, draft, kept>>

\* An answer is kept for the filters that asked for it, whatever the URL is by
\* now.  If it is the URL's, the page is drawn again unless nothing in the
\* answer is new, with a new filters object that takes the place of the draft.
HearSearch(f, found) ==
  /\ f \in asking /\ found \in Search(f)
  /\ asking' = asking \ {f}
  /\ kept' = {a \in kept : a.for # f} \cup {[for |-> f, rooms |-> found]}
  /\ draft' \in IF f = url THEN {url, draft} ELSE {draft}
  /\ UNCHANGED <<serverVars, url>>

\* A search fails, which is drawn if it is the URL's; or a kept answer that is
\* not in front is dropped.
LoseSearch(f) ==
  /\ f \in asking
  /\ asking' = asking \ {f}
  /\ draft' = IF f = url THEN url ELSE draft
  /\ UNCHANGED <<serverVars, url, kept>>

Drop(a) ==
  /\ a.for # url
  /\ kept' = kept \ {a}
  /\ UNCHANGED <<serverVars, url, draft, asking>>

-----------------------------------------------------------------------------
CatalogueInit ==
  /\ city = [v \in Venues |-> None]
  /\ room = [r \in Rooms |-> None]
  /\ adding = [r \in Rooms |-> None]
  /\ moving = [v \in Venues |-> None]
  /\ booked = {}
  /\ url = NoFilter /\ draft = NoFilter
  /\ asking = {} /\ kept = {}
  /\ passing = {} /\ overtaken = {}

ServerStep ==
  \/ \E v \in Venues, c \in Cities : \/ AddVenue(v, c)
                                     \/ <<v, c>> \in Moves /\ MoveVenue(v, c)
  \/ \E v \in Venues : CommitMove(v) \/ RollBackMove(v)
  \/ \E r \in Rooms : \/ AddRoom(r)
                      \/ \E n \in Rates : EndAddRoom(r, n)
                      \/ \E h \in Holds : Cardinality(booked) < MaxBooked /\ Hold(r, h)
  \/ \E x \in Changes : EditRoom(x[1], x[2].rate, x[2].active)
  \/ \E b \in booked : Release(b)

SearchStep ==
  \/ /\ \/ \E c \in Cities \cup {None} : SetCity(c)
        \/ \E p \in Prices \cup {None} : SetPrice(p)
        \/ \E w \in Windows \cup {None} : FreeForWindow(w)
     /\ draft' \in Wanted
  \/ Apply \/ Clear \/ Ask
  \/ \E f \in asking : LoseSearch(f) \/ \E found \in Search(f) : HearSearch(f, found)
  \/ \E a \in kept : Drop(a)

CatalogueNext == ServerStep \/ SearchStep

CatalogueSpec == CatalogueInit /\ [][CatalogueNext]_vars

-----------------------------------------------------------------------------
(* Properties *)

\* A room is found in the city its venue is in (venueRepo.update), whatever
\* rooms are added and edited while the venue moves, is moved again, or fails
\* to; except a room whose INSERT and a move were open at the same time, until
\* the next move of its venue.
RoomsFollowTheirVenue ==
  \A r \in Rooms :
    room[r] # None /\ r \notin overtaken => room[r].city = city[VenueOf[r]]

\* What the page lists, when nothing has been written since the server answered,
\* is what the URL asks for, each room takes every hold in the window that
\* leaves its turnaround there, and a room that would take a hold of the whole
\* window is only missing behind Limit rooms that are no dearer.
ListedIsFree ==
  \A a \in Listed :
    /\ \A r \in a.rooms :
         /\ room[r].active
         /\ url.city # None => room[r].city = url.city
         /\ url.price # None => room[r].rate <= url.price
         /\ url.window # None =>
              \A h \in Holds : h.from >= url.window.from /\ h.to + Turnaround <= url.window.to
                => Takes(r, h)
    /\ \A r \in Rooms \ a.rooms :
         /\ room[r] # None /\ room[r].active
         /\ url.city \in {None, room[r].city}
         /\ url.price = None \/ room[r].rate <= url.price
         /\ url.window = None \/ Takes(r, url.window)
         => /\ Cardinality(a.rooms) = Limit
            /\ \A q \in a.rooms : room[q].rate <= room[r].rate

-----------------------------------------------------------------------------
(* The inductive invariant *)

\* Every variable has its type.
CatalogueTypeOK ==
  /\ city \in [Venues -> Cities \cup {None}]
  /\ room \in [Rooms -> Row \cup {None}]
  /\ adding \in [Rooms -> Cities \cup {None}]
  /\ moving \in [Venues -> [to: Cities, rooms: SUBSET Rooms] \cup {None}]
  /\ booked \subseteq [room: Rooms, from: Int, to: Int]
  /\ url \in Filters /\ draft \in Filters /\ asking \subseteq Filters
  /\ kept \subseteq [for: Filters, rooms: SUBSET Rooms]
  /\ passing \subseteq Rooms /\ overtaken \subseteq Rooms

\* A room is only added once, at a venue there is, and in the city it had then,
\* which is still its city unless a move has overtaken the INSERT.
AddedAtVenue ==
  \A r \in Rooms :
    /\ adding[r] # None => room[r] = None
    /\ room[r] # None \/ adding[r] # None => city[VenueOf[r]] # None
    /\ adding[r] # None /\ r \notin overtaken => adding[r] = city[VenueOf[r]]

\* A move that has not ended holds every room of its venue, but those it met
\* while they were inserted.
MovesHoldRooms ==
  \A r \in Rooms : LET v == VenueOf[r] IN
    moving[v] # None =>
      /\ city[v] # None
      /\ r \in moving[v].rooms => room[r] # None
      /\ room[r] # None => r \in moving[v].rooms \cup passing
      /\ adding[r] # None => r \in passing

\* A move has only rooms of its own venue.
MovesOwnRooms ==
  \A v \in Venues : moving[v] # None => moving[v].rooms \subseteq RoomsAt(v)

\* A kept answer is one the server would still give.
KeptStands == \A a \in kept : a.rooms \in Search(a.for)

CatalogueInv ==
  /\ CatalogueTypeOK /\ AddedAtVenue /\ MovesHoldRooms /\ MovesOwnRooms
  /\ RoomsFollowTheirVenue /\ KeptStands
=============================================================================
