-------------------------- MODULE CatalogueProofs --------------------------
(***************************************************************************)
(* Theorems about Catalogue, for any venues, rooms, filters and holds: a   *)
(* room is found in its venue's city, and what a search page lists can be  *)
(* booked.                                                                 *)
(*                                                                         *)
(* The first rests on AddedAtVenue, since a room's city is read before the *)
(* room is there, and on MovesHoldRooms, since a move that ends has not    *)
(* looked again; the second on KeptStands, and on Search leaving out no   *)
(* room that is better placed than one it lists.                           *)
(***************************************************************************)
EXTENDS Catalogue, FiniteSetTheorems, TLAPS

Move == [to: Cities, rooms: SUBSET Rooms]

\* A search answers for the rooms and the bookings alone.
LEMMA SearchLooksAtRooms ==
  ASSUME UNCHANGED <<room, booked>>, NEW f
  PROVE  Search(f)' = Search(f)
<1>1. \A r \in Rooms : Suits(r, f)' <=> Suits(r, f)
  BY DEF Suits, FreeFor
<1>2. \A q, r \in Rooms : Before(q, r)' <=> Before(q, r)
  BY DEF Before
<1>3. {r \in Rooms : Suits(r, f)}' = {r \in Rooms : Suits(r, f)}
  BY <1>1
<1>4. QED
  BY <1>2, <1>3 DEF Search

-----------------------------------------------------------------------------
(* Steps *)

LEMMA ServerTypes ==
  CatalogueTypeOK /\ MovesHoldRooms /\ MovesOwnRooms /\ ServerStep => CatalogueTypeOK'
<1> SUFFICES ASSUME CatalogueTypeOK, MovesHoldRooms, MovesOwnRooms, ServerStep PROVE CatalogueTypeOK'
  OBVIOUS
<1> USE DEF pageVars
<1>1. ASSUME NEW v \in Venues, NEW c \in Cities, AddVenue(v, c) PROVE CatalogueTypeOK'
  BY <1>1 DEF AddVenue, CatalogueTypeOK
<1>2. ASSUME NEW v \in Venues, NEW c \in Cities, MoveVenue(v, c) PROVE CatalogueTypeOK'
  <2>1. [to |-> c, rooms |-> {r \in RoomsAt(v) : room[r] # None}] \in Move
    BY DEF Move, RoomsAt
  <2>2. moving' \in [Venues -> Move \cup {None}]
    BY <1>2, <2>1 DEF MoveVenue, CatalogueTypeOK, Move
  <2>3. passing' \subseteq Rooms
    BY <1>2 DEF MoveVenue, CatalogueTypeOK, RoomsAt
  <2>4. QED
    BY <1>2, <2>2, <2>3 DEF MoveVenue, CatalogueTypeOK, Move
<1>9. ASSUME NEW v \in Venues, MoveEnds(v)
      PROVE  /\ moving' \in [Venues -> Move \cup {None}] /\ passing' \subseteq Rooms
             /\ UNCHANGED <<adding, booked, url, draft, asking>>
  BY <1>9 DEF MoveEnds, CatalogueTypeOK, Move
<1>10. ASSUME NEW v \in Venues, CommitMove(v) PROVE CatalogueTypeOK'
  <2>1. moving[v].to \in Cities
    BY <1>10 DEF CommitMove, MoveEnds, CatalogueTypeOK
  <2>2. \A r \in moving[v].rooms : r \in Rooms /\ room[r] # None
    BY <1>10 DEF CommitMove, MoveEnds, CatalogueTypeOK, MovesHoldRooms, MovesOwnRooms, RoomsAt
  <2>3. \A r \in moving[v].rooms : [room[r] EXCEPT !.city = moving[v].to] \in Row
    BY <2>1, <2>2 DEF CatalogueTypeOK, Row
  <2>4. room' \in [Rooms -> Row \cup {None}]
    BY <1>10, <2>2, <2>3 DEF CommitMove, CatalogueTypeOK, Row
  <2>5. /\ city' \in [Venues -> Cities \cup {None}] /\ overtaken' \subseteq Rooms /\ kept' = {}
    BY <1>10, <2>1 DEF CommitMove, CatalogueTypeOK, RoomsAt
  <2>6. QED
    BY <1>9, <1>10, <2>4, <2>5 DEF CommitMove, CatalogueTypeOK, Row, Move
<1>11. ASSUME NEW v \in Venues, RollBackMove(v) PROVE CatalogueTypeOK'
  BY <1>9, <1>11 DEF RollBackMove, CatalogueTypeOK, Move
<1>3. ASSUME NEW r \in Rooms, AddRoom(r) PROVE CatalogueTypeOK'
  <2>1. city[VenueOf[r]] \in Cities \cup {None}
    BY ConstantsAssumption DEF CatalogueTypeOK
  <2>2. QED
    BY <1>3, <2>1 DEF AddRoom, CatalogueTypeOK
<1>4. ASSUME NEW r \in Rooms, NEW n \in Rates, EndAddRoom(r, n) PROVE CatalogueTypeOK'
  <2>1. [city |-> adding[r], rate |-> n, active |-> TRUE] \in Row
    BY <1>4 DEF EndAddRoom, CatalogueTypeOK, Row
  <2>2. room' \in [Rooms -> Row \cup {None}]
    BY <1>4, <2>1 DEF EndAddRoom, CatalogueTypeOK, Row
  <2>3. QED
    BY <1>4, <2>2 DEF EndAddRoom, CatalogueTypeOK, Row
<1>5. ASSUME NEW r \in Rooms, NEW h \in Holds, Hold(r, h) PROVE CatalogueTypeOK'
  <2>1. [room |-> r, from |-> h.from, to |-> h.to] \in [room: Rooms, from: Int, to: Int]
    BY ConstantsAssumption DEF Span
  <2>2. QED
    BY <1>5, <2>1 DEF Hold, CatalogueTypeOK
<1>6. ASSUME NEW x \in Changes, EditRoom(x[1], x[2].rate, x[2].active) PROVE CatalogueTypeOK'
  <2>1. x[1] \in Rooms /\ x[2].rate \in Rates /\ x[2].active \in BOOLEAN
    BY ConstantsAssumption
  <2>2. room[x[1]] \in Row
    BY <1>6, <2>1 DEF EditRoom, CatalogueTypeOK, Row
  <2>3. room' \in [Rooms -> Row \cup {None}]
    BY <1>6, <2>1, <2>2 DEF EditRoom, CatalogueTypeOK, Row
  <2>4. QED
    BY <1>6, <2>3 DEF EditRoom, CatalogueTypeOK, Row
<1>7. ASSUME NEW b \in booked, Release(b) PROVE CatalogueTypeOK'
  BY <1>7 DEF Release, CatalogueTypeOK
<1>8. QED
  BY <1>1, <1>2, <1>3, <1>4, <1>5, <1>6, <1>7, <1>10, <1>11 DEF ServerStep

LEMMA SearchTypes == CatalogueTypeOK /\ SearchStep => CatalogueTypeOK'
<1> SUFFICES ASSUME CatalogueTypeOK, SearchStep PROVE CatalogueTypeOK'
  OBVIOUS
<1> USE DEF serverVars
<1>1. NoFilter \in Filters
  BY DEF NoFilter, Filters
<1>2. ASSUME NEW f \in Filters, GoTo(f) PROVE CatalogueTypeOK'
  BY <1>2 DEF GoTo, CatalogueTypeOK
<1>3. CASE \/ \E c \in Cities \cup {None} : SetCity(c)
           \/ \E p \in Prices \cup {None} : SetPrice(p)
           \/ \E w \in Windows \cup {None} : FreeForWindow(w)
  <2>1. \A c \in Cities \cup {None}, p \in Prices \cup {None}, w \in Windows \cup {None} :
          /\ [draft EXCEPT !.city = c] \in Filters
          /\ [draft EXCEPT !.price = p] \in Filters
          /\ [draft EXCEPT !.window = w] \in Filters
    BY DEF CatalogueTypeOK, Filters
  <2>2. ASSUME NEW f \in Filters, draft' = f, UNCHANGED <<serverVars, url, asking, kept>>
        PROVE  CatalogueTypeOK'
    BY <2>2 DEF CatalogueTypeOK
  <2>3. QED
    BY <1>2, <1>3, <2>1, <2>2 DEF SetCity, SetPrice, FreeForWindow
<1>4. CASE Apply \/ Clear
  BY <1>1, <1>2, <1>4 DEF Apply, Clear, CatalogueTypeOK
<1>5. CASE Ask
  BY <1>5 DEF Ask, CatalogueTypeOK
<1>6. ASSUME NEW f \in asking, LoseSearch(f) PROVE CatalogueTypeOK'
  BY <1>6 DEF LoseSearch, CatalogueTypeOK
<1>7. ASSUME NEW f \in asking, NEW found \in Search(f), HearSearch(f, found) PROVE CatalogueTypeOK'
  <2>1. [for |-> f, rooms |-> found] \in [for: Filters, rooms: SUBSET Rooms]
    BY DEF CatalogueTypeOK, Search
  <2>2. QED
    BY <1>7, <2>1 DEF HearSearch, CatalogueTypeOK
<1>8. ASSUME NEW a \in kept, Drop(a) PROVE CatalogueTypeOK'
  BY <1>8 DEF Drop, CatalogueTypeOK
<1>9. QED
  BY <1>3, <1>4, <1>5, <1>6, <1>7, <1>8 DEF SearchStep

LEMMA CatalogueTypeStep ==
  CatalogueTypeOK /\ MovesHoldRooms /\ MovesOwnRooms /\ [CatalogueNext]_vars => CatalogueTypeOK'
<1>1. CatalogueTypeOK /\ UNCHANGED vars => CatalogueTypeOK'
  BY DEF CatalogueTypeOK, vars, serverVars, pageVars
<1>2. QED
  BY <1>1, ServerTypes, SearchTypes DEF CatalogueNext

\* Cities agree after every step: a move takes along the rooms it holds, which
\* are all there are but those it has met while they were inserted.
CitiesAgree == AddedAtVenue /\ MovesHoldRooms /\ MovesOwnRooms /\ RoomsFollowTheirVenue

\* The parts of CitiesAgree about one room.
RoomAgrees(r) ==
  LET v == VenueOf[r] IN
  /\ adding[r] # None => room[r] = None
  /\ room[r] # None \/ adding[r] # None => city[v] # None
  /\ adding[r] # None /\ r \notin overtaken => adding[r] = city[v]
  /\ room[r] # None /\ r \notin overtaken => room[r].city = city[v]
  /\ moving[v] # None =>
       /\ city[v] # None
       /\ r \in moving[v].rooms => room[r] # None
       /\ room[r] # None => r \in moving[v].rooms \cup passing
       /\ adding[r] # None => r \in passing

LEMMA CitiesByRoom ==
  /\ CitiesAgree => MovesOwnRooms /\ \A r \in Rooms : RoomAgrees(r)
  /\ MovesOwnRooms' /\ (\A r \in Rooms : RoomAgrees(r)') => CitiesAgree'
BY DEF CitiesAgree, RoomAgrees, AddedAtVenue, MovesHoldRooms, RoomsFollowTheirVenue

LEMMA MovesOwnStep ==
  CatalogueTypeOK /\ MovesOwnRooms /\ [CatalogueNext]_vars => MovesOwnRooms'
<1> SUFFICES ASSUME CatalogueTypeOK, MovesOwnRooms, [CatalogueNext]_vars PROVE MovesOwnRooms'
  OBVIOUS
<1> USE DEF MovesOwnRooms, RoomsAt
<1>1. ASSUME NEW v \in Venues, NEW c \in Cities, MoveVenue(v, c) PROVE MovesOwnRooms'
  BY <1>1 DEF MoveVenue, CatalogueTypeOK
<1>2. ASSUME NEW v \in Venues, MoveEnds(v) PROVE MovesOwnRooms'
  BY <1>2 DEF MoveEnds, CatalogueTypeOK
<1>3. ASSUME UNCHANGED moving PROVE MovesOwnRooms'
  BY <1>3
<1>4. QED
  BY <1>1, <1>2, <1>3
  DEF CatalogueNext, ServerStep, SearchStep, AddVenue, CommitMove, RollBackMove, AddRoom, EndAddRoom,
      EditRoom, Hold, Release, SetCity, SetPrice, FreeForWindow, GoTo, Apply, Clear, Ask, LoseSearch,
      HearSearch, Drop, vars, serverVars

LEMMA CitiesStep == CatalogueTypeOK /\ CitiesAgree /\ [CatalogueNext]_vars => CitiesAgree'
<1> SUFFICES ASSUME CatalogueTypeOK, CitiesAgree, [CatalogueNext]_vars,
                    NEW q \in Rooms
             PROVE  RoomAgrees(q)'
  BY MovesOwnStep, CitiesByRoom DEF CitiesAgree
<1>0. /\ VenueOf[q] \in Venues /\ RoomAgrees(q) /\ MovesOwnRooms
      /\ room[q] # None => room[q] \in Row
  BY ConstantsAssumption, CitiesByRoom DEF CatalogueTypeOK, Row
<1> DEFINE v == VenueOf[q]
<1>1. ASSUME NEW w \in Venues, NEW c \in Cities, AddVenue(w, c) PROVE RoomAgrees(q)'
  <2>1. UNCHANGED <<room, adding, moving, passing, overtaken>>
        /\ city'[v] = IF v = w THEN c ELSE city[v]
    BY <1>0, <1>1 DEF AddVenue, CatalogueTypeOK
  <2>2. city[w] = None
    BY <1>1 DEF AddVenue
  <2>3. QED
    BY <1>0, <2>1, <2>2 DEF RoomAgrees
<1>2. ASSUME NEW w \in Venues, NEW c \in Cities, MoveVenue(w, c) PROVE RoomAgrees(q)'
  <2>1. /\ UNCHANGED <<city, room, adding, overtaken>>
        /\ passing \subseteq passing'
    BY <1>2 DEF MoveVenue
  <2>2. CASE v # w
    <3>1. moving'[v] = moving[v]
      BY <1>0, <1>2, <2>2 DEF MoveVenue, CatalogueTypeOK
    <3>2. QED
      BY <1>0, <2>1, <3>1 DEF RoomAgrees
  <2>3. CASE v = w
    <3>1. /\ city[v] # None
          /\ moving'[v] = [to |-> c, rooms |-> {r \in RoomsAt(v) : room[r] # None}]
      BY <1>0, <1>2, <2>3 DEF MoveVenue, CatalogueTypeOK
    <3>2. q \in moving'[v].rooms <=> room[q] # None
      BY <3>1 DEF RoomsAt
    <3>3. adding[q] # None => q \in passing'
      BY <1>2, <2>3 DEF MoveVenue, RoomsAt
    <3>4. QED
      BY <1>0, <2>1, <3>1, <3>2, <3>3 DEF RoomAgrees
  <2>4. QED
    BY <2>2, <2>3
<1>3. ASSUME NEW w \in Venues, MoveEnds(w)
      PROVE  /\ adding' = adding
             /\ moving'[v] = IF v = w THEN None ELSE moving[v]
             /\ v # w => (q \in passing' <=> q \in passing)
  BY <1>0, <1>3 DEF MoveEnds, CatalogueTypeOK, RoomsAt
<1>4. ASSUME NEW w \in Venues, CommitMove(w) PROVE RoomAgrees(q)'
  <2>1. MoveEnds(w) /\ moving[w] # None /\ moving[w].to \in Cities
    BY <1>4 DEF CommitMove, MoveEnds, CatalogueTypeOK
  <2>2. room'[q] = IF q \in moving[w].rooms THEN [room[q] EXCEPT !.city = moving[w].to] ELSE room[q]
    BY <1>4 DEF CommitMove
  <2>3. city'[v] = IF v = w THEN moving[w].to ELSE city[v]
    BY <1>0, <1>4 DEF CommitMove, CatalogueTypeOK
  <2>4. q \in moving[w].rooms => v = w
    BY <1>0, <2>1 DEF MovesOwnRooms, RoomsAt
  <2>5. CASE v # w
    <3>1. room'[q] = room[q] /\ city'[v] = city[v] /\ (q \in overtaken' <=> q \in overtaken)
      BY <1>4, <2>2, <2>3, <2>4, <2>5 DEF CommitMove, RoomsAt
    <3>2. QED
      BY <1>0, <1>3, <2>1, <2>5, <3>1 DEF RoomAgrees
  <2>6. CASE v = w
    <3>1. q \in overtaken' <=> q \in passing
      BY <1>4, <2>6 DEF CommitMove, RoomsAt
    <3>2. moving[w].to # None
      BY <2>1, ConstantsAssumption
    <3>3. q \in moving[w].rooms => room[q] # None /\ room'[q] # None /\ room'[q].city = moving[w].to
      <4>1. SUFFICES ASSUME q \in moving[w].rooms
                     PROVE  room[q] # None /\ room'[q] # None /\ room'[q].city = moving[w].to
        OBVIOUS
      <4>2. room[q] \in Row
        BY <1>0, <2>1, <2>6, <4>1 DEF RoomAgrees
      <4>3. room'[q] \in Row /\ room'[q].city = moving[w].to
        BY <2>1, <2>2, <4>1, <4>2 DEF Row
      <4>4. None \notin Row
        BY ConstantsAssumption DEF Row
      <4>5. QED
        BY <4>2, <4>3, <4>4
    <3>4. q \notin moving[w].rooms => room'[q] = room[q]
      BY <2>2
    <3>5. adding' = adding /\ moving'[v] = None
      BY <1>3, <2>1, <2>6
    <3>6. city'[v] = moving[w].to
      BY <2>3, <2>6
    <3>7. QED
      BY <1>0, <2>1, <2>6, <3>1, <3>2, <3>3, <3>4, <3>5, <3>6 DEF RoomAgrees
  <2>7. QED
    BY <2>5, <2>6
<1>5. ASSUME NEW w \in Venues, RollBackMove(w) PROVE RoomAgrees(q)'
  <2>1. MoveEnds(w) /\ UNCHANGED <<city, room, overtaken>>
    BY <1>5 DEF RollBackMove
  <2>2. QED
    BY <1>0, <1>3, <2>1 DEF RoomAgrees
<1>6. ASSUME NEW r \in Rooms, AddRoom(r) PROVE RoomAgrees(q)'
  <2>1. /\ UNCHANGED <<city, room, moving, overtaken>>
        /\ adding'[q] = IF q = r THEN city[v] ELSE adding[q]
        /\ passing \subseteq passing'
        /\ q = r => city[v] # None /\ room[q] = None /\ (moving[v] = None \/ q \in passing')
    BY <1>6 DEF AddRoom, CatalogueTypeOK
  <2>2. QED
    BY <1>0, <2>1 DEF RoomAgrees
<1>7. ASSUME NEW r \in Rooms, NEW n \in Rates, EndAddRoom(r, n) PROVE RoomAgrees(q)'
  <2>1. UNCHANGED <<city, moving>> /\ adding[r] # None
    BY <1>7 DEF EndAddRoom
  <2>2. CASE q # r
    <3>1. /\ room'[q] = room[q] /\ adding'[q] = adding[q]
          /\ q \in passing' <=> q \in passing
          /\ q \in overtaken' <=> q \in overtaken
      BY <1>7, <2>2 DEF EndAddRoom, CatalogueTypeOK
    <3>2. QED
      BY <1>0, <2>1, <3>1 DEF RoomAgrees
  <2>3. CASE q = r
    <3>1. adding'[q] = None
      BY <1>7, <2>3 DEF EndAddRoom, CatalogueTypeOK
    <3>2. \/ /\ room'[q] = [city |-> adding[q], rate |-> n, active |-> TRUE]
             /\ UNCHANGED <<passing, overtaken>>
          \/ room'[q] = room[q] /\ passing' = passing \ {q} /\ overtaken' = overtaken \ {q}
      BY <1>7, <2>3 DEF EndAddRoom, CatalogueTypeOK
    <3>3. QED
      BY <1>0, <2>1, <2>3, <3>1, <3>2 DEF RoomAgrees
  <2>4. QED
    BY <2>2, <2>3
<1>8. ASSUME NEW x \in Changes, EditRoom(x[1], x[2].rate, x[2].active) PROVE RoomAgrees(q)'
  <2>1. x[1] \in Rooms
    BY ConstantsAssumption
  <2>2. room[x[1]] \in Row
    BY <1>8, <2>1 DEF EditRoom, CatalogueTypeOK, Row
  <2>3. /\ UNCHANGED <<city, adding, moving, passing, overtaken>>
        /\ room'[q] = None <=> room[q] = None
        /\ room[q] # None => room'[q].city = room[q].city
    <3>1. UNCHANGED <<city, adding, moving, passing, overtaken>>
      BY <1>8 DEF EditRoom
    <3>2. q # x[1] => room'[q] = room[q]
      BY <1>8, <2>1 DEF EditRoom, CatalogueTypeOK
    <3>3. room'[x[1]] \in Row /\ room'[x[1]].city = room[x[1]].city
      <4>1. room'[x[1]] = [[room[x[1]] EXCEPT !.rate = x[2].rate] EXCEPT !.active = x[2].active]
        BY <1>8, <2>1 DEF EditRoom, CatalogueTypeOK
      <4>2. x[2].rate \in Rates /\ x[2].active \in BOOLEAN
        BY ConstantsAssumption
      <4>3. QED
        BY <2>2, <4>1, <4>2 DEF Row
    <3>4. None \notin Row
      BY ConstantsAssumption DEF Row
    <3>5. QED
      BY <2>2, <3>1, <3>2, <3>3, <3>4
  <2>4. QED
    BY <1>0, <2>3 DEF RoomAgrees
<1>9. ASSUME UNCHANGED <<city, room, adding, moving, passing, overtaken>> PROVE RoomAgrees(q)'
  BY <1>0, <1>9 DEF RoomAgrees
<1>10. CASE SearchStep
  BY <1>9, <1>10 DEF SearchStep, SetCity, SetPrice, FreeForWindow, GoTo, Apply, Clear, Ask,
     LoseSearch, HearSearch, Drop, serverVars
<1>11. QED
  BY <1>1, <1>2, <1>4, <1>5, <1>6, <1>7, <1>8, <1>9, <1>10
  DEF CatalogueNext, ServerStep, Hold, Release, vars, serverVars

\* Kept answers stand: a write drops them, and what a search finds is kept for
\* the filters it was asked with.
LEMMA KeptStep == CatalogueTypeOK /\ KeptStands /\ [CatalogueNext]_vars => KeptStands'
<1> SUFFICES ASSUME CatalogueTypeOK, KeptStands, [CatalogueNext]_vars PROVE KeptStands'
  OBVIOUS
<1>1. CASE kept' = {}
  BY <1>1 DEF KeptStands
<1>2. ASSUME UNCHANGED <<room, booked>>, \A a \in kept' : a \in kept \/ a.rooms \in Search(a.for)
      PROVE  KeptStands'
  <2>1. \A a \in kept' : a.rooms \in Search(a.for)'
    BY <1>2, SearchLooksAtRooms DEF KeptStands
  <2>2. QED
    BY <2>1 DEF KeptStands
<1>3. ASSUME UNCHANGED <<room, booked, kept>> PROVE KeptStands'
  BY <1>2, <1>3 DEF KeptStands
<1>4. ASSUME NEW r \in Rooms, NEW n \in Rates, EndAddRoom(r, n) PROVE KeptStands'
  BY <1>1, <1>3, <1>4 DEF EndAddRoom
<1>5. ASSUME NEW f \in asking, NEW found \in Search(f), HearSearch(f, found) PROVE KeptStands'
  <2>1. UNCHANGED <<room, booked>>
    BY <1>5 DEF HearSearch, serverVars
  <2>2. \A a \in kept' : a \in kept \/ a = [for |-> f, rooms |-> found]
    BY <1>5 DEF HearSearch
  <2>3. QED
    BY <1>2, <2>1, <2>2
<1>6. ASSUME NEW a \in kept, Drop(a) PROVE KeptStands'
  BY <1>2, <1>6 DEF Drop, serverVars
<1>7. QED
  BY <1>1, <1>3, <1>4, <1>5, <1>6
  DEF CatalogueNext, ServerStep, SearchStep, AddVenue, MoveVenue, MoveEnds, CommitMove,
      RollBackMove, AddRoom, EditRoom, Hold, Release, SetCity, SetPrice, FreeForWindow, GoTo, Apply, Clear, Ask, LoseSearch, vars, serverVars, pageVars

LEMMA CatalogueInvInit == CatalogueInit => CatalogueInv
<1>1. NoFilter \in Filters
  BY DEF NoFilter, Filters
<1>2. CatalogueInit => CatalogueTypeOK
  BY <1>1 DEF CatalogueInit, CatalogueTypeOK
<1>3. CatalogueInit => \A r \in Rooms : room[r] = None /\ adding[r] = None /\ moving[VenueOf[r]] = None
  BY ConstantsAssumption DEF CatalogueInit
<1>4. CatalogueInit => AddedAtVenue /\ MovesHoldRooms /\ RoomsFollowTheirVenue
  BY <1>3 DEF AddedAtVenue, MovesHoldRooms, RoomsFollowTheirVenue
<1>5. CatalogueInit => MovesOwnRooms /\ KeptStands
  BY DEF CatalogueInit, MovesOwnRooms, KeptStands
<1>6. QED
  BY <1>2, <1>4, <1>5 DEF CatalogueInv

\* The inductive invariant holds, for any venues, rooms, filters and holds.
THEOREM CatalogueInvHolds == CatalogueSpec => []CatalogueInv
<1>1. CatalogueInit => CatalogueInv
  BY CatalogueInvInit
<1>2. CatalogueInv /\ [CatalogueNext]_vars => CatalogueInv'
  BY CatalogueTypeStep, CitiesStep, KeptStep DEF CatalogueInv, CitiesAgree
<1>3. QED
  BY <1>1, <1>2, PTL DEF CatalogueSpec

\* A room is found in its venue's city unless its INSERT met the last move, for
\* any number of venues, rooms, moves and INSERTs in progress, ended either way.
THEOREM RoomsAlwaysFollow == CatalogueSpec => []RoomsFollowTheirVenue
<1>1. QED
  BY CatalogueInvHolds, PTL DEF CatalogueInv

-----------------------------------------------------------------------------
(* What is listed *)

\* A room that suits the filters takes every hold in their window.
LEMMA SuitingTakes ==
  ASSUME CatalogueTypeOK, NEW r \in Rooms, NEW w \in Windows, FreeFor(r, w),
         NEW h \in Holds, h.from >= w.from, h.to + Turnaround <= w.to
  PROVE  Takes(r, h)
<1> SUFFICES ASSUME NEW b \in booked, b.room = r PROVE ~Overlap(b, h)
  BY DEF Takes
<1>1. b.from \in Int /\ b.to \in Int /\ h.from \in Int /\ h.to \in Int /\ w.from \in Int /\ w.to \in Int
  BY ConstantsAssumption DEF CatalogueTypeOK, Span
<1>2. ~(b.from < w.to /\ w.from < b.to + Turnaround)
  BY DEF FreeFor
<1>3. QED
  BY <1>1, <1>2 DEF Overlap, Turnaround

\* A room that takes a hold of the whole window is free for it.
LEMMA TakingIsFree ==
  ASSUME CatalogueTypeOK, NEW r \in Rooms, NEW w \in Windows, Takes(r, w)
  PROVE  FreeFor(r, w)
<1> SUFFICES ASSUME NEW b \in booked, b.room = r, b.from < w.to, w.from < b.to + Turnaround PROVE FALSE
  BY DEF FreeFor
<1>1. b.from \in Int /\ b.to \in Int /\ w.from \in Int /\ w.to \in Int
  BY ConstantsAssumption DEF CatalogueTypeOK, Span
<1>2. ~Overlap(b, w)
  BY DEF Takes
<1>3. QED
  BY <1>1, <1>2 DEF Overlap, Turnaround

\* A room left out of an answer that suits its filters is behind Limit others.
LEMMA LeftOutIsBehind ==
  ASSUME CatalogueTypeOK, NEW f, NEW S \in Search(f), NEW r \in Rooms \ S, Suits(r, f)
  PROVE  Cardinality(S) = Limit /\ \A q \in S : room[q].rate <= room[r].rate
<1> DEFINE all == {q \in Rooms : Suits(q, f)}
<1>1. /\ S \in SUBSET all /\ S # all /\ r \in all \ S
      /\ Cardinality(S) = IF Cardinality(all) < Limit THEN Cardinality(all) ELSE Limit
      /\ \A q \in all \ S, p \in S : ~Before(q, p)
  BY DEF Search
<1>2. \A q \in all : room[q].rate \in Nat
  BY ConstantsAssumption DEF Suits, CatalogueTypeOK, Row
<1>3. IsFiniteSet(all)
  BY FS_Subset, ConstantsAssumption
<1> HIDE DEF all
<1>4. Cardinality(S) # Cardinality(all)
  BY <1>1, <1>3, FS_Subset
<1>5. Cardinality(S) = Limit
  BY <1>1, <1>4
<1>6. ASSUME NEW q \in S PROVE room[q].rate <= room[r].rate
  <2>1. ~(room[r].rate < room[q].rate)
    BY <1>1 DEF Before
  <2>2. room[r].rate \in Nat /\ room[q].rate \in Nat
    BY <1>1, <1>2
  <2>3. QED
    BY <2>1, <2>2
<1>7. QED
  BY <1>5, <1>6

LEMMA KeptIsFree == CatalogueInv => ListedIsFree
<1> SUFFICES ASSUME CatalogueInv, NEW a \in kept, a.for = url
             PROVE  /\ \A r \in a.rooms :
                         /\ room[r].active
                         /\ url.city # None => room[r].city = url.city
                         /\ url.price # None => room[r].rate <= url.price
                         /\ url.window # None =>
                              \A h \in Holds : h.from >= url.window.from /\ h.to + Turnaround <= url.window.to
                                => Takes(r, h)
                    /\ \A r \in Rooms \ a.rooms :
                         /\ room[r] # None /\ room[r].active
                         /\ url.city \in {None, room[r].city}
                         /\ url.price = None \/ room[r].rate <= url.price
                         /\ url.window = None \/ Takes(r, url.window)
                         => /\ Cardinality(a.rooms) = Limit
                            /\ \A q \in a.rooms : room[q].rate <= room[r].rate
  BY DEF ListedIsFree, Listed
<1>1. a.rooms \in Search(url) /\ CatalogueTypeOK
  BY DEF CatalogueInv, KeptStands
<1>2. url.window = None \/ url.window \in Windows
  BY <1>1 DEF CatalogueTypeOK, Filters
<1>3. \A r \in a.rooms : r \in Rooms /\ Suits(r, url)
  BY <1>1 DEF Search
<1>4. ASSUME NEW r \in a.rooms, url.window # None, NEW h \in Holds,
             h.from >= url.window.from, h.to + Turnaround <= url.window.to
      PROVE  Takes(r, h)
  BY <1>1, <1>2, <1>3, <1>4, SuitingTakes DEF Suits
<1>5. ASSUME NEW r \in Rooms \ a.rooms, room[r] # None, room[r].active,
             url.city \in {None, room[r].city},
             url.price = None \/ room[r].rate <= url.price,
             url.window = None \/ Takes(r, url.window)
      PROVE  Cardinality(a.rooms) = Limit /\ \A q \in a.rooms : room[q].rate <= room[r].rate
  <2>1. url.window = None \/ FreeFor(r, url.window)
    BY <1>1, <1>2, <1>5, TakingIsFree
  <2>2. Suits(r, url)
    BY <1>5, <2>1 DEF Suits
  <2>3. QED
    BY <1>1, <2>2, LeftOutIsBehind
<1>6. QED
  BY <1>3, <1>4, <1>5 DEF Suits

\* What the page lists, on an answer the server would still give, can be
\* booked, and nothing as good is left out; for any limit, rooms and windows.
THEOREM ListedAlwaysFree == CatalogueSpec => []ListedIsFree
<1>1. QED
  BY KeptIsFree, CatalogueInvHolds, PTL
=============================================================================
