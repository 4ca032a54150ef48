----------------------------- MODULE Inventory -----------------------------
(***************************************************************************)
(* How a hold takes its slot: createHold's transaction, statement by       *)
(* statement, against the room's exclusion constraint (INV-1), the venue's *)
(* stock of equipment (INV-2), other holds doing the same, status changes  *)
(* of bookings that already have the slot, and the console edits that      *)
(* change rooms and stock meanwhile.                                       *)
(*                                                                         *)
(* Time is counted in quarters of an hour from the present.  The reads and *)
(* locks of one transaction are separate steps, since READ COMMITTED gives *)
(* each statement a view of its own.                                       *)
(***************************************************************************)
EXTENDS Integers, FiniteSets

CONSTANTS
  Requests,      \* POST /bookings calls; a booking is known by its request
  Rooms,
  Types,         \* equipment types, as numbers: ids are ordered
  VenueTypes,    \* the types of each room's venue
  Asks,          \* what a request may ask for
  NoAsk,         \* "nothing asked yet"
  MaxQuantity,   \* most units of a type a request asks for
  MinDuration, MaxDuration,  \* rooms.min_duration_min and max_duration_min
  Units,         \* values units_owned is set to
  Buffers,       \* values overbooking_buffer is set to, in thousandths
  Retirable,     \* types the console may retire and bring back
  Archivable,    \* rooms the console may archive and bring back
  MaxAttempts,   \* times withTransaction runs a transaction (3 in the code)
  Faults         \* whether a replica may die inside a transaction

ASSUME ConstantsAssumption ==
  /\ IsFiniteSet(Requests) /\ IsFiniteSet(Types)
  /\ Types \subseteq Nat
  /\ VenueTypes \in [Rooms -> SUBSET Types]
  /\ MaxQuantity \in Nat
  /\ Asks \subseteq [room: Rooms, from: Nat, to: Nat, lines: [Types -> 0..MaxQuantity]]
  /\ NoAsk \notin Asks
  /\ MinDuration \in Nat \ {0} /\ MaxDuration \in Nat
  /\ Units \subseteq Nat /\ Units # {}
  /\ Buffers \subseteq 0..100 /\ Buffers # {}
  /\ Retirable \subseteq Types /\ Archivable \subseteq Rooms
  /\ MaxAttempts \in Nat \ {0}
  /\ Faults \in BOOLEAN

VARIABLES
  ask,      \* what each request asks for
  booking,  \* its booking: not there, holding its slot, or no longer
  tx,       \* the request's open transaction
  units,    \* equipment_types.units_owned
  buffer,   \* equipment_types.overbooking_buffer
  offered,  \* equipment_types.active
  open      \* rooms.active

stockVars == <<units, buffer, offered>>
vars == <<ask, booking, tx, stockVars, open>>

-----------------------------------------------------------------------------
(* What a request asks for *)

Quarters(hours) == 4 * hours

\* validateInterval: half-hour boundaries, the room's durations, an hour ahead
\* and at most 90 days.
ValidInterval(a) ==
  /\ a.from < a.to
  /\ a.from % 2 = 0 /\ a.to % 2 = 0
  /\ a.to - a.from \in MinDuration..MaxDuration
  /\ a.from \in Quarters(1)..Quarters(24 * 90)

\* The merged equipment lines (mergeLines): one quantity per type.
Wanted(c) == {t \in Types : ask[c].lines[t] > 0}

Turnaround == 1

\* Seeded fault: the turnaround is not part of the reserved range.
OverlapWithoutTurnaround(a, b) ==
  a.room = b.room /\ a.from < b.to /\ b.from < a.to

\* booking_reserved_range of both, compared with && : the turnaround is the
\* tail of each range.
Overlap(a, b) ==
  a.room = b.room /\ a.from < b.to + Turnaround /\ b.from < a.to + Turnaround

-----------------------------------------------------------------------------
(* Stock *)

BlockingAt(d, i) == booking[d] = "blocking" /\ ask[d].from <= i /\ i < ask[d].to

\* Units of t out at instant i: one pair for each unit of each booking.
UsageAt(t, i) ==
  LET out == {d \in Requests : BlockingAt(d, i)}
  IN  Cardinality(UNION {{d} \X (1..ask[d].lines[t]) : d \in out})

\* Exact where the code multiplies in floating point and rounds down.
EffectiveCapacity(t) == (units[t] * (1000 + buffer[t])) \div 1000

\* Seeded fault: only the requested start is looked at.
StartPointOnly(t, a) == {a.from}

\* The instants peakUsage looks at.
Points(t, a) ==
  {a.from} \cup {ask[d].from : d \in {e \in Requests :
                   /\ booking[e] = "blocking"
                   /\ ask[e].lines[t] > 0
                   /\ a.from <= ask[e].from /\ ask[e].from < a.to}}

\* peak + quantity <= effectiveCapacity.
Fits(t, a) ==
  \A i \in Points(t, a) : UsageAt(t, i) + a.lines[t] <= EffectiveCapacity(t)

\* committedPeak <= n: usage from now on rises only where a booking starts.
CommittedPeakWithin(t, n) ==
  \A d \in Requests :
    booking[d] = "blocking" /\ ask[d].lines[t] > 0 => UsageAt(t, ask[d].from) <= n

-----------------------------------------------------------------------------
(* Transactions, their locks and index entries *)

Phase == {"idle", "reading", "locking", "ready", "placed", "checked", "refused"}
NoTx  == [phase |-> "idle", locks |-> {}, attempt |-> 0]

\* Not committed and not rolled back yet, with an entry in the index.
InProgress(d) == tx[d].phase \in {"placed", "checked"}

\* A live entry of the index that nobody is rewriting.
Committed(d) == booking[d] = "blocking" /\ ~InProgress(d)

Conflicts(c) == {d \in Requests \ {c} : ask[d] # NoAsk /\ Overlap(ask[c], ask[d])}

LockedBy(d, t) == t \in tx[d].locks

\* Seeded fault: the stock rows are read without FOR UPDATE.
RowReadable(c, t) == TRUE

RowFree(c, t) == \A d \in Requests \ {c} : ~LockedBy(d, t)

\* Seeded fault: the type rows are locked in whatever order they come.
NextLocksUnsorted(c) == Wanted(c) \ tx[c].locks

\* lockTypes takes the rows in id order, one at a time.
NextLocks(c) ==
  {t \in Wanted(c) \ tx[c].locks : \A u \in Wanted(c) \ tx[c].locks : t <= u}

\* Seeded fault: a retired type can still be hired.
OnOfferAtVenue(c, t) == t \in VenueTypes[ask[c].room]

\* lockTypes' WHERE: of the room's venue and active.
OnOffer(c, t) == t \in VenueTypes[ask[c].room] /\ t \in offered

\* c cannot go on before d ends: d has the row c locks next, or an index entry
\* in progress that overlaps the one c has just placed.
WaitsFor(c, d) ==
  \/ tx[c].phase = "locking" /\ c # d /\ \E t \in NextLocks(c) : LockedBy(d, t)
  \/ tx[c].phase = "placed" /\ d \in Conflicts(c) /\ InProgress(d)

\* S is a deadlock: every part of it waits for the rest of it.
Deadlocked(S) ==
  /\ Cardinality(S) > 1
  /\ \A T \in SUBSET S :
       T # {} /\ T # S => \E x \in T, y \in S \ T : WaitsFor(x, y)

\* Seeded fault: a failed transaction is left open.
EndedOpen(c) == tx

\* ROLLBACK, and the error goes to the caller: the request is over, and a
\* booking that had its slot still has it.
Ended(c) ==
  [tx EXCEPT ![c] = [phase |-> IF booking[c] = "none" THEN "refused" ELSE "idle",
                     locks |-> {}, attempt |-> 0]]

\* ROLLBACK of a deadlock victim: withTransaction runs it again from its first
\* statement, up to MaxAttempts times in all.
Replayed(c) ==
  IF tx[c].attempt + 1 < MaxAttempts
  THEN [tx EXCEPT ![c] = [phase |-> IF booking[c] = "none" THEN "reading" ELSE "ready",
                          locks |-> {}, attempt |-> tx[c].attempt + 1]]
  ELSE Ended(c)

-----------------------------------------------------------------------------
Init ==
  /\ ask = [c \in Requests |-> NoAsk]
  /\ booking = [c \in Requests |-> "none"]
  /\ tx = [c \in Requests |-> NoTx]
  /\ units \in [Types -> Units]
  /\ buffer \in [Types -> Buffers]
  /\ offered = Types
  /\ open = Rooms

\* A request arrives.
Submit(c, a) ==
  /\ ask[c] = NoAsk
  /\ ask' = [ask EXCEPT ![c] = a]
  /\ tx' = [tx EXCEPT ![c].phase = "reading"]
  /\ UNCHANGED <<booking, stockVars, open>>

\* roomRepo.findForBooking, which takes no lock, and validateInterval.
ReadRoom(c) ==
  /\ tx[c].phase = "reading"
  /\ tx' = IF ask[c].room \in open /\ ValidInterval(ask[c])
           THEN [tx EXCEPT ![c].phase = "locking"]
           ELSE Ended(c)
  /\ UNCHANGED <<ask, booking, stockVars, open>>

\* One row of lockTypes.  A type that is not on offer is missing from its
\* result, and the request is refused; the code finds out at the end.
LockType(c) ==
  /\ tx[c].phase = "locking"
  /\ \E t \in NextLocks(c) :
       /\ RowFree(c, t)
       /\ tx' = IF OnOffer(c, t)
                THEN [tx EXCEPT ![c].locks = @ \cup {t}]
                ELSE Ended(c)
  /\ UNCHANGED <<ask, booking, stockVars, open>>

\* peakUsage and the capacity of each line, once every row is locked.
CheckStock(c) ==
  /\ tx[c].phase = "locking"
  /\ Wanted(c) \subseteq tx[c].locks
  /\ tx' = IF \A t \in Wanted(c) : Fits(t, ask[c])
           THEN [tx EXCEPT ![c].phase = "ready"]
           ELSE Ended(c)
  /\ UNCHANGED <<ask, booking, stockVars, open>>

\* The INSERT writes its index entry before it looks for overlapping ones; so
\* does the UPDATE that moves a booking from one blocking status to another.
PlaceEntry(c) ==
  /\ tx[c].phase = "ready"
  /\ tx' = [tx EXCEPT ![c].phase = "placed"]
  /\ UNCHANGED <<ask, booking, stockVars, open>>

\* Seeded fault: entries in progress are not waited for.
ClearOfCommitted(c) == \A d \in Conflicts(c) : ~Committed(d)

\* Nothing overlaps, committed or in progress.
Clear(c) == \A d \in Conflicts(c) : ~Committed(d) /\ ~InProgress(d)

\* no_room_overlap: refuse on a committed entry (23P01), pass when there is
\* none, and wait for one in progress.
CheckOverlap(c) ==
  /\ tx[c].phase = "placed"
  /\ \/ /\ \E d \in Conflicts(c) : Committed(d)
        /\ tx' = Ended(c)
     \/ /\ Clear(c)
        /\ tx' = [tx EXCEPT ![c].phase = "checked"]
  /\ UNCHANGED <<ask, booking, stockVars, open>>

\* The line items and COMMIT, which releases every lock.
Commit(c) ==
  /\ tx[c].phase = "checked"
  /\ booking' = [booking EXCEPT ![c] = "blocking"]
  /\ tx' = [tx EXCEPT ![c] = NoTx]
  /\ UNCHANGED <<ask, stockVars, open>>

\* PostgreSQL finds a deadlock and aborts the waiting transaction that noticed.
DeadlockVictim(c) ==
  /\ tx[c].phase \in {"locking", "placed"}
  /\ \E S \in SUBSET Requests : c \in S /\ Deadlocked(S)
  /\ tx' = Replayed(c)
  /\ UNCHANGED <<ask, booking, stockVars, open>>

\* A booking moves between blocking statuses (checkout, pay, capture).
StartUpdate(c) ==
  /\ booking[c] = "blocking"
  /\ tx[c].phase = "idle"
  /\ tx' = [tx EXCEPT ![c].phase = "ready"]
  /\ UNCHANGED <<ask, booking, stockVars, open>>

\* A booking expires, fails, completes or is cancelled: one UPDATE, which
\* places no entry.
Release(c) ==
  /\ booking[c] = "blocking"
  /\ tx[c].phase = "idle"
  /\ booking' = [booking EXCEPT ![c] = "released"]
  /\ UNCHANGED <<ask, tx, stockVars, open>>

\* The replica dies or its connection drops.
Crash(c) ==
  /\ Faults
  /\ tx[c].phase \notin {"idle", "refused"}
  /\ tx' = Ended(c)
  /\ UNCHANGED <<ask, booking, stockVars, open>>

\* PATCH /equipment/:id under lockOne: units_owned may not go below what is
\* committed; overbooking_buffer and active have no such guard.
EditEquipment(t, n, b, active) ==
  /\ \A c \in Requests : ~LockedBy(c, t)
  /\ n < units[t] => CommittedPeakWithin(t, n)
  /\ units' = [units EXCEPT ![t] = n]
  /\ buffer' = [buffer EXCEPT ![t] = b]
  /\ offered' = IF active THEN offered \cup {t} ELSE offered \ {t}
  /\ UNCHANGED <<ask, booking, tx, open>>

\* PATCH /rooms/:id with active, an UPDATE that no hold's read waits for.
EditRoom(r, active) ==
  /\ open' = IF active THEN open \cup {r} ELSE open \ {r}
  /\ UNCHANGED <<ask, booking, tx, stockVars>>

\* The statements of one request's transaction.
HoldStep(c) ==
  \/ ReadRoom(c) \/ LockType(c) \/ CheckStock(c)
  \/ PlaceEntry(c) \/ CheckOverlap(c) \/ Commit(c)

Next ==
  \/ \E c \in Requests : \/ \E a \in Asks : Submit(c, a)
                         \/ HoldStep(c)
                         \/ DeadlockVictim(c)
                         \/ StartUpdate(c)
                         \/ Release(c)
                         \/ Crash(c)
  \/ \E t \in Types, n \in Units, b \in Buffers, active \in BOOLEAN :
       (active \/ t \in Retirable) /\ EditEquipment(t, n, b, active)
  \/ \E r \in Archivable, active \in BOOLEAN : EditRoom(r, active)

Spec == Init /\ [][Next]_vars

\* Statements end, PostgreSQL resolves deadlocks, and a row's lock queue is
\* served; nothing says a booking is ever released or a request ever made.
Fairness ==
  /\ \A c \in Requests : WF_vars(HoldStep(c))
  /\ WF_vars(\E c \in Requests : DeadlockVictim(c))

FairSpec == Spec /\ Fairness

-----------------------------------------------------------------------------
(* Safety *)

\* Every variable has its type, and a transaction is tried at most MaxAttempts
\* times.
TypeOK ==
  /\ ask \in [Requests -> Asks \cup {NoAsk}]
  /\ booking \in [Requests -> {"none", "blocking", "released"}]
  /\ tx \in [Requests -> [phase: Phase, locks: SUBSET Types,
                          attempt: 0..MaxAttempts - 1]]
  /\ units \in [Types -> Units]
  /\ buffer \in [Types -> Buffers]
  /\ offered \subseteq Types
  /\ open \subseteq Rooms

\* INV-1: two bookings that hold the same room leave its turnaround between
\* them, whatever the interleaving of their inserts and status changes.
RoomExclusive ==
  \A c, d \in Requests :
    /\ c # d
    /\ booking[c] = "blocking" /\ booking[d] = "blocking"
    /\ ask[c].room = ask[d].room
    => \/ ask[c].to + Turnaround <= ask[d].from
       \/ ask[d].to + Turnaround <= ask[c].from

\* INV-2: no type is ever out in more units than its capacity, at any instant.
EquipmentWithinCapacity ==
  \A t \in Types : \A d \in Requests : booking[d] = "blocking" =>
    \A i \in ask[d].from..ask[d].to : UsageAt(t, i) <= EffectiveCapacity(t)

\* Nobody lowers an overbooking buffer: PATCH /equipment/:id guards units_owned
\* and not the buffer, so INV-2 holds while this does.
BuffersNotLowered == [][\A t \in Types : buffer[t] <= buffer'[t]]_vars

\* The peak over the requested start and the overlapping starts is exact: no
\* other instant of the interval is busier (equipmentRepo.ts, peakUsage).
PeakIsExact ==
  \A a \in Asks, t \in Types : Fits(t, a) =>
    \A i \in a.from..(a.to - 1) : UsageAt(t, i) + a.lines[t] <= EffectiveCapacity(t)

\* Rows locked in id order and before the insert: a hold that waits for stock
\* is never part of a deadlock, with holds or with status changes.
StockLocksDoNotDeadlock ==
  \A S \in SUBSET Requests :
    Deadlocked(S) => \A c \in S : tx[c].phase = "placed"

\* A hold that commits hires types the venue offers at that moment, because
\* it has had their rows locked since it looked.
HiresOfferedEquipment ==
  [][\A c \in Requests :
       booking[c] = "none" /\ booking'[c] = "blocking" =>
         \A t \in Wanted(c) : t \in offered /\ t \in VenueTypes[ask[c].room]]_vars

-----------------------------------------------------------------------------
(* The inductive invariant *)

\* The slot is c's, or will be when c commits.
Taken(c) == booking[c] = "blocking" \/ tx[c].phase = "checked"

\* Whoever has or is about to have a slot has asked for it, apart from all
\* the others.
SlotsApart ==
  \A c \in Requests :
    /\ tx[c].phase # "idle" \/ booking[c] # "none" => ask[c] \in Asks
    /\ Taken(c) => \A d \in Requests \ {c} : Taken(d) => ~Overlap(ask[c], ask[d])

\* A hold past its stock check has every row it needs, and a row it has is on
\* offer for as long.
StockHeld ==
  \A c \in Requests :
    /\ \A t \in tx[c].locks : OnOffer(c, t) /\ t \in Types
    /\ tx[c].phase \in {"ready", "placed", "checked"} /\ booking[c] = "none" =>
         Wanted(c) \subseteq tx[c].locks
    /\ tx[c].locks # {} => tx[c].phase # "idle"

\* What a hold may rely on between its statements.
HoldsConsistent == SlotsApart /\ StockHeld

\* A row is locked by one transaction, from lockTypes on, and by each in the
\* order of the ids.
LocksInOrder ==
  \A c \in Requests :
    /\ \A d \in Requests \ {c} : tx[c].locks \cap tx[d].locks = {}
    /\ tx[c].phase \in {"idle", "reading", "refused"} => tx[c].locks = {}
    /\ tx[c].phase = "locking" =>
         \A t \in tx[c].locks, u \in Wanted(c) \ tx[c].locks : t < u

\* A booking that is over has no transaction left that could bring it back.
OverIsOver == \A c \in Requests : booking[c] = "released" => tx[c].phase = "idle"

\* What the stock check of a hold has found is still so when it commits.
StockReserved ==
  \A c \in Requests :
    tx[c].phase \in {"ready", "placed", "checked"} /\ booking[c] = "none" =>
      \A t \in Wanted(c), i \in ask[c].from..(ask[c].to - 1) :
        UsageAt(t, i) + ask[c].lines[t] <= EffectiveCapacity(t)

\* The inductive invariant, with the types it needs.
IInv == TypeOK /\ HoldsConsistent /\ LocksInOrder /\ OverIsOver /\ StockReserved

-----------------------------------------------------------------------------
(* Liveness, of FairSpec without faults or archived rooms *)

\* A contested slot is sold: however holds deadlock over it and are replayed or
\* turned away, one that overlaps the request gets its booking.
ContestedSlotIsTaken ==
  \A c \in Requests, a \in Asks :
    /\ tx[c].phase \notin {"idle", "refused"} /\ ask[c] = a
    /\ ValidInterval(a) /\ \A t \in Types : a.lines[t] = 0
    ~> \E d \in Requests :
         /\ booking[d] = "blocking"
         /\ ask[d] # NoAsk
         /\ Overlap(a, ask[d])
=============================================================================
