------------------------------- MODULE Slots -------------------------------
(***************************************************************************)
(* Which slots of a room are free, told twice: by the hold endpoint, which *)
(* reads the venue's wall clock from PostgreSQL, and by the room page,     *)
(* which derives slots from busy intervals and opening hours it fetched    *)
(* and counts local time for itself (web/lib/slots.ts).                    *)
(*                                                                         *)
(* Instants are quarters of an hour of UTC, counted from a midnight.  One  *)
(* room; holds are atomic here (Inventory has their interleavings).        *)
(***************************************************************************)
EXTENDS Integers, FiniteSets

CONSTANTS
  Offset, OffsetAfter,  \* the venue's offset from UTC, before and after
  ClockChange,          \* the instant its clocks change
  Schedules,            \* opening hours the venue publishes
  WindowDays,           \* days a page shows (7 in the code)
  Anchors,              \* instants a page may show days from
  Durations,            \* durations the page offers
  MinDuration, MaxDuration,
  Horizon,              \* how far ahead bookings go (90 days in the code)
  Asks,                 \* intervals other clients ask for
  MaxBookings, MaxNow   \* bounds on bookings held at once and on time

Day == 96

Interval == [from: Int, to: Int]
Window   == [open: 0..Day - 1, close: 0..Day - 1]

ASSUME ConstantsAssumption ==
  /\ Offset \in Int /\ OffsetAfter \in Int /\ ClockChange \in Int
  /\ Schedules \subseteq [0..6 -> SUBSET Window] /\ Schedules # {}
  /\ \A s \in Schedules : \A d \in 0..6 : \A w \in s[d] : w.open < w.close
  /\ WindowDays \in Nat /\ Anchors \subseteq Int
  /\ MinDuration \in Nat \ {0} /\ MaxDuration \in Nat
  /\ \A n \in Durations : n \in MinDuration..MaxDuration /\ n % 2 = 0
  /\ Horizon \in Nat
  /\ Asks \subseteq Interval
  /\ MaxBookings \in Nat /\ MaxNow \in Nat

VARIABLES
  now,
  hours,     \* venues.operating_hours
  bookings,  \* the room's bookings in a blocking status
  page       \* the room page: what it shows, from what it last fetched

vars == <<now, hours, bookings, page>>

-----------------------------------------------------------------------------
(* Local time, as PostgreSQL and Intl have it *)

OffsetAt(i) == IF i < ClockChange THEN Offset ELSE OffsetAfter
Local(i)    == i + OffsetAt(i)
Weekday(i)  == (Local(i) \div Day) % 7
Clock(i)    == Local(i) % Day

-----------------------------------------------------------------------------
(* The server *)

Notice == 4

\* validateInterval.
ValidInterval(a) ==
  /\ a.from < a.to
  /\ a.from % 2 = 0 /\ a.to % 2 = 0
  /\ a.to - a.from \in MinDuration..MaxDuration
  /\ a.from \in (now + Notice)..(now + Horizon)

\* Seeded fault: start and end are each looked up among the windows.
StartsAndEndsOpen(a) ==
  /\ \E w \in hours[Weekday(a.from)] : w.open <= Clock(a.from) /\ Clock(a.from) < w.close
  /\ \E w \in hours[Weekday(a.from)] : w.open < Clock(a.to) /\ Clock(a.to) <= w.close

\* localWindow and isOpenFor: the weekday and clock of the start, the clock of
\* the end.
IsOpenFor(a) ==
  \E w \in hours[Weekday(a.from)] : w.open <= Clock(a.from) /\ Clock(a.to) <= w.close

Turnaround == 1

Overlap(a, b) == a.from < b.to + Turnaround /\ b.from < a.to + Turnaround

\* What createHold accepts.
Accepts(a) == ValidInterval(a) /\ IsOpenFor(a) /\ \A b \in bookings : ~Overlap(a, b)

\* Bookings whose reserved range meets the instants asked about.
BusyIntervals(from, to) == {b \in bookings : b.from < to /\ from < b.to + Turnaround}

-----------------------------------------------------------------------------
(* The page *)

\* GET /rooms/:id/availability for the days from `from`.
Fetched(from, duration) ==
  [from |-> from, duration |-> duration, at |-> now, hours |-> hours,
   busy |-> BusyIntervals(from, from + WindowDays * Day)]

NoPage == [from |-> 0, duration |-> 0, at |-> 0, hours |-> [d \in 0..6 |-> {}], busy |-> {}]

Days(p) == {p.from + Day * k : k \in 0..WindowDays - 1}

\* The instant of a clock time on the local day of `at`, by the offset of `at`.
LocalInstant(at, clock) == at + (clock - Clock(at))

\* Seeded fault: a slot may not end at closing time.
StartsOnBeforeClosing(p, d) ==
  {t \in d - Day..d + Day :
     /\ t % 2 = 0
     /\ \E w \in p.hours[Weekday(d)] :
          /\ LocalInstant(d, w.open) <= t
          /\ t + p.duration < LocalInstant(d, w.close)}

\* Half hours from opening for which the duration ends by closing.
StartsOn(p, d) ==
  {t \in d - Day..d + Day :
     /\ t % 2 = 0
     /\ \E w \in p.hours[Weekday(d)] :
          /\ LocalInstant(d, w.open) <= t
          /\ t + p.duration <= LocalInstant(d, w.close)}

\* Seeded fault: the new booking's own turnaround is forgotten.
ClashesBehindOnly(p, t) ==
  \E b \in p.busy : b.from < t + p.duration /\ t < b.to + Turnaround

Clashes(p, t) ==
  \E b \in p.busy : b.from < t + p.duration + Turnaround /\ t < b.to + Turnaround

\* freeSlots.
FreeSlots(p) ==
  {[from |-> t, to |-> t + p.duration] :
     t \in {u \in UNION {StartsOn(p, d) : d \in Days(p)} :
              u \in (p.at + Notice)..(p.at + Horizon) /\ ~Clashes(p, u)}}

-----------------------------------------------------------------------------
Init ==
  /\ now = 0
  /\ hours \in Schedules
  /\ bookings = {}
  /\ page = NoPage

\* The page opens on a week, or moves to another, or changes the duration.
OpenPage(from, duration) ==
  /\ page' = Fetched(from, duration)
  /\ UNCHANGED <<now, hours, bookings>>

\* "Hold this slot": on success the customer goes to checkout; on a refusal the
\* page fetches again.
TakeSlot(s) ==
  /\ page # NoPage
  /\ s \in FreeSlots(page)
  /\ IF Accepts(s)
     THEN bookings' = bookings \cup {s} /\ page' = NoPage
     ELSE page' = Fetched(page.from, page.duration) /\ UNCHANGED bookings
  /\ UNCHANGED <<now, hours>>

\* Seeded fault: granularity is left to the page.
HoldAnyInterval(a) ==
  /\ a.from < a.to
  /\ bookings' = bookings \cup {a}
  /\ UNCHANGED <<now, hours, page>>

\* POST /bookings by somebody else.
Hold(a) ==
  /\ Accepts(a)
  /\ bookings' = bookings \cup {a}
  /\ UNCHANGED <<now, hours, page>>

\* A booking is cancelled, expires or fails.
Release(b) ==
  /\ bookings' = bookings \ {b}
  /\ UNCHANGED <<now, hours, page>>

\* PATCH /venues/:id with operatingHours; bookings already made are not looked at.
EditHours(s) ==
  /\ hours' = s
  /\ UNCHANGED <<now, bookings, page>>

\* A quarter of an hour passes.
Tick ==
  /\ now < MaxNow
  /\ now' = now + 1
  /\ UNCHANGED <<hours, bookings, page>>

RoomLeft == Cardinality(bookings) < MaxBookings

Next ==
  \/ \E from \in Anchors, n \in Durations : OpenPage(from, n)
  \/ RoomLeft /\ \E s \in FreeSlots(page) : TakeSlot(s)
  \/ RoomLeft /\ \E a \in Asks : Hold(a)
  \/ \E b \in bookings : Release(b)
  \/ \E s \in Schedules : EditHours(s)
  \/ Tick

Spec == Init /\ [][Next]_vars
-----------------------------------------------------------------------------
(* Properties *)

\* Every variable has its type: what is booked is on the half-hour grid, lasts
\* what the room allows, and no two bookings meet or share a turnaround.
TypeOK ==
  /\ now \in 0..MaxNow
  /\ hours \in Schedules
  /\ \A b \in bookings :
       /\ b \in Interval
       /\ b.from % 2 = 0 /\ b.to % 2 = 0
       /\ b.to - b.from \in MinDuration..MaxDuration
       /\ \A c \in bookings \ {b} : ~Overlap(b, c)
  /\ page = NoPage \/
       /\ page.from \in Anchors /\ page.duration \in Durations
       /\ page.at \in 0..now /\ page.hours \in Schedules

\* The page shows what fetching it now would show.
Fresh == page # NoPage /\ page = Fetched(page.from, page.duration)

\* web/lib/slots.ts: the page's arithmetic matches the server's, so a slot it
\* offers from fresh data is one the hold endpoint accepts.
OfferedIsAccepted ==
  Fresh => \A s \in FreeSlots(page) : Accepts(s)

\* web/lib/slots.ts, freeSlots: every start the server would accept is offered,
\* for bookings that end on the local day they start.
AcceptedIsOffered ==
  LET free == FreeSlots(page)
  IN  Fresh =>
        \A d \in Days(page) : \A t \in d - Day..d + Day :
          LET a == [from |-> t, to |-> t + page.duration]
              today(i) == Local(i) \div Day = Local(d) \div Day
          IN  today(a.from) /\ today(a.to) /\ Accepts(a) => a \in free

\* The venue is open at every instant of b.
OpenThroughout(b) ==
  \A i \in b.from..b.to - 1 :
    \E w \in hours[Weekday(i)] : w.open <= Clock(i) /\ Clock(i) < w.close

\* ARCHITECTURE.md A5: only the turnaround may run past closing, the occupancy
\* may not. isOpenFor promises it of bookings that end on the local day they
\* start; one over midnight ends at an early clock time and passes.
OccupiedOnlyWhenOpen ==
  [][\A b \in bookings' \ bookings :
       Local(b.from) \div Day = Local(b.to) \div Day => OpenThroughout(b)]_vars
=============================================================================
