---------------------------- MODULE SlotsProofs ----------------------------
(***************************************************************************)
(* Theorems about Slots, for any hours, offsets and days: its variables    *)
(* keep their types, bookings stay apart, and the page's arithmetic and    *)
(* the server's agree as long as the venue's clocks do not change and it   *)
(* opens no earlier than the local time at which the page's days begin.    *)
(***************************************************************************)
EXTENDS Slots, TLAPS

\* Overlap is mutual.
LEMMA OverlapSymmetric ==
  ASSUME NEW a, NEW b
  PROVE  Overlap(a, b) <=> Overlap(b, a)
  BY DEF Overlap

\* Every step keeps every variable's type and the bookings apart.
LEMMA TypeStep == TypeOK /\ [Next]_vars => TypeOK'
<1> SUFFICES ASSUME TypeOK, [Next]_vars PROVE TypeOK'
  OBVIOUS
<1> DEFINE Good(b) == /\ b \in Interval
                      /\ b.from % 2 = 0 /\ b.to % 2 = 0
                      /\ b.to - b.from \in MinDuration..MaxDuration
           Shown == page = NoPage \/
                      /\ page.from \in Anchors /\ page.duration \in Durations
                      /\ page.at \in 0..now /\ page.hours \in Schedules
<1>1. ASSUME NEW a \in Interval, Accepts(a), bookings' = bookings \cup {a}
      PROVE  \A b \in bookings' : Good(b) /\ \A c \in bookings' \ {b} : ~Overlap(b, c)
  <2>1. Good(a)
    BY <1>1 DEF Accepts, ValidInterval
  <2>2. \A b \in bookings : Good(b) /\ ~Overlap(a, b) /\ ~Overlap(b, a)
    BY <1>1, OverlapSymmetric DEF Accepts, TypeOK
  <2>3. \A b, c \in bookings : b # c => ~Overlap(b, c)
    BY DEF TypeOK
  <2>4. QED
    BY <1>1, <2>1, <2>2, <2>3
<1>2. ASSUME NEW from \in Anchors, NEW n \in Durations
      PROVE  LET p == Fetched(from, n)
             IN  /\ p.from \in Anchors /\ p.duration \in Durations
                 /\ p.at \in 0..now /\ p.hours \in Schedules
  BY SMT DEF Fetched, TypeOK
<1>3. ASSUME NEW from \in Anchors, NEW n \in Durations, OpenPage(from, n) PROVE TypeOK'
  BY <1>2, <1>3 DEF OpenPage, TypeOK
<1>4. ASSUME NEW s \in FreeSlots(page), TakeSlot(s) PROVE TypeOK'
  <2>1. page.from \in Anchors /\ page.duration \in Durations
    BY <1>4 DEF TakeSlot, TypeOK
  <2>2. s \in Interval
    BY <2>1, ConstantsAssumption, SMT DEF FreeSlots, StartsOn, Days, Interval, Day
  <2>3. CASE Accepts(s)
    BY <1>1, <1>4, <2>2, <2>3 DEF TakeSlot, TypeOK
  <2>4. CASE ~Accepts(s)
    BY <1>2, <1>4, <2>1, <2>4 DEF TakeSlot, TypeOK
  <2>5. QED
    BY <2>3, <2>4
<1>5. ASSUME NEW a \in Asks, Hold(a) PROVE TypeOK'
  <2>1. a \in Interval
    BY ConstantsAssumption
  <2>2. QED
    BY <1>1, <1>5, <2>1 DEF Hold, TypeOK
<1>6. ASSUME NEW b \in bookings, Release(b) PROVE TypeOK'
  BY <1>6 DEF Release, TypeOK
<1>7. ASSUME NEW s \in Schedules, EditHours(s) PROVE TypeOK'
  BY <1>7 DEF EditHours, TypeOK
<1>8. ASSUME Tick PROVE TypeOK'
  <2>1. now' \in 0..MaxNow /\ \A i \in 0..now : i \in 0..now'
    BY <1>8, ConstantsAssumption, SMT DEF Tick, TypeOK
  <2>2. QED
    BY <1>8, <2>1 DEF Tick, TypeOK
<1>9. ASSUME UNCHANGED vars PROVE TypeOK'
  BY <1>9 DEF vars, TypeOK
<1>10. QED
  BY <1>3, <1>4, <1>5, <1>6, <1>7, <1>8, <1>9 DEF Next

\* Every variable keeps its type, and no two bookings meet: INV-1 as the hours
\* and the page see it.
THEOREM TypeCorrect == Spec => []TypeOK
<1>1. Init => TypeOK
  BY ConstantsAssumption, SMT DEF Init, TypeOK
<1>2. TypeOK /\ [Next]_vars => TypeOK'
  BY TypeStep
<1>3. QED
  BY <1>1, <1>2, PTL DEF Spec

-----------------------------------------------------------------------------
(* When the page and the server agree *)

\* The venue's clocks do not change.
FixedOffset == Offset = OffsetAfter

\* On every day a page shows, the venue opens when that day's fetch has begun.
OpensOnShownDays ==
  \A from \in Anchors, s \in Schedules : \A d \in 0..6 : \A w \in s[d] : Clock(from) <= w.open

\* With one offset, the days of a page all begin at the same local time.
LEMMA SameClock ==
  ASSUME FixedOffset, NEW from \in Int, NEW k \in Int
  PROVE  Clock(from + Day * k) = Clock(from)
<1>1. OffsetAt(from + Day * k) = Offset /\ OffsetAt(from) = Offset /\ Offset \in Int
  BY ConstantsAssumption DEF OffsetAt, FixedOffset
<1>2. (from + 96 * k + Offset) % 96 = (from + Offset) % 96
  BY <1>1, SMT
<1>3. QED
  BY <1>1, <1>2 DEF Clock, Local, Day

\* With one offset, a start between an opening and a closing time of day d is on
\* the weekday of d and within those times by the server's clock.
LEMMA SameDay ==
  ASSUME FixedOffset, NEW d \in Int, NEW t \in Int, NEW open \in 0..Day - 1, NEW close \in 0..Day - 1,
         LocalInstant(d, open) <= t, t <= LocalInstant(d, close)
  PROVE  Weekday(t) = Weekday(d) /\ open <= Clock(t) /\ Clock(t) <= close
<1>1. OffsetAt(d) = Offset /\ OffsetAt(t) = Offset /\ Offset \in Int
  BY ConstantsAssumption DEF OffsetAt, FixedOffset
<1> DEFINE q == (d + Offset) \div 96
           c == (d + Offset) % 96
<1>2. d + Offset = 96 * q + c /\ q \in Int /\ c \in 0..95
  BY <1>1, SMT
<1>3. d + open - c <= t /\ t <= d + close - c
  BY <1>1 DEF LocalInstant, Clock, Local, Day
<1>4. t + Offset >= 96 * q + open /\ t + Offset <= 96 * q + close
  BY <1>1, <1>2, <1>3, SMT
<1>5. (t + Offset) \div 96 = q /\ (t + Offset) % 96 = t + Offset - 96 * q
  BY <1>1, <1>2, <1>4, SMT DEF Day
<1>6. QED
  BY <1>1, <1>2, <1>4, <1>5, SMT DEF Weekday, Clock, Local, Day

\* A slot of a fresh page: where it comes from.
LEMMA FreeSlot ==
  ASSUME TypeOK, Fresh, NEW s \in FreeSlots(page)
  PROVE  /\ s = [from |-> s.from, to |-> s.from + page.duration]
         /\ s.from \in Int /\ s.from % 2 = 0
         /\ s.from \in (now + Notice)..(now + Horizon)
         /\ ~Clashes(page, s.from)
         /\ \E k \in 0..WindowDays - 1 : s.from \in StartsOn(page, page.from + Day * k)
         /\ page.from \in Int /\ page.duration \in Durations /\ page.hours = hours
         /\ page.busy = BusyIntervals(page.from, page.from + WindowDays * Day)
<1>1. page.from \in Int /\ page.duration \in Durations
  BY ConstantsAssumption DEF TypeOK, Fresh
<1>2. /\ page.hours = hours /\ page.at = now
      /\ page.busy = BusyIntervals(page.from, page.from + WindowDays * Day)
  BY DEF Fresh, Fetched
<1>3. PICK t \in UNION {StartsOn(page, d) : d \in Days(page)} :
        /\ s = [from |-> t, to |-> t + page.duration]
        /\ t \in (now + Notice)..(now + Horizon) /\ ~Clashes(page, t)
  BY <1>2 DEF FreeSlots
<1>4. PICK k \in 0..WindowDays - 1 : t \in StartsOn(page, page.from + Day * k)
  BY <1>3 DEF Days
<1>5. t \in Int /\ t % 2 = 0
  BY <1>1, <1>4, ConstantsAssumption, SMT DEF StartsOn, Day
<1>6. QED
  BY <1>1, <1>2, <1>3, <1>4, <1>5

\* Clock times differ by an integer.
LEMMA ClockDifference ==
  ASSUME NEW a \in 0..95, NEW b \in 0..95
  PROVE  a - b \in Int
  BY SMT

\* A slot of the k-th day shown lies, with its turnaround, in what is fetched.
LEMMA WithinFetched ==
  ASSUME NEW f \in Int, NEW days \in Int, NEW k \in 0..days - 1, NEW t \in Int, NEW n \in Nat,
         NEW c \in 0..95, NEW open \in 0..95, NEW close \in 0..95, c <= open,
         (f + 96 * k) + (open - c) <= t, t + n <= (f + 96 * k) + (close - c)
  PROVE  f <= t /\ t + n + 1 <= f + days * 96
<1>1. 96 * k + 96 <= days * 96 /\ 0 <= 96 * k
  BY SMT
<1>2. QED
  BY <1>1, SMT

\* What a fresh page offers, the server accepts: the weekday and clocks agree by
\* SameDay, and a booking in the way is one the page has fetched.
LEMMA OfferAccepted ==
  ASSUME TypeOK, FixedOffset, OpensOnShownDays, Fresh, NEW s \in FreeSlots(page)
  PROVE  Accepts(s)
<1> DEFINE t == s.from
           n == page.duration
<1>1. /\ s = [from |-> t, to |-> t + n]
      /\ t \in Int /\ t % 2 = 0 /\ t \in (now + Notice)..(now + Horizon)
      /\ ~Clashes(page, t)
      /\ page.from \in Int /\ n \in Durations /\ page.hours = hours
      /\ page.busy = BusyIntervals(page.from, page.from + WindowDays * Day)
  BY FreeSlot
<1>2. PICK k \in 0..WindowDays - 1 : t \in StartsOn(page, page.from + Day * k)
  BY FreeSlot
<1> DEFINE d == page.from + Day * k
<1>3. n \in MinDuration..MaxDuration /\ n % 2 = 0 /\ n \in Nat \ {0}
  BY <1>1, ConstantsAssumption, SMT
<1>4. k \in Int /\ k >= 0 /\ k + 1 <= WindowDays /\ WindowDays \in Nat
  BY ConstantsAssumption
<1>5. d \in Int
  BY <1>1, <1>4, SMT DEF Day
<1>6. PICK w \in hours[Weekday(d)] : LocalInstant(d, w.open) <= t /\ t + n <= LocalInstant(d, w.close)
  BY <1>1, <1>2 DEF StartsOn
<1>7. /\ Weekday(d) \in 0..6 /\ hours \in Schedules
      /\ w.open \in 0..Day - 1 /\ w.close \in 0..Day - 1
  <2>1. OffsetAt(d) \in Int
    BY ConstantsAssumption DEF OffsetAt
  <2>2. Weekday(d) \in 0..6
    <3>1. Local(d) \in Int
      BY <1>5, <2>1, SMT DEF Local
    <3>2. Local(d) \div 96 \in Int
      BY <3>1, SMT
    <3>3. QED
      BY <3>2, SMT DEF Weekday, Day
  <2>3. hours \in Schedules /\ hours[Weekday(d)] \subseteq Window
    BY <2>2, ConstantsAssumption DEF TypeOK
  <2>4. QED
    BY <1>6, <2>2, <2>3 DEF Window
<1>8. Clock(d) = Clock(page.from) /\ Clock(d) <= w.open
  <2>1. Clock(d) = Clock(page.from)
    BY <1>1, <1>4, SameClock
  <2>2. page.from \in Anchors
    BY DEF Fresh, TypeOK
  <2>3. Clock(page.from) <= w.open
    BY <1>6, <1>7, <2>2 DEF OpensOnShownDays
  <2>4. QED
    BY <2>1, <2>3
<1>9. Clock(d) \in 0..Day - 1
  <2>1. OffsetAt(d) \in Int
    BY ConstantsAssumption DEF OffsetAt
  <2>2. QED
    BY <1>5, <2>1, SMT DEF Clock, Local, Day
<1>10. LocalInstant(d, w.open) = d + (w.open - Clock(d)) /\ LocalInstant(d, w.close) = d + (w.close - Clock(d))
  BY DEF LocalInstant
<1>11. page.from <= t /\ t + n + Turnaround <= page.from + WindowDays * Day
  <2>1. /\ Clock(d) \in 0..95 /\ w.open \in 0..95 /\ w.close \in 0..95
        /\ n \in Nat /\ WindowDays \in Int /\ k \in 0..WindowDays - 1
    BY <1>3, <1>4, <1>7, <1>9 DEF Day
  <2>2. /\ (page.from + 96 * k) + (w.open - Clock(d)) <= t
        /\ t + n <= (page.from + 96 * k) + (w.close - Clock(d))
    BY <1>6, <1>10 DEF Day
  <2>3. page.from \in Int /\ t \in Int /\ Clock(d) <= w.open
    BY <1>1, <1>8
  <2> HIDE DEF t, n, d
  <2>4. page.from <= t /\ t + n + 1 <= page.from + WindowDays * 96
    BY <2>1, <2>2, <2>3, WithinFetched, Zenon
  <2>5. QED
    BY <2>4 DEF Day, Turnaround
<1>12. IsOpenFor(s)
  <2>1. t + n \in Int /\ t <= LocalInstant(d, w.close) /\ LocalInstant(d, w.open) <= t + n
    <3> HIDE DEF d, t, n
    <3>1. t \in Int /\ n \in Nat /\ d \in Int /\ Clock(d) \in 0..95
      BY <1>1, <1>3, <1>5, <1>9 DEF Day
    <3>2. w.open \in 0..95 /\ w.close \in 0..95
      BY <1>7 DEF Day
    <3>3. d + (w.open - Clock(d)) <= t /\ t + n <= d + (w.close - Clock(d))
      BY <1>6, <1>10
    <3>4. w.open - Clock(d) \in Int /\ w.close - Clock(d) \in Int
      BY <3>1, <3>2, ClockDifference, Zenon
    <3>5. t + n \in Int /\ t <= d + (w.close - Clock(d)) /\ d + (w.open - Clock(d)) <= t + n
      BY <3>1, <3>3, <3>4, SMT
    <3>6. QED
      BY <1>10, <3>5, Zenon
  <2>2. Weekday(t) = Weekday(d) /\ w.open <= Clock(t)
    BY <1>1, <1>5, <1>6, <1>7, <2>1, SameDay
  <2>3. Clock(t + n) <= w.close
    BY <1>5, <1>6, <1>7, <2>1, SameDay
  <2>4. QED
    BY <1>1, <1>6, <2>2, <2>3 DEF IsOpenFor
<1>13. ASSUME NEW b \in bookings PROVE ~Overlap(s, b)
  <2>1. b.from \in Int /\ b.to \in Int
    BY DEF TypeOK, Interval
  <2>2. SUFFICES ASSUME t < b.to + Turnaround, b.from < t + n + Turnaround PROVE FALSE
    BY <1>1 DEF Overlap
  <2>3. b \in page.busy
    <3>1. b.from < page.from + WindowDays * Day /\ page.from < b.to + Turnaround
      BY <1>1, <1>3, <1>4, <1>11, <2>1, <2>2, SMT DEF Day, Turnaround
    <3>2. QED
      BY <1>1, <3>1 DEF BusyIntervals
  <2>4. QED
    BY <1>1, <2>2, <2>3 DEF Clashes
<1>14. ValidInterval(s)
  BY <1>1, <1>3, SMT DEF ValidInterval
<1>15. QED
  BY <1>12, <1>13, <1>14 DEF Accepts

\* The page and the server agree wherever the clocks do not change and the venue
\* opens after the local time at which the page's days begin.
THEOREM OffersAreAccepted ==
  Spec => [](FixedOffset /\ OpensOnShownDays => OfferedIsAccepted)
<1>1. TypeOK => (FixedOffset /\ OpensOnShownDays => OfferedIsAccepted)
  BY OfferAccepted DEF OfferedIsAccepted
<1>2. QED
  BY <1>1, TypeCorrect, PTL

-----------------------------------------------------------------------------
(* The other way round *)

\* With one offset, an instant of d's local day has d's weekday, and lies as far
\* from d as its clock time does.
LEMMA SameLocalDay ==
  ASSUME FixedOffset, NEW d \in Int, NEW t \in Int, Local(t) \div Day = Local(d) \div Day
  PROVE  Weekday(t) = Weekday(d) /\ t - d = Clock(t) - Clock(d)
         /\ Clock(t) \in 0..95 /\ Clock(d) \in 0..95
<1>1. OffsetAt(d) = Offset /\ OffsetAt(t) = Offset /\ Offset \in Int
  BY ConstantsAssumption DEF OffsetAt, FixedOffset
<1>2. (t + Offset) \div 96 = (d + Offset) \div 96
  BY <1>1 DEF Local, Day
<1>3. t - d = ((t + Offset) % 96) - ((d + Offset) % 96)
      /\ (t + Offset) % 96 \in 0..95 /\ (d + Offset) % 96 \in 0..95
  BY <1>1, <1>2, SMT
<1>4. QED
  BY <1>1, <1>2, <1>3 DEF Weekday, Clock, Local, Day

\* The instants of a window around one that is as far from d as its clock time.
LEMMA AroundClock ==
  ASSUME NEW d \in Int, NEW t \in Int, NEW c \in Int, NEW e \in Int, NEW o \in Int,
         t - d = c - e
  PROVE  (o <= c => d + (o - e) <= t) /\ (c <= o => t <= d + (o - e))
  BY SMT

\* So what the server accepts on that day, a fresh page of it offers.
LEMMA AcceptedOffered ==
  ASSUME TypeOK, FixedOffset, Fresh, NEW d \in Days(page), NEW t \in d - Day..d + Day,
         Local(t) \div Day = Local(d) \div Day,
         Local(t + page.duration) \div Day = Local(d) \div Day,
         Accepts([from |-> t, to |-> t + page.duration])
  PROVE  [from |-> t, to |-> t + page.duration] \in FreeSlots(page)
<1> DEFINE n == page.duration
           a == [from |-> t, to |-> t + n]
<1>1. /\ page.from \in Int /\ n \in Int /\ page.hours = hours /\ page.at = now
      /\ page.busy \subseteq bookings
  BY ConstantsAssumption DEF TypeOK, Fresh, Fetched, BusyIntervals
<1>2. d \in Int
  BY <1>1, ConstantsAssumption, SMT DEF Days, Day
<1>3. t \in Int /\ t + n \in Int
  BY <1>1, <1>2, SMT DEF Day
<1>4. /\ Weekday(t) = Weekday(d) /\ t - d = Clock(t) - Clock(d)
      /\ (t + n) - d = Clock(t + n) - Clock(d)
      /\ {Clock(t), Clock(t + n), Clock(d)} \subseteq 0..95
  BY <1>2, <1>3, SameLocalDay
<1>5. PICK w \in hours[Weekday(d)] : w.open <= Clock(t) /\ Clock(t + n) <= w.close
  BY <1>4 DEF Accepts, IsOpenFor
<1>6. w.open \in Int /\ w.close \in Int
  <2>1. OffsetAt(d) \in Int
    BY ConstantsAssumption DEF OffsetAt
  <2>2. Local(d) \in Int
    BY <1>2, <2>1 DEF Local
  <2>3. Weekday(d) \in 0..6
    <3>1. Local(d) \div 96 \in Int
      BY <2>2, SMT
    <3>2. QED
      BY <3>1, SMT DEF Weekday, Day
  <2>4. hours \in Schedules /\ hours[Weekday(d)] \subseteq Window
    BY <2>3, ConstantsAssumption DEF TypeOK
  <2>5. QED
    BY <1>5, <2>4 DEF Window, Day
<1>7. LocalInstant(d, w.open) <= t /\ t + n <= LocalInstant(d, w.close)
  <2> HIDE DEF n
  <2>0. Clock(t) \in Int /\ Clock(t + n) \in Int /\ Clock(d) \in Int
    BY <1>4
  <2>1. d + (w.open - Clock(d)) <= t
    BY <1>2, <1>3, <1>4, <1>5, <1>6, <2>0, AroundClock
  <2>2. t + n <= d + (w.close - Clock(d))
    BY <1>2, <1>3, <1>4, <1>5, <1>6, <2>0, AroundClock
  <2>3. QED
    BY <2>1, <2>2 DEF LocalInstant
<1>8. t % 2 = 0 /\ t \in (page.at + Notice)..(page.at + Horizon)
  BY <1>1 DEF Accepts, ValidInterval
<1>9. t \in StartsOn(page, d)
  BY <1>1, <1>5, <1>7, <1>8 DEF StartsOn
<1>10. ~Clashes(page, t)
  BY <1>1 DEF Clashes, Accepts, Overlap
<1>11. QED
  BY <1>8, <1>9, <1>10 DEF FreeSlots

\* web/lib/slots.ts hides no slot of a shown day that the server would take, as
\* long as the venue's clocks do not change.
THEOREM AcceptedAreOffered == Spec => [](FixedOffset => AcceptedIsOffered)
<1>1. TypeOK => (FixedOffset => AcceptedIsOffered)
  BY AcceptedOffered DEF AcceptedIsOffered
<1>2. QED
  BY <1>1, TypeCorrect, PTL

-----------------------------------------------------------------------------
(* Opening hours *)

\* What is accepted within a local day is occupied only while the venue is open.
LEMMA AcceptedOpen ==
  ASSUME TypeOK, FixedOffset, NEW b \in Interval, IsOpenFor(b), b.from < b.to,
         Local(b.from) \div Day = Local(b.to) \div Day
  PROVE  OpenThroughout(b)
<1>1. b.from \in Int /\ b.to \in Int
  BY DEF Interval
<1>2. PICK w \in hours[Weekday(b.from)] : w.open <= Clock(b.from) /\ Clock(b.to) <= w.close
  BY DEF IsOpenFor
<1>3. Offset \in Int /\ \A i \in Int : OffsetAt(i) = Offset
  BY ConstantsAssumption DEF OffsetAt, FixedOffset
<1>4. w.open \in Int /\ w.close \in Int
  <2>1. Local(b.from) \in Int
    BY <1>1, <1>3 DEF Local
  <2>2. Weekday(b.from) \in 0..6
    <3>1. Local(b.from) \div 96 \in Int
      BY <2>1, SMT
    <3>2. QED
      BY <3>1, SMT DEF Weekday, Day
  <2>3. hours \in Schedules /\ hours[Weekday(b.from)] \subseteq Window
    BY <2>2, ConstantsAssumption DEF TypeOK
  <2>4. QED
    BY <1>2, <2>3 DEF Window, Day
<1>5. ASSUME NEW i \in b.from..b.to - 1
      PROVE  \E v \in hours[Weekday(i)] : v.open <= Clock(i) /\ Clock(i) < v.close
  <2>1. i \in Int /\ b.from <= i /\ i < b.to
    BY <1>1
  <2>2. (i + Offset) \div 96 = (b.from + Offset) \div 96
        /\ (b.to + Offset) \div 96 = (b.from + Offset) \div 96
    BY <1>1, <1>3, <2>1, SMT DEF Local, Day
  <2>3. /\ Local(i) \div Day = Local(b.from) \div Day
        /\ Local(b.to) \div Day = Local(b.from) \div Day
    BY <1>1, <1>3, <2>1, <2>2 DEF Local, Day
  <2>4. /\ Weekday(i) = Weekday(b.from)
        /\ i - b.from = Clock(i) - Clock(b.from)
        /\ b.to - b.from = Clock(b.to) - Clock(b.from)
        /\ {Clock(i), Clock(b.to), Clock(b.from)} \subseteq 0..95
    BY <1>1, <2>1, <2>3, SameLocalDay
  <2>5. w.open <= Clock(i) /\ Clock(i) < w.close
    <3>1. Clock(i) \in Int /\ Clock(b.to) \in Int /\ Clock(b.from) \in Int
      BY <2>4
    <3>2. Clock(b.from) <= Clock(i) /\ Clock(i) < Clock(b.to)
      <4>1. i - b.from >= 0 /\ b.to - b.from > i - b.from
        BY <1>1, <2>1
      <4>2. Clock(i) - Clock(b.from) >= 0
            /\ Clock(b.to) - Clock(b.from) > Clock(i) - Clock(b.from)
        BY <2>4, <4>1
      <4>3. QED
        BY <3>1, <4>2, SMT
    <3>3. QED
      BY <1>2, <1>4, <3>1, <3>2, SMT
  <2>6. QED
    BY <1>2, <2>4, <2>5
<1>6. QED
  BY <1>5 DEF OpenThroughout

\* domain/booking.ts, isOpenFor: no step books an hour in which the venue is
\* closed, but for bookings over midnight and a day on which its clocks change.
THEOREM OccupancyStaysOpen == Spec /\ []FixedOffset => OccupiedOnlyWhenOpen
<1>1. ASSUME TypeOK, FixedOffset, Next, NEW b \in bookings' \ bookings,
             Local(b.from) \div Day = Local(b.to) \div Day
      PROVE  OpenThroughout(b)
  <2>1. Accepts(b) /\ b \in Interval
    <3>1. ASSUME NEW s \in FreeSlots(page), TakeSlot(s) PROVE s = b /\ Accepts(s)
      BY <1>1, <3>1 DEF TakeSlot
    <3>2. ASSUME NEW a \in Asks, Hold(a) PROVE a = b /\ Accepts(a)
      BY <1>1, <3>2 DEF Hold
    <3>3. Accepts(b)
      BY <1>1, <3>1, <3>2 DEF Next, OpenPage, Release, EditHours, Tick
    <3>4. b \in Interval
      BY <1>1, TypeStep DEF TypeOK
    <3>5. QED
      BY <3>3, <3>4
  <2>2. IsOpenFor(b) /\ b.from < b.to
    BY <2>1 DEF Accepts, ValidInterval
  <2>3. QED
    BY <1>1, <2>1, <2>2, AcceptedOpen
<1>2. TypeOK /\ FixedOffset /\ [Next]_vars =>
        [\A b \in bookings' \ bookings :
           Local(b.from) \div Day = Local(b.to) \div Day => OpenThroughout(b)]_vars
  BY <1>1
<1>3. QED
  BY <1>2, TypeCorrect, PTL DEF Spec, OccupiedOnlyWhenOpen
=============================================================================
