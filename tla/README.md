# Atrium: TLA+ models, model checking and proofs

Atrium rents studios by the hour. A customer picks a slot and equipment, holds
them for a few minutes, pays through an external provider, and may cancel under
the venue's policy. Several API replicas run the same code, each with a worker
loop, over one PostgreSQL database; the correctness of the product is the six
invariants of `ARCHITECTURE.md` (INV-1 … INV-6). The modules here state those
invariants over models translated from the code, model-check them on small
instances and prove every safety property and both refinements for every size.

Paths below are relative to the repository's root.

## 1. The system

| Component | State | Operations | Talks to |
|---|---|---|---|
| Booking state machine (`db/migrations/005`, `bookingRepo.ts`) | `bookings.status`, `expires_at` | one matrix of legal transitions, enforced by a trigger | every service and job updates through it |
| Hold creation and room exclusion (`bookingService.ts`, `db/migrations/003`) | bookings, their index entries | `createHold`, `no_room_overlap` | equipment stock, transactions |
| Equipment stock (`equipmentRepo.ts`, `equipmentService.ts`) | `equipment_types`, `booking_equipment` | `lockTypes`, `peakUsage`, console edits | hold creation |
| Transactions (`db/pool.ts`) | – | `withTransaction`: replay of deadlock victims, rollback | everything |
| Checkout, pay, cancel (`bookingService.ts`, `paymentService.ts`, `cancellationService.ts`) | bookings, payments, refunds | `startCheckout`, `submitForPayment`, `cancel` | jobs, through rows only |
| Worker jobs (`worker/jobs.ts`, `worker/index.ts`) | payments, refunds, webhook inbox | `reapHolds`, `submitPendingCharges`, `driveRefunds`, `processWebhooks` | provider (HTTP), rows |
| Webhook intake (`webhookService.ts`) | `webhook_events`, `unmatched_webhooks` | verify, insert once | provider → inbox → `processWebhooks` |
| Provider (`paygate/`) | charges and refunds by idempotency key | charge, refund, callbacks with faults | worker, webhook intake |
| Prices, policies, refunds (`domain/refund.ts`, `domain/booking.ts`, `venueService.ts`) | policy versions, rates, amounts | `priceOf`, `publishPolicy`, `calculateRefund` | hold creation, cancel |
| Opening hours and interval checks (`domain/booking.ts`, `venueRepo.ts`) | `operating_hours` | `validateInterval`, `localWindow`, `isOpenFor` | hold creation, availability |
| Room page (`web/lib/slots.ts`, `rooms/[id]/page.tsx`) | what it fetched, and when | `freeSlots`, hold a slot, fetch again on a refusal | availability, hold creation |
| Checkout and booking pages (`checkout/[bookingId]/page.tsx`, `bookings/[id]/page.tsx`) | cached answer, open GET and POST, poll timer, countdown | fetch, poll, give up, pay, cancel | `GET /bookings/:id` (three reads), pay, cancel |
| Reconciliation and reports (`reportRepo.ts`, `utilisation.ts`) | none | four discrepancy queries and a tally, revenue, utilisation | rows |
| Tenancy and roles (`auth/scope.ts`, `auth/plugin.ts`) | tokens, users, venue staff | scope predicates (INV-6) | every service |
| Web console and session (`auth-context.tsx`, `client.ts`, `console/*`) | token, profile, query cache, what is typed | sign in and out, 401s, edits | sign-in, scope, venue and room writes |
| Search (`roomRepo.search`, `search/page.tsx`, `search-filters.tsx`) | `rooms.city`, filters in the URL and in the controls | search, venue moves, room edits | venues, rooms, bookings |
| Append-only guards, audit trail (`005`, `006`, `008`, `009`) | `booking_audit` | triggers refusing change | state machine |
| Migrations (`db/migrate.ts`) | `schema_migrations` | run once under an advisory lock | start-up |
| Seed, benches, deployment | – | scripts | – |

What is hard here: two or more replicas over the same rows; provider calls made
*inside* a transaction that holds a row; callbacks that arrive twice, late, in
another order, or never; crashes between the provider's effect and the commit;
a reaper that races the money; deadlocks that PostgreSQL resolves by killing
someone; a page that repeats the server's arithmetic in another language; pages
that draw answers older than their own last write, or of somebody else's session;
reports and detail pages whose statements see different moments.
`PROJECT.json` lists each of these hazards at its line, with the properties that
would catch it going wrong or the reason none does.

What makes each part correct:

- **Money** (Payments): at most one charge per booking (INV-3); a capture always
  has an outcome (INV-5); a late one is returned in full and the slot not sold
  (INV-4); refunds happen once, and the ledger agrees with the provider; nothing
  in flight or owed stays so for ever.
- **Inventory**: no two bookings of one room meet, turnaround included (INV-1);
  no equipment type is overcommitted (INV-2); contention ends with somebody
  having the slot.
- **Terms**: a booking is refunded by the policy and the prices it was sold
  under, to the last minor unit.
- **Slots**: the page and the server agree on what is free.
- **Pages**: whatever order answers come in, a page draws no booking that cannot
  be, does not offer a paid hold again, and its wait ends.
- **Reports**: no report shows an imbalance that the rows do not have.
- **Console**: nothing of another session is drawn, what is enabled is what the
  server accepts, and a save brings a replaced value back only in a column that
  was typed in.
- **Catalogue**: rooms are found where their venue is, unless they were inserted
  while it moved, and what is listed is free.

## 2. Modules

| Module | Models |
|---|---|
| `BookingStates` | status enum, transition matrix, `CANCELLABLE`, blocking statuses |
| `Payments` | requests, reaper, worker jobs, webhooks and provider of bookings and their money |
| `BookingRows` | what a booking's rows show to readers: status, time left, payment, refund; abstract for Payments, base of the pages |
| `BookingLedger` | the most abstract specification: a slot and its money, no jobs or messages |
| `Reports` | reconciliation and revenue, statement by statement, over `Payments` |
| `BookingPages` | one tab on the checkout or the booking page, over `BookingRows` |
| `Inventory` | `createHold` statement by statement, deadlocks, replays, console edits |
| `Terms` | prices, policy versions, cancellation refunds |
| `Slots` | opening hours and interval checks against the room page's arithmetic |
| `Console` | one tab of the venue console: session, cache, scope, edits |
| `Catalogue` | venues, rooms, the search over them and the search page |
| `PaymentsProofs` | theorems about Payments, and that it implements `BookingRows` and `BookingLedger` |
| `InventoryProofs`, `TermsProofs`, `SlotsProofs`, `BookingPagesProofs`, `ReportsProofs`, `ConsoleProofs`, `CatalogueProofs` | theorems about the module of that name |
| `MCPayments`, `MCReports`, `MCBookingPages`, `MCInventory`, `MCTerms`, `MCSlots`, `MCConsole`, `MCCatalogue` | TLC instances |

Operators named "Seeded fault" in a comment are plausible bugs, used to check
that the property they belong to would notice; no specification uses them.

### Payments

`status` and `ttl` are a booking row (`ttl` is the time left to `expires_at`),
`payment` and `refund` the tables, `worker` the one provider call each worker
has open, `charges`/`outcome`/`returned` the provider's memory by idempotency
key, `net` the deliveries under way, `inbox` and `unmatched` the webhook tables.

- A transaction that only touches the database (`CreateHold`, `StartCheckout`,
  `SubmitForPayment`, `Cancel`, `ReapHold`) is one action: each takes its
  booking's row lock before it reads what it decides on.
- `submitOne` and `refundOne` call the provider with the row locked. Each is
  *claim, call, finish*, with `Crash` possible in between. `SKIP LOCKED` is
  `~Locked(row)` in the claim; a 500 or a timeout after the charge was made is
  `CallCharge` that charges and answers "refused".
- `processWebhooks` is one action per event of its batch. The batch is a single
  transaction, but each event locks the rows it writes, and the only failure
  that would undo its neighbours (a statement error aborts the transaction
  although the catch tries to defer the event) is shown impossible for
  transitions by `WorkerNeverAborts`; for deadlocks see section 6.
- The provider's charge may be answered late: a request that arrives after its
  caller gave up is the same as one that arrived before with a slow callback,
  since the key makes it one charge.
- Exponential backoff only delays a row, so a row in backoff is one that stays
  due and is not picked yet. The chaos plan's counters become a free choice of
  faults. Two clocks exist (the application's and the database's); the reaper
  may come at any time after `ttl` reaches zero, which covers their skew.
- A worker replica runs its jobs in one loop; the model lets any worker take any
  job when it has no call open, which allows more interleavings.
- The mock provider never fails a refund transiently; the model lets it.

### BookingRows

One action per commit that a reader can see: hold, re-issue, submit, cancel,
expire, capture, decline, money returned. `Payments!ImplementsRows` is the
refinement, with `PaidOf` and `BackOf` reading the one payment and the one refund
of a booking off the tables (as `latestForBooking` does). Its point is what
happens in one commit: a capture confirms the booking or owes the money in the
same step, a cancellation of paid money decides on the refund in the same step.
The pages then run over this small module instead of all of Payments, and what
they are shown to do holds over Payments by the refinement. (Safety only:
`BookingPages` puts no fairness on these steps.)

### BookingLedger

A booking's slot (`free`, `held`, `sold`, `lapsed`, `closed`) and its money
(`none`, `taken`, `owed`, `kept`, `returned`), with seven legal moves. Its
point is what is missing: no move takes money for a lapsed slot without owing it
in the same step, and money is returned once. `Payments!ImplementsLedger` is the
refinement, with `SlotOf` and `MoneyOf` reading both off the rows.

### Reports

Next to Payments' own steps, one reader makes a report. `InOrder` are the six
statements `discrepancies` and `tally` await one after the other, `AtOnce` the
two totals `venueRevenue` sends together; each answers what the rows say at its
moment. A statement may fail and the page shows an error. A booking's charge is
its `Total` and its refund by the policy its `Back`, which its tier and rates
decide (Terms) and which may be one unit more than the charge (finding 2).

### BookingPages

`copy` is the cached answer, `asking` the GET in flight with what the server has
read for it so far: the booking first, then the payment and the refund in either
order, any commits in between. `wait` is the checkout page's local state (started,
polling, asked, the age of the wait, the deadline checkout answered, whether the
countdown has rung), `call` the POST that is open, `said` the toast. Each React
effect is an action, enabled when its dependencies call for it. `Refetch` drops a
GET that is open, as `invalidateQueries` does; `Poll` waits for it. The query
library is external and modelled from how the pages use it. Everything that
happens to the booking elsewhere (another tab, jobs, callbacks) is any step of
`BookingRows`.

### Console

`stored` is localStorage's token, `profile` what React shows, `boot` and `entry`
the GET /auth/me of a page load and of a sign-in, `cache` the answers with the
session each was served to, `draft` what is typed over the row in front, `saving`
a PATCH in flight. `Reaches` and `Admits` are `venuePredicate` and
`requireVenueAdmin` over the token; roles change and accounts go off meanwhile.
Three kinds of edit differ in what they send: the settings page the columns that
were typed in, a dialog the whole row it opened with, Archive one field. A
`Column` may have several fields: the hours editor spreads the week it draws and
replaces one day, so the days not typed go along as the page has them. A token that has
been replaced may or may not verify; a GET's or a PATCH's 401 clears the session
that is stored by then.

### Catalogue

A room copies its venue's city. `MoveVenue` is the move's UPDATEs, of the venue
and of the rooms its snapshot shows, `CommitMove` and `RollBackMove` its end;
`AddRoom` is an INSERT with the city it reads, `EndAddRoom` its end. Others see a
write at its commit and wait for rows it has (`InMove`). `passing` and `overtaken`
are history: rooms whose INSERT was open at the same time as a move. `Search` is
`roomRepo.search` with its order and limit. On the page, `url` holds the filters,
`draft` the controls; "Free for" navigates at once, the others wait for Apply.
`kept` are answers that the server would still give: a write empties it, so
`Listed` is the list of a page whose answer nothing has made stale.

### Inventory

Every request runs `createHold` as separate statements, because READ COMMITTED
gives each its own view: `ReadRoom` (no lock), `LockType` one row at a time in
id order, `CheckStock`, `PlaceEntry` (the index entry is written before the
exclusion constraint looks for others), `CheckOverlap`, `Commit`. Status changes
between blocking statuses re-place an entry (`StartUpdate`) and can deadlock
with holds; a status that releases the slot is one step. `WaitsFor`/`Deadlocked`
define a deadlock, `DeadlockVictim` is PostgreSQL killing one waiter and
`withTransaction` replaying it up to `MaxAttempts` times. `Crash` may come
anywhere. `EditEquipment` and `EditRoom` are the console.

Time is counted from the present, so every booking is "from now on" for
`committedPeak`. A type that is not on offer ends the request at its row instead
of after the last row. Capacity is exact where the code rounds a float down.
Opening hours are in Slots, prices in Terms.

### Terms

`Policies` are published as versions (`PublishPolicy` sorts the bands like the
code, stably) and the venue points at the current one. A hold reads the room's
rate, then the equipment's under its lock, then the version in force, and inserts
with its total: four steps between which the console may edit. `agreed` is a
history variable: the terms in force when the hold asked. Money is counted in halves
of a minor unit, where the rounding happens. Hours left are whole: thresholds
are integers, so the floor decides.

### Slots

Instants are quarters of an hour of UTC. The server half is `ValidInterval`,
`IsOpenFor` and the exclusion test; the page half is `StartsOn`, `Clashes` and
`FreeSlots` over what `Fetched` returned. A venue has an offset from UTC and one
change of clocks. Holds are atomic here (Inventory has their interleavings), and
the page is modelled from the moment its queries have answered.

## 3. Runs

| Run | Bounds | Shows |
|---|---|---|
| `payments_safety` | 2 bookings, 2 payment and 2 refund rows, 2 workers, hold of 1 tick, checkout window of 2, lost and forged deliveries; 331,776 states | INV-3, INV-4, INV-5, no aborted batch, the inductive invariant (rows against provider and claims included), `Payments` implements `BookingRows` |
| `reports` | 1 booking and row each, 2 workers, no lost delivery, one reader, a charge of 3 and a policy refund of 4; 11,024 states | a report stands; `Payments` implements `BookingLedger`; a payment in flight resolves, rows are submitted, refunds owed are paid |
| `payments_lost_capture` | as `reports` without the reader | finding 1 |
| `pages_safety` | 1 booking, 1 tab, hold of 1 tick, window of 2, a poll ceiling of 2; 343,205 states | coherent views, no second Pay, honest notes and toasts, every wait answered, the inductive invariant |
| `inventory_safety` | 3 requests, 2 rooms, 2 types, units 6 or 10, buffer 10 %, 3 attempts, crashes, archived rooms; 183,872 states | INV-1, INV-2, exact peak, no deadlock on stock, the inductive invariant (order of locks and reserved stock included) |
| `inventory_liveness` | 3 requests for pairwise overlapping slots, 2 attempts | a contested slot gets sold |
| `terms_safety` | 2 bookings, odd and even rates, whole and half hours, 2 versions; 93,876 states | refunds by the agreed terms; full bands pay all back; the inductive invariant |
| `terms_rounding` | as `terms_safety` with 1 booking | finding 2 |
| `slots_safety` | a venue at UTC+5, a 2-day window, 2 bookings, days with one and two windows, a horizon that ends inside the window; 112,860 states | page and server agree, both ways; nothing is held over closed hours |
| `slots_clock_change` | London, clocks going forward inside the window | finding 3 |
| `console` | 2 venues, a venue account and a platform admin, 2 settings rows and a room, a name and two days of hours, one more admin editing, `NotCrossed`, `OneReplaced`, `RoomApart`; 429,382 states | no answer of another session, offered is allowed, old values return only with their column, the inductive invariant |
| `catalogue` | 1 venue, 2 rooms, 2 cities, 2 rates, 1 window, 1 booking, a limit of 1, `QuietMoves`; 1,502,216 states | rooms follow their venue; what is listed is free |

Why the bounds are enough to be interesting. Payments: two bookings let rows be
crossed between bookings; rows and workers in pairs let claims collide; with a
window longer than the hold, checkout really extends it; `net` carries two
copies of an event, so duplicates occur. A booking never gets a second payment
row (no code returns it to HELD) or a second live refund, which
`OnePaymentPerBooking` and `OneRefundPerBooking` prove. Inventory: three requests
are the smallest number with a chain of overlaps, a three-party deadlock and a
stock check with two bookings already out; the asks leave no turnaround between
two slots, overlap in another room of the same venue, and one is too short.
Terms: 101 at an hour and a half is where a half unit appears. Slots: days of
one and two windows put a gap, an opening and a closing next to each other, and
other clients' asks are flush with opening, in and across the gap, and off the
grid. Pages: with a hold of 1 and a window of 2, checkout extends a hold that is
about to end; a ceiling of 2 leaves a tick in which polling has begun and not
ended. One tab is enough, since other tabs are any step of the rows. Console: an
account pinned to a venue and one that is not are the two ways a page follows a
session; Monday's hours are typed here, the name and Tuesday's elsewhere, so that a
stale copy of a field in another column, and of one in the same, can be in front
when a save is made. A tab in which a sign-in has overtaken the page load's call is
not followed further (`NotCrossed`), since both session invariants say nothing of
it before the next load; one field at a time holds what another admin typed
(`OneReplaced`), and the room's page, whose row is another, is left alone meanwhile
(`RoomApart`). `ConsoleProofs` has none of these bounds. Catalogue: with a limit below the
number of rooms the order matters; holds end at the window's start without their
turnaround, fill its first part, and end at its end. The venue moves both ways,
and to where it is; while a move is open the page has no filter set
(`QuietMoves`), as a move shows at its end only, whence the page may go anywhere.
Reports: the refund is the larger of the two, as finding 2 has it.

`Free` (bookings whose total is zero) is empty in every run: such a booking can
be held and cancelled only, and `b \notin Free` guards its payment.

Symmetry is used for rows, workers and requests, in safety runs only.
`CHECK_DEADLOCK FALSE` is set where the system may really stop: all bookings
settled, or every request answered.

### Fairness

Only liveness runs use it, and it is assumed of the parts that run by
themselves, never of customers, crashes, releases or console edits.

- Payments, weak: the clock; the reaper for each booking (every replica's loop
  ticks); each worker's open call ends (it has a timeout) and its transaction
  finishes; each delivery under way arrives.
- Payments, strong: claiming a row, the provider accepting it, the commit, and
  processing an event. These are disabled now and again by another transaction
  that has the row; `SKIP LOCKED` meets it again at the next tick, PostgreSQL
  queues the waiter, and a submission that is retried for ever is accepted in
  the end. The last is a real assumption: `claimUnsubmitted` takes the oldest
  row first, so a row the provider refuses for ever would stand before the rest.
- Inventory, weak: the statements of each request (a row's lock queue is
  served), and some victim of a deadlock. A request may still be a victim until
  it is out of attempts.
- Pages, weak: the clock, React's effects and the browser's timers, each read of
  a GET and its arrival, the server's answer to a POST and its being heard. Not
  that a GET succeeds, not that a customer does anything, and nothing of what
  happens to the booking: the provider may be silent for ever.

A HELD booking has no liveness property: checkout may be repeated without limit
(A1 accepts this), so it may never expire.

## 4. Proofs

All proofs are checked by `tlapm`. They assume only the named ASSUME of the
module, which TLC evaluates in every run: sizes are arbitrary, sets of bookings,
rows, workers, requests, rooms, venues and accounts included. Every invariant and
action property that a passing run checks is a theorem, and so are the two
refinements; what stays with TLC is liveness (below).

Every module has its inductive invariant next to its properties. Those of
Payments, Inventory, Terms, Slots, BookingPages and Console are an invariant of
the module's run (`TypeOK` in Slots); those of Reports and Catalogue were
checked with TLC on the same instances before they were proved, and the runs
keep the properties that follow.

**Payments.** `TypeOK` is inductive. The safety invariants are not: that a
capture has an outcome depends on which booking its row belongs to, which calls
are open and what the provider has done. `RowsConsistent` is the strengthening,
in seven parts: what each payment row's status says of its booking and charge
(`PaymentRows`); rows are not shared (`OnePaymentPerBooking`,
`OneRefundPerBooking`); a refund is for the captured payment of its own booking,
which is off sale (`RefundRows`); CONFIRMED and REFUNDED have rows behind them
(`BookingBacked`); every event in flight is about something that happened
(`ProviderRows`); a claimed row is as it was read (`CallRows`). There is one
preservation lemma per action, `RowsNext` puts them together, and each of INV-3,
INV-4, INV-5 and the others follows from it without another induction:
`ChargedOnce`, `CaptureSettled`, `ConfirmedPaid`, `LateCaptureOwed`,
`ReturnedAtMostOnce`, `RefundedMatches`, `LedgerAgrees`, `BatchNeverAborts`,
`ClaimsStayValid`; `ExpiredStaysUnsold` is an action property.
`InvariantHolds` is the conjunction `IInv` that the run checks.

**Refinements.** `PaymentsImplementRows`: because no two payment rows and no two
refund rows share a booking, `PaidOf` and `BackOf` show *the* row (`Shown`); then
each commit is one step of `BookingRows` (a lemma per commit: `HoldShown` …
`RefundShown`), and claims, provider calls, crashes and the webhook intake show as
none (`WorkerUnseen`). `PaymentsImplementLedger` is built on it: `SlotOf` and
`MoneyOf` are functions of what is shown (`Coherent`, `MoneyShown`), so a step that
a reader sees is a step of the ledger (`RowStepMovesLedger`) and no job has to be
looked at again.

**Inventory.** INV-1 speaks of committed bookings, but a hold that has passed
the exclusion check and not committed yet already has its slot. `SlotsApart`
says so for both (`Taken`), `StockHeld` that a hold past its stock check still
has every row it needs and that a locked type stays on offer. Together
(`HoldsConsistent`) they give `RoomStaysExclusive` and `HiresWhatIsOffered`. The
heart is `CheckedKeeps`: an overlapping booking would have been committed or in
progress, and the check lets nobody past either.

`LocksInOrder` says that rows are locked in the order of their ids, by one hold at
a time; a cycle of waiters would need a largest id that is smaller than another
(`StockNeverDeadlocks`, by the least element of the ids waited for).
`PeakAlwaysExact`: the usage at an instant is reached again at the latest start
not after it, and `peakUsage` looks at every start. For INV-2, `StockReserved`
says that what a hold's stock check has found still fits with what it asks,
up to its commit: the usage of a type only grows while its row is locked by
somebody, so by that hold, and the console's edits wait for the row too.
`OverIsOver` was found by the prover: without it a booking that has ended might
have a status change left that brings it back. `EquipmentStaysWithinCapacity` has
one hypothesis, `BuffersNotLowered`: no step lowers an overbooking buffer. The
code accepts such an edit (see the notes in section 5), and INV-2 fails after it;
the theorem says that this is the only way. `UseBoundedByLargestBuffer` has no such
hypothesis: however buffers are edited, use stays within what the largest buffer
would allow. Both come from `UsageStep`: use only grows up to the capacity of the
moment, and units are only lowered to what is out.

**Terms.** `TermsInv`: what was agreed at the hold is the version saved with the
booking (`AgreedIsSaved`), versions are only added, each has a band that needs
no hours (`VersionsReachZero`, from the assumption on what the venue may
publish), and a refund is the one calculated (`RefundCalculated`).
`OwnTermsAlwaysApply` needs that sorting a policy, twice, keeps its bands and
their order; the sort is stated by positions (the k-th band has k - 1 ahead of
it), which is what makes it provable. `FullBandAlwaysPaysAllBack` is arithmetic
over the split by subtraction. `RefundAlwaysNearCharge` bounds finding 2: in no
band, at no rate, is a refund more than one minor unit above the charge.

**Slots.** `TypeCorrect`, which includes that bookings stay on the grid and
apart, and `OffersAreAccepted`: under `FixedOffset` (the clocks do not change)
and `OpensOnShownDays` (no window opens before the local time at which the
page's days begin), every slot a fresh page offers is accepted by the server,
for any hours, offset, durations and bookings. The argument is that local days
and instants differ by a constant, so clock times on a local day are that day's
clock times for both sides, and every booking that could clash was fetched. Each
of the two hypotheses is needed: see finding 3 and the notes below the findings.
`AcceptedAreOffered` is the other direction and needs only `FixedOffset`;
`OccupancyStaysOpen` is the action property, for runs in which the clocks do not
change.

**BookingPages.** Over the rows (`RowsAgree`: what a status says of the money),
`ReadInOrder` says for a half-read answer, and for the cached one, what its
status still allows: the money was read after the status, and a status of after
the hold is final or moves one way. That gives `ViewAlwaysCoherent`.
`ReadsAfterCopy` and `WaitHasCause` keep an older answer from replacing a newer
one (`PaidPageNeverHeld`, `GivesUpHonestly`); `AnswersStand` is what an answer to
a POST says for good (`NothingChargedStaysTrue`). `PagesKeepRows` says that the
pages leave the rows to `BookingRows`, which `Payments` implements, so these are
properties of pages over the rows that the jobs really write.

**Reports.** For any totals, and policy refunds that are at most one unit above
them (which `RefundAlwaysNearCharge` of Terms proves of the arithmetic):
`RowsConsistent` leaves reconciliation nothing to count
(`NothingStands`), in every state, so it does not matter at which commit a
statement reads. Totals only grow (`TotalsGrow`: a captured payment stays
captured, a settled refund keeps its amount), and refunds that paid something map
one to one to captured payments, so what is refunded exceeds what was captured by
no more than one unit for each refund made by a policy (`RefundedNearCaptured`).
`ReportsAlwaysStand` follows: answers that were true when they were read are not contradicted later.

**Console.** `OneSession`: unless a sign-in has overtaken the page load's GET
/auth/me, the profile, the page, the call that is open and every cached answer
are of one token, stored or given up. `RolesAtHome`: only a platform admin is of
no venue. `TypedOnly`: what a settings page holds or sends is only columns in
which something was typed. `CacheStaysTheSessions`, `OfferedStaysAllowed` and
`OldValuesReturnOnlyWithTheirColumn` follow. The assumption that every venue has
one settings row was missing before the proof needed it.

**Catalogue.** `AddedAtVenue` ties an INSERT in progress to its venue's city
unless a move has overtaken it. `MovesHoldRooms` says that a move in progress has
every room there is at its venue, except those inserted while it was open, and
`MovesOwnRooms` that it has no other's; its commit then brings them along, which
gives `RoomsAlwaysFollow`; `KeptStands` says that a kept answer is one the server would
still give. `ListedAlwaysFree` then compares the search's interval with what the
exclusion constraint reserves, and uses that a list cut at its limit leaves out
nothing cheaper (by cardinality).

**Only model-checked.** The five liveness properties (`PaymentInFlightResolves`,
`ChargeIsSubmitted`, `OwedRefundIsPaid`, `ContestedSlotIsTaken`, `WaitIsAnswered`):
they rest on fairness, which is stated with ENABLED and is out of the prover's
reach. The three finding runs show counterexamples. The fairness of the two
refinements is not claimed: `BookingRows` and `BookingLedger` are safety
specifications.

## 5. Findings

Each has a run that TLC ends with a counterexample; the quotations are in
`PROJECT.json`.

1. *A capture can be lost* (`worker/jobs.ts:189`). A callback that outruns the
   commit of its charge id is parked **and marked processed**; the design says it
   is deferred and applied when the charge lands. The customer has paid, the
   payment stays PENDING, and the booking expires.
2. *A refund can exceed the charge by one minor unit* (`domain/refund.ts:38`):
   both halves are rounded up.
3. *The page offers slots the server refuses on the day the clocks change*
   (`web/lib/slots.ts:58`).

Noted while modelling, without a run of their own:

- *Rooms and stock.* An archived room takes a booking (`roomRepo.ts:20`): a hold
  reads `active` without a lock, the room is archived, the hold commits, although
  `roomService.ts:20` says that it "takes no new bookings". `Archivable` rooms
  are in `inventory_safety`, so the model does reach it. `overbooking_buffer` may
  be lowered under what is out (`equipmentService.ts:22`): only `units_owned` is
  guarded; with a second value in `Buffers`, `EquipmentWithinCapacity` fails.
- *A room in the wrong city.* `roomRepo.insert` reads the venue's city in a
  subselect, and a move's UPDATE of the rooms takes those its snapshot shows. A
  room whose INSERT is open at that moment, or begins after it and before the
  move's COMMIT, keeps the city the venue had; it may be there for everybody before
  the move commits. It stays in the old city until the next move. The comment at
  `venueRepo.ts:70` is about this danger and closes it for rooms that are already
  there. `RoomsFollowTheirVenue` leaves out rooms whose INSERT and a move were open
  at the same time (`overtaken`), and shows that there is no other way to lose one:
  without that exception it fails, in both orders.
- *Search.* The window is compared without a turnaround at its end, so a room
  listed as free for a window can refuse a hold of all of it; `ListedIsFree`
  therefore promises holds that leave the turnaround inside. Filters typed and
  not applied are lost whenever a search settles, because the page passes a new
  filters object on each render (`search-filters.tsx:55`).
- *The session.* A sign-in that overtakes the GET /auth/me of the page load gets
  that call's answer, or loses its token to that call's failure
  (`auth-context.tsx:40`); both console invariants fail then, and are stated for
  tabs in which it has not happened. A network failure at page load drops a valid
  token (`:41`). A wrong current password is answered 401, which signs the user
  out. A 401 to a request of an earlier session takes the new token
  (`client.ts:94`).
- *Edits.* The dialogs and the policy editor send every field as it was when they
  opened and so undo what another admin changed. The settings page sends only the
  columns typed in, but all days' hours are one (`hours-editor.tsx:31`): Monday
  typed over a page that is not up to date brings back a Tuesday that another admin
  has replaced (`OldValuesReturnWithTheirColumn` says that this is the only way).
  What was typed on the settings page stays there when a
  platform admin switches the venue, and is saved to the other venue. Text typed
  while a save is in flight is discarded when it succeeds.
- *Reports.* A lost capture (finding 1) is reported as an unmatched callback only
  until the charge id is stored (`reportRepo.ts:61`); after that no query finds
  it. The net revenue of a period is a difference of two snapshots.
- *Slots and terms.* West of Greenwich the first local day shown begins before
  the window that was fetched (`slots.ts:96`), which `OpensOnShownDays` excludes.
  A booking over midnight ends at an early clock time and passes `isOpenFor`
  (`domain/booking.ts:62`), so `OccupiedOnlyWhenOpen` is about bookings that end
  on the day they start. Two bands of one threshold keep the caller's order
  (`venueService.ts:161`), and `OwnTermsApply` takes either.
- *Payments.* A refund whose callback is lost leaves its row PENDING, because
  `claimDue` takes only rows without a provider id; the money is back all the
  same. A booking whose total is zero can be held and not paid for. CANCELLABLE
  has PENDING_PAYMENT, which the trigger's matrix does not let go to CANCELLED.

## 6. Not modelled

- Seed, benches, deployment and health checks: scripts and process start-up.
- Append-only guards: true of any model that has no action to change the rows.
  Policy versions are immutable in Terms for that reason. The audit row of a
  transition is written by the trigger in the same statement and read by nobody.
- Migrations: the advisory lock makes the replicas sequential.
- Utilisation (`utilisation.ts`): arithmetic over closed periods, no state.
- In the console: the policy editor, creating venues, rooms and equipment, the
  dashboard. In search: capacity, amenities, facets, the venue directory, and
  answers that a write has made stale. On the room page: the equipment picker
  and the moment before the venue's timezone is known. Customers' registration
  and their lists of bookings.
- In the parts that are modelled: HTTP, validation of shapes, wording of errors,
  amounts in Payments (full, policy share or nothing), restarts of the mock
  provider that lose its memory.
- Deadlocks between the worker and requests. A request that is the victim is
  replayed by `withTransaction`. In a webhook batch, the catch at `jobs.ts:200`
  runs its UPDATE in a transaction that is aborted already; that UPDATE's error is
  not one `withTransaction` replays, so the whole batch is rolled back and left to
  the next tick. The events stay in the inbox: to the model they have not been
  processed yet, and processing one is assumed to succeed in the end.
- Several payment rows that are due at once and one that the provider refuses for
  ever: `ChargeIsSubmitted` is checked with one row, and the assumption under
  Fairness excludes it.
- Calls that outlive their page. On the booking pages, an open POST whose page is
  left still runs its callbacks, which toast and ask again elsewhere. In the
  console, a GET that the cache has forgotten may still be answered 401 and end
  the session, which is modelled for a PATCH only, and one PATCH at a time is
  under way where a page that was left may have another.

## 7. Plan

Done, in this order: `BookingStates`, `Payments`, `BookingLedger`, their proofs;
`Inventory` and its proofs; `Terms`; `Slots` and its proofs; `BookingRows` and
`BookingPages`; `Reports`; `Console`; `Catalogue`.

Proved since: both refinements and that the pages keep the rows, INV-2 with the
exact peak and the order of locks, its bound under any edit of buffers, and the
safety properties of Terms, BookingPages, Reports, Console and Catalogue.

Next:

1. What holds of a system that is not crossed: a bound on how far
   `CacheIsTheSessions` and `OfferedIsAllowed` can be missed after a sign-in has
   overtaken the page load.
2. `OffersAreAccepted` for days on which the clocks change, but away from the hour
   of the change.
3. That parking is the only way to lose a capture (finding 1): a successful charge
   whose callback is no longer on its way was recorded, or was parked.

Modelling that would add most after that: the policy editor next to `Terms`, and
utilisation against bookings that straddle a period's ends.

## 8. Running

In this directory, `tlc -config Payments_safety.cfg MCPayments` checks one run
(each run's module and configuration are in `PROJECT.json`), and
`tlapm PaymentsProofs.tla` checks the proofs of a module.
