# SmoothSoft verification

TLA+ models of SmoothSoft, a live queue and booking system for barber shops
(`src/apps/api`, a NestJS server over PostgreSQL, and `src/apps/web`, a Next.js client), with
TLC runs of small instances and TLAPS proofs for instances of any size.

Every definition is read off the code; `PROJECT.json` maps each one to its lines, lists the
hazards of the code with the properties that watch them, and the theorems. A definition whose
name has an underscore (`Eligible_Everyone`) is no part of a model: it is the slip that a
property was seen to catch, kept beside the definition it stands in for.

Contents: the system; the modules; the runs with their bounds and fairness; the proofs; where
code and documents disagree; what is not modelled.

## The system

| Part | State it keeps | Operations | Interacts with |
|---|---|---|---|
| Live queue (`queue/queue.service.ts`) | `queue_entries` with their service lines, `location_staff.status` | check-in, start, complete, cancel, no-show, abandon, reassign, change service, reorder, flags, return to waiting, clock, undo | writes the event log in the same transaction; payments call `finalizeCompletion`; appointments call `cancel` and `noShow`; board fetches insert the rows of appointments that are due |
| Event log (`queue/event-log.ts`) | `events`, one counter row per location | `appendEvent` | called by every handler of the floor and by the shop's day; read by undo |
| Request transactions (`common/rls-transaction.middleware.ts`, `common/scoped-query.ts`, `db/pool.ts`) | a pooled connection and one READ COMMITTED transaction per request | BEGIN, COMMIT after a 2xx or 3xx response, ROLLBACK otherwise or when the client hangs up; a nested scope takes a second connection | every handler |
| Board gateway (`queue/queue.gateway.ts`, `web/lib/socket.ts`) | rooms of sockets | broadcast "queue changed" before the COMMIT; pages refetch and also poll every 20 s | live queue, the Floor page |
| Payments (`payments/*.ts`) | `transactions`, `payment_attempts`, `refunds`, `products.stock_qty`, `shop_openings`, `shop_closings` | checkout, refund, open and close the shop | card processors (external), live queue |
| Booking and appointments (`booking/*.ts`) | `appointments`, `appointment_services` | slots, book, create for staff, reschedule, no-show, cancel | advisory locks, an exclusion constraint, live queue |
| Clients (`clients/*.ts`) | `clients`, `phone_bindings` | find or make a profile by phone, edit, rebook, cancel an appointment | check-in, join, booking |
| Schedule (`schedule/schedule.service.ts`) | published weeks, recurring days, exceptions, change requests | publish, submit, approve, deny, grid | live queue (who is scheduled), booking (slots), reports (hours) |
| Settings (`settings/*.ts`) | configuration rows, pay rates, sanitation reminder | save, patch, push to every shop, complete or put off a round | everything that reads a setting |
| Auth (`auth/*.ts`, the guards of every controller) | a signed cookie with the claims of the moment of login | login, logout, move of an owner between shops, contact rules | every route |
| Floor estimates (`queue/*.ts`, pure files) | none | service times, protected appointments, best match, waits, overruns, barbers' timelines | the board |
| Reports and dashboard (`reports/*.ts`, `dashboard/*.ts`) | `staff_pay_runs` | revenue, mix, discounts, clients, items, staff revenue and pay, pay runs; the figures of one shop and of all | sales, refunds, rates, schedule |
| Web pages (`apps/web`) | a query cache, open panels, a URL | the Floor, its checkout, opening and closing panels, the public join and booking page | the routes above, over a network that loses answers |

What is hard here: undo, which writes a row back from a payload recorded long before, with one
check (no later event of the same row) between it and every handler that edits the same columns;
handlers that accept a row in any status; a clock status that is derived in one handler and set
by hand in another; money taken before the transaction that records it commits; requests that
overlap without row locks; rows that succeed each other with the clock of the request's start;
pages that act on what they fetched before.

What makes the parts correct, in a word each: one client per chair and one spot per client; a
status column that is the fold of the log, and an undo that gives back what was there; a gapless
log; one sale per key, paid and in stock; refunds within the sale; a drawer whose variance is
explained; a calendar without overlaps and a line that follows it; a directory without twins;
rates, weeks and settings that only overlapping requests can spoil; connections that serve one
transaction; sessions that keep to their rights; reports that tell of the same money.

## Modules

Each component module declares its CONSTANTS with an assumption, its variables, `Init`, one
action per operation or per statement, a specification and its properties. No component module
has a RECURSIVE operator, so all of them can be proved about.

| Module | What it models | Grain |
|---|---|---|
| `LiveQueue` | the floor of one location with the undo of every event | one committed request |
| `EventLog` | what `event-log.ts` promises | abstract |
| `FloorRequests` | the floor's handlers when tablets overlap; implements `EventLog` | one statement that locks or reads |
| `Till` | what a till promises of its sales | abstract |
| `Checkout` | overlapping checkouts on pooled connections; implements `Till` | one statement that locks or reads |
| `CheckoutPanel` | one visit at the checkout panel against the server that prices it again | one query, touch or answer |
| `Refunds` | `refund`, with the processor and the unique key | one statement |
| `ShopDay` | opening, closing and midnight, with the panels that ask for the counts | one query, form or commit |
| `Booking` | slots, the advisory lock, the exclusion constraint, and the floor rows of appointments | one statement |
| `Clients` | finding, making and editing profiles; twins and number bindings | one statement |
| `FloorPage` | tablets with the Floor page open | one tap, request, answer, refetch |
| `JoinPage` | the phones of a household on the public page | one tap, request, answer |
| `Pool` | the middleware, nested scopes and clients that hang up at each point | one statement of the middleware |
| `Successions` | pay rates, published weeks, exceptions, default service, change requests | one statement |
| `Settings` | saves, patches and the organization's push | one statement |
| `Sanitation` | the wipe-down reminder | read, then write with commit |
| `Sessions` | cookies, role changes, the guards of the routes, contact details | one request |
| `FloorBoard` | what the board plans: estimates, protected appointments, matches, phones | one change of the floor |
| `Grid` | the four readers of the schedule | one edit |
| `Reports` | the reports and the pay runs over sales that commit meanwhile | one statement of a run, one sale |
| `Dashboard` | the dashboards of a shop and of the organization | one statement |
| `Shop` | what they share: barbers, the absent one, the row an update leaves | |
| `Listing` | what `ORDER BY`, `sort` and `filter` make of a set or a list, as rankings | |
| `Office` | refunds, the shop's day, floor requests, booking, clients, Floor page, join page, each at its desk | one step of one of them |
| `Management` | the other ten, from successions to the checkout panel, each at its desk | one step of one of them |

`Office` and `Management` put components side by side, each at a desk of its own: an initial
state picks the desk and the behaviour is spent there, so that one run explores the disjoint
union of its components' state spaces and not their product. That no component is lost or bent
by this is proved (`EveryDeskItsOwn`): every behaviour of the composition is one of each
component's specification. `MCLiveQueue` and `MCVisits`, `MCCheckout`, `MCJoinPage`, `MCOffice`
and `MCManagement` give the constants values for TLC and define nothing else.

`Listing` says what a sorted or filtered list is by counting who comes before (`Ranked`), and not
by folding a sorting operator: the two agree, and of the first one can prove something.

### State and code

`LiveQueue`: `entry[e]` is the `queue_entries` row `e` (status `"none"` stands for an id not
inserted yet, `service` for the list of service lines as one value); `staff[s]` is
`location_staff.status`; `log` is `events` in order of id, where `from` is `payload.reversal`,
`target` is `payload.undoneEventId` and `before` is no column: it remembers the row when the
event was written, for the properties; `appt[a]` is an appointment's status, professional and
services; `refunds` are those that an undo inserted. Actions have the names of the handlers.
`Complete` is what is left of a checkout that was paid (`finalizeCompletion`). `Materialize` is
`autoMaterializeDueAppointments`: it runs in every board fetch, and `checkIn` and `togglePresent`
fetch the board before they answer; such a request is the two steps in a row. The ten undo
actions are the ten branches of `undo`, and `Compensate` is what they share. An appointment's
check-in writes two events in one step, as the code does.

`Checkout`: `visit`, `stock`, `attempts` and `sales` are the committed tables; `txn[c]` is what
the transaction on connection `c` has written and locked; `owner[c]` is the request that has `c`
from the pool; `conn[r]` is the connection the handler of `r` was given and keeps using; `pc[r]`
names the next statement that touches shared state; `charged` is the processor's record; `saw`
remembers, for a property, which sales a handler could see. A row that is updated or selected
`FOR UPDATE` is locked to the end of the transaction; a key in the unique index of
`payment_attempts` makes a second insert wait and then fail; plain reads lock nothing. `HangUp`
is the `close` event of a response: the middleware rolls back and releases the connection, but
the handler's promise chain goes on with the same client object. A statement it sends while the
connection is idle fails, because the row-level policies find no location set; once another
request has the connection, it runs in that request's transaction. `Impatient` says whose clients
may leave before the handler has finished; everybody's may leave before the response.

The other modules with transactions (`FloorRequests`, `Booking`, `Clients`, `Refunds`,
`Successions`, `Settings`) are built alike: the committed tables, a program counter and the local
variables of each request, and who holds which row; a request that waits for a lock is one whose
next step is not enabled. `Reports` and `Dashboard` keep the committed tables and what each
statement of a request in course has read.

### Abstractions

A name, a number, a service or a key is a model value, so normalising it is equality. One
location, but where shops are the point (`Settings`, `Pool`, `Sessions`, `Dashboard`). In
`Checkout`: one product line per order; amounts, taxes and validation are `CheckoutPanel`'s; the
statements between two locks are one step; the rows of discount codes, barber and counter are
not locked (the last two are taken last and in one order; a code adds a circle of the kind the
product already makes with the row); whoever inherits a connection is a checkout of the same
location. In `Reports`: all clients are shown and not the best 25; the server's zone is a number
of ticks. In `FloorBoard`: times are minutes and a median is rounded to one. Rows that tie in an
`ORDER BY` come in one arbitrary order, the same at each fetch. Which appointments
are due depends on the clock only, so in `LiveQueue` any may be.

## Runs

| Run | Instance | What it shows |
|---|---|---|
| `LiveQueueFloor` | three kinds of day, told apart by the initial state: two walk-ins with two barbers; one visit that the desk edits between its events; an appointment beside its client's walk-in with a manager at the clock. 2 rows, 5 events | status is the fold of the log, one client per chair, one spot per client unless a row came back, one standing sale per completed visit, a barber for every seated client, undo restores |
| `CheckoutRace` | 3 requests, 2 keys, 2 visits, 1 product with 1 or 2 units, a connection each, no early hang-ups | the inductive invariant, the refinement of `Till`, no visit sold by a request that could see its sale |
| `CheckoutHangUps` | 3 requests of one visit, 2 connections, one client that hangs up anywhere | the pool is intact, every request ends |
| `Office` | the desks of refunds, shop's day, floor requests, booking, clients, Floor page, join page | refunds fit their sale and are accounted for; variance is explained; a barber is busy alone only after overlap; circles of locks need a return or a reassignment; no double booking; the line follows the calendar; no twins; tablets and phones hold what they promise; the log is implemented; everybody is answered; final statuses stay; boards catch up |
| `Management` | the desks of successions, settings, sanitation, pool, sessions, board, grid, reports, dashboard, checkout panel | rates and weeks succeed each other; overwrites need overlap; reminders keep their time; connections kept apart; sessions keep to their rights; the board's plan can be carried out; schedule readers agree; reports agree; pay runs are sound; dashboards tell of the same money; the panel sells what it shows |
| `BreakNeverOrphans`, `OneLiveSpotPerClient`, `UndoReseatsBarber` | 1 or 2 rows | promises of documents that the floor does not keep (below) |
| `VisitSoldOnce`, `DisconnectRollsBack` | as the checkout runs | what overlapping checkouts and hang-ups do (below) |
| `AppointmentOnTime` | a line of 3 or 4 parties | `ProtectedStartsOnTime`: a protected appointment starts late (below) |
| `AppointmentIsForWhoWasPicked` | 2 phones, 2 people | an appointment goes to another of the household (below) |

### Bounds, and why they are enough

- `LiveQueue`: two rows are the least for two clients of one barber, or two rows of one client
  or appointment, and no handler touches more than two but a drag. Five events are enough for
  check-in, start, completion, undo and one more step, or for two check-ins, two starts and an
  undo. `Positions` is wide enough that no row meets its edge within `MaxEvents`.
- `Checkout`: a race of one key needs a request and its retry, a race of one visit or product a
  second key, and a third request inherits a connection or finds the pool empty; the orders of
  `RaceBatches` give every pair a lock in common and one pair two locks in opposite order.
- `Office`: three refunds of one sale of 3 (two whose sum exceeds it, and a retry of a key);
  `StartFloat` 3, `LastDay` 2, `LastSale` 1, `LastStamp` 4, for an opening, a closing, a reopening
  and a midnight; three tablets over two visits and two barbers, for a circle and a bystander;
  three callers and appointments over a day of four slots, for two that clash and a row that has
  been there; three intakes over two clients, two names and three numbers; two tabs and three
  guests with one request outstanding, one tab hearing no socket; two phones and two people.
- `Management`: three savers over six slots; three editors of two shops and two columns; three
  hands and intervals 2 and 3; three requests on two connections; four members of three people,
  sessions of two hours; lines of up to four parties; two people and two days in the grid; two
  sales with five items, days of two ticks, three rates, two pay runs; two sales and three posts
  for the dashboard; three touches of the panel.

Every property of every passing run has a slip that TLC catches within these bounds
("mutants" in `PROJECT.json`). The theorems hold without any bound.

`LiveQueueFloor` and the three runs beside it check for deadlock: a floor that has used up `MaxEvents` can still be edited by
handlers that write no event. In the other runs requests are finitely many and each is made once,
so their behaviours really stop and deadlock checking is off; that nobody waits for ever is
what `Answered` and `RequestsAnswered` say.

### Fairness

Weak fairness of the next statement of every request that has begun (`Checkout`, `FloorRequests`,
`Booking`): the pool hands a free connection to who waits, Node runs the continuation of a
statement that has returned, PostgreSQL grants a free lock and breaks circles after a timeout,
the processor's client library times out. Weak fairness of a pending refetch and of the poll in
`FloorPage` (`refetchInterval`). Nobody is obliged to send a request, to hang up, to move a visit
or to recount. No fairness is assumed and no liveness claimed of `LiveQueue`, of the other desks of the
office or of the management: nothing in the code obliges anyone to start, complete or undo anything.

## Proofs

Eight modules: `Sums` (a library), `LiveQueueProofs`, `CheckoutProofs`, `FloorRequestsProofs`,
`BookingProofs`, `DisplayProofs` (`Grid`, `FloorBoard`, `Reports`, `Dashboard`), `OfficeProofs`
(`Refunds`, `ShopDay`, `Clients`, `FloorPage`, `JoinPage`, and the office) and `ManagementProofs`
(`Sanitation`, `Settings`, `Pool`, `Successions`, `Sessions`, `CheckoutPanel`, and the management).
Every invariant and every action property that a passing run checks, and both refinements, are
proved for every value of the constants that the assumptions admit (the till's two for clients who
do not leave before they are answered, as in the run); only liveness is left to TLC.

| Theorem | Says | Its invariant |
|---|---|---|
| `LiveQueueProofs!TypeCorrect`, `ServingCorrect`, `StatusCorrect`, `UndoCorrect` | `TypeOK`, `ServingHasBarber`, `StatusMatchesLog`, `UndoRestores` | `IInv` |
| `LiveQueueProofs!OneSpot`, `OneChair`, `SalesCorrect` | `OneSpotUnlessOneCameBack`, `OneClientPerChair`, `SalesMatchVisits` | what an action does to status, barber and guest, and which event it records |
| `CheckoutProofs!Inductive`, `PoolSurvives`, `CheckoutImplementsTill`, `NotSoldTwice` | `IInv`, `PoolIntact`, `ImplementsTill` and `NotSoldTwiceKnowingly` if `Impatient = {}` | `IInv` |
| `FloorRequestsProofs!EventLogImplemented`, `BusyAloneByOverlap`, `CyclesNeedTwoOrders` | `ImplementsEventLog`, `BusyAloneOnlyByOverlap`, `CycleNeedsReturnOrReassign` | `CounterInv` (`CounterKept`), `FloorInv` (`RowsKept`) |
| `BookingProofs!NobodyTwice`, `FinalStays`, `LineFollows` | `NoDoubleBooking`, `FinalUnlessReadBefore`, `FloorFollowsCalendar` | `BookingInv` (`CalendarKept`), `LineInv` |
| `OfficeProofs!RefundsAccounted`, `NothingOverpaid` | `PaidBackIsAccounted`, `RefundsFit` | `RefundInv`, `PaidInv` with `CardCovered` and `CashCovered` |
| `OfficeProofs!DrawerExplained`, `DirectoryKept` | `VarianceExplained`, `DirectoryHolds` | `ShopDayInv`, `DirectoryInv` |
| `OfficeProofs!TabletsHold`, `HouseholdKept` | `FloorPageHolds`, `JoinPageHolds` | `FloorPageInv` with `PageTyped`, `JoinInv` |
| `OfficeProofs!EveryDeskItsOwn`, `OfficeTyped`, `OfficeKeepsItsPromises` | the office implements each component; `OfficeTypeOK`; the properties above, of `OfficeSpec` | each component's |
| `ManagementProofs!WipeDowns`, `OverlapsExplain`, `PoolKeptApart` | `WipeDownsKeepTime`, `OverwritesNeedOverlap`, `ConnectionsKeptApart` | `SanitationInv`, `SettingsInv`, `PoolInv` |
| `ManagementProofs!RatesFollow`, `ScheduleDecided`, `RightsKept`, `PanelSellsAsShown` | `RatesSucceed`, `ScheduleIsAsDecided`, `SessionsKeepToTheirRights`, `CheckoutTells` | `SuccessionInv`, `SessionInv`, `PanelInv` |
| `DisplayProofs!BoardPlansAsItCan`, `GridAlike` | `PlanIsSound`, `GridIsOneStory` | the types: both hold of every table |
| `DisplayProofs!ReportsTold`, `PayRunsReviewed`, `DashboardsTold` | `ReportsAgree`, `NewOnlyOnce` (`ReportsTell`), `PayRunsSound`; `DashboardTells` | `ReportInv`, `DashboardInv` |
| `ManagementProofs!EveryDeskItsOwn`, `ManagementTyped`, `BoardPlanned`, `ScheduleAlike`, `ManagementKeepsItsPromises` | the management implements each component; `ManagementTypeOK`, `BoardPlansSoundly`, `ScheduleReadAlike`; the properties above, of `ManagementSpec` | each component's |

Besides, every component has its own type theorem (`RefundsTyped`, `ClientsTyped`, `TabletsTyped`,
`JoinPageTyped`, `BookingsTyped`, `PoolTyped`, ...), from which the two of the compositions follow.

### The arguments

- **Undo** (`LiveQueueProofs`). Undo writes columns from payloads, so no property is inductive.
  `IInv` adds to the types the shape of each event's payload, and of a row and the last event `k`
  that names it: (1) if `k` is of a kind whose undo restores the status or the barber, the row
  still has what that event left; (2) what the event recorded is what the row had in `before`;
  (3) a row that nobody has an event of is one that a board fetch surfaced. They are kept because
  every handler that writes status, barber or services writes an event, and the others touch
  other columns only; `LaterEvent` turns "no later event" into "`k` is the last".
- **The till** (`CheckoutProofs`). The pool's part is inductive on its own. With it, and without
  handlers that outlive their transaction, the owner of a connection is the only one to write there,
  so what a request checked and locked stays true until its COMMIT (`Covered`). Locks of two
  connections are disjoint, so one COMMIT does not disturb another request. A COMMIT is `T!Sell`, a
  charge `T!TakeMoney`, a saved product `T!Recount`, every other step none of the till's. That
  `Impatient = {}` is needed is the run `DisconnectRollsBack`.
- **Overlapping requests** (`FloorRequests`, `Booking`, `Clients`, `Settings`, `Successions`). What
  a request has read is still so, or another one has committed since; the invariant says which,
  and of a request that has written and not committed what its row will be.
- **Refunds**. What is booked of a card sale and what was paid without a row come to no more than
  what the processor paid, and the processor pays no more than it got; a cash refund fits beside
  those it added up, and it added up all that were booked before it, or they overlapped. These are
  sums over the requests of a sale, and a step takes one request into or out of one (`SumTakes`,
  `SumGrows`).
- **Reports**. A sale that has committed stays in the periods it is in, so a run has read sales of
  its period. On a server that keeps UTC every sale of a period is told apart by its day, its
  barber, its code and its lines, and the sum over a set is the sum over the parts (`SumByParts`):
  trend, mix, staff, items and discounts are the same sum told apart in five ways. A client who
  is new in two reports would have two earliest sales. A commission is a share of a share
  (`ShareFits`).
- **Dashboards**. Each statement saw no fewer sales than the one before it, and the terms of all
  that have not changed since; the sums differ by exactly the sales in between.
- **Pages**. `FloorPage` counts how often a visit's services were chosen: every copy of the row
  knows whether it saw the last choice. Its ready cards are a fold over the waiting line; one
  lemma takes a party past the barbers that the parties before it left, so no barber is on two
  cards and none is left over while a card has nobody. A drag, and putting a list back, only move
  names about. In `JoinPage` a join is pending only on a page that shows no spot, and the live
  rows of a client are one; its types say besides that whatever a phone shows, waits for or has
  lost is a row there is, late answers and reused addresses included.
- **The board's plan** (`FloorBoard`). Sorting is ranking, so the median of some readings stands
  between two of the middle places, and one odd reading moves every rank by one at most. Moving
  one appointment up takes the place of each party to a place (`Source` and `Target`, inverses),
  and the bump is a sequence of such moves that carries "everybody but those moved up is in the
  old order" along the line. A plan gives each party to the barber with the earliest end, which
  it moves on, so the blocks of one barber lie one behind another.
- **The schedule** (`Grid`). After each event the sweep counts who has come less who has gone;
  leavings precede arrivals at one minute, so at an arrival that is exactly who is there, and the
  peak is reached at an arrival. This needs that no shift ends before it begins, which nothing
  in the code refuses, so the property is about the days on which none does. The readers' sums are sums
  over one table.
- **Composition**. A step of the office or of the management is a step of one component and leaves
  the variables of the others alone, so a behaviour implements every component's specification, and
  what is proved of a component is so of the whole.

`Sums` makes sums over finite sets provable: `SumFunctionOnSet` folds a set in an order nobody
chose; the module shows that it takes out one element at a time whichever it is, by the
well-founded order of finite subsets (a family of finite sets has a smallest one, and the
smallest set for which a claim fails would be none). In the same way it shows what a ranking is:
each place of `Ranked(S, R)` is taken by one member of `S` and in the order of `R`, if `R` orders
`S` strictly (`RankedIs`), and what filtering a list leaves (`KeptIs`). A fold over a
list is one over the set of its places that takes the last one off (`FoldSteps`), so it walks the
list from the first place to the last (`FoldWalks`), and what every place passes on holds at the end.

### Assumptions, and why the code justifies them

The named assumptions say that ids of different kinds differ, that sets of ids are finite and that
bounds and data are of the right type (in `Grid`, `FloorBoard` and `JoinPage` too; a
catalog has no service of no minutes, a window of readings holds at least three). `Booking`: who books for a
barber names one. `CheckoutPanel`: no price is negative, and a percentage is at most all
(`Tables`; `settings.service.ts:543` refuses more). `JoinPage`: an `Occasion` says who is on file
and what is done on each phone, together, so that TLC can be given the two that matter.
Those that say more: discounts are no more than what they
are taken off, and none without a code (`settings.service.ts` refuses a percentage above 100,
`payments.service.ts` takes the lesser of code and subtotal); every shop has a post
(who looks at a shop works there); the orders of `Successions` lay the columns that their tables
have; a household's names are in the directory once to begin with. `CheckoutImplementsTill` and
`NotSoldTwice` assume `Impatient = {}` in their statements; `ReportsAgree` speaks of `west = 0`, the
deployment's UTC, and of other zones says nothing (a day's sales are then cut at the server's
midnight and counted by UTC's).

### Only model-checked

`Answered`, `RequestsAnswered` and `BoardCatchesUp`: liveness under fairness, which the provers do
not reach. That the fairness of `Office` is what those properties need is seen in the run only;
the safety theorems use none of it.

## Where code and documents disagree

Each is a run that TLC violates, of one property that a document, comment or test states:

- `BreakNeverOrphans`: `setStaffStatus` asks for an active client only when the barber's stored
  status is busy, and `clockIn` makes a serving barber available, so the second of the two
  requests sends a barber with a client on break.
- `OneLiveSpotPerClient`: undoing a cancellation, or returning a finished row, does not ask
  whether the client has joined again. `OneSpotUnlessOneCameBack` is what does hold.
- `UndoReseatsBarber`: undoing a return to waiting puts the client back in the chair and leaves
  the barber available.
- `VisitSoldOnce`: two checkouts of one visit with different keys, both past the read of its status
  before either commits; what the second look does catch is `NotSoldTwiceKnowingly`.
- `DisconnectRollsBack`: after a hang-up the handler goes on, and its sale commits with the
  transaction of the request that has the connection next.
- `AppointmentOnTime`: the place found for a protected appointment is one past the last that
  keeps it on time (`appointment-sla.ts:68`).
- `AppointmentIsForWhoWasPicked`: booking finds the client by the number alone.

Met while modelling, and written into the guards, the exceptions that properties name, or left aside:

- Floor. Undo of a clock event writes the old status over a barber who serves by now; reassigning
  or undoing can leave a barber busy alone; undoing a start does not give `ready` back; undoing an
  appointment's check-in cancels a row that was waiting before it; ready, late and notes edits
  write no event; "handlers append FIRST" (`event-log.ts:11`), but the code appends last;
  `ensureQueueEntryForAppointment` is "idempotent" only without overlap (`queue.service.ts:776`).
- Calendar. Check-in and no-show update without a second look; `clients.cancelAppointment` leaves
  the floor row; two moves can leave the row at the earlier place; the slots' overlap check
  uses present durations, the constraint the stored end.
- Money. Expected cash ignores cash refunds; a reopening counts the morning's sales twice; a
  reopened shop cannot be closed again that day (unique index); closing after midnight books
  the new day. A refund made after its period's run was logged is never deducted; a period may be
  logged twice; a sale begun before midnight and committed after the run is never paid; a refund
  includes tax and tip, so it lowers the commission on other sales; a commission percentage is
  bounded nowhere (`settings.service.ts:412`), and above 100 it pays more than was kept, so
  `PayIsReviewed` is about those up to 100. Adapters treat pending refunds as succeeded.
- Clients. Two overlapping intakes of one person make twins, against `client-lookup.ts:99`; two
  edits that swap numbers wait for each other; an emptied number keeps its binding.
- Settings and schedule. A default may be removed while another request makes it the default; two
  overlapping week saves merge; rates are inverted when the request with the earlier clock
  commits last; a denied change may still be approved; a save writes back the columns it read; a
  push of the sanitation setting leaves no date; dashboards' utilization ignores exceptions; the
  grid mixes the server's weekday with UTC dates.
- Requests. A client that hangs up before the listeners are attached loses the pool a
  connection; every request may wait for a second connection with no timeout; a role change reaches
  no cookie for twelve hours.
- Pages. `socket.ts:17` says "no polling" while the Floor polls every 20 s, and needs to, as the
  broadcast precedes the COMMIT; panels overwrite services chosen since they were opened; the menu
  offers to abandon an in-service visit, which the server always refuses; starting with empty
  notes erases those of the check-in; a join retried after a lost answer is refused as a duplicate
  name, or after closing although the spot is held; a partial failure of a join is not shown; the
  checkout panel's "Total due" omits the tax, sells at 0 when the services were not loaded, and
  trusts its own copy of what is taxable; a retry with the same key after an edit returns the old
  sale; "number holds still instead of ratcheting" (`overrun.ts:19`), but the projected end moves
  with the clock; barbers on break are projected free now, against `barber-timeline.ts:9`.

Hazards without a property are marked in `PROJECT.json` with the reason: undo of a clock event, the
charge that precedes the COMMIT, the product form that overwrites the stock, and the hour of a
clock change.

## Not modelled

Encryption of personal data (a library's), the layout of csv, pdf and xlsx files, wording and
formatting, messages to clients (rows that nothing reads back), the complaints' status, the web
pages for settings, reports and dashboards (one request for one form), seeds, migrations and
grants (run once, by hand; the constraints they make are used where the code relies on them),
build workflows, and the placeholders `apps/mobile` and `apps/ai-service`. The hour that a clock
change skips or repeats is not modelled, as no instance keeps a time zone. Row-level security is a
policy on every statement; the models need of it the one that fails a statement outside a
transaction with a location (`StatementFails`) and the scope that `Pool` compares.

## Left to do

- Local time around a clock change as a function of instants.
- The components meet in the tables they share only where one module models both (`Booking` has the
  floor rows of appointments, `LiveQueue` the sales); the office and the management do not let one
  desk's rows change under another's requests.
