# Greenlink: TLA+ models and proofs

Greenlink runs a golf club: a tee sheet with bookings, the club's rules and prices, the money of
members, a food and beverage counter, and the accounting export. The backend is FastAPI over
SQLAlchemy and PostgreSQL, the frontend is React with TanStack Query. This directory models the
parts of the backend in which requests of several people meet on the same rows, or in which one
request commits more than once, and the pages of the frontend that keep state of their own over
answers that come late, checks them with TLC and proves the properties that matter most with TLAPS.

    tlc -workers 2 -config TeeSheetSerial.cfg MCTeeSheet     # one run; all are in PROJECT.json
    tlapm TeeSheetProofs.tla                                 # one module of proofs

Paths below are relative to `src/`; `services/` is `src/backend/app/services/`, `tee-sheet/` is
`src/frontend/src/features/tee-sheet/`, `pages/` is `src/frontend/src/pages/`.

## 1. How the program runs, and what every model takes from that

* **A request is a thread with a session** (`backend/app/db/session.py:13-21`). The session does not
  flush before a query, does not expire what it has loaded at a commit, and the dependency that
  opens it never commits. PostgreSQL runs it at READ COMMITTED, and no service uses `FOR UPDATE`, a
  version column or an advisory lock.
* So a request is *reads of what is committed, a decision, and one commit of what was decided on
  those reads*. Other requests commit between the reads and between the reads and the commit. The
  models give a request a job record (`jobs`, `desk`, `counter`, `clerks`, `calls`) that holds what
  its session has read, and one action for each read that can be overtaken and for each commit.
* The unit of work **writes only the columns that changed**, relative to the values loaded
  (`Written`, `Stored`, `Changed`). A value that the request sets to what it loaded is not written
  and does not overwrite another request's change.
* Some services call a service that **commits by itself** (`FinanceLedgerService.create_transaction`).
  Their requests have several commits, and a crash or an error between two of them is an action.
* A **refusal** for a reason outside a model (a rule, a permission, a malformed field) leaves the
  rows as they were. It is one action (`Abandon`, `Refuse`, `RefuseOrder`) that may happen at any
  time before the first commit; it also stands for an exception or a crash there.
* **In the browser an action is a callback**: an event handler, an effect, a timer, or what a query
  or a mutation does with its answer. JavaScript runs each to its end (up to an `await`), so the
  models have one action for each and let anything happen between them. What a callback closed over
  when its request was sent is carried in the request (`replies`, `posts`, `sent`, `moves`, `wants`).
* The pages' models take a backend request **as one step** at a time of the server's choosing, with a
  refusal and a lost answer where the page treats them differently. How requests interleave *inside* the
  server is what the backend's models are about.

## 2. Inventory

| Part | State it keeps | Operations | Model |
|---|---|---|---|
| Bookings on the tee sheet | bookings, booking_participants, their domain events | create, update, move of a party, move of one player (split), check-in, complete, cancel, no-show | `TeeSheet`, `BookingLifecycle` |
| Booking finance, ledger | finance_transactions, bookings.payment_status | payment-status, post-charge, record-payment, post-refund | `BookingFinance` |
| Orders | orders, finance_tender_records | create, preparing, ready, collected, cancel, post-charge, record-payment | `OrderFinance`, over `BookingFinance`; `OrderLifecycle` |
| Slot locks | tee_sheet_locks | acquire, renew, release | `TeeSheetLocks` |
| Slot selection in the browser | refs and state of `useSelectionLock`, requests in flight | select, renewal timer, callbacks, unmount | `SelectionLock`, over `TeeSheetLocks` |
| Accounting export | finance_export_batches with metadata_json | generate, void, regenerate, reconcile, export | `ExportBatches` (profiles and column mapping left out) |
| Session of a tab | token and club in local storage, refresh cookie, bootstrap, auth_sessions | login, shared refresh and the provider's own, bootstrap, choose club, logout, reload, lost requests and answers, error answers | `BrowserSession` |
| Tenancy, bootstrap, routes | memberships, modules; the address, the bootstrap's menu | log in, choose club, follow a link, type an address, redirects, onboarding pages | `Router` |
| Live tee sheet page | cached days, drag, drawers with drafts, filters, dialogs | poll, change day, drag, quick actions, create, save, batch no-show | `SheetView`, `SheetDay`, `SheetDrawer` |
| Phase 10 tee sheet | swap and its retry, optimistic grid; course, date, interval, selection, popover, help | drop on a cell, swap, retry, restore; keys, clicks, answers | `ParticipantSwap`, `TeeSheetPage` |
| Golf settings | rule sets, matrices, snapshots; drafts of the page | create, draft, publish, roll back, by two administrators | `GolfSettings` |
| Clubs of the platform | clubs with onboarding step, the page's choice and form | choose (which has the session loaded and the page mounted anew), create, step, pause, delete, invite | `ClubsDesk` |
| Members | people, memberships, account codes; the editor | create and edit in up to three requests | `MembersDesk` |
| Close day | wizard, cached batch, reconciliation and preview | generate, regenerate, reconcile, preview, export | `CloseDay` |
| Point of sale | pos_transactions, products | sale by cash, card or account | not modelled: a sale on account is an order's charge again |
| Rule evaluation, pricing of a slot | none (reads rule rows) | evaluate | not modelled: pure, and only its verdict meets other state |
| Read models, reports, dashboards | none | queries | not modelled: they change nothing |
| Bulk intake, modules, targets, templates | rows of their own | forms | not modelled: one commit each, read by the rest as given |
| News and blasts, player pages | posts, deliveries | write, list | not modelled: single writes and reads |
| Schema, seeds, other components | - | - | not modelled: layout and I/O |

**How the parts meet.** The tee sheet page selects a slot (`SelectionLock`), which takes a lock
(`TeeSheetLocks`); the booking that follows does *not* look at locks, they only tell another
operator that somebody is at work there (`backend/app/models/tee_sheet_lock.py:14`). A booking is
charged, paid and refunded through the ledger; so is an order, which may belong to a booking and then
changes that booking's payment status too. The ledger's rows of a range of dates go into an export
batch. Prices and limits come from the active rule set and pricing matrix. In the browser every page
sends its requests through the session's client, stands behind the router's guard, and shows what it
last read of rows that others change.

**What is hard here.** Two requests on one row (every service decides on rows it loaded earlier);
two commits in one request; a retry after a lost answer; answers in the browser that arrive after
the operator went on; a lock whose time runs out while a request for it is under way. `hazards` in
PROJECT.json lists them by line, with the property that would notice.

**What makes each part correct.** *Tee sheet:* a slot never has more players than places; a blocked
slot stays empty; party size, participant rows and primary player agree; a booking follows its
lifecycle and its log; limits hold. *Money:* a booking is charged and paid once, a payment pays off a
charge, a refund follows a payment, and the payment status tells what the ledger has. *Orders:* one
order per request, one charge per order, one payment per charge, charged only once collected.
*Locks:* one per slot, a live one goes only at its holder's release, a dead one stays dead.
*Selection:* a screen that says "held by me" is right, no lock is left behind, and no slot waits for
ever. *Export:* one batch in force per range, a void batch stays void, a superseded one has a replacement that names it.
*Pages:* a tab signs its user out only for a reason and waits only for what it has asked (where the code keeps to that, section 6); everyone arrives at a page
that stays, of a module their club has; the sheet shows nobody twice and comes to show what the server
has; what is sent is the draft of the booking, club or member it was made for; a page that says a swap, a
save or an export happened is right; what is in force was published.

## 3. The modules

### TeeSheet, BookingLifecycle
`bookings`, `rows` and `audit` are the tables `bookings`, `booking_participants` and the
status-change events of `domain_event_records`; `jobs` is what the request threads have read. A *line*
is a tee with a start lane, a *time* a slot_datetime.

| Action | Code |
|---|---|
| `BeginCreate`, `CheckSlot`, `CheckLimits`, `CommitCreate` | `services/booking_service.py` `create_booking`, with `availability_service.py` for occupancy and limits |
| `BeginUpdate`, ..., `CommitUpdate` | `services/booking_update_service.py`; participants are deleted by id and inserted again |
| `BeginMove`, `CheckSlot`, `CommitMove` | `services/booking_move_service.py`, whole party |
| `BeginSplit`, `CheckSlot`, `CommitSplit` | the same, one player of several: the booking is split |
| `BeginTransition`, `CommitTransition` | the check-in, completion, cancellation and no-show services |
| `Abandon` | any refusal, error or crash before the commit |

Create counts *participant rows* in a slot, move counts *party_size columns*; both are in the model
(`PlayersIn`, `SizesOf`), so that `PartySizeIsRows` is what makes the two agree. A slot state is
looked up under the booking's own course (`SlotCapacity`, `SlotOpen`). A create refuses a slot of
unknown capacity, a move takes it for unlimited. Rules are reduced to capacity, slot flags and the
two booking limits.

`BookingLifecycle` is the abstract specification: the statuses of bookings and the five
transitions, without sessions or slots. `FollowsLifecycle` says that a serial tee sheet implements
it under the mapping `StatusOf` (`INSTANCE BookingLifecycle WITH ... status <- StatusOf`).

### BookingFinance
`ledger` is `finance_transactions` in order of creation (append-only), `payment` the
`payment_status` column, `desk` the requests. `BeginStatus`/`CommitStatus` are
`update_payment_status`; `BeginEntry`, `LookUp`, `PostEntry`, `MarkBooking` are the three services that
move money (`services/booking_finance_service.py`): load and check the status, look for the entry, post
it (the ledger's commit), mark the booking (the second commit). `CrashBetween` stops a request
between the two.

### OrderFinance, OrderLifecycle
EXTENDS BookingFinance: the same workers serve requests of bookings and of orders over one ledger
(`ClubNext`). `orders` and `tenders` are the tables; the correlation id of a create is
`Order.request`. `PostOrderCharge`/`LinkOrderCharge` and `PostSettlement`/`LinkSettlement` are the two
commits of charge and settlement; the ledger's commit takes the flushed tender along. A settlement
on the member's account is one commit.

`OrderLifecycle` is the abstract specification: of each order its stage and its bill, and one step per service,
without workers, ledger, tenders or commits. Under the mapping `LifeOf` a charge happens when the ledger takes it and a
settlement when the tender is committed, linked to the order or not; the second commits, refusals and stops change nothing.
An order for which two requests overlapped is `Contended`, and nothing is promised of it any more: a cancellation
that read "placed" may commit after the order was collected and charged. `OrderFollowsLifecycle` says that `OrderFinance`
implements it, for all orders side by side and with the requests of bookings between.

### TeeSheetLocks
`locks` is the table, `calls` the requests on the network. `ReadAcquire`, `CommitAcquire`,
`LoseRace`, `ReadRenew`, `CommitRenew`, `ReadRelease`, `CommitRelease` are
`services/tee_sheet_lock_service.py`, reads and commits apart. Time is what a lock has left: a tick takes
one from every expiry, and the expiry that a request is about to write ages with it. `LoseRequest`
and `LoseAnswer` are the network. `OneAtATime` serves requests one after the other.

### SelectionLock
EXTENDS TeeSheetLocks: the hook `tee-sheet/use-selection-lock.ts` on each open page.
`screens` holds its refs and its state, `line` its requests that are not answered and `ahead` which of them it sent
before another: their order. `Select` is the effect on a new selection (release the old lock, ask for the new one), `Renew` and `Expire` the timer,
`AnswerAcquire` and `AnswerRenew` the callbacks, `Leave` the unmount, `Crash` a browser that is gone.
The callbacks given to `mutate` run for the last call only (TanStack Query); that part is
modelled from how the hook uses it. Four constants name what is assumed of operators and network:
`Patient` (select nothing else while an answer is awaited), `Ordered` (a browser's requests are served
in the order sent), `OneAtATime`, and `MayFail`/`MayLeave` for losses and departures. One page per
operator.

### ExportBatches
`batches` is `finance_export_batches`; the rows of a batch are the number of ledger entries it took
(the ledger is append-only, so a number tells which), and `notes` is what `metadata_json` tells of
exports, void, supersession and regeneration. `LookForCurrent`, `SelectEntries`, `InsertBatch`,
`InsertFails`, `Reread` are `generate_or_get_existing`; `CommitVoid` is `void_batch`;
`CommitSuperseded`, the generation, and `LinkReplacement` are the three commits of `regenerate_batch`;
`Reconcile` and `CommitExport` are `export_mapped_batch`. The partial unique index of the table is
`Unique`. A loaded batch is written back with its whole metadata, and its status when that changes.

### BrowserSession
`auth` is auth_sessions (a refresh marks a row used and adds the next), `jar` the cookie, `store` local storage, `tab`
the provider's state, `calls` the requests on their way, `shared` the refresh that `api/client.ts` lets
all requests of the tab wait for.

| Action | Code |
|---|---|
| `SignIn`, `LogOut`, `AskForPage`, `SelectClub`, `TokenEffect` | the provider's callbacks and its effect on the token (`session/session-provider.tsx`) |
| `Serve`, `ServeOwn`, `ServeShared` | the routes of `backend/app/api/routes/auth.py` and what guards the others (`auth/dependencies.py`), with the rotation of `services/auth_service.py:72-96` |
| `DeliverLogin`, ..., `DeliverShared` | the code after each `await` in the provider and in `api/client.ts` |
| `Errs`, `SharedErrs` | an answer other than the ones meant, 500 or 503, whether or not the server did what it was asked |
| `Lost`, `SharedLost` | a fetch that fails, on the way there or back: the cookie of the answer may have come or not |
| `ServeStray` | a refresh the tab has given up reaches the server after all |
| `Reload` | the tab is loaded anew: its requests are given up, storage and cookie stay |
| `AccessLapses`, `SessionEnds` | an access token runs out, a session expires or is revoked |

A refresh that is not answered with a token signs the tab out, whatever the status (`client.ts:129`); one whose fetch fails
signs nobody out but may have spent the cookie. `astray` remembers that this, or a reload over a refresh, has happened since the
last sign-in, and `tab.failed` that the last bootstrap was refused, answered with an error or lost: what
the properties except, because there the code does what section 6 says. `Settled` is an
assumption about the user: to sign in only when no request of the last user is on its way.

### Router
One variable `nav`: the address, who is signed in, with which club and bootstrap. `Menu`, `Landing`
and the rest of the bootstrap are `session_bootstrap_service.py` and `tenancy/service.py`; `Redirect` is the
guard (`components/protected-route.tsx`) or a page that redirects by itself; `Follow` and `Address` are a link
of the shell that is shown and an address typed. `Routes` are the pages, the old address of the club selection, and the addresses that only
redirect (`Forwarded`: `*` stands for any word that names no page), which the guard lets through first. The menu's entries, the sidebar's links and the
aliases are written out, because whether they agree is what the properties ask.

### SheetView, SheetDay, SheetDrawer
The live sheet (`pages/admin-golf-tee-sheet-page.tsx`). `SheetView` has the pure part: what
`optimisticallyMoveBooking` and the other functions of `sheet-shared.tsx` make of a cached day.
`SheetDay` has the query cache (`cached`), the poll (`fetch`), the requests with the day each remembers
(`asked`), and what the server has (`club`). `SheetDrawer` has the drawers and their drafts, the expanded booking,
the palette, filters and dialogs, and what late answers do to them.

### ParticipantSwap, TeeSheetPage
The Phase 10 sheet (`pages/admin-tee-sheet-page.tsx`). `ParticipantSwap` composes the drop handler, `use-move-participant.ts` and
`use-participant-swap.ts` with a server that moves players one by one and with others who book
meanwhile; `moves` are the requests with the grid each remembers, `swap` the reducer's state. `TeeSheetPage` is
what surrounds the grid, with the listeners to Escape as a sequence in the order they were added, and with the course and date that were asked for
when the selection and the popover got their row (`made`, history).

### GolfSettings, ClubsDesk, MembersDesk, CloseDay
Each is a page with its queries (`known`, `read`, `seen`, `shown`), its forms and its requests on their way, over the rows
of the server, which somebody else changes too.

* `GolfSettings`: `shelf` holds the rule sets and matrices, `snapshot` what
  the last publication replaced, `published` is history. The club is empty or has settings in force from before (`Founded`).
* `ClubsDesk`: choosing a club sets the route and awaits a bootstrap (`syncSelectedClub`), during which the guard shows "Loading session"
  in the page's place: form, dialogs, invitation and the page's view of its mutations are gone (`TornDown`, `Unwatched`), and `BootAnswer` mounts
  the page anew from the route and the cache (`Mounts`). Requests on their way go on and are answered wherever the page is by then.
  `cover` says whether the page is covered by that or left for another, `Renders` is what its effects make of each change of list,
  choice and details. `Underway`, the code's `isPending`, sees the latest request of a kind that *this* mount has sent. `posts` carry the club the form was filled for (`typedFor`, history).
* `MembersDesk`: a save is a record that goes from request to request (person, membership, account). The page sends a
  blank e-mail, phone or number as null, which the server skips (`Given`). `told` is the save last called a success, `foreign` counts what somebody else wrote.
* `CloseDay`: a mapped export is the server's steps: it reads the batch (`ExportReads`), maps it (`ExportMaps`), reconciles it with the
  ledger (`ExportReconciles`) and commits (`ExportCommits`); what is posted or voided in between meets them. `since` in a request is what
  the ledger had when it was sent, and `handed` what exports handed over: history.

### MCConsole
Ten pages with no shared state in one instance: `surface` says which page is used, the initial states hold for
all of them, and only the chosen one moves. The pages are checked in one run because each is small, and their
properties are stated of their own variables. Requests that two pages would send to the same rows are the
"somebody else" of each model.

### History variables
Many properties hold for requests that do not overlap, or that are not stopped half-way, and are
false otherwise. They are not run with a weaker model but with *history variables* that no action
reads: `raced`/`rushed` collect what two requests were at work on at the same time, `cut`/`halved` what a
request was stopped on between its commits. `PaidAsPosted`, for example, is about bookings
outside `raced` whatever happens to the others.

## 4. The runs

| Run | Instance | Shows |
|---|---|---|
| `teesheet_serial` | 1 worker, 3 bookings, 4 rows, 4 slots on 2 days, capacities 2 and 1, one slot closed | `SlotsRespected` (capacity, closed slots), `BookingsConsistent` (party size, primary player, log), day, limits and lifecycle through any sequence of requests |
| `teesheet_race` | 2 workers, 2 bookings of guests, 3 rows | the log ends in the status, completed was checked in, reserved never returns: under every interleaving |
| `teesheet_overbooked` | 2 workers, one slot of 2 | **violation** of `CapacityRespected`: two creates for the last place both commit |
| `finance` | 2 workers, 2 bookings, 2 accounts (one closed), 2 prices, 4 entries | `PaidAsPosted`, `EntriesAnswer`, `PaidUntilRefunded`: booking and ledger, with races and crashes |
| `orders` | 2 workers, 2 orders and a booking, 3 entries; the booking has no account, so its own requests are status changes (its money meets an order's in `order_unpaid`) | `OrdersSound`: orders, tenders, charges and payments, each once (`OnceEach`) and in agreement (`OrderAgrees`); `OrderFollowsLifecycle`: the commits are the steps of `OrderLifecycle` |
| `order_unpaid` | 1 worker, 1 order and its booking, 4 entries | **violation** of `RefundFollowsPayment`: paying the order lets the unpaid booking be refunded |
| `selection_patient` | 2 pages, 2 slots, 3 requests, TTL 2 | `ScreensAgree`, `LocksLive`: screens, locks and what is left behind |
| `selection_live` | 2 pages, 1 slot, overlapping requests, losses, leaving, crashes, fair | one lock per slot, every selected slot is settled, every abandoned lock decays |
| `selection_late` | 1 page, 2 slots, not patient | **violation** of `HeldIsLocked`: a late renewal is shown for the slot selected now |
| `exports` | 2 workers, 1 range, 2 batches, 2 entries | one batch in force; `ReplacementsAgree`, `PastIsKept`: what replacements name and what voided and replaced batches keep |
| `console` | ten pages, one at a time; the instance is below | the properties of the pages, listed below |
| `sidebar` | one member of staff, every module | **violation** of `SidebarOpens`: the link "Tee sheet" leads back to the dashboard |

Several properties are a conjunction of named parts (`BookingsConsistent == PartySizeIsRows /\ OnePrimary /\ ...`): the
parts are one question, and the run tells which part fails.

The properties of `console`, with what the instance has for each:

| Property | About | Instance |
|---|---|---|
| `CookieSpentOnce`, `WaitingIsAsking`, `SignedOutForAReason` | `BrowserSession` | 2 users of 2 clubs, 2 requests at once, 3 sessions issued, 1 mishap (a token that runs out, a session that ends, a loss, an error answer or a reload) |
| `GuardIsRight` | `Router`: one redirect later a page stays, and of an enabled module | every route, the redirect-only ones included; superadmin, staff, member here and admin there, nobody's member; a club with golf only and one with all |
| `NobodyTwice`, `SheetCatchesUp` | `SheetDay` | 2 days, 3 cells at 2 times, 2 bookings, 2 requests at once, 2 deeds |
| `PartySentIsItsOwn` | `SheetDrawer` | 2 bookings of one slot with parties of 1 and 4, 1 save |
| `SwapTells` | `ParticipantSwap` | 2 rows of 2 seats, a pair, a single, a passer-by, 3 moves |
| `PointsAtARow` | `TeeSheetPage`: a selection is a row that is shown, made on this course and date | 2 courses, 2 days, a tee time that is on both courses, answers with 0 to 3 rows, two of them barred |
| `OnlyPublishedInForce` | `GolfSettings` | a club set up before or empty, 2 rule sets, 2 matrices, 2 texts, 4 writes by 2 administrators |
| `DetailsStayWithTheirClub` | `ClubsDesk` | 2 clubs, one live, 2 requests, any number of selections and bootstraps |
| `SavesAreWholeAndTheirOwn` | `MembersDesk` | 1 member and a person to create, 2 texts, 1 code or number, 2 fields typed, 2 saves, 1 change elsewhere |
| `DriftIsNotExported` | `CloseDay`: with the steps of an export | 1 range, 2 batches, 1 profile, 4 requests or changes |
| `ConsoleTypeOK` | all; that Escape's listeners are those of what is open is the part that could be wrong | |

**Bounds.** Identifiers (bookings, rows, locks, batches, orders) are never reused by the database, so
their number bounds how many rows are ever made; three bookings allow a booking to be split and the
halves to meet a third one, two are enough for each pairwise race. `MaxEntries` bounds the ledger: four
entries are charge, payment, refund and one entry too many; three are a charge, a payment and a second
one of either. `MaxPosted` = 2 lets the ledger grow between a batch and its replacement.
`TTL` = 2 with `Threshold` = 1 has a lock that is fresh, due for renewal, and expired. Two workers show
every race of two requests; three do not fit and no service reads anything that would make a third
one matter to two others, except through the rows, which the three bookings of the serial run and
the proofs (any number of workers) cover. Symmetry is over identifiers and workers, and is left out
where liveness is checked. On the pages, two of everything let an answer for one meet the other. `MaxWrites` = 4 is enough to
save a second rule set or matrix next to the one in force, publish it, roll back to the first and go on from there; an empty club gets with it as far as a published rule
set. `MaxEvents` = 4 has an export asked for after a generation, with an entry posted or the batch voided and generated again before it is
checked or commits. One mishap is enough for each way to lose a refresh or a bootstrap; the proofs are for any number. `Mishaps`, `Signings`, `MaxTyped`, `MaxForeign`, `MaxDeeds`, `Late`, `MaxMoves`,
`MaxWrites`, `MaxPosts`, `MaxSubmits`, `MaxForeign`, `MaxEvents` and `MaxSaves` count what people do; a run that has used them up stops, which
is why `console` does not check for deadlock. All other runs do: on the server a worker can always take or give
up a request.

**Fairness.** `selection_live` and `console` need it. `FairSelectionSpec` assumes that a request is served or
fails in the end (the server answers every request and the browser's fetch ends), that callbacks of
answers run (`AnswerAcquire`, `AnswerRenew`, `Ignore`: the event loop), and that time passes. It does not
assume that an operator does anything, that a renewal is sent, or that a request succeeds.
`ConsoleSpec` assumes, for the live sheet only, that callbacks of answers run, that the interval of the
query fires (`hooks.ts`, thirty seconds) and its answer is taken, and, strongly, that a fetch asked for again and again is
served once in a while: it may be lost any number of times before.

**Mutants.** Each property has a mutant of the code, an operator defined next to the one it replaces,
with which TLC finds the property violated; PROJECT.json pairs them.

## 5. What is proved

For any number of workers, bookings, orders, rows, accounts, locks, batches and requests of a page (constants as the
assumptions `ConstantsOK`, `PartiesOK`, `FinanceConstantsOK`, `OrderConstantsOK`, `LocksConstantsOK`,
`SelectionConstantsOK`, `ExportConstantsOK`, `SettingsAssumption`, `DeskAssumption`, `CloseAssumption`, `MembersAssumption`, `SheetAssumption`,
`DrawerAssumption`, `PageAssumption`, `SwapAssumption`, `SessionAssumption`, `RouterAssumption` say, which TLC evaluates in the runs of those modules):

| Module | Theorem | Says |
|---|---|---|
| `TeeSheetProofs` | `TypeCorrect` | `TypeOK` |
| | `LogAgrees` | `LogEndsInStatus`: the log of a booking ends in its status, however commits interleave |
| | `DayKept`, `NotReopened` | `DayNeverChanges`, `NeverReservedAgain` |
| | `CompletedAfterCheckIn` | `CompletedWasCheckedIn`: no race of transitions and splits completes a round that was not checked in |
| `TeeSheetSerialProofs` | `SerialConsistent` | `BookingsConsistent`, when `OneAtATime`: size, rows, primary and lead of a booking agree |
| | `SerialSlots` | `SlotsRespected`, when `OneAtATime`: capacity in rows and in party sizes, and shut slots |
| | `SerialWithinLimit` | `CreateWithinLimit`, when `OneAtATime` |
| | `SerialLifecycle` | `FollowsLifecycle`, when `OneAtATime`: the tee sheet refines `BookingLifecycle` |
| `BookingFinanceProofs` | `FinanceTypeCorrect` | `FinanceTypeOK` |
| | `LedgerAnswers` | `EntriesAnswer`: payments offset charges and refunds follow payments, with any races and crashes, for bookings alone (with orders the second is false, see `order_unpaid`) |
| | `PaymentsOffsetCharges`, `RefundsFollowPayments` | its parts |
| | `UnpaidByRefundOnly` | `PaidUntilRefunded`: unless requests for it overlap, a booking stops being paid only once its refund is posted |
| | `PaidAsPostedAlways` | `PaidAsPosted`: unless requests for it overlap, a booking is charged and paid once at most; unless one was also cut short, its status is what the ledger says |
| `OrderFinanceProofs` | `OrderTypeCorrect` | `OrderTypeOK` |
| | `OrdersOnceEach` | `OnceEach`: no order has more payments than charges, whatever overlaps; one whose requests do not overlap is made once for its correlation id, charged once and paid once |
| | `OrdersAgree` | `OrderAgrees`: a charged order was collected, and its links, its tender and the ledger agree |
| | `OrdersAlwaysSound` | `OrdersSound`, which is both |
| | `OrderRefinesLifecycle` | `OrderFollowsLifecycle`: the orders refine `OrderLifecycle`, wherever requests stop |
| `TeeSheetLocksProofs` | `LocksTypeCorrect`, `OneLock` | `LocksTypeOK`, `OneLockPerSlot` |
| | `SerialLocksLive` | `LocksLive`, when `OneAtATime`; `SerialKeepsLocks`, `SerialNeverRevives` are its parts |
| | `SelectionTypeCorrect`, `SelectionOneLock` | `SelectionTypeOK`, `OneLockPerSlot`: the pages as clients, with losses, departures and crashes |
| | `SelectionLocksLive` | `LocksLive` of the pages, when `OneAtATime` |
| | `ScreensAlwaysAgree` | `ScreensAgree`, when operators wait and requests are served in step (`InStep`): screens and locks agree in both directions |
| `ExportBatchesProofs` | `ExportTypeCorrect`, `OneBatchInForce` | `ExportTypeOK`, `OneCurrent` |
| | `ReplacementsAlwaysAgree`, `PastIsAlwaysKept` | `ReplacementsAgree`, `PastIsKept`: a superseded batch has a replacement that names it, and nothing is forgotten, where requests did not overlap |
| `SheetProofs` | `SheetTypeCorrect`, `PageTypeCorrect` | `SheetTypeOK`, `PageTypeOK` |
| | `SwapTypeCorrect` | `SwapTypeOK`, when `Patient`: rows take whom they have room for, nobody loses a seat |
| | `NobodyEverTwice` | `NobodyTwice`: no cached day of the live sheet has a player twice |
| | `PartySentAlways`, `DrawerTypeCorrect` | `PartySentIsItsOwn`, `DeskTypeOK` (the drawer) |
| | `AlwaysPointsAtARow` | `PointsAtARow` (the Phase 10 page): rows shown, and of the course and date asked for |
| | `SwapAlwaysTells` | `SwapTells` (its swaps), when `Patient` |
| `ConsoleProofs` | `PublishedInForce` | `OnlyPublishedInForce` (golf settings) |
| | `DetailsStay` | `DetailsStayWithTheirClub` (clubs) |
| | `CloseTypeCorrect`, `DriftStaysInside` | `CloseTypeOK`, `DriftIsNotExported` (close day) |
| | `SavesAlwaysWhole` | `SavesAreWholeAndTheirOwn` (members) |
| | `CookiesSpentOnce`, `WaitingAlwaysAsks`, `SignedOutOnlyForAReason`, `SessionTypeCorrect` | `CookieSpentOnce`, `WaitingIsAsking`, `SignedOutForAReason`, `SessionTypeOK` (session), when `Settled` |
| | `GuardAlwaysRight` | `GuardIsRight` (routes) |
| | `GolfTypeCorrect`, `ClubsTypeCorrect`, `MembersTypeCorrect` | `GolfTypeOK`, `ClubsTypeOK`, `MembersTypeOK` |
| | `ConsoleTypeCorrect` | `ConsoleTypeOK`, when `Settled` and `Patient` |
| | `ConsoleSafe` | the other safety properties of the run `console`, of the browser as a whole, when `Settled` and `Patient` |

The theorems of a module are drawn from one inductive invariant, in `ConsoleProofs` and `SheetProofs` from one for each
page (the pages share no state), and from a second one where a property holds of requests that do not overlap, or where the types of a page need more than its properties do. What is needed beyond the
properties is always *what a request in progress may rely on*:

* `IInv` (tee sheet): types, that the booking of a job exists and keeps its identity (`JobsKnown`), and
  that a booking without a log was made by a split (`LogOfMade`). Day and status of a booking follow
  because a job's target day is the day of the booking it loaded, which no other request changes.
  `RoundInv` adds what a transition may rely on for `CompletedWasCheckedIn`: while the log of its booking is
  empty, which only the copy a split makes can be, the status it loaded is still the booking's.
* `SerialInv`, `AllChecked` (tee sheet, served one at a time): what a request loaded is still what is committed (`Fresh`), a
  participant that is not deleted belongs to a booking there is (`RowsOfMade`, or a new booking could inherit rows), and every booking agrees
  with its rows (`AllAgree`); and what the availability check found is still so at the commit (`Checked`). Both fall as soon as two requests overlap,
  which the other runs of `MCTeeSheet` are there for (section 4): `OneAtATime` is a hypothesis on the behaviour, not on
  the constants, and every behaviour with one worker satisfies it. The sum of party sizes is shown to be the number of rows
  (`SizesAddUp`) by least counterexample over the size of the set of bookings, which needs no induction principle with a parameter.
* `LedgerInv`: a request that is about to post a payment or a refund has its charge in the ledger with
  the account and amount it will use (`RequestsBacked`), and a booking that is paid, or was when a refund
  request loaded it, has a payment in the ledger (`PaidIsPosted`). The ledger only grows, so what backed
  a request when it looked still backs it when it posts. `AloneInv` is for `PaidUntilRefunded`: one request at most is
  at work on a booking that was never raced for, so the status it loaded is the one there is. `MoneyInv` is for `PaidAsPosted`: an entry is there once,
  it is not there while a request is about to post it, and between the two commits of a request the status it will set is what the ledger already says.
* `ClubInv` (orders, over the same ledger as bookings): payments of an order stay within its charges that have a tender, and
  a request about to post one has its charge and account in hand; a request of a booking leaves the entries of orders alone, and
  the other way round (`BookingsOnly`). `CounterInv` adds, for orders of which one request is at work at a time, that the request is *alone at the counter*: what it
  loaded is what is stored, and the order links its own entries and no others. `LifeInv` is for the refinement: a charge that has a tender is the one
  the order is linked to, so that a charge posted again after a stop finds the bill open, and only an order there is can have had two requests at work.
* `LocksInv`: an acquire is for a slot (`SlotsAsked`), and, served one at a time, what a request has
  read is still true when it writes (`Undisturbed`). A step of a page changes no lock and no request that is being served (`ClientStep`), so
  what holds of the locks with any clients holds of them with these (`SelectionInv`).
* `AgreeInv` (selection) is one invariant for each page (`PageRight`) and two for the server. Of a page: what is in its line is releases and
  the one request it waits for (`LineRight`); an acquire that is awaited is the last of the line (`AwaitedRight`), so that when its turn comes the
  releases before it are done and no lock of its own is in the way; every copy of a lock, on the screen or in an answer, is of a lock of this operator
  for the slot selected, lasts no longer than the lock, and has no release under way (`Theirs`); and a live lock is on its holder's screen, in the answer
  to its acquire, or in a release (`NoneLeft`). Of the server: what it read is still so (`WorkRight`), and nothing is of somebody
  without a page (`Known`). A step concerns one page; that it leaves the others right is one lemma (`PageKept`), for which an id must not be
  given again while a request or a screen remembers it. The hypotheses are those of the run `selection_patient` (`InStep`: `OneAtATime`, `Ordered`, `Patient`, no losses, no
  departures, one page per operator); without `Patient`, `HeldIsLocked` is false of the code, as `selection_late` shows.
* `ExportInv`: the batches a request has in hand exist, and those it will change are of its range
  (`RequestsKnown`), because no batch disappears or changes its range. Each commit that could
  make a batch current again meets the index. `RightInv` adds, for ranges without overlaps, that what a request
  loaded is still stored (`JobRight`), that between the commits of a regeneration no batch of the range is current, and that a superseded
  batch has its replacement or a request at work that will link it (`Followed`).

* `InForceInv` (golf settings): a snapshot holds a published text of a record of its own kind (`Sourced`), which is
  what makes a rollback put a published text in force; and one of a kind is in force at most, which is what
  makes "what was in force" one record to remember. Rule sets and matrices being disjoint is
  needed, or a publication of one kind would switch off the other.
* `DeskInv` (clubs): the effect that fills the form runs with every change of the choice or of what is read, and when the page is mounted
  (`BootAnswer`, `ReturnToPage`), so that the form can be another club's only while no details are shown, when nothing can be saved; a request keeps
  the form it was sent with.
* `MembersInv` (members): a save keeps the form and the person it was started with, asks for each of its requests only after
  those before it were stored, and unless somebody else wrote since it began the person still has what it stored (`SaveUnderWay`). Nobody is taken
  off the books, and codes and numbers stay apart (`OneCodeEach`).
* `SheetInv` (live sheet): not only the cached days but every copy of a day there is, remembered by a request that may put it back or on
  its way from the server, has one party per id and nobody under two ids (`DayFine`). That a drop keeps this rests on ids: the page gives a player
  it splits off the id of the booking and the player, the server one more mark (`IdFits`), so that neither is the id of another booking; and
  the server's bookings stay apart (`HeldFine`). That nobody is booked twice on a day *at the start* is a hypothesis (`SheetAssumption`): the server
  refuses a person twice in one booking only (`services/booking_participant_resolver.py:57`).
* `DrawerInv` (drawer): the party draft changes in the step that changes the booking that is edited, so a request carries its own booking's party;
  the dialogs exclude each other, so a batch runs under its dialog.
* `PageInv` (Phase 10 page): an answer clears what it has no row for in the step that brings it, what the three listeners to Escape do in a
  row only drops something, and what is opened is taken from the rows shown. `Marked`: a change of course or
  date drops selection and popover in the same step (`Elsewhere`), so what is selected was selected on the course and date asked for now.
* `SwapInv` (swap): with `Patient`, one move at most is on its way (`MoveRight`), and for each of the three kinds of move what is known of the two
  people at the server before and after its answer (`FirstRight`, `SecondRight`, `RestoreRight`): while the first is out both sit where they sat; from
  its success on the first sits in the other's row and the other has not moved. A swap half done and waiting says the same (`SwapAtRest`). It needs
  that nobody is in two bookings (`PlayersApart`), or a move could take away a seat of somebody else, and that whoever the grid shows is booked
  (`KnownDay`), also in the day a request remembers. The property is said of two different people (`OfTwo`, section 6).
* `SessInv` (session): a session that lives has not been replaced (`AuthRight`), tab and storage agree on the token (`TabRight`), a
  request that waits has a refresh to wait for (`CallRight`), a sign-in is the only request there is (`LoginAlone`, which is `Settled`). As long as
  no refresh went astray there is more (`Calm`, `SharedCalm`): the cookie in the jar is unspent, by the server's books and by what it may still get of
  refreshes given up (`Unspent`), except while the shared refresh that was sent with it is on its way or its answer is not taken; a request that was sent again carries a
  token that has not run out; and the provider refreshes by itself only after the shared refresh was refused, so that its own is refused too (`OwnRefused`). Once
  one went astray none of that is left, and a sign-in begins anew.
* `RouterInv` (routes): landing page and menu of the bootstrap are those of its shell and club (`BootRight`), and a tab that was redirected once is at rest.
  A second redirect is only that of somebody signed out from the new
  address of the club selection. The rest is about paths: where a redirect leads is not redirected (`LeadsSettles`), and the module a path needs is told by its second or third word
  (`ItemsTell`), so that the entries that cover one path, among them one that the menu lists, need the same module (`CoversSame`, `ListedIsEnabled`).
* `CloseInv` (close day): a request names a batch that exists; an export that has read its batch has that batch's rows and range, and
  once it has reconciled, no fewer rows than the ledger had when it was asked for (`Exporting`); batches keep their rows and the ledger its entries
  (`BatchesKept`), so this stays true whatever commits in between; and a range has one batch in force because a replacement comes with the void of what it
  replaces and a commit that brings a batch back meets the index. What the page has cached does not occur in it.

* Types. Those of the drawer, close day, members and session come with the invariants above; four pages need more. `SheetTypes`: no party on any copy
  of a day is empty, which rests on the bookings (a booking has a party of one at least, `models/booking.py:29`) and on a drag that takes a player off
  leaving somebody there. `Fine`, `ActsRight` (Phase 10 page): a panel is open exactly while its listener for Escape is on the page, and there is one listener each
  (`Layered`), so that opening and closing add and remove one. `SwapTypes`: rows hold whom they have room for and the people booked are
  those who were, because a move is counted against the row it goes to before anybody sits there; a request that was let
  through brings a booking. It needs that ids of bookings are sequences of marks, so that the id the page makes up is one, and that no row begins over-full
  (`SwapAssumption`). `GolfInv`: a form was read from a record of its kind or is new, and the writes that are out are within
  the bound. `RequestOK` (clubs): a request carries what its kind carries, so that a club is written with details and at one of its four steps. `RouterTypes`: landing
  pages and menus are pages there are.
* The browser (`ConsoleProofs`, last section): a step of `ConsoleNext` is a step of the page that is used and a stutter of the nine others (`OnePage`), from which
  the lemma `PagesKeepApart` has every page's own specification, the live sheet's without its fairness: a matter of how `MCConsole` is put together, not of the code. `ConsoleTypeCorrect` and `ConsoleSafe` are the pages'
  theorems put together by it. Their hypotheses `Settled` and `Patient` are constants of the model and TRUE in the run `console`; without them
  `SignedOutForAReason` and `SwapTells` are false of the code (section 6).

**Only model-checked.** Every safety property of a passing run, its invariants and its action properties alike, has its theorem. Liveness (`SelectionSettles`,
`AbandonedDecays`, `SheetCatchesUp`) is beyond the prover and left to TLC. The properties of the runs that expect a violation are false of the code.

## 6. Where the code departs from what one would expect

Four departures contradict a line of the repository and have a run each (section 4). The others were met
while modelling; the models do what the code does, and the properties are stated so that they hold:

* A cancellation that was decided before a check-in and commits after it turns a checked-in booking
  into a cancelled one (`services/booking_cancellation_service.py:81` against its message at `:72`).
* A move accepts a tee of another course and then finds no slot state, so neither flags nor capacity
  apply there (`services/booking_move_service.py:161`).
* A split gives the new booking 18 holes (`:382`), and copies payment_status (`:400`), so a paid
  booking becomes two paid ones of which one has no payment; it writes no event for the new one (`:328`).
* Ledger and booking are marked in two commits (`services/booking_finance_service.py:446`); a crash between them
  leaves a paid booking pending, and a refund of any amount is let through (`:577-580`).
* Two post-charges of an order that overlap, or a retry after a crash, charge twice
  (`services/order_finance_posting_service.py:53`, `:138`); charging an order sets its booking back
  to pending, paid or not (`:155`).
* Two creates with one correlation id that overlap make two orders (`services/order_service.py:92`); a cancel
  that overlaps with another transition cancels an order in preparation (`:319`).
* An acquire deletes by id the expired lock it read, also when it was renewed in between
  (`services/tee_sheet_lock_service.py:83`), and a release and that delete both log a release (`:217`).
* Selecting on before an acquire is answered leaves its lock to expire (`tee-sheet/use-selection-lock.ts:111`).
  `docs/PRODUCT.md:81` speaks of a hold of five minutes; the service gives 60 seconds.
* An export that loaded a batch before it was voided commits over the void and brings the batch back
  (`services/finance/accounting_profile_mapping_service.py:318`); requests on one batch that overlap lose each
  other's metadata (`services/finance/export_batch_service.py:315`); the link from a superseded batch to its replacement
  is put into a dict the session takes for unchanged and is not stored (`:359`); a stop after `:341`
  leaves the range without a batch.
* *Live sheet:* a refused move puts the remembered day back without reading it again, and under the date shown now
  (`pages/admin-golf-tee-sheet-page.tsx:1307`, `:1327`); a move that succeeds closes a drawer opened meanwhile (`:1316`), a save
  reopens the one of its booking. A player dropped on the timeline moves the whole party.
* *Swap:* a second drop while a swap is on its way leaves half a swap and says nothing
  (`tee-sheet/use-participant-swap.ts:177`; assumed away by `Patient`); the optimistic move changes the first cached
  day of that date, whatever its course (`tee-sheet/use-move-participant.ts:179`), and adds the player to the target row without looking whether a
  stale grid draws them in a third (`:281`): one person may then be drawn twice, and swapped with themselves, after which the page tells of a
  swap that was none. `SwapTells` is about two people; the proof met this, the bounds of the run are too small to.
* *Settings:* saving a draft that was published meanwhile takes it out of force, and the answer of a save blanks what
  has been typed since (`pages/admin-golf-settings-page.tsx:648`).
* *Clubs:* details read again wipe what is typed (`pages/superadmin-clubs-page.tsx:182`); a deletion that is
  answered late moves the page away from the club chosen since. Choosing a club loads the session (`session/session-provider.tsx:180`), for which the guard
  takes the page away (`components/protected-route.tsx:21`): a save under way no longer holds up another when the page is back.
* *Members:* a create that fails after its first request and is tried again makes a second person
  (`pages/admin-members-page.tsx:839`); an e-mail, phone or number that is blanked is sent as null, which the server skips
  (`services/people_service.py:87-92`, `:280`), and the page says "Member updated." all the same; a late success closes whichever editor is open (`:877`).
* *Close day:* a reconciliation that was not read counts as no drift (`pages/admin-finance-page.tsx:135`), and
  exceptions do not hold the wizard up.
* *Close day, server:* what is posted or voided between an export's check and its commit is not looked at again
  (`services/finance/accounting_profile_mapping_service.py:286-341`): a batch voided there comes back, unless the range has another one by then.
* *Session:* a refresh whose answer is lost, or during which the tab is reloaded, may leave the cookie it has spent, and the next refresh is refused
  (`src/frontend/src/api/client.ts:122`, `services/auth_service.py:72-96`). Any answer to the shared refresh but a token signs the tab out, a 500 too, while the server knows the
  session (`client.ts:129`), and the provider then refreshes beside it. A bootstrap that fails for another reason than 401 leaves "Loading session" until the tab is
  loaded anew (`session/session-provider.tsx:53-72`, `components/protected-route.tsx:21`). The properties except these with `astray` and `tab.failed`.
* *Session:* a refusal that was meant for the last user ends the session of the next
  (`src/frontend/src/session/session-provider.tsx:168`; assumed away by `Settled`).
* *Routes:* whoever is signed out and comes by the old address of the club selection is redirected twice (`routes/router.tsx:55`).

## 7. Abstractions to know about

* Tee sheet: the order of players within a party is not modelled, so any staying player may become
  primary after a split. The instances have one course and no line without a tee; proofs cover both.
* Finance: prices are a small set; the charge's price is any of them.
* Locks: clocks of servers and browsers run in step; the audit events of locks are left out.
* Selection: one page per operator; a request that is answered leaves its place in line.
* Export: the profile of a batch is part of its range; the reasons to refuse a profile are `Refuse`.
* Pages: texts are a small set; layout, wording, scrolling and formatting are left out. A request of a page is served whole, but for
  a mapped export (`CloseDay`); in
  `GolfSettings` this hides that saving an active rule set is two commits (`backend/app/api/routes/rules.py:255`) and that two
  publications may both find the other's record in force (`services/golf_settings_service.py:91`). Pages are used one at a time, in one tab.
* Session: everybody has one active membership; the client's second try under the other name of a local host (`src/frontend/src/api/client.ts:96`) is a
  matter of development and left out.
* Phase 10 sheet: while the first answer is awaited the grid draws placeholder rows (`tee-sheet/hooks.ts:99`); a selection made on one counts as made on the course and
  date asked for.
* Record fields are written in one fixed order in every constructor; TLC normalises records in place and
  with two workers this saves it from doing so at the same time.

## 8. Not modelled

* **Point of sale** (`services/pos_service.py`): a sale on account is the ledger's commit, the sale's and the event's, the hazard
  `OrderFinance` has for the charge of an order; cash and card sales are one commit.
* **A split of a paid booking** (`services/booking_move_service.py:400`) needs `TeeSheet` and `BookingFinance` in one state space, which TLC
  does not finish on an instance that can split.
* **Two commits of a rule set's save, two publications at once**: `GolfSettings` would need its server's reads and commits
  apart, as in `ExportBatches`.
* **Two tabs on one cookie**: `BrowserSession` has one tab; the server accepts two refreshes with one token
  when they overlap (`services/auth_service.py:95`).
* **Walk-in and waiting list** on the Phase 10 sheet are stubs in the source. **Player pages, communications, reports,
  targets, templates, bulk intake**: reads, or forms with one request and one commit.
* **Rule evaluation and prices**: pure functions over rule rows; the models take their verdict.
