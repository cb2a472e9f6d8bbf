# Budget Book in TLA+

Budget Book is a single-user household budget: a Go server over one SQLite file,
with a scheduler that books recurring templates by itself. This directory holds
its specification: TLA+ modules translated from `src/`, TLC configurations that
check them on small instances, and theorems about them with proofs for TLAPS.

## The system

One process, one SQLite file. The process holds an HTTP server, whose handlers
run concurrently, and the scheduler's goroutine. All of them share one
`database.Store` with a single connection (`SetMaxOpenConns(1)`,
`database.go:37`): a statement is atomic, and so is a database transaction,
which holds the connection until it ends. What is *not* atomic is any operation
that takes several statements without a transaction, and any that goes on
working with rows it read earlier.

| Component | State | Operations | Talks to |
|---|---|---|---|
| Due dates (`recurring.go` `Advance`) | none | one interval further | Go's `time` |
| Recurring templates (`database/recurring.go`, `handlers/recurring.go`) | `recurring_templates`, and rows of `transactions` | create, update, delete, extra payment, book an occurrence, list due ones, forecast | categories, accounts (foreign keys) |
| Scheduler (`scheduler.go`, `ProcessDueRecurringTemplates`) | the copies of the templates a pass still holds, the ticker | pass at start and at every tick | store; ended by the process |
| Process (`main.go`) | running or not | open the file, start the scheduler, serve, shut down | all |
| Categories, accounts | two tables with positions | create, update, delete, list, balances | transactions and templates refer to them |
| Transactions | a table | create, update, delete, list, month sums | categories, accounts |
| Overview, month (handlers) | none | several reads, combined | store |
| Schema and seeding (`migrate`, `seedDefaultCategories`) | the file's tables and columns | statements, one by one, at every start | store |
| Sessions, login limiter (`auth`, `handlers.go`) | signed cookie, kept by the browser; attempts per address, kept in memory | allow, check, record or reset; log out | password check |
| Browser page (`static/app.js`) | the answers it last loaded, the form or dialog that is open | settings of templates, month navigation, dialog for a booking | HTTP API |

What is hard in it:

- **A pass works on copies.** It lists the due templates once and books every
  missed occurrence from those copies. Each booking is a database transaction,
  but between two of them the user may edit, pay off or delete the template.
- **Failure and restart.** A pass may fail at any call or be cut off by an exit
  (shutdown does not wait for it). What it has booked stays; the rest has to
  come with the next tick or the next start, and nothing may come twice.
- **Money.** Extra payments drop installments from the end of the plan and leave
  a remainder as credit; catch-ups, edits and payments come in any order.
- **Dates.** `AddDate` carries days a month does not have into the next one. The
  query compares with the local date, the loop with the instant, against a
  midnight in UTC.
- **Opening a file.** The statements of `migrate` and the inserted default
  categories are committed one by one; the process may exit between any two.
- **Read, then write.** A new account's position is read and then inserted.
- **Several reads, one page.** The overview is put together from queries a
  booking can come between; the settings page writes back what it loaded.
- **Requests under way.** The page sends requests without waiting for those
  before; answers come in any order, late, or not at all, and the session may end
  in between.
- **Ask, check, then tell.** The limiter counts a failed login after the password
  check, which takes long; others are admitted meanwhile.

For each component the properties that make it correct: due dates move forward,
by the interval, without drift; an occurrence is booked exactly once, not before
its day, and in the end; a plan costs what was agreed; a finished plan is
inactive; foreign keys hold; a file can always be opened again and loses no row;
lists keep their order; the sums shown agree; the page's figures are those of
the month it names, and an entry is not lost; failed logins are bounded, and
nobody is locked out without cause or for good. `PROJECT.json` lists the hazards
line by line, each with the properties that would notice it going wrong.

## The modules

    Calendar ── DueDates ── MCDueDates
       │  └──── Ledger ──── MCLedger
    RecurringTemplate           Migration
       │
    RecurringStore              Session ── BrowserPage ── MCBrowser
       │
    Scheduler ── SchedulerInvariant ─┬─ MCScheduler ─┐
       ├─────── SchedulerContract ───┘               │
       │           ┆ INSTANCE ... WITH               │
       │        PlanContract                         │
       └─────── SettingsPage ── Overview ────────────┴─ MCOverview

Each line is an `EXTENDS`. `DueDatesProofs`, `LedgerProofs` and `MigrationProofs`
hold the proofs about the module they are named after, `RecurringStoreProofs`
those about RecurringTemplate and RecurringStore, `SchedulerProofs` those about
Scheduler and SchedulerContract, `OverviewProofs` those about SettingsPage and
Overview, `BrowserProofs` those about Session and BrowserPage. `BasicLemmas` holds
what several of them rest on: dates and their order, induction, sums. Operators
commented *Mistake* are no part of the model: each is a definition as a plausible
bug would have it, and `PROJECT.json` names the property that notices it.

**Calendar.** Dates as numbers yyyymmdd, in the order of the ISO text SQL
compares. `AddDate` is Go's, with its normalisation; `NextDueDate` is
`RecurringTemplate.Advance`. One carry is enough for the steps the program takes
(at most 7 days, a month or a year); a carry of `AddDate` over more than one
month is not modelled.

**DueDates.** The chain of due dates of one template: the loop that books, or
forecasts, and steps `NextDueDate` on. The properties compare it with days
counted one by one.

**RecurringTemplate.** A row and the pure functions over it: what a request must
satisfy (`Accepted` is `parse`), outstanding and next amount, and the row after
an edit, a booking and an extra payment. `remaining_count` is NULL where
`limited` is FALSE. `RowAfterBooking(row, rt)` keeps apart what the two UPDATEs
take from the row as it is and what from the copy.

**RecurringStore.** The tables and the atomic operations over them, foreign keys
included. A refused or rolled-back operation changes nothing and is disabled.

**Scheduler.** The pass (`List`, `Book`, `PassFails`), the process (`Start`,
`Exit`, the ticker with its one-place channel), the clock, and the user's
requests. Variables and code:

| Variable | Code |
|---|---|
| `phase` | where `Run` stands: waiting in the `select`, before the query, in the loop; `down` without a process |
| `asOf` | the argument of `ProcessDueRecurringTemplates`, as its local and its UTC date |
| `pending`, `current` | the slice of copies still to be booked, the one the inner loop is at |
| `ticker` | `time.NewTicker`'s channel; "none" until the first pass is over |
| `paid`, `agreed`, `raced`, `rewound` | history, read by properties only |

The loop and the query decide differently what is due: the query by the local
date, the loop by the instant against midnight in UTC. `UtcShifts` lets the two
dates differ by a day either way.

**PlanContract, SchedulerContract.** What the tables, passes, copies and failures
are for, said without them: a plan has a date it is due on and a sum it owes, the
journal of bookings only grows, and an entry and what it takes off its plan are
one step. SchedulerContract reads the contract's state off the tables:

| PlanContract | Scheduler |
|---|---|
| `due` | `nextDue` of the rows |
| `owed` | `OutstandingCents` of a limited row with installments left, 0 of a finished one, `Endless` of an unlimited one |
| `journal` | `transactions` |
| `disputed` | `raced`: the rows a request wrote while a pass held a copy, until they are edited again |

`List`, the end and the failure of a pass, the process and the clock are stutters.
An edit is a step `Agree`, a booking from a fresh copy `Book`, one from a copy the
user has overwritten `BookDisputed`; the latter may change the terms of its own
plan and of no other.

**SettingsPage.** The settings of recurring templates in `app.js`, composed with
Scheduler: it takes the place of the user who sends arbitrary requests.

| Variable | Code |
|---|---|
| `listed` | the templates `loadRecurringSettings` last loaded, in the closures of the list's buttons |
| `checked` | the boxes of the list as they stand on the screen |
| `form` | the edit form: the id and the template it was filled from |
| `setBack` | history, read by properties only: the templates for which a due date was sent that is not the row's |

Every request of the page that edits a template sends the whole of it. `Body` is
a template sent from the list, `FormBody` one the user opened and saved without
touching a field; a last installment comes up as a single booking, and goes back
as a monthly plan of one. A toggle does not load the list again, other changes do.

**Overview.** SettingsPage, and with it Scheduler, composed with the handler
`GetOverview`: its four reads are
steps of their own, between any two of which a pass may book and the user may
write. A sum or a list is represented by the number of bookings it was made of
(bookings are only appended in Scheduler), the forecast by its occurrences.
`page` is what has been read, `touched` (history) the templates the user has
written since. `ListCategories` and `ListAccounts` at the end look up names only.

**Migration.** `database.Open` statement by statement on a new file, on one of
this release, or on one of the two before it (without `credit_cents`, without
both added columns), with exits in between, and the user's writes while it
serves. `columnExists` and the `ALTER TABLE` after it are one step, since nobody
else has the file open.

**Ledger.** Accounts, categories and bookings under concurrent handlers. Creation
is its two statements, `ReadPosition` and `InsertRow`; balances and month sums
are the queries' sums.

**Session.** `POST /login` and the limiter. `Allow` is what comes before the
password check, `RecordFailure`, `BadForm` and `LogIn` what comes after it;
`checking` counts the logins in between, `attempts` are the limiter's records,
`session` is the cookie. Whether a password is right is a choice of the model.
Time is counted in ticks. `failures` (history) sorts failed logins by age, and
`overlap` (history) is the most logins of an address that were under way at once.

**BrowserPage.** Session composed with a tab of the browser: the month view, the
dialog for a booking, other tabs that log in and out, and restarts of the process.

| Variable | Code |
|---|---|
| `month` | `state.month`, which the label names |
| `figures` | the month whose sums were put on the page last |
| `dialog` | the entry in the dialog, numbered; those in the constant `Stored` are bookings of the list, opened to be edited or deleted |
| `requests` | the promises of `api()` not settled: what for, the cookie sent along, the answer once there is one |
| `settled`, `alone`, `first`, `shifts`, `latest` | history, read by properties only |

A request is sent, served and answered in three steps, each in any order with those
of the other requests. An error is an answer, as is a lost connection, or a 401:
`api()` treats them all alike. `Index` opens the page anew, which takes a session.

## The runs

| Run | Question | Expected |
|---|---|---|
| `due_dates` | valid dates, weekly steps of seven days, monthly and yearly ones late by the missing days only, no drift up to the 28th | holds |
| `due_dates_everymonth` | a monthly template is due in every month | violated: 31 January + 1 month is 3 March |
| `scheduler` | booked once, never early, never lost, and in the end; plans add up; active plans have installments; credit below an installment; nothing dangles; the inductive invariant; PlanContract is implemented | holds |
| `scheduler_overpaid` | a plan never costs more than agreed | violated: a payment during a catch-up |
| `overview` | what a page shows as pending is in none of its sums and not in its list; a forecast comes true for templates left alone; beside the settings page, an occurrence comes twice only where the page set a due date back, and an up-to-date template written back keeps what the user did not touch | holds |
| `migration` | whole schema when serving, no row lost or changed, defaults only into an empty table and in order, always opened in the end | holds |
| `migration_seeding` | all defaults after a first run | violated: an exit while seeding |
| `ledger` | lists keep the order of requests; total = accounts = months | holds |
| `ledger_order` | a new row is placed after all others | violated: overtaken creation |
| `browser` | failed logins stay within two records' worth, nobody is refused without cause or for good; the label follows the clicks; the figures are the label's from the last answer until one to an older request comes; an entry begun with nothing under way is not lost | holds |
| `browser_limit` | no window sees more failed logins than the limit | violated: the first failure of a record ages, and takes the others with it |
| `browser_overtaken` | after the last answer the figures are the label's | violated: an answer to an older request comes after it |

**Bounds.**
`due_dates` starts from every date of the winter 2023/24 and goes on for 80
years: every combination of month length and leap year after every first day,
2100 included. `scheduler` has two templates (two, so that one can fail or be
edited while another waits), three requests of the user (create, then two that
interleave with the pass), one fault (a failure, or an exit, anywhere in a pass,
and what has to come after it), and days such that a template misses two
occurrences at once; requests include a plan due on 31 January, a weekly plan, an
endless template and two that must be refused; extra payments of 1 and 5 cover a
remainder and more than one installment, and two of them accumulate credit.
Two different categories
would only double the state: deleting the only one already leaves copies that
refer to nothing. `overview` has one template, since a page says of each what it says of it alone;
its days end in a month of 28 days and in one of 31, its requests and extra
payments reach a last installment reduced by a credit, and three requests are
enough to create a plan, load it, let a pass book, and write the old list back.
`browser` opens the page in December, so that the one click either way it has
crosses the turn of the year and comes back; two requests under way are answered in
either order, and two entries let the answer for one find the other in the dialog;
one of them can be deleted from the dialog. Two logins at once against a limit of
one overlap on both sides of it, and with a window of one tick a record expires
while a password is being checked. `browser_limit` has the program's limit of 5 and
logins one after another only; `browser_overtaken` leaves out the dialog. The limits
are parameters; the program's are 5 attempts, 15 minutes, 7 days. `Migration.cfg`
allows three exits, so that an exit can follow one, and the four edits needed to
empty a seeded table of three and write into it. `Ledger.cfg` has two clients and five writes: an order of requests is spoilt
by three, with a deletion in between by four; amounts and dates are on both sides
of what is valid and of the ends of a month and a year. A creation
counts when it reads its position and not again when it inserts, so that every
one that has begun can end.

`CHECK_DEADLOCK FALSE` is set where the model may really stop: past the horizon,
after the last of the bounded requests, and with an idle server. The scheduler's
runs have none to allow: the ticker goes on.

**Fairness.** `scheduler`, for `OverdueIsBooked`: weak fairness of the pass (a
goroutine goes on), of the ticker and its reception (the `select` has nothing else
to wait for), and of the start: the deployment keeps one replica running (`replicaCount: 1`,
`helm/budget-book/values.yaml`) and starts it again after an exit. Nothing is
assumed of the user or of the clock. Faults are bounded: under unbounded ones
nothing could be promised. `migration`: weak fairness of `Opening`, for the same
reason; none of the user's steps. `browser`: weak fairness of `TimePasses`, which is
the clock; no answer needs to come and no login to end.

## Where code and docs disagree

1. **Monthly is not every month** (`recurring.go:70`). Entered for the 29th, 30th
   or 31st, a template skips a short month and then keeps the day it was carried
   to.
2. **An extra payment during a catch-up is ignored by it** (`recurring.go:220`).
   The pass books the installments the payment dropped; more is booked than was
   agreed, and `remaining_count` may become negative.
3. **Seeding is not finished after an exit** (`categories.go:56`). Some defaults
   are there, so the next start seeds none.
4. **A new account need not be last** (`accounts.go:98`). Its position is read
   before two other creations and inserted after them. What does hold is
   `ListedInOrderOfRequests`: it is after all that were there when it was asked
   for.
5. **The login limit is not one per 15 minutes** (`handlers.go:225`). A record is
   given up as a whole once its *first* failure is older than the window, so one
   client, logging in once at a time, can fail 9 times within 15 minutes: 4 times
   just before the record expires and 5 times after it. The count is also read
   before the password check and raised after it, so that all attempts under way at
   once are let in by the same count, and nothing in the code limits how many those
   are. What does hold is `FailuresBounded`, which depends on how many did overlap.
   Nor is it always per client: without a proxy's header, `clientIP`
   (`handlers.go:192`) returns the address with its port, another one for every
   connection; `Addresses` are what `clientIP` returns.
6. **The month view may show another month's figures** (`app.js:215`). An answer to
   an older request that arrives last is put on the page, under the label of the
   month asked for since. Where answers come in the order of the requests the
   figures are always the label's (`FiguresAreLabels`).

One more that no run is about: a finished plan reports a negative
`outstandingCents` where its last installment was reduced by a credit, since the
booking leaves the credit in the row (`recurring.go:255`).

The properties that hold are stated around these: `PlanConserved` and
`NoOccurrenceLost` are about templates no request wrote while a pass held a copy
(`raced`), `BookedOnce` about those whose due date was not set back to a day
already booked (`rewound`), `FiguresOfLabel` about figures no older answer has
overtaken, `EntryKeptUntilSettled` about entries begun with nothing under way. What
these leave out does happen: an edit under a pass loses its due date to the booking,
a template set back is booked again, an answer that comes late closes the dialog of
another entry.

## The proofs

Every safety property and every action property the passing runs check is also a
theorem. The theorems hold for any sets of categories, accounts, requests, days,
rows and values, and any bounds, from the named `ASSUME`s of the modules; where a
theorem needs more of a constant, its `ASSUME` says so. Hardly any of the
properties is inductive alone; what is added, and why, is said with each.

**Dates** (`BasicLemmas`). `NextDueDateForward`: every interval leads from a date
to a later date. Beside it the order of dates, year by month by day, and that a
shift by a day keeps it (`DayShiftMonotone`), by going through the ends of months
and years.

**Due dates.** `DueDatesAreDates`, `DatesNeverDrift` (through `KeepsPlace`: where a
place in the month exists everywhere, a step keeps it), `WeeksAreSevenDays` and
`LateByWhatIsMissing`. The last two compare a step with a calendar that counts
days and months one by one and knows nothing of carrying: `CarryLands` says where
a carried day falls, `YearLength` and `MonthLength` how long the reference's years
and months are, leap centuries included.

**Scheduler.** One theorem per property: `SchedulerTypes`,
`ActivePlansHaveInstallments`, `CreditsBelowInstallment`, `ReferencesKept`,
`BookedOnceAlways`, `PlanAddsUp`, `NothingLost`, `BookedInTime`, and
`CopiesAndBookings` for what they rest on. A booking from a copy could do anything
to the row if nothing were known about the copy. `SchedulerInvariant` supplies it:
`CopiesFresh` (a copy has an installment to book, and is the row unless the user
wrote the row meanwhile), `BookedBeforeDue` (what was booked for a template is
dated before its due date, and before its copy's, so the next booking is a new
date), `UnpaidBeforeCreation` (a new template starts with nothing booked) and
`PassInTime` (the instant of a pass is not ahead of the clock and no copy is due
after it; as the clock moves on, a shifted date moves on with it).
`InductiveInvariant` is checked by the run `scheduler` and proved together with
the rest. A step of the pass on row and copy alike is dealt with by the lemmas of
`RecurringStoreProofs`: a booking from a fresh copy lowers what is outstanding by
the amount booked (`BookingConserves`), an extra payment by the payment
(`ExtraPaymentConserves`), both or else the plan ends exactly paid.

**Contract.** `ContractKept`: `Spec => PlanContractKept`, by initial states and steps
under the mapping above. It rests on the scheduler's invariants, `CopiesFresh`
above all: a booking is the occurrence the row says is due, for what the row
owes, because outside a dispute copy and row are the same; `BookingConserves` and
`ExtraPaymentConserves` say that the amount is what `owed` loses.

**Settings page.** `SettingsActAsUser`: where the user may send any request
(`Requests = Request`), every behaviour beside the page is one of Scheduler, so
that the theorems above hold beside it. `TwiceOnlyIfSetBack`: a second booking of
an occurrence needs a due date put back. The invariant adds to `BookedBeforeDue`
that `rewound` is within `setBack`: an edit that leaves the due date where it is
leaves it after everything booked. `WrittenBackWhole`: an up-to-date template
written back keeps what the user did not touch; it needs `CountsOfPlans` (an
endless row has no count to lose).

**Overview.** `OverviewTypes`, `PendingIsNotBooked`, `AnnouncedIsBooked`, all under
`Requests = Request` too: a user who can enter less does nothing more.
`OverviewInvariant` adds to the page's invariant that copies
are of active rows and, for a template left alone since the forecast, `Kept`: the
entries from its due date on are those the template would still forecast, those
before it are those booked since. A booking moves the first entry of the one part
into the other. The forecast is a recursive function: that it exists, begins with
the due date and goes on as the forecast of the template after one booking are the
lemmas `UpcomingUnrolls` and `UpcomingLater`, by induction over the number of
occurrences left until the horizon.

**Ledger.** `LedgerTypes`, `OrderOfRequests`, `AccountsSumUp`, `MonthsSumUp`. The
order needs `RequestsTyped`: the rows a creation under way has seen lie before the
position it holds, whatever is inserted or deleted until it uses it. The sums need
`BookingsTyped`, the foreign keys: every booking has one account and one category
that are there, and it is in one month; a sum taken in groups is the sum
(`SumGrouped`). The dates that may be entered are finitely many (`LedgerAssumption`),
so that there are finitely many months to add up.

**Browser page.** `BrowserTypes`, `LabelIsWhereClicksLead`, `FiguresAreLabels`,
`EntryKept`: for any limits, any number of requests under way and any number of
clicks. `FiguresAreLabels` says two things: `FiguresOfLabel` always, and
`FiguresMatchLabel`, which the run `browser_overtaken` refutes, wherever answers for
months come in the order of the requests (`AnswersInOrder` of every step): errors,
losses, ended sessions and restarts alone never part figures and label. The first
needs `LatestIsLabel` (while its answer is awaited, the last request for a month
under way is for the month on the label, and an answer taken out before it leaves
it the last), the second beside it `InOrder` (once it is answered, none for a month
is under way). `EntryKeptUntilSettled` needs `AloneSent` (of an entry begun with
nothing under way, what is under way beside months is for this one, and an "ok"
among it means that it is saved or deleted).

**Login limiter.** `FailuresStayBounded`, `RefusalsHaveCause`, for any limit, window
and number of logins at once. The invariant `Tally` relates a record to the
failures sorted by age: a record that counts holds exactly the failures since it
was begun, the oldest at the record's own age; what else the window still sees is
of one earlier record, which has lost its first failure to age and so is one short
of what a record can hold. A record and the logins under way beside it stay within
the limit and the most that have overlapped, less one. The two bounds follow by
adding up.

**Migration.** `MigrationTypes`, `SchemaComplete`, `OpeningKeepsRows`,
`DefaultsIntoEmptyTable`. The invariant is `Progress`: the statements before `step`
have been executed, all of them once seeding or serving, and while seeding exactly
the defaults before `step` are there. An exit throws the position away; that the
next start may begin again at the first statement is what makes `Progress`
inductive across it.

**How induction is done.** The library's induction theorems take an operator as
a parameter, which the provers cannot instantiate. `BasicLemmas` states the same for
*sets*: a set of numbers, or of subsets of a finite set, that is closed under the
step contains them all (`InductionOnNat`, `SubsetInduction`), from the existence of
a smallest element. Sums over finite sets, sums by age and the recursion of the
forecast are dealt with in this way, each after a proof that the recursive function
exists.

**Only model-checked.** The liveness properties `OverdueIsBooked`, `ServesAgain` and
`LockoutEnds`: they need ENABLED and fairness, which the prover does not handle.
What the runs expect to be violated has no theorem, but for `FiguresMatchLabel`
under the condition of `FiguresAreLabels`.

## Not modelled, and why

- In Scheduler the bookings once made stay: the user's edits and deletions of
  them are in Ledger, which has no templates.
- Amounts are mathematical integers: floats, the overflow of huge amounts and
  of their sums are not modelled.
- Names, colours, icons, descriptions, wording, rendering: no property is about
  them. The lists of accounts and categories on the page are loaded again after
  every change.
- The content of an entry, and whether a row is still there when its change arrives.
- Of the page, what no promise can be made about: a POST repeated after its answer
  was lost books twice, and a form filled from a list older than a toggle undoes
  the toggle. Both can happen in the models.
- The overview's list stops after 200 bookings (`overview.go:41`), its sums do not.
- Password hashing and cookie signing; the HTTP server's timeouts; packaging.
  The 10-second drain at shutdown needs no step of its own, since the process may
  exit before or after any.

## Plan

The components above are modelled, and all their safety properties proved. What is
left, in order:

1. The user's edits and deletions of booked rows in `Scheduler`.
2. An abstract specification of the month view (figures that belong to some month
   the user has asked for) for BrowserPage to implement, as PlanContract is for
   Scheduler.
3. The bound of `FailuresBounded` as a behaviour: that it is reached, for every limit
   and overlap.
