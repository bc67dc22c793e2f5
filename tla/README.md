# TLA+ verification of the MoneyHana API

MoneyHana is a personal-finance API: FastAPI handlers over PostgreSQL
(SQLAlchemy, asyncpg), an in-process rate limiter, and two cron jobs that every
server process schedules for itself. This directory holds TLA+ models of the
parts where order, overlap, failure or calendar arithmetic can go wrong, TLC
configurations that check them on small instances, and TLAPS proofs, for every
instance, of all the safety properties that hold.

## 1. Inventory

| Component | State it keeps | Operations | What is hard | What makes it correct |
|---|---|---|---|---|
| Scheduler lock, `app/utils/lock.py`, `app/main.py` | table `scheduler_locks`; one run per job and process | acquire (sweep, `INSERT ... ON CONFLICT DO NOTHING`), release, triggers | several instances; crash; lost COMMIT acknowledgement; a run longer than its lease; skewed clocks; a transaction aborted by the job body; an INSERT the driver refuses | exclusion while leases last; only the owner's or expired rows are deleted; the rows of crashed holders go away; the jobs are run |
| Authentication, `app/routers/auth.py` | `users`, `refresh_tokens`, `password_reset_tokens`; cookies in browsers; links in mailboxes | register, login, refresh, logout, forgot, reset, verify, resend, `/me` | overlapping handlers between a read and the commit that relies on it; lost and late replies; multi-row statements that work on a snapshot | rotation never forks a session; a reset ends the sessions; an ended session is not revived; a replaced link is dead; no browser left with a dead cookie |
| Rate limiter, `app/utils/rate_limit.py` | an LRU `OrderedDict` of deques, a dict of locks | `dispatch` | sliding window boundaries; eviction; rounding | window bound; memory bound; the right victim; an honest Retry-After |
| Due dates, `app/utils/subscription_dates.py` | none (pure) | next date by anchor or by period, catch-up loop | short months, leap years, year ends, late settlement | the next date of the cycle, none skipped, none repeated, no drift from an anchor |
| Subscriptions and payments, `app/routers/subscriptions.py`, `app/routers/notifications.py` | `subscriptions`, and the expenses logged in `transactions` | create, PATCH, DELETE, confirm, dismiss | read, compute, commit without a lock; column-wise UPDATE; midnight | one expense per due date; the date follows the billing fields |
| Weekly digest, `app/utils/digest.py` | none of its own: reads `subscriptions`, sends mails | the body of the weekly job: per user, select what is due within a week, mail it | runs that overlap, crash or fail half way and mark nothing; mails refused or unheard; window edges | the windows of its runs leave no due date unannounced |
| AI insights, `app/routers/ai_insights.py`, `app/utils/cleanup.py` | `ai_insights` | answer from the cache, or ask Groq and insert three rows; daily clean-up | check and INSERT are a network call apart; a malformed answer; a TTL measured from a default timestamp | whole threes of rows; a bounded burst; nothing stale from the cache |
| Transactions and goals, `app/routers/transactions.py`, `goals.py` | `transactions`, `goals` | create, PATCH, DELETE; paged list; the month's sums | PATCHes checked against an old read, merged column by column; OFFSET paging while rows come | the tables' constraints; no lost update; paging that misses nothing; the right month |
| Email, templates, hashing, JWT, config, schemas, error format, migrations | none, or static | | I/O, formatting, cryptography | not modelled |

How they interact: the cron jobs take the scheduler lock around the digest and
the clean-up; the digest reads what the subscription handlers write, and a
confirmed payment becomes a transaction that the goals' sums and the insights
read; every HTTP request passes the rate limiter, then authenticates, then runs
one handler with a database session of its own; confirm and PATCH call the date
arithmetic; reset and forgot hand links to the mailer. Handlers share
nothing but the database: all interference is between the statements of
concurrent transactions at READ COMMITTED.

## 2. Modules

| Module | Models | State → code |
|---|---|---|
| `Lease` | the abstract lock: exclusive leases that run out | `rest` = the time left of each run's lease; no code of its own |
| `SchedulerLock` | the lock and the runs that take it; implements `Lease` | `row` = `scheduler_locks` by `job_id`; `pc`, `lease` = the run in each process; `up`, `phase`, `fired` = processes, cron clock |
| `WeeklyDigest` | the digest as the body of the runs of `SchedulerLock`, which it EXTENDS and implements | `todo` = the users a run has fetched and not handled; `age` = days since it asked for the date; `due` = `next_due_date`; `told`, `served`, `done` remember what was mailed and handled |
| `Sessions` | abstract sessions: opened once, kept open by rotation, ended for good | `open`, `over` = sets of sessions; no code of its own |
| `Auth` | the six state-changing handlers of sessions and passwords; implements `Sessions` | `password`, `rt`, `link` = the tables; `indexed` = who made them; `jar`, `mailed` = browsers and mailboxes; `req` = requests in flight |
| `RateLimiter` | the middleware | `order`, `logs` = `_logs`; `locks` = `_client_locks` |
| `DueDates` | the date functions, over a Gregorian calendar in ordinals | no state |
| `BillingCycle` | the due dates of one subscription, one settlement after another, and the month the goals sum up; EXTENDS `DueDates` | `cfg`, `due` = billing fields and `next_due_date` |
| `Payments` | one subscription row under interleaved requests; EXTENDS `DueDates` | `row`, `req`, `logged` = expenses by date, `today`; `overtaken`, `stale` remember which requests, and whether a COMMIT, relied on a read that another has overtaken |
| `AIInsights` | one user's insights under interleaved requests, and the clean-up | `insights` = `ai_insights` with the day each was really made; `req` = requests; `spent` = has the user transactions; `day` |
| `Ledger` | one user's transactions and goals under interleaved requests, and a client that pages | `table` = both tables; `req` = requests with what they have read; `scan` = the client |
| `...Proofs` | theorems about these: `SchedulerLockProofs` (with `WeeklyDigest`), `AuthProofs`, `RateLimiterProofs`, `DueDateProofs`, `BillingCycleProofs`, `PaymentsProofs`, `AIInsightsProofs`, `LedgerProofs` | |
| `MC...` | constants for TLC | |

A few definitions are followed or preceded by a variant named
`<definition>_<what went wrong>`. These are mutants: bugs the code could have had.
Put in the place of the definition, each makes TLC report the property it is
listed with in `PROJECT.json`, which shows that the property constrains the code.

### Modelling decisions

*Grain.* An action is what happens between two points where others can get in:
an `await` on the database (or on a thread) whose result is used later. The writes
of a handler take effect at its COMMIT. A statement over several rows works on
the rows visible when it started, and is split in two where this matters
(in `Auth`: `ForgotDelete`/`ForgotCommit`, `ResetSweep`/`ResetCommit`). A single-row
`UPDATE ... WHERE revoked_at IS NULL` re-tests its row after waiting for a lock,
and is one step. The ORM's UPDATE goes by primary key and writes the changed
columns only; if the row is gone it raises `StaleDataError`, a 500.

*Failure.* Any request may end before its COMMIT (`Abort`, `Fail`, `End`), which stands
for a crash, a database error or a constraint on a column that is left out. In
`SchedulerLock` every statement may fail, the acknowledgement of a COMMIT may be
lost, and a process may die and be restarted at any point.

*The driver.* The migration gives `scheduler_locks.expires_at` no time zone
(2cfb796b6af6:27) while `acquire` binds an aware datetime through an untyped
`text()` (lock.py:52-65). asyncpg 0.31.0, which requirements.txt pins, refuses that
value every time; the error is swallowed (lock.py:82-85) and `acquire` returns
False. So **in the committed code no scheduled job is ever run**, which is what the run
`lock_refused` reports. The constant `AwareTaken` says whether the driver takes the
value. The other runs of the lock and the digest have it TRUE: what is safe then is
safe now, since without it the steps `InsertOk`, `InsertConflict` and `InsertAckLost`
just do not happen, and they say what the lock is worth once the column or
the parameter is put right.

*Who made the tables.* The partial unique index on unused reset links is in the
migration only; the models that `init_models` creates in development (main.py:78-79)
do not have it. `Auth` starts in either case (`indexed`) and every property is
checked and proved for both.

*Others.* A run of the digest may fail at any user, and a mail to
each may be taken, refused, or taken without the answer being heard. Groq may
answer anything, or not at all.

*Time* is relative wherever that is possible: a lease is the time left of it, a
timestamp in the rate limiter its age, the wall clock a phase of the schedule. All
of these saturate, so no model needs a bound on time. Due dates are absolute
ordinals in `BillingCycle` and `Payments`, of the years `FirstYear` to `LastYear`
(1 to 9999 in Python, where a later date is an exception), and the days left in
`WeeklyDigest`, where a tick is a day and the week a short one. `AIInsights` counts days from the creation of its table up to a horizon.

*Data.* A password is the number of times it was changed, a token is an id, its
hash and JWT are itself. A holder id (a fresh uuid per run) is the instance while
the run lasts and `Orphan` afterwards. Clients of the limiter are model values.

## 3. What is checked

| Run | Instance | Shows |
|---|---|---|
| `jobs` | 2 processes with one job, the digest, and 1 user; lease of 1 day, week of 2 days, window of 2, a run that lasts past one midnight, a driver that takes `expires_at`, fair | `LeaseImplemented` (the refinement of `Lease`), `LeaseExclusion`, `LeaseOwnsRow`, `NoLiveRowLost`, `OrphansReclaimed`, `NeverUnannounced`, `TypeOK`, `DigestTypeOK` |
| `auth_sessions` | 1 user, 1 browser, 2 requests; 3 tokens and a link, or 2 links and a token (`Budget`); with the unique index, and without it while at most one token is issued | `OneLiveTokenPerSession`, `ResetEndsSessions`, `EndedStaysEnded`, `JarHoldsSession`, `ReplacedLinkDies`, `SessionsImplemented` (the refinement of `Sessions`), `TypeOK` |
| `limiter` | 3 clients, room for 2, limit 2, window 3 s, half-second ticks | `WindowBound`, `DequesBounded`, `LruOrder`, `RetryAfterHonoured`, `TypeOK` |
| `billing_cycles` | 19 billing configurations, first dates in 14 months, until March 2025, calendar 2022 to 2028 | `DueIsNextMatch`, `PeriodicKeepsCycle`, `SpendIsThisMonths` |
| `payments_rows` | 2 requests, 4 days around 29 February | `NoDoubleExpense`, `DueFollowsConfig`, `ExpenseOnlyWhenDue`, `TypeOK` |
| `insights` | 2 requests, TTL 2, retention 3, 5 days, 4 answers of 2 to 4 items | `HitServesYoung`, `HerdBounded`, `TypeOK` |
| `ledger` | 3 transactions on up to 3 days, 1 goal, 2 requests, pages of 1 row | `ChecksAgree`, `ChangedAsAsked`, `ScanMissesNothing`, `TypeOK` |
| `lock_refused`, `digest_dup`, `auth_link_reused`, `payments_confirm_twice`, `insights_cache` | | see below |

Why the bounds are enough. Interference needs two runs or requests and one
resource; the third token is there for what the first two leave behind (a
successor's successor), and two links for one inserted between a DELETE and an
INSERT. In the scheduler the next slot's runs meet the rows of the last one's. A lease of one tick is overtaken within the
cycle, so that owner, orphan and newcomer meet. In `jobs` a tick is a day and the clocks
agree; skew is left to the proofs, which allow any, and to the instance of
`lock_refused` (clocks at +1 and -1), which has `JobKeepsRunning` and all the lock's
properties of `jobs` when it is given `AwareTaken = TRUE` (1574 states). Two clients fill the
limiter's table, a third evicts; a limit of two distinguishes the oldest from the
newest timestamp. The calendar run starts on the first, the fifteenth and each of
the last days of every month of fourteen, with anchors on every day some month
does not have, and settles payments at once, a month late and a year late. In
`Payments` the days are the eve of the due date, the date, the day after and the
next due date; a day on which nothing happens is passed over. In the digest a
window as long as the week meets a date at both of its edges, and two instances
are enough for a run that dies beside one that waits for its row; users do not
interact, so one is enough. Five days let the insights' cache run out (TTL 2) and
the clean-up delete (retention 3), and two overlapping requests can be forced or
not, hit or miss. Three transactions are two for a page boundary and one that is
added before, between or after them; the PATCHes change the type alone, the
category alone, both, or to null, so that each pair of them can overlap. The
symmetric sets (requests, tokens, links, clients) are interchangeable, and symmetry
is used in safety runs only.

`CHECK_DEADLOCK FALSE` appears where the model comes to an end: `BillingCycle`
at `Horizon`, `Payments` on the last day once the subscription is deleted,
`Ledger` once every row has been made and deleted. `Auth` cannot stop, because an
anonymous logout is always possible, nor can `AIInsights`, where the clean-up
comes every day.

*Fairness* (`Fairness` of `SchedulerLock`). Time passes; a dead process is
restarted; a started run goes on, whichever way its step turns out (weak fairness of
the disjunction: the INSERT is attempted and may fail every time); a trigger that
comes round again and again is not missed every time, and the sweep does not fail
every time it is tried (strong fairness). The scheduler's threads and the event loop
give the first; the sweep sends no parameter that a driver could refuse, so that its
fairness says only that the database is not broken for ever. Nothing is assumed of the
INSERT. In addition some process must stay up from some time on (`SomeoneStaysUp`),
which is a premise of `OrphansReclaimed` and `JobKeepsRunning` and not part of
the specification. `DigestFairSpec` (used by `jobs`) is the digest with this fairness.
`LuckySpec` (used by `lock_refused`) is kinder: an INSERT that can succeed does so
some time (strong fairness of `InsertOk`). With the pinned driver none can, so
`JobKeepsRunning` fails even then, and not for want of fairness.

*Refinements.* `SchedulerLock` implements `Lease` (`LeaseImplemented`): the time
left of a run's lease is that of the concrete run while it is in the body, and none
otherwise. Sweeps, conflicts and failed statements stutter; the INSERT is a grant;
a release, crash or restart ends leases; a tick passes time. `Auth` implements
`Sessions` (`SessionsImplemented`): a session is named by the token of its login and
open while a token that descends from it can be used. The COMMIT of a login opens
one, that of a refresh keeps its own open, and either closes those whose token it
prunes because it expired; a logout or reset closes what it revokes; everything
else stutters. `WeeklyDigest` implements `SchedulerLock` with the variables it has
from it, which is proved and not checked.

### Where the code and its documents disagree

Each of these runs checks one sentence of the repository and TLC finds it broken.

| Run | Sentence | What happens |
|---|---|---|
| `lock_refused` | README.md:3, "scheduled due date notifications" (main.py:63-75 schedules them) | asyncpg as pinned refuses the aware `expires_at` for the naive column; `acquire` swallows the error and returns False in every slot; no job is ever run |
| `digest_dup` | lock.py:13, "preventing duplicate scheduled job execution" | the lock is released when the job ends; an instance that comes later in the same slot runs the digest again, and its users are handled twice. Today the refused INSERT masks this; the run has `AwareTaken = TRUE` and shows what comes with a driver, a column or a parameter that fits |
| `auth_link_reused` | test_auth.py:88, one-time use | two overlapping resets both redeem the link |
| `payments_confirm_twice` | notifications.py:45 | two overlapping confirmations, two expenses, one advance |
| `insights_cache` | ai_insights.py:167, "Check for cached insights within TTL" | `created_at` is the moment the table was created (`server_default="now()"` is a quoted literal); once that is older than the TTL nothing is served from the cache, however fresh |

The models show more of the kind, for which there is no run of their own:

* A logout that a refresh overtakes finds its row rotated (`LogoutNoRow`): it
  answers "Logged out" (README.md:31, "Logout and clear tokens") and the session
  lives on; or its row is pruned under it, and it is a 500 (`LogoutStale`).
* A weekly anchor of 7 to 31 is let through by the schema and 0 is refused, where
  subscription_dates.py:26 says "0=Mon, 6=Sun".
* Two overlapping forgot-password requests for one account: the second INSERT
  meets the partial unique index and the uncaught `IntegrityError` is a 500
  (`ForgotCollides`), where test_auth.py:50 speaks of an answer that is always
  generic.
* A database made by `init_models` has no partial unique index: the two requests
  leave two redeemable links instead, until the next one deletes both. (It has no table
  `scheduler_locks` either, so no job runs there.)
* A login or refresh that overlaps a reset makes a token that the reset does not
  revoke: it is not among the rows its UPDATE started from (`raced`, which
  `ResetEndsSessions` leaves out).
* A browser that loses the reply to a refresh keeps the rotated cookie and is
  logged out at its next refresh (`lossy`, which `JarHoldsSession` leaves out).
* A mail that is refused is not tried again before the next week's digest, when the
  date may be over (`MailRefused`; the premise of `NeverUnannounced` leaves it out); so it
  is for the users that a failed run has not reached.
* `_client_locks` only grows (`LockMade`), whatever the cap on the deques.
* `DueFollowsConfig` without its premise `~stale` fails in both parts: of two
  overlapping PATCHes, each checked against what it read, the merged row may be
  `fixed_date` with no anchor (against schemas/subscriptions.py:50), and the later
  COMMIT overwrites a recalculated `next_due_date` (against
  test_subscriptions.py:339).
* An explicit `null` in a PATCH of a transaction or goal passes the handler's
  checks and fails at the COMMIT, a 500 (`PatchFails`); `ChecksAgree` leaves it out.
* A create or PATCH whose row is deleted between its COMMIT and its `refresh` is a
  500 although it has been carried out (`End`).
* The clean-up compares the naive `created_at` with an aware cutoff, which asyncpg
  refuses: it may never delete anything. `Cleanup` may happen or not.
* `total` of GET /transactions is counted by a statement of its own, so it need
  not fit the page it comes with; a client should read until a page is short, and
  `ScanMissesNothing` is about one that does.

## 4. What is proved

`SchedulerLockProofs`, for all finite or infinite sets of instances and jobs, all
TTLs, skews, periods and schedules:

* `TypeCorrect` (`TypeOK`), action by action. Beside the types, a row names a run that
  is past acquire or nobody that is still there (`HeldByItsRun`): that is what a
  `holder_id` of its own for every run is for.
* `RowOwnership` (`LeaseOwnsRow`). This is the heart: together with `TypeOK` it is
  inductive. A step that could break it must delete or overwrite the row of a run
  whose lease lasts: the sweep takes only rows with no time left, which differ
  from it because the row has the same time left as the lease; the INSERT needs a
  free row; a release deletes rows of its own instance only; a tick takes the
  same from both.
* `MutualExclusion` (`LeaseExclusion`) follows: two such runs would own one row,
  which has one owner.
* `LiveRowsKept` (`NoLiveRowLost`), an action property, from the same invariant.
* `LockGrantsLeases` (`LeaseImplemented`), that SchedulerLock implements `Lease`. An
  INSERT is a grant because, by `RowOwnership`, a free row means that no run of the
  job has time left.

`AuthProofs`, for all sets of users, browsers, requests, tokens and links:

* `TypeCorrect` (`TypeOK`), then a well-formedness and a session invariant as lemmas (a token's
  root is issued before it, an unissued token has no descendants, a waiting request
  refers to issued tokens, ...).
* `RotationNeverForks` (`OneLiveTokenPerSession`): the new token takes the place of
  the one that the same COMMIT revokes.
* `ResetRevokes` (`ResetEndsSessions`): the sweep's snapshot contains every live
  token of the user that was not made by an overlapping request, so after the
  COMMIT the premise holds only of marked ones.
* `EndedForGood` (`EndedStaysEnded`): strengthened by "a revoked row's session has
  ended" and "only issued tokens open sessions". A refresh writes only if its old row
  is usable at the COMMIT, so the session it continues has not ended; what a logout
  revokes is, by `OneLiveTokenPerSession`, all that the session had.
* `SessionsServed` (`SessionsImplemented`), from the same two invariants: pruning an
  expired token ends its session because the session has no other, and a login's
  token is the root of no session yet.
* `ReplacedLinksDie` (`ReplacedLinkDies`), an action property, strengthened by "the link
  of a reset whose flush has gone through is not gone" (`LinkInv`): the DELETE of a
  forgot-password and the UPDATE of a reset's flush exclude each other on the row,
  so a reset that comes second finds no row and rolls back.
* `BrowsersKeepUp` (`JarHoldsSession`), the longest of these. The invariant (`JarInv`):
  the token in the jar of a browser that lost no reply is good, or a reply with another
  is on its way to it; a token that a reply carries is good, in no jar yet, carried by
  no other reply and being rotated by no one; a token in a jar is in no other, and only
  requests of that browser rotate it. So each rotation leaves its token in one place.

`WeeklyDigest`, also in `SchedulerLockProofs`, for all sets of instances and users
and all windows:

* `DigestWithinLock`: WeeklyDigest implements SchedulerLock. Users' handling
  changes no variable of the lock, and everything else is one of its steps.
* `DigestExclusion` (`LeaseExclusion`) follows from it and `MutualExclusion`.
* `DigestTypeCorrect` (`DigestTypeOK`): only a run in its body has users to handle,
  also when a process dies with both of its workers busy.
* `WindowsLeaveNoGap` (`NeverUnannounced`), assuming `WindowsMeet`: the window of a run
  that lasts past midnight still reaches the next digest day. Seven days of both
  allow one midnight. The invariant (`GapInv`) says that a user served on every
  digest day is told already, or a digest day is still to come before the date
  goes by. Without the assumption the property is false (with a `Lead`
  of 1 in the run `jobs`, TLC finds it broken).

`RateLimiterProofs`, for all clients, limits, windows, resolutions of the clock and
capacities:

* `TypeCorrect` (`TypeOK`), `TableBounded` (`DequesBounded`), `VictimIsOldest`
  (`LruOrder`): a deque is moved to the end only when it gets its newest timestamp, and
  what is pruned or evicted leaves the order of the rest.
* `WindowSlides` (`WindowBound`). The invariant (`Remembered`) compares the requests let
  through with the deque from their ends: each that is younger than the last eviction
  is in the deque, in its place, so that a full deque is all that the window holds.
* `PromiseKept` (`RetryAfterHonoured`). The invariant (`Promised`): the oldest timestamp of
  a full deque leaves the window by the time that was promised.

`DueDateProofs`, for all dates from `FirstYear` to `LastYear` and all billing fields
that the schema accepts (`Billed`). From the definition of the calendar, lemmas give what
a program takes for granted: months fill a year, a date has one year, month and day
and is the date of these, and dates are ordered as they are. Upon them:

* `CalculatedIsFirstMatch`: `calculate_next_due_date` of a fixed_date subscription is
  the first later date that matches the anchor (for weekly anchors that are weekdays).
* `AdvancedIsFirstMatch`: so is what the loop of `advance_due_date` returns, after its
  target. The loop is a recursive function over the interval of the dates up to the
  target. The library's induction theorems take an operator, which the provers at
  hand cannot instantiate; that the function exists and leaves the interval is proved
  with a least counterexample instead, counting down from the interval's end
  (`LeavesExists`, `LeavesReaches`). `AdvanceReaches` says the same of any set of dates
  that the steps do not leave.
* `CurrentMonthIsThisMonth`: the window of the goals is the month of today.

`BillingCycleProofs`, for all such billing fields, first days and delays, as long as
dates stay a year away from the last: `NeverDrifts` (`DueIsNextMatch`), `MissesNoCycle`
(`PeriodicKeepsCycle`), `SpendCounts` (`SpendIsThisMonths`). The first two are
inductive together with the types (`CycleInv`); for the second the set that
the loop does not leave is that of the dates on the cycle of the first day.

`PaymentsProofs`, for any number of requests, all PATCHes and all days: `TypeCorrect`
(`TypeOK`), `PaidOnce` (`NoDoubleExpense`), `DateFollowsFields` (`DueFollowsConfig`) and
`LoggedWhenDue` (`ExpenseOnlyWhenDue`, an action property). The invariant (`IInv`) says of
each request nothing has overtaken that the row is the one it read, and that what it
is about to write keeps the row sound and is later than all that was logged.
`overtaken` has to be remembered for this: comparing the row with the read at the
COMMIT is not enough, because a date may be moved by a PATCH, paid, and moved back by
another, and a third PATCH, from a read before all this, then puts a paid date back
that is paid again. TLC finds this, too, when that comparison takes the place of
`overtaken` and the instance has two PATCHes that undo each other.

`AIInsightsProofs`, for all requests, TTLs, retentions, horizons and replies:

* `TypeCorrect` (`TypeOK`): insights stay in complete threes, since the clean-up
  takes all of an answer or none (`OneStamp`: all rows have one `created_at`).
* `HerdIsBounded` (`HerdBounded`). Not inductive: the strengthening `Bounded` counts
  the answers stored together with the requests still waiting for one, which is at
  most the number of requests while the TTL lasts. A request begins to wait only if
  the table is empty, and storing an answer ends a wait.
* `HitsAreYoung` (`HitServesYoung`), from `OneStamp`.

`LedgerProofs`, for all sets of requests and rows, all bodies and patches the
schemas let through:

* `TypeCorrect` (`TypeOK`): the stored rows satisfy the tables' constraints.
  Whatever a stale PATCH merges, the COMMIT goes through only if the row it makes
  is `Allowed`.
* `HandlersCheckEnough` (`ChecksAgree`): the invariant remembers that a waiting PATCH
  was accepted for the row it has read (`PatchOK`); without nulls, the merged row
  takes type and category from where the handler looked for them.
* `RowsChangeAsAsked` (`ChangedAsAsked`), an action property.
* `PagingIsComplete` (`ScanMissesNothing`), also for any page size. The invariant
  (`ScanInv`) says that a row that is awaited and not seen has at least as many rows
  before it as the pages read so far hold. Insertions only add to those. A row in
  place i has i - 1 before it, so one that is not on the page just read comes after
  it, and then the page was full.

The proofs assume what the modules assume of their constants (the ASSUMEs, each
of which TLC evaluates in a run) and, for `WindowsLeaveNoGap`, what its statement
says, and nothing else. The inductive invariants `JarInv`, `GapInv`, `CycleInv` and
that of `PaymentsProofs` were checked with TLC, in the runs of their modules, before
they were proved.

Only model-checked: liveness (`OrphansReclaimed`), which needs ENABLED. The five
properties that fail (`lock_refused`, `digest_dup` and the others) are refuted, not proved.

## 5. Not modelled, and why

`verify-email` and `resend-verification`: `register` stores `is_verified = true`, so
for the accounts this program makes the one writes nothing and the other mails
nothing. GET handlers (apart from the paged list), `/me` and `get_current_user`
only read. Amounts, names, notes and trials, the X-RateLimit headers, prompts and
mail texts decide nothing that a property is about. A CHECK on an amount can fail
a confirmation; that is `Fail` of `Payments`. Mail transport, templates, hashing,
JWT contents, configuration and error format are I/O, formatting or static.
Migrations run before the program; the constraints they set up are in the
models. A deadlock of row locks between `_prune_refresh_tokens` and the reset's
sweep is below the grain (PostgreSQL aborts one of the two, which is `Abort`).

## 6. Plan

Every component with state of its own is modelled, and every safety property that a
run checks and that holds is proved. What is left:

1. One more abstract specification: a sliding window per client that `RateLimiter`
   implements, evictions included.
2. That `BillingCycle` is what `Payments` does to a due date when nothing interferes,
   so that `NeverDrifts` holds of the latter's confirmations as well.
3. Periodic billing in `DueFollowsConfig`, which speaks of anchors only.
