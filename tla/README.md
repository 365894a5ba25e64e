# Wealth Sandbox: a verification project

TLA+ specifications of the Wealth Sandbox (a React Native app, a NestJS platform API and a NestJS
institution simulator over PostgreSQL), model-checked with TLC, with theorems checked by TLAPS.
Paths below are relative to `src/`; `REPO` is
`services/platform-api/src/modules/trading/infrastructure/persistence/drizzle-trading.repository.ts`,
`MR` is the repository of `modules/mydata`.

1. [The system](#1-the-system)
2. [The modules](#2-the-modules)
3. [The runs](#3-the-runs)
4. [The theorems](#4-the-theorems)
5. [Where code and documents disagree](#5-where-code-and-documents-disagree)
6. [What is left out](#6-what-is-left-out)
7. [The plan](#7-the-plan)

## 1. The system

A customer links institutions (MyData), sees the wealth they hold, plans, and buys a fund with the
cash of one account. The *platform API* runs in one or more processes over one database; the
*simulator* plays the institutions: accounts, prices and a brokerage; the *mobile app* talks to the
platform with OIDC tokens, behind a biometric lock.

```text
 mobile app ──HTTP + bearer──▶ platform API ──HTTP, circuit breaker──▶ institution simulator
  session, access, order         orders, syncs, outbox, wealth            brokerage, accounts, scenario
      │ secure store                    │ PostgreSQL                            │ PostgreSQL
```

### Platform API (`services/platform-api/src`)

| Component | State and operations | Interacts with | What is hard | What makes it correct |
| --- | --- | --- | --- | --- |
| Orders and reconciliation (`modules/trading`) | quotes, idempotency records, orders, reservations, cash, ledger, executions, positions, jobs; preview, create, apply a result, mark unknown, claim / requeue / give up a job | brokerage over HTTP, outbox and audit in its transactions, worker of every process | the brokerage is called between two transactions; lost answers, crashes, leases that are overrun, two workers on one job | one order per key; cash conserved and given back once; final orders stay final; UNKNOWN orders are watched and end |
| Outbox (`modules/trading`) | events, receipts; claim, deliver, complete, retry, fail | settlement writes it; every process publishes | crash between receipt and completion, leases | processed means delivered; only the owner ends an event; every event ends |
| Circuit breaker (`core/resilience`) | state, failures, trial; execute | in front of every adapter | calls that end in another state than they began in; Promise.all over pages | one probe; it never stays half-open for ever; datasets arrive again |
| MyData sync (`modules/mydata`) | jobs, data of a connection; create, begin, complete, reschedule, recover, due lists | scheduler, requests, institution; writes cash accounts and snapshots | runs are not named in the rows they claim; late runs | data never gets older; one active job per connection; jobs end |
| MyData connections, credentials | connections, consents, encrypted customer number | KMS | keys | — |
| Wealth (`modules/wealth`) | none: reads accounts, holdings, the latest snapshot, the history | tables written by trading and mydata | the total is a row of its own, written by another component than the rows it sums | the total is the sum of what is shown beside it |
| Market data (`modules/market`) | cached quotes and bars, requests in flight, refresh times, provider token | KIS provider | freshness, single flight, fallback to old data, bars of one bucket from several rows | nobody is answered a quote older than what is stored; a token in use is accepted; a chart has the newest bar of every bucket |
| Planning simulation (`modules/simulation`) | runs and results; deterministic Monte Carlo | — | percentiles by rank, rounded when they are stored, beside a goal by counting before | chart and probability agree |
| Identity (`modules/identity`) | users from OIDC subjects, risk profiles | every controller | two first requests of one subject, updates from an old version | one user per subject; profile, trail and answers agree |
| Token verification (`core/auth`) | key cache | OIDC provider | — | what passes has the scope |
| Audit, developer tools, health, metrics | append-only rows; forwarded scenario changes; counters | — | — | — |

### Institution simulator (`services/institution-simulator/src`)

| Component | State and operations | What is hard | What makes it correct |
| --- | --- | --- | --- |
| Brokerage (`modules/trading`) | orders; submit, find | racing POSTs, resets, the answer lost after the commit | a client order id is one order; an outcome stays |
| Scenario (`modules/scenario`) | the mode; set, reset, read before each answer | it is read twice by a POST | within the promise of a brokerage in every mode |
| Accounts and market | seeded, read-only | pages | — |

### Mobile app (`apps/mobile/src`)

| Component | State and operations | What is hard | What makes it correct |
| --- | --- | --- | --- |
| Session (`shared/auth`, `shared/api`, `features/login`) | access token, stored refresh token, presence, one shared refresh; login, logout, expire, requests that are sent again after a 401 | awaits between reading and writing tokens; rotation with a lost answer | no token is left after the login screen shows; tokens belong to the user; requests end |
| Launch and access (`features/launch`, `features/app-lock`) | launch phase, marks in the secure store, access phase, prompt in flight, generation | locks, resets and logouts during a prompt; storage that fails | content only after a prompt since the last lock; one prompt; lock after the timeout |
| Order screen (`features/order`) | quote, idempotency key, order id, polling | previews, prompts, POSTs and polls end in any order | a quote is bought once; a fill becomes known |
| API client (`shared/api`) | a call with its retries, replay and abort; a mock and an unavailable client | two ideas of one contract, lost answers | mutations run once; every answer the server can give is accepted |
| Query cache, risk check, settings (`shared/query`, `features/coach`) | cached profile, forms made from it, saves under way | answers on their way when a screen or the session is gone | nothing is overwritten unseen |
| Coach (`features/coach`) | a diagnosis of two queries; a consultation with calendar and wheel | one class speaks for all; steps in any order | the verdict holds for all classes; a proposed slot is free |
| Onboarding forms (`features/onboarding`) | fields, sheets, consents, PIN | boxes that tick each other | the consents agree |
| Market and wealth screens | layout | — | — |

`PROJECT.json` lists every component with its status, and every hazard with the line where it bites
and the properties that watch it.

## 2. The modules

| Module | Models | Checked in |
| --- | --- | --- |
| `CashHolds` | abstract: what an account promises about its orders: hold, then spend up to it or give back, once | `settlement` |
| `OrderSettlement` | requests, transactions A and B, brokerage, reconciliation workers and their jobs, the tables of the trading schema; implements `CashHolds` | `settlement`, `leases_outlived`, `release_after_fill`, `mobile` |
| `MCOrderSettlement` | symmetry for TLC | |
| `OutboxDelivery` | events, receipts, publishers with leases | `outbox` |
| `CircuitBreaker` | the breaker, fetches of several pages, ticks of time | `circuit_breaker` |
| `MyDataSync` | sync jobs, runs, recovery, consents, versions of the institution's data | `mydata_sync` |
| `Brokerage` | abstract: what a brokerage promises the platform | `sim_brokerage` |
| `SimBrokerage` | the simulator's brokerage with scenarios, locks, resets and lost answers; implements `Brokerage` | `sim_brokerage` |
| `Identity` | guard, provisioning, risk profile of the platform | `platform`, `first_requests` |
| `MarketCache` | cached quotes and charts, shared refreshes, provider token, another process | `platform` |
| `ChartBars` | the bars of a chart from the provider to the screen | `platform` |
| `AssetData` | accounts, holdings and snapshots that a sync stores, and what the wealth API makes of them | `platform`, `stale_total` |
| `PlanSimulation` | the engine, its runs and the screen | `platform` |
| `ApiCalls` | one call of the app: guards, retries, answers of every controller, mock | `platform` |
| `AuthSession` | tokens, presence, shared refresh, requests of the app | `platform`, `mobile`, `logout_during_refresh` |
| `OrderFlow` | the order screen in front of the platform | `platform`, `mobile` |
| `AppAccess` | launch sequence, prompts, locks, logout and reset | `mobile` |
| `RiskProfile` | the profile on the phone: cache, questionnaire, form, saves | `platform` |
| `Diagnosis`, `Consultation` | the coach | `platform` |
| `Verification` | introduction, verification form, consents, PIN | `platform` |
| `Platform` | twelve components that share no state, in one specification | `platform` |
| `MCPlatform`, `MCMobile` | values for TLC; `MCMobile` also joins the components of its run | |
| `PlatformProofs`, `PhoneProofs` | theorems about the components of `Platform`: those of the server, those of the phone | |
| other `*Proofs` | theorems about the module they are named for | |

**OrderSettlement.** A database transaction is one step: each takes the advisory and row locks of
everything it writes before it writes. `Prepare`, `Replay` and `Refuse` are transaction A by what the
key's record and the balance say; `SubmitAnswered`, `SubmitFails` and `LateSubmit` are the HTTP call,
the last one a POST that is executed after its caller has given up; `SubmissionApplies` /
`SubmissionUnknown` / `SubmissionThrows` are what the service does with the answer. A worker claims
(`Claim`), asks (`Find`), and applies, requeues or gives up. `LeasesExpire` is the start of
claimReconciliation that requeues abandoned jobs. `LeasesHold` says whether a worker keeps its lease
(30 seconds by default, against a call that ends after five): with `FALSE` two workers end up on one
job, and each such overrun counts as a fault. A request process bears the name of the order it creates.
Amounts are whole numbers of the smallest unit; that a fill can cost less, as much or more than the
quote is kept. The sums over orders are written as the size of a set (`Units`: as many elements per
order as its amount has units), which says the same as a fold and can be proved about without
induction over data.

**CashHolds.** The refinement maps an order's status to a phase: open orders hold, FILLED has spent,
REJECTED and FAILED have given back. `CashPromiseKept` is the abstract specification itself.

**OutboxDelivery.** Claim, receipt, completion and rescheduling are one SQL statement each and one step
each. A worker keeps its id for its life. A lost answer is a statement that took effect and failed to
its caller.

**CircuitBreaker.** A fetch calls all pages of a dataset in one synchronous turn; when one page fails
the others go on without it. Time is ticks, with what is left of the open interval and of each fetch's
timeout.

**MyDataSync.** `Begin`, `Fetch`, `CheckFetching`, `Commit`, `ReadAttempt` and `Reschedule` are the
steps of runSync between its awaits. A dataset is the version of the institution's data it was read
from. `outlived` is a history variable: some run outlived its lease. Properties that late runs break
say so in their antecedent; those that survive late runs do not.

**AssetData** is the same sync with its data: the three pages are fetched one by one while the
institution goes on, and `CompleteSync` upserts accounts and holdings and writes the snapshot of the
day with its allocation. Holdings that are gone at the institution stay, as in the code. `Reserve`,
`Settle` and `Release` are what orders do to the same cash rows. `Summary`, `AccountsView`,
`HoldingsView` and `History` are the queries of the wealth API. Sums are sizes of sets, as in
`OrderSettlement`. `touched` is a history variable: what makes the total something else than the sum,
for which the run `stale_total` has the witness.

**SimBrokerage.** A POST reads the scenario, may sleep, reads it again (`Current`) and opens its
transaction: `SubmitReads` takes the advisory lock and looks for a record, `SubmitInserts` commits.
Between the two the lock is held (`Locked`) while a `Reset`, which takes no lock, can delete the table;
only a row that `FindReads` has read FOR UPDATE holds a reset up. The book and the answers that the
outside sees are the mapping to `Brokerage`.

**Identity.** The queries of provisioning are steps of their own: outside the transaction (`find`),
inside it (`findAgain`), the insert that waits for an open transaction with the same key, and the lookup
of the winner. An error of the driver arrives wrapped (`Wrapped`), as drizzle-orm throws it. A call keeps the
subject and the scopes of its token, so that `UpdatesAccounted` can say that a profile was written by a
call that had the scope, for its own user, over the version it names (`WrittenByRight`), and that answers,
versions and trail tell one story (`AnsweredTruly`) although an answer can be lost after the UPDATE and
after the audit, and the audit can fail when the UPDATE is committed.

**MarketCache.** `Look` and `Decide` are two steps, for other callbacks run between the answer of the
database and the code after the await. A refresh keeps the value its starter has read, for itself and
for all who join it, to fall back on. A quote is saved and answered in one step (`SaveQuote`, there is one
await); a chart in three (`ReplaceBars`, `NoteRefresh`, `AnswerChart`), with calls that look and decide in
between, and an error of the database after any of them (`SaveFailed`). The token of the provider is
shared by both kinds of refresh, and its life is counted from the arrival of the answer; `Margin` is the
minute by which the code stops using it early. The refreshes, the token and `barRefreshAt` are those of one
process: `Restart` empties them, and of the processes beside it there is what they store in the same
database (`StoreElsewhere`). `unnoticed` counts the stores of which this process has no trace, those and the
saves whose answer was lost. `wentBack` is a history variable: some call was answered an older value than
it had read itself. Quotes never are; charts are not until one is stored unnoticed, after which they can be
(section 5).

**ChartBars.** A bar is its instant and an id; the id orders what the provider answers for one instant.
`KisBars`, `LocalBars`, `Fetched`, `Chart` and `Repaired` are the places where rows are cut, merged and
moved to the first instant of their bucket. The bars of a chart have one source here: the code also
keeps those of a second one beside it and reads the two by source.

**PlanSimulation.** `Growths` enumerates the paths of small factors in the place of the seeded
generator; everything behind the draws (values of a path, sorting, percentiles by rank, counting of
goals, the range of numbers, the stored run, its audit that may fail after the save, the query of the
screen) is the code's. Sorting is written as what the sort of an array with a comparator promises: some
order of the places (`Orders`) in which no value is followed by a smaller one (`Ascend`). The amounts of a
plan and of a stored result are whole numbers of the smallest amount that is stored, 0.0001; the engine
computes in parts of it, `Grain` to the whole, and `money` is the rounding of `toFixed(4)` when a run is
stored. Goals are counted before that. So `ResultIsConsistent` compares rounded percentiles with a goal of
unrounded values, and says nothing of a percentile that is shown equal to the target: 7 parts of 8 are
shown as the target of 4 and have not reached it (section 5).

**ApiCalls.** The server holds whatever it has come to hold (`held`), a call is made of any of its
operations, and an answer is the record of the fields that the client's guard looks at, where a decimal
is the number of its decimals. `Repeated` is the retry of the query client, `TokenRefused` the replay of
the 401, `Lost` an answer that does not arrive, `MockQuery` and `MockMutation` the mock client that has
to keep the same contract.

**AuthSession, AppAccess, OrderFlow, RiskProfile, Consultation, Verification.** JavaScript runs alone from
one await to the next: that is one step. In `AuthSession` operations of the secure store take effect in the
order of their issue, and the provider accepts the newest refresh token of a session only; `disturbed` and
`broken` are history variables with the two conditions of `TokensAgree`, and `rotatedAway` has the sessions
whose last rotation a restart has lost. In `AppAccess` a prompt is `current` or `stale` (the generation
counter of the code), and `proved` is a history variable: a prompt begun since the last lock was passed. In
`OrderFlow` a confirm keeps the quote of the moment it was pressed, but the key is read from the ref after
the prompt; the amount and the typing are left out, a hidden quote being one that is not confirmed; `moved`
is a history variable: a preview was answered while a prompt was open. In `RiskProfile` a profile is
identified by its version, an update carries the version its form was filled from (`basis`), a save goes on
when its screen, or the whole tree with the query client, is gone, and one whose caller has given up can
still be applied (`overdue`); `blind` is a history variable. In `Verification` a sheet covers the form while
the field below keeps the keyboard; the PIN pad is shuffled, and two digits tapped before the next render
both pass the test of the length (`PressDigits`), so that a PIN can get too long; it waits for a digit to be
removed then. In `Consultation` the wheel stops anywhere and settles on the nearest free slot.

**Diagnosis.** Weights in any scale, percentages compared by multiplying out. The floating point of the
code can differ from it at the boundary of exactly five points only.

**Platform and MCMobile.** Components that share no state are checked in one run by a variable `part`
that is chosen at the start: the steps are those of that part, the others stay as they began. The state
space is the sum of theirs, not the product, and a property of a part is checked in all of its behaviours.
`Platform` extends `OrderFlow` and has the others as instances; whatever bounds them is a constant of its
own with the assumptions the theorems need, and `Platform.cfg` with `MCPlatform` gives the values. It
checks safety only. `MCMobile` extends `AppAccess`; the bounds of its other parts are in the `WITH`, and it
states the fairness of its parts.

Abstractions common to all: identifiers are model values, random ones are new; wording, logging and
layout are left out; reads that change nothing are left out unless a later step depends on them.

## 3. The runs

| Run | Asks | Instance | Distinct states |
| --- | --- | --- | --- |
| `settlement` | idempotency, sums of cash, rows that agree, watched UNKNOWN orders, outcomes that are the brokerage's, refinement of `CashHolds` | 2 requests, 2 keys, 2 quotes, 2 workers, 1 fault, workers keep their leases | 573 598 (symmetry) |
| `leases_outlived` | what survives workers that outlive leases: fills are booked once, final is final | 2 requests, 1 quote, 2 workers, 1 fault | 183 905 (symmetry) |
| `release_after_fill` | violated: give-up of a filled order | leases outlived | to the violation |
| `outbox` | delivery, ownership, ends | 2 events, 3 workers, 2 faults, fair | 41 158 |
| `circuit_breaker` | one probe, recovery | 3 fetches of 2 pages, threshold 3, fair | 187 280 |
| `mydata_sync` | freshness, one run per job, order of data, ends | 1 connection, 2 jobs, 2 runs, 2 faults, fair | 189 024 |
| `sim_brokerage` | refinement of `Brokerage`, racing POSTs are answered | 1 order id, 3 calls, 2 bodies, 2 administrator steps, 1 failure | 619 168 |
| `mobile` | one prompt, guarded content, access kept, and everything a customer waits for: prompts, requests, fills, orders of unknown outcome | 2 prompts, 2 exits, timeout 2; 1 session, 2 requests; 2 quotes; 1 order with 2 workers, 3 faults and outlived leases; fair | 107 172 |
| `platform` | one property of each of twelve parts (`MarketCache` and `Identity` two) | in `Platform.cfg` | 965 398 (symmetry) |
| `logout_during_refresh` | violated: logout during a refresh | 1 session, 1 request | to the violation |
| `first_requests` | violated: the loser of two first calls is served | 2 calls, 1 subject, fair | to the violation |
| `stale_total` | violated: the total is the sum | 2 accounts, 2 moves, 2 syncs | to the violation |

*Why the bounds are enough.* The conflicts here are between two actors over one thing: two calls under one
key, two orders on one account, two workers on one job, a late run and its successor, a prompt and the one
that overtook it, two first calls of a subject, a starter and a joiner of a refresh. Two of each meet all of
them; a third worker in `outbox` lets an event be taken over twice, a third fetch in `circuit_breaker` a
late call, a probe and a refused call be there at once, and a third call in `Identity` an update under way
while two others race. Amounts {1, 2} with 3 units of cash have a fill below, at and above its reservation,
and two orders that do not both fit. `MaxAttempts = 2` has a retry and a last attempt; the attempts of a job
that leases are outlived on are counted up to `MaxAttempts`, which is all that the code compares.
`MaxFaults` bounds crashes, aborted transactions and outlived leases: one is enough to abandon a job at each
of its steps, two to abandon it again. One order id is enough in `sim_brokerage` since the locks and rows of
two ids have nothing in common. `MaxAdmin = 2` lets a scenario be set and reset, or set twice, within a
call. In `MarketCache` a value is fresh for two ticks and a request takes one: a value gets stale while a
refresh is under way; three calls are one that stores and answers, one that starts a refresh with what it
had read before, and one that joins it; one unnoticed store is enough for a chart to go back. The clock goes
two ticks from the start; the token a process may start with ends within them. In `Identity`
two subjects let a call be mistaken for another's, and three calls race for one key. In `PlanSimulation` two
parts to the smallest amount and factors of a half and three halves have values between two amounts that can
be stored, on both sides of the target; one plan leaves the range, and one is refused. In `AuthSession` two
sessions have one that is left and one that is entered, with two requests under way. In `Verification` a PIN
of one digit and two taps before a render have a PIN that gets too long, in both phases. In `ChartBars`
buckets of two instants and a limit of two buckets have rows merged and buckets cut. In `AssetData` two
accounts, two instruments, two days and two syncs with two moves between them have a holding that appears,
changes and goes, and a sync at midnight.

*Deadlock* is checked except where a system stops by itself: customers run out of quotes and keys
(`OrderSettlement`, `MCMobile`), calls are answered once and bounds are used up (`Identity`,
`Platform`, `AssetData`), jobs are used up (`MyDataSync`), events are all done (`OutboxDelivery`),
calls are made once (`SimBrokerage`).

*Fairness and why.* HTTP calls end by their timeout (`AbortSignal.timeout`), so an actor that waits for
one goes on (weak fairness of its steps). Schedulers tick on an interval in every process and go through
what is due in order, so a row that is due again and again is claimed in the end (strong fairness of a
claim per row, and of the recovery of an abandoned row: other rows may be claimed in between, which
disables it for a while). Native prompts end and secure stores answer. The database answers (`Identity`).
Nothing makes a customer act, a fault happen, an institution change or recover: recovery of an outage is
an assumption of `FetchesRecover` itself.

*`UnknownEnds` is about one order.* With two orders and outlived leases the second release of
`release_after_fill` can leave the reserved balance too small for the give-up of the other order, whose
transaction then fails at the CHECK every time (`~ReservedSuffices`): that order stays UNKNOWN. It is a
consequence of that finding and not stated as a property of its own.

## 4. The theorems

Proved for all values of the constants under the assumptions that the modules name.

*OrderSettlement* (`OrderSettlementProofs`). The inductive invariant `IInv` joins types to what each row
says of the others (orders and reservations, jobs and UNKNOWN, events and outcomes), what each request and
worker has in hand at its place in the code, and that a key's record names the order of its body.
`OneOrderPerKey`, `EventsTellOutcomes`, `UnknownOrdersAreWatched`, `TypeCorrect` and
`FinalOrdersStayFinal` follow from it whether or not workers keep their leases: in particular no balance
ever gets negative. Under `LeasesHold` a further part, `LeasesInv`, says that an active job is that of an
open order and has one worker at most (`ActiveJobsAreLive`); it is what makes giving up safe, and with it
every step maps to a step of `CashHolds` or to a stutter: `CashIsKept`. Without `LeasesHold` that theorem
is false, which the run `release_after_fill` shows.

*The rows and the sums* (the same module). Four more invariants, each inductive on top of `IInv`.
`RowsInv`: the SETTLE entry is there exactly for FILLED orders, the trail has one ORDER_FILLED for them and
none for others, and the position counts the executions; it holds with outlived leases too and gives
`SettlementIsBookedOnce`. `ReleasesInv`: under `LeasesHold` the RELEASE entry and the failures of the trail
are exactly those of REJECTED and FAILED orders, which gives `RowsTellOneStory`. `BalancesInv`: reserved is
the size of the set of units that open orders hold, and available, reserved and the units of all executions
are the cash of the start; each step moves units of one order (`MovesAddUp`), which gives `BalancesAddUp`.
`BrokerInv`: a record of the brokerage is only made by a POST that still travels, and every decided answer
repeats the record; it gives `OutcomesAreBrokers`.

*OutboxDelivery.* A worker that has published an event it still owns has left a receipt
(`PublishedWasRecorded`): with it a processed event was delivered, an event ends by its owner and stays
ended, and a failed one had its attempts.

*CircuitBreaker.* `ProbeDecides`: half-open implies a call under way that will decide it, whatever calls
outlive. `OneProbe` needs `Timeout < OpenTime` (5 s and 30 s are the defaults): every call of before the
breaker opened has ended when it half-opens. `ClosedWhileHealthy` links the state to the counter.

*MyDataSync.* `Linked` (rows and runs name each other), `OneActive` (the partial unique index),
`FromInstitution` (nothing is newer than the institution, and a dataset was fetched after it was asked
for), and, while no run outlives its lease, `Alone` (a job has one run, which has it FETCHING or has just
completed it without knowing) and `Fresh` (what a run has fetched is no older than what is stored).
`CompletedSyncsAreFresh`, `JobsHaveOneRun` and `DataOnlyGetsNewer` follow.

*SimBrokerage.* `OneWriter` (the advisory lock) and `ReadsAreCurrent` (what a transaction has read of its
order still holds when it writes, although a reset takes no lock: a reset can only make an order
missing, which is what an insert has read, and waits for the rows that a GET will update) give
`NoDuplicateKey`, `FindSettles` and the refinement `SimulatorIsBrokerage`.

*AppAccess.* `IInv` is types, `OpenInFlight` (an open prompt is the one in flight), `CurrentIsFresh` (a
prompt that was not overtaken was begun since the last lock) and `UnlockedIsProved`: `SinglePrompt` and
`ContentIsGuarded` follow. `AccessIsKept` needs two more: `ClocksAgree` (the time away that the
lifecycle measures is the time that has passed) and `RecordStands` (the unlock screen stands for a
recorded set-up, and no reset is under way before the content except one that has removed the record).

*Platform* (`PlatformProofs` for the server's parts, `PhoneProofs` for the phone's). A step of `Platform` is
for each part a step of its own or none (`Frame`), so each part has an invariant that only its own
actions can disturb.

- *Identity.* `IdentityInv`: a call that has found or made a user has found the one that its subject
  leads to (`RequestsInv`); a call about to commit holds the key of its subject, which has no user yet
  (`ClaimsInv`), so the users there are are those of the subjects (`UsersInv`); version i of a
  profile was written by an update for that user that expected version i - 1 (`ProfilesInv`) and had the
  scope (`AnswersInv`); and what is in the trail, or on its way there, is applied (`TrailInv`).
  `UsersAreUnique` and `UpdatesAreAccounted` follow for any number of calls and subjects.
- *MarketCache.* `RefreshInv` bounds when a token was asked for and how long a fetch can go on, which is
  all that `TokensOutliveRequests` needs. `AnswersNeverRollBack` needs to know what a refresh falls back on.
  Quotes stay stored, so that a quote newer than the one in hand can be bounded in time (`QuoteInv`): one
  newer than what a call has just read was stored in the same instant, and one newer than what a refresh
  falls back on was fresh when the refresh began, so that whoever has read it does not join. Charts are
  replaced: what this process has just replaced is new (`ReplacedInv`), and as long as it knows of every
  store, what a call has read and what a refresh falls back on is the chart that is stored (`ChartInv`). For
  any number of calls, rows and restarts, with other processes.
- *ChartBars.* The invariant itself is short (what is stored has one bar per instant, what is shown is
  the newest of what the chart was made from); the work is in lemmas on finite sets of bars: bars have
  ranks, which number them (`RanksNumber`); `Newest` takes those of the lowest ranks; one bar of each bucket
  remains, the last (`Deduplicate`); the rows that are read are enough for the buckets that are shown
  (`ReadsEnough`); and the repair leaves one bar per bucket (`RepairMerges`). `ChartsAreNewest` follows.
- *AssetData.* A sum is the size of a set with as many elements as the numbers have units (`Units`), so
  that sums over equal functions, over zeros and over parts of a set are facts about finite sets.
  `AssetsInv`: no account is ever closed at the institution, so a sync meets every stored account
  (`PagesInv`); the allocation of every snapshot adds up to its total (`SnapshotsInv`); and until
  something has touched the rows the summary is the sum. The step that matters is the completed sync:
  what it writes is what it has counted. `SyncedTotalsAreSums`.
- *PlanSimulation.* Some order of the places sorts any values (`OrderExists`, by the ranks of bars that had
  the values for instants), a value's place among the sorted ones bounds how many reach the target
  (`PlaceTellsCount`), the places of the percentiles are in range and far enough apart (`Places`), the
  values of a path are numbers in every month (`ValuesAreNat`), and rounding keeps the order of values, keeps
  amounts that can be written, and shows nothing above a target that has not reached it and nothing below
  one that has (`MoneyKeepsOrder`, `MoneyOfWhole`, `MoneyBeyond`). So whatever the engine makes is
  consistent (`RunsAreConsistent`), and the phone only ever shows what it made (`PlansInv`):
  `ResultsAreConsistent`.
- *OrderFlow.* The invariant is about every POST of a quote wherever it is (`Posted`: in a confirm, late
  on its way, or recorded as an order): none for a quote that is still to be shown (`NewIsUnsent`), and
  until a preview is answered under an open prompt all of one quote have one key (`OneKey`), that of now
  for the quote that is shown (`CurrentKey`). `QuotesAreBoughtOnce`.
- *AuthSession.* `SessionInv`: until a deletion fails, or a login or logout overlaps a refresh or the
  clearing after a second 401, or such a clearing begins during a refresh, the app is in one of four
  situations, whatever requests are under way: nothing is read yet (`Unread`), the user is logged in with
  tokens of one session, which a refresh under way carries on (`Steady`), a login is storing its token
  (`Entering`), or no token is left and something under way will show the login screen (`Gone`). In the
  first three the stored token is the newest of its session, unless a restart has lost a rotation.
  `TokensAlwaysAgree`.
- *RiskProfile.* `RiskInv`: cache and fetch are those of the customer who is logged in, the settings show
  what the cache has, and an update was made from the very version it names, also one whose caller has
  given up and that the server still gets (`OverdueInv`). `NothingOverwrittenBlindly`.
- *ApiCalls.* `ClientInv`: the server holds what it can have come to hold, an answer on its way is one that
  its guard accepts, and a mutation has not run while it is being sent. `CallsAreAlwaysServed`.
- *Verification.* `FormsInv` keeps the agreements consistent and a keypad that shows every digit; the
  latter holds because an exchange of two keys hides none and the loop of `shuffledDigits` makes nothing
  but exchanges (`ShuffledUnfolds`, `ShufflesShowAll`). `ConsentsAlwaysAgree`.
- *Consultation.* `VisitsInv`: a slot that is chosen or drafted is one of the day's available ones; the
  wheel finds a nearest one because preferring orders the slots. `ProposedSlotsAreFree`.
- *Diagnosis.* `CoachInv` is only types: the class furthest off is the largest of finitely many excesses,
  for any weights. `VerdictIsForAll`.

*Recursive functions and data of any size.* Where an argument is by induction over data (the months of a
path, the places of the keypad) it is made as one of a least counterexample (`LeastOf`, from the
well-foundedness of the naturals); sums, ranks and sortings are sizes of finite sets and injections
between them.

*What the theorems assume of the constants,* each in the module that declares it. Most say that amounts,
instants, weights and counts are whole numbers, that a sentinel is not a value (`NoUser`, `Unset`) and
that a keypad has two keys (`KeypadAssumption`). Three say more:

- `TokenAssumption`: a token stops being used `Margin` before its end, which is at least twice what a
  request may take, and it lives longer than two requests. The code has a margin of 60 s and caps the
  timeout at 30 s (`kis-market-data.adapter.ts:171`, `:225-230`).
- `FreshnessAssumption`: a value stays fresh for as long as two requests take. So it is with the defaults
  (30 s and 5 minutes against timeouts of 5 s, `market.service.ts:27-28`); the configuration may say as
  little as 1 s (`market.service.ts:203-208`), of which the theorem says nothing: TLC has a
  counterexample with three calls, a fresh time of one tick, requests of one tick and a token that ends
  between two refreshes (section 5).
- `LimitAssumption`: the rows that `listBars` reads (`Math.min(limit * 8, 1000)`) are those of as many
  buckets as the chart shows: 8 rows in each, and for the longest chart (156 weeks) 6. It is about rows
  that an older version has stored; the present code stores one per bucket.

`LeasesHold` and `Timeout < OpenTime` are antecedents of the theorems that need them, with a run or a
sentence on what happens without.

*Only model-checked.* All liveness (`UnknownEnds`, `EventEnds`, `SyncEnds`, `FetchesRecover`,
`RequestsEnd`, `WaitingEnds`, `FillsAreSeen`), which is out of the provers' reach, and the four
disagreements of section 5, which are counterexamples. Every safety invariant, action property and
refinement that a passing run checks is proved. The type invariants of the modules with proofs are
proved and not run.

## 5. Where code and documents disagree

Shown by a run:

- `release_after_fill`: giving up a job does not look at the order; a worker on its last attempt
  releases the cash of an order that a worker who outlived its lease has settled.
- `logout_during_refresh`: a refresh that was under way during a logout writes both tokens back.
- `first_requests`: the unique violation of the loser of two first calls is looked for on the error that
  drizzle wraps around it; the call is answered 500, where `API_CONTRACTS.md` has it provision
  idempotently.
- `stale_total`: the total assets are a snapshot that orders do not touch; after a settlement they are not
  the sum of the accounts and holdings that the API shows beside them.

Met while modelling, without a run:

- `finapp_fund_reservation.expires_at` is written (`REPO:302`, `REPO:338`) and never read: a process
  that dies between its transactions leaves a PENDING_SUBMISSION order that holds its cash for good.
- The last of a job's attempts ends in FAILED and gives the cash back (`REPO:891`, `REPO:909-1003`)
  although a brokerage that stayed silent may have filled the order or still fill it.
- A late run of a sync revives a FAILED job as COMPLETED (`MR:338-391`, `MR:653-663`).
- A sync that was created under a consent runs after the consent has ended (`MR:731`).
- Two syncs asked for at once: the unique index lets one in, and the other is answered with that one,
  unless it has ended before it is looked up (`MR:203`): then the call fails.
- The day's snapshot has the totals of the connection synced last (`MR:589`), where
  `docs/DATA_MODEL.md` says that the total is that of all cash and holdings; `summary()` reads it and the
  accounts in queries of their own (`modules/wealth`, `drizzle-wealth.repository.ts:76-115`).
- The history of range ALL is the first 1000 days (`drizzle-wealth.repository.ts:253-277`), so that the
  newest are missing after that, where `API_CONTRACTS.md:305` has the server downsample it.
- After a reset that fails the access phase stays "authenticating" (`AppAccess!ResetFails`);
  `WaitingEnds` leaves those runs out.
- A preview answered while a prompt is open sends the old quote under the new key
  (`use-order-flow.ts:79`); `QuoteBoughtOnce` leaves those runs out.
- Bars are deleted and inserted (`drizzle-market.repository.ts:238-274`), where
  `MARKET_DATA_INTEGRATION_PLAN.md:511` speaks of an upsert; an empty answer wipes the cached bars
  (`market.service.ts:128`).
- A chart can be answered that is older than one the caller has just read: `barRefreshAt`, the time of the
  last chart refresh, is in the memory of one process (`market.service.ts:175-180`). A call at process 1 reads
  an old chart and starts a refresh; process 2 stores a new one; a second call at process 1 reads it, finds it
  not fresh, and joins; the provider fails, and both are answered the old chart as STALE. The same follows a
  save whose answer was lost. `NeverRollsBack` speaks of charts until then.
- The p50 of a simulation can be shown equal to the target while fewer than half of the paths have reached it:
  percentiles are rounded to four decimals when they are stored (`drizzle-simulation.repository.ts:92-97`), the
  goal is counted before (`simulation-engine.ts:136`). `ResultIsConsistent` leaves the equality out.
- Two digits tapped within one render both pass `pin.length < PIN_LENGTH` (`pin-setup-screen.tsx:54-58`), and
  the effect compares the length with `!==`: a PIN that has got too long waits for a digit to be removed.
- With a fresh time below the time of two requests a call can be answered an older quote than one before
  it: a refresh that fails falls back on what its starter had read, although a newer value has been stored
  and answered since, and has become stale (`market.service.ts:203-208` allows 1 s).
- The audit of a simulation fails after the run is stored: the answer is 500 and the run is there
  (`simulation.service.ts:94-110`).
- The draft of a simulation survives the logout (`simulation-draft-store.ts:29`), where
  `ARCHITECTURE_GUIDE.md:433` has a logout remove the state of the user.

## 6. What is left out

*Not modelled at all:* the wealth and market screens (queries and layout; what they show is in `AssetData`
and `MarketCache`, how they ask in `ApiCalls`), the design system, contract schemas and scripts.

*Left out of what is modelled:* cryptography (token signatures, KMS), SQL itself (a statement or transaction
is its effect), the wording of problems, pure presentation, and code that no route reaches (an older
`AppLockBoundary`). The covariance model behind the simulation's growths is floating point. `getOrder` and
`listOrders` read; cursors and the ranking of the stock search are not modelled. In `OrderSettlement` there
is one user, one account and one instrument: rows of others have their own locks. The consumer of the outbox
is the local receipt. In `AuthSession` a request has a token and no payload, and not the session it was made
in. The lock order inside two transactions (job before order in giving up, order before job in applying) is
not modelled; the database ends a deadlock with an error, which is a `ReconcileAborts`. In `SimBrokerage`
the accounts and prices that a reset puts back are the same every time, and administration is enabled, as it
is outside production. Of a second process beside the first `MarketCache` has what it stores, not its calls.
`MyDataSync` and `AssetData` have one connection: totals over several and the ten connections that the
scheduler takes at a time (`MR:727`) are not modelled. The migration runner, the metrics and the formats of
the market provider are left out. `PROJECT.json` says of every component what of it is modelled.

## 7. The plan

Done, in this order: `OrderSettlement` with `CashHolds`, `OutboxDelivery`, `CircuitBreaker`,
`MyDataSync`, `AuthSession`, `AppAccess`, `OrderFlow`, `SimBrokerage` with `Brokerage`; then `Identity`,
`MarketCache`, `ChartBars`, `AssetData`, `PlanSimulation`, `ApiCalls`, `RiskProfile`, `Verification`,
`Consultation`, `Diagnosis`; and the proofs of all of them.

Next, by importance:

1. Several connections in `AssetData` and `MyDataSync`: totals of a day, and whether every due connection
   is reached when the scheduler takes ten at a time and failing ones stay in front.
2. The session a request was made in (`AuthSession`): a replay after a change of customer.
3. The order of locks inside the two transactions of `OrderSettlement`, and their deadlock.
4. The calls of a second process in `MarketCache`, two sources of bars in one chart, and the ranking and
   cursors of the searches.
