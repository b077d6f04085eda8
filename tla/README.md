# TLA+ specifications of rogueserver

rogueserver is the HTTP backend of the game client: accounts and sessions, the
cloud copies of the system save and of the runs, the daily run and its rankings.
It is one Go process (`rogueserver.go`) in front of a MySQL or MariaDB database
(`db/`) and, optionally, an S3 bucket for the system saves.  Every request runs in
a goroutine of its own, and nearly every handler is a series of statements that
commit one by one.  What makes the program hard is therefore what happens
*between* two statements: another request, a failure, a restart, midnight.

The modules here are written from the Go code.  One action is one SQL statement
(or S3 or HTTP call) with the local decision the handler takes on its result.
Paths below are relative to the repository.

## 1. Inventory

| Component | State | Operations | Interacts with | What is hard |
|---|---|---|---|---|
| Save-data endpoints (`api/endpoints.go` 322-662, `api/savedata/{system,session,update,utils}.go`, `db/savedata.go`, `db/s3.go`) | `systemSaveData` or an S3 object, `sessionSaveData`, `accountStats`, trainer/secret ids in `accounts` | system get, update, verify, delete; session get, update, delete; updateall | sessions (token), hand-off | read-check-write over up to eight statements with no transaction; partial failure; lost answers |
| Active client hand-off (`db/account.go` 399-425) | `activeClientSessions` | `IsActiveSession`, `UpdateActiveSession` | the save endpoints | two devices; the claim when there is no row; a takeover between check and store |
| Daily seed (`api/daily/common.go`, `db/daily.go` 30-63) | `dailyRuns`, the secret file | `Init`, the cron job, `Seed`, `TryAddDailyRun`, `GetDailyRunSeed` | clears, `/daily/seed` | two clocks, midnight, several servers with different secrets, one attempt a day |
| Run clears (`api/savedata/{clear,newclear,common}.go`) | `accountDailyRuns`, `dailyRunCompletions`, `accounts.banned` | clear, newclear | daily seed, run saves | duplicate clears, midnight, errors that are logged and dropped |
| Accounts, login, sessions (`api/account/firebase_login.go`, `login.go`, `logout.go`, `api/common.go`) | `accounts`, `sessions`, the allow-list of the build | Firebase login and registration, logout, token authentication | every endpoint | two first logins, two identities with one nickname, lost answers |
| Provider links and admin routes (`api/endpoints.go` 739-1060) | `accounts.discordId`, `.googleId` | callback, provider logout, admin link and unlink | Discord, Google | links racing links, UNIQUE columns |
| Game version and migrator checks (`api/savedata/utils.go`) | none | `CompareGameVersion`, `ValidMigrators` | save endpoints | malformed versions, missing parts and zeros, missing map keys |
| Firebase certificate cache (`api/account/firebase.go`) | keys and the time of the fetch under an RWMutex | `get`, `refresh`, verification of ID tokens | login, Google | refresh outside the lock, answers out of order |
| PvP collection (`api/pvp/collection.go`, `db/collection.go`) | `bankedPokemon` | bank a batch, list | sessions (token) | several rows in one transaction, lock waits, a lost answer to the commit |
| Daily rankings (`db/daily.go` 66-123) | `accountDailyRuns`, `accounts.banned` | ranking of the day and of the week, page count | clears | paging over changing rows, bans, ties |
| PvP records and rankings (`db/pvp.go`) | `pvpRecords` | read-only queries; nothing writes | | |
| Title statistics (`api/stats.go`, `db/game.go`) | three package variables | cron refresh, reads | | overlapping jobs, failed queries |
| Schema setup (`db/db_setup.go`) | the schema | DDL at every start of a devsetup build | every statement | DDL commits implicitly, several servers start at once |
| Connection, routing, OAuth clients, password accounts | | I/O, or routes that answer "disabled" | | |

How they interact: a request passes the routes, its token is looked up in
`sessions` (Accounts), and its handler runs statements of its own component.
Clears read the seeds (RunClear extends DailySeed) and write the results that the
rankings read.  A sign-in takes its key from the cache before it looks for the
account.  Everything meets in two events: the process ends (every request in
flight, every cache and every open transaction goes at once), and the day changes.

What makes each one correct:

- *Save data*: a save is never replaced by an older one, ids settle, statistics
  never lag behind the save, a client that was cut off can repeat its update.
- *Hand-off*: "valid" is told, and a save overwritten, only by a client that was
  sent the save or that the server itself made the active one; without the session
  endpoints and failures, only by one that holds the stored save.
- *Daily seed*: every day has one seed, its own, and it never changes.
- *Clears*: a seed pays once, the best result of the day is kept, nothing is
  deleted before it counted, a score over the cap bans.
- *Accounts*: one account for an identity, nobody in another's account, a token
  that was handed out works, cheat access follows the allow-list.
- *Versions*: the comparison is the order of versions, for any number of parts.
- *Certificate cache*: a withdrawn key stops working, a new one works at once.
- *Collection*: a batch is banked whole or not at all, and every upsert is answered.
- *Rankings*: the page count and the pages agree; ties go to the earlier result.
- *Title statistics*: what is shown becomes true again after any failure.
- *Schema setup*: whoever serves has the whole schema; every server gets to serve.

`PROJECT.json` lists every hazard with the line where it bites and the property
that would catch it.

## 2. Modules

| Module | Models | Proofs |
|---|---|---|
| `GameVersion` | version order and migrators, as operators | `SaveSyncProofs` |
| `SaveSync` (extends `GameVersion`) | the save endpoints and the hand-off, for one account | `SaveSyncProofs` |
| `DailySeed` | servers, clocks and claims of the daily seed | `RunClearProofs` |
| `RunClear` (extends `DailySeed`) | clear and newclear, for one account | `RunClearProofs` |
| `Accounts` | logins, sessions, provider links, admin routes | `AccountsProofs` |
| `SchemaSetup` | `setupDb` and the start of several servers | `SchemaSetupProofs` |
| `CertCache` | the key cache with concurrent sign-ins | `CertCacheProofs` |
| `BankedCollection` | what the collection promises: an atomic bank | |
| `Collection` | the statements of its transaction; implements `BankedCollection` | `CollectionProofs` |
| `Rankings` | results, bans, rankings and a client that walks through the pages | `RankingsProofs` |
| `TitleStats` | cron jobs and the numbers they assign | |
| `Server` (extends the four above) | the parts one process keeps, which stop together | `ServerProofs` |
| `MC*` | small instances for TLC | |

Operators called `Something_wrong`, or `Something_<what is wrong>`, directly before
`Something` are plausible bugs of that definition; they are used by no
specification and serve to show that the properties can fail.

### SaveSync

`pc[r]` is the statement request `r` is about to run; `active`, `ids`, `stats`,
`system`, `session` are the rows of the account.  `s3` says whether
`S3_SYSTEM_BUCKET_NAME` is set.  The statements of updateall, in their order:
`CheckActive` (with `ClaimActive` when there is no row), `FetchIds`, `SetIds`,
`CheckSystem`, `CheckSession`, `StoreSession`, `UpdateStats`, `StoreSystem`,
`Reply`; system update leaves out the run, the session endpoints begin with
`TakeOver` instead.  `LoadSystem` is the read of get and verify and `Send` their
answer, which other requests may overtake.  `Abort` is a failing statement, a lost
answer or the end of the process (then every request aborts).

History variables: `copy` is what each client holds of the system save: nothing yet,
the stored one, one replaced or deleted since, or, `"unsent"`, it was made the
active client without being sent the save (a session endpoint, a get or verify whose
read fails or whose answer is lost, or has not come yet); `raced` says that another
request wrote since this one began, `racyWrite` that such an overtaken request wrote, `retry` is the request whose failure the client has just
been told of.  The code takes no lock, so an overtaken request can undo what the
checks protect: the properties state what holds without one, and the run
`SaveSync_playtime_race` shows what happens with one.

Abstractions: one account, since every statement is keyed by its uuid; a save is
its ids, play time, version (a sequence of parts, `GameVersion`) and the times of
its migrators, and whether its statistics are ones that `UpdateAccountStats` can write
(`numbers`); a run save is its seed and wave.  A play time that is missing is
`NoNumber`: `validatePlaytime` refuses it in the new save and in the stored one
(`ErrNoPlaytime`), and `UpdateStats` leaves the column alone.  A save that comes when none
is stored is checked against nothing: it is stored with a play time that is missing
and with a version below the minimum or that does not parse.  Every later update is
then refused, its own repetition included (`TakenUnchecked`), and when the version
does not parse get makes the client active and answers 400 (`LoadFails`).  Not
recorded: `lastActivity`, and the game version that get rewrites in its answer.  A play
time is a natural number: what the column makes of a fractional or an overflowing one
is not modelled.  Deleting
the system save is a no-op in S3, as in the code.  `delete` does not ask whether
the client is active, as in the code.  `SerialClients` says that a client awaits
each answer; it is an assumption about the client, used by `SaveSync_handoff` and
`SaveSync_s3_verify` and by nothing else.

What is said of the hand-off comes in two strengths.  `ValidMeansHandedOver` and
`OverwriteAfterHandOver` hold on any endpoints, with failures and in either store, and
are proved: "valid" is told to, and a save overwritten by, only a client that holds the
stored save or that is active and `"unsent"`.  They count such a client in because
the code does: every session endpoint makes its client active (`api/endpoints.go` 345)
and sends it no system save.  `ValidMeansCurrent` and `NoUnseenOverwrite` leave no such
exception and hold only without these endpoints and without failures.

`GameVersion`: `Parses` is `parseGameVersion`, `trimTrailingZeros` and `Precedes`
(`slices.Compare`) make `CompareGameVersion`.  A part that `strconv.Atoi` refuses is
`NoNumber`; signed parts, which it accepts, are left out.  `NotLater` is the
reference order: a missing part is 0, and the first parts count most.  A migrator
that the new map lacks reads as 0 (`Timestamp`).

### DailySeed

`today` is the `UTC_DATE()` of the database, `day[s]` the day of a server's clock;
they differ by at most one midnight.  `Start` is `daily.Init`, up to the first
statement of its claim; `CronClaim` the cron job; `ClaimInsert` and `ClaimSelect`
the two statements of `TryAddDailyRun`; `Stop` and `Redeploy` end a process, the
latter with its `secret.key`, which is on no volume in the compose files.  `torn`
collects the days that a claim may have spoiled: it ran while a clock struck or
while the clocks differed, or it failed.

A cron claim is over before the next midnight, because the driver bounds every
statement (`db/db.go`: 5, 10 and 5 seconds).  A startup claim can meet a midnight,
because a process can be started at any time.  md5 is taken to have no collisions.
The secret a running server holds is the one in its file.

### RunClear

`at[r]` is the next statement, `run[r]` the run in the request.  Only the first
statement of `Clear`, `GetDailyRunSeed`, ends the request when it fails; the errors
of the others are logged or dropped (`StatementFails`) and the handler goes on.
The foreign key from `accountDailyRuns.date` to `dailyRuns.date` makes `Record`
fail when a new day has no seed yet.  `wins` counts the clears answered with
success, `crossed` says that the database's midnight passed since the request
began, `failed` which kinds of statements have failed.

Abstractions: one account; a classic and a daily completion share the primary key
(uuid, seed), as in the schema; the column `timestamp` of `accountDailyRuns` is left
out.  `StoreRun` stands for the session updates of `SaveSync`, whose
`UpdateActiveSession` is not repeated here.  newclear's answer is a hint: it
promises nothing once another clear has run, so no property is about it.

### Accounts

`accounts` is keyed by username, which is unique, like the uuid, and never changes;
no row is ever deleted.  `sessions` maps tokens to accounts.  A login is
`FindAccount`, `Register` when there is no account, `SetCheats`, `AddSession`,
`Reply`; the Google callback is `FindSession` and `LinkGoogle`, or `FindLinked` and
`AddSession`; the routes that need a session begin with `Authenticate`.  `Deploy`
replaces the build, and with it the allow-list in its source, and kills the
requests in flight.

History variables: `origin` is the Firebase identity a token was drawn for,
`handed` the tokens clients hold, `current` the tokens of Firebase logins to the
running build, `knew` whether the identity had an account when its login began.

Abstractions: 32 random bytes are never drawn twice; the email in the ID tokens of
an identity does not change; the Discord role check is a choice; Google and Discord
ids are different things; case-insensitive comparison of names is not modelled.
`CheckUsernameExists` and `FetchUUIDFromUsername` are one action, since rows never
vanish.  `expire` is written and never read by the code, so a session ends by logout
only; `lastLoggedIn` is left out.  The clients present tokens they were handed.

### SchemaSetup

`queries(c)` is the list of statements of `setupDb` in an environment `c`; `next[s]`
the one server `s` is at.  A table is created by one idempotent statement, with all
its columns when it is new.  A column or an index is two statements, `LookFor` in
`information_schema` and `AddMissing`; in between another server may add it, and
then the database refuses the statement (`Refused`) and `log.Fatalf` ends the
process.  `Fail` is any other failure or the end of a process, before or after it
serves.  Nothing is undone: the surrounding transaction does not cover DDL.
`Requires` are the foreign keys and the tables that a column or an index needs.
The statements are those of a devsetup build; any other build does nothing here.

Abstractions: an object is there or not, its definition is not modelled; old
schemas are sets of objects.  `ConfigsAssumption` excludes a server with
`AWS_ENDPOINT_URL_S3` and without `S3_SYSTEM_BUCKET_NAME`: it would look for a table
that nobody creates, which is recorded under findings.

### CertCache

`keys` and `fetched` are the cache, `at[l]` the point of `get` that sign-in `l` has
reached.  `Lookup` is the first read under the lock; `GoogleAnswers`, `Install` and
`RefreshFails` are `refresh`, outside of it; `Reread` the second read.  Google
publishes and withdraws keys at any time.  `CacheStops` loses the cache.

Abstractions: a token is the id of its key; the checks of signature, claims and
email are functions of the token alone and not modelled.  `http.Get` has no timeout,
so how old an answer can be is an assumption about the environment: `MaxDelay`.
No time passes in the middle of a local step.

### Collection and BankedCollection

`BankedCollection` has one step in which a batch takes effect (`Apply`), and answers
`ok` only after it.  `Collection` has the statements: `Validate`, `Begin`, one
`Replace` for each entry, `Commit`.  A transaction keeps what it replaced
(`replaced`), and those rows are locked until it ends; a statement that wants one of
them waits until `LockWaitEnds` fails it (deadlock detection, the lock wait timeout
of the database, or the read timeout of the driver).  `StatementFails` also stands
for a commit that went through with its answer lost.  The refinement maps a request
to `asked` until it has committed; `CollectionIsAtomic` is the abstract
specification itself, as a property.

Abstractions: `data` of an individual is opaque; the listing is a single SELECT.

### Rankings

`rows` is `accountDailyRuns` by account and day, `Orders` all orders the ranking query
may return, `FetchRankings` and `FetchRankingPageCount` a page and the count.
`walk` is a client that asks for the count and then for one page after the other,
with results, bans and midnight in between.  `Updated` evaluates the assignments of
`ON DUPLICATE KEY UPDATE` from left to right, as MySQL does; so the timestamp, which
is compared with a score that has been raised, never moves.  `first` and the fields
`steady` and `calm` of the walk are history variables.

Abstractions: the wave is left to RunClear; a result of several rows in a week has
the timestamp of any of them.  The subquery with the rank and the outer query agree
on the order: the outer one states none, and the database returns the rows in rank
order.  `handleDailyRankingPageCount` goes on after a failed count (`api/endpoints.go`
731-735 has no return) and appends a 0 to its error; a walk begins with a count that
did not fail.

### TitleStats

`truth` is what a query would return now, `shown` the package variable.  `Fire` starts
a job, whether or not its last run is over; `Evaluate` or `QueryFails` is the query,
`Assign` the assignment.  The variables are single words; a torn read is not
modelled.

### Server

One process: its parts are at work together or alone (`busy`), and `ServerStops` ends
all that is at work at once.  Every step of a part is a step of its own module and
leaves the others alone, which the proofs use.

## 3. Runs

| Run | Question | Bounds |
|---|---|---|
| `SaveSync_concurrent` | every endpoint, requests interleaved freely: do saves, ids, statistics and waves stay in order? | 2 requests, 1 client (whose requests overlap), 2 ids, 4 saves, 2 waves |
| `SaveSync_faults` | failures and lost answers at any point, both stores: can the client repeat its update, and is "valid" told, and a save overwritten, only after a hand-over? | 2 requests, 2 clients (whose requests overlap), all endpoints but session get and delete, 3 saves, 1 run |
| `SaveSync_handoff` | two devices: does "valid" mean current, is nothing overwritten unseen? | 2 requests, 2 clients that await their answers, system endpoints without delete and updateall, 3 saves, one of them without ids |
| `DailySeed` | one stable seed a day, and is there one? (safety and liveness) | 2 servers, 3 secrets, 2 days, 1 stop, 1 failed claim |
| `RunClear` | paid once, best kept, nothing lost? | 2 requests, 1 server, 2 days, 1 error |
| `Accounts` | logins, registrations, links and admin routes interleaved | 2 requests, 2 names, 2 identities, 1 Google and 1 Discord account, 2 tokens |
| `SchemaSetup` | does whoever serves have the whole schema, and does every server get to serve? (safety and liveness) | 2 servers, with or without S3, 3 old schemas, 2 faults |
| `Server` | keys, batches, pages and numbers, with stops of the process (safety, refinement and liveness) | 2 sign-ins and 1 key; 2 upserts of 5 batches; 3 players, pages of 2, 3 days, 1 new result; 2 counts, 2 jobs, 2 changes, 2 failures |

Four more runs end in a violation, each of something the repository says of itself:

| Run | Violated | What the code does |
|---|---|---|
| `SaveSync_playtime_race` | `PlaytimeNeverDecreases` (`api/endpoints.go` 93-94) | two updates pass the check before either stores |
| `SaveSync_s3_verify` | `ValidMeansCurrent` (`api/endpoints.go` 632) | with saves in S3, verify makes the client active, then fails on the database table; asked again it says "valid" |
| `DailySeed_midnight` | `RowThereAfterInsert` (`db/daily.go` 35-36) | midnight between INSERT and SELECT |
| `Accounts_admin_unlink` | `RemovedIdIsGone` (`api/endpoints.go` 1052) | the Google route's WHERE clause is on `discordId` |

Why the bounds are enough: every race in these handlers is between the check and the
store of *one* request and the stores of *another*, so two requests exhibit it; the
checks compare a new value with one stored value, so values below, at and above it
suffice.  The daily seed needs two days for one midnight; the same properties also
passed with three days (1.34 million states), too slow to keep as a run.  The faults
run gives each failure a fresh second request.  Two names and two identities give
the collisions of registration; symmetry is used on requests, clients, names and
identities, and never in the run with liveness.  In `SaveSync_handoff` the session
endpoints are left out: each of them makes its client the active one
unconditionally (`api/endpoints.go` 345) without sending it the system save, so no
such promise holds with them; what holds all the same is in `SaveSync_faults`.  That run
leaves out session get and delete, which make their client active just as session update
does and write nothing a property of the run reads.  No run has a client with an empty
id (`BlankClient`); the theorems do.

A save without a play time is in the concurrent and in the faults run, a version that
does not parse in the latter, where a retry meets both.  `SchemaSetup` needs two servers
for its race and one fault before and one after it; its old schemas are an empty one, one
from before the two columns, and one that lacks an index and a table.  In `Server`
one part is at work at a time: the parts share no variable, so what one does changes
nothing for another, and `ServerProofs` shows that for every workload.  One key that
is published, withdrawn and cached takes a clock of four with a lifetime of one and
answers that are one late; batches come in opposite order, empty, with an entry
without id and with an id twice; three players fill one page and begin another; the
first day is a Friday, so that two midnights begin a week.  Two jobs overlap.

Bounds in guards: `MaxDay`, `MaxStops`, `MaxFails`, `MaxErrors`, `MaxTokens`,
`MaxFaults`, `MaxTime`, `MaxResults`, `MaxChanges`.  A login that finds no token left
can only abort.

Fairness:

- `DailySeed`: weak fairness of every server's own steps, since a goroutine runs and
  `restart: unless-stopped` starts the process again, and of the midnights of a
  lagging clock.
- `SchemaSetup`: weak fairness of the start (the same supervisor) and of the next
  statement, which the driver's timeouts (`db/db.go` 62-66) end.
- `Collection`: weak fairness of the handler's next step, for the same reason; a
  statement that waits for a row ends in `LockWaitEnds` at the latest.
- `TitleStats`: weak fairness of a job that has started, and strong fairness of the
  scheduler's `Fire`: it fires for ever, and only the bound on the jobs that run at
  once disables it now and then.

Nothing is assumed about requests, clients, Google, stops or failures, except that
failures and stops are finitely many where a property says what holds in the end.

`CHECK_DEADLOCK` is off in `SchemaSetup` and `Server`, whose systems come to rest: all
servers serve and the faults are used up; the clock, the days and the results are at
their bounds.  It is left on in the other runs.

Recorded under findings without a run of their own: the first save of an account is
stored whatever its version and without a play time, and a migrator at time 0 may be
dropped; the timestamp of a result never moves; the compose example without a bucket; the setup that two servers
cannot run at once; logout of an unknown token; the Google callback's login.

## 4. Proofs

| Theorem | For every value of the constants |
|---|---|
| `SaveSyncProofs`: `TypeCorrect`, `SaveMatchesIdsHolds`, `StatsNotBehindSaveHolds`, `NoRollBack`, `IdsSettleHolds`, `NoWaveRollBack` | the safety properties of `SaveSync_concurrent` |
| `SaveSyncProofs`: `EverySaveCarriesOn` | a save carries on from every save stored before it, while none is deleted and no overtaken request writes |
| `SaveSyncProofs`: `CompareMeetsOrder` | `CompareGameVersion` is the order of versions |
| `SaveSyncProofs`: `RetryPassesHolds` | an update that failed half way passes when it is sent again, or was a first save that no check had seen |
| `SaveSyncProofs`: `ValidMeansHandedOverHolds`, `OverwriteAfterHandOverHolds` | the hand-off, on any endpoints, with failures and either store |
| `RunClearProofs`: `DailyTypeCorrect`, `SeedOfTheDayHolds`, `SeededWhenServingHolds`, `SeedStableHolds` | the safety properties of `DailySeed` |
| `RunClearProofs`: `ClearTypeCorrect`, `ClearImplementsDaily`, `FirstClearOnceHolds`, `OverCapMeansBannedHolds`, `BestKeptHolds`, `CreditedToItsDayHolds`, `NothingLostHolds` | RunClear refines DailySeed's safety part; every property of the run `RunClear` |
| `AccountsProofs`: `AccountsTypeCorrect`, `OneAccountEachHolds`, `TokenOfItsIdentityHolds`, `HandedTokenWorksHolds`, `CheatsFollowAllowListHolds`, `NicknameOnlyFirstHolds` | every property of the run `Accounts` |
| `AccountsProofs`: `AccountKeepsIdentityHolds` | no row of an account goes or changes its Firebase identity |
| `SchemaSetupProofs`: `SetupTypeCorrect`, `SchemaComplete` | a server that serves has the whole schema |
| `SchemaSetupProofs`: `RefusedOnlyInARaceHolds` | the setup is refused a statement only in a race |
| `CertCacheProofs`: `CertTypeCorrect`, `WithdrawnKeyIsRefused`, `CurrentKeyIsAccepted` | the key cache, for any number of sign-ins |
| `CollectionProofs`: `CollectionRefinesBank` | the transaction implements the atomic bank |
| `CollectionProofs`: `HeldRowsStandHolds` | no two transactions hold a row, and a held row does not change |
| `RankingsProofs`: `WalkShowsTheSteadyHolds`, `EmptyPagesMeanBannedHolds`, `TieByFirstResultHolds` | the safety properties of the rankings, for any page size and number of accounts |
| `RankingsProofs`: `OrdersExist` | every ranking has an order, so a walk is never without a next page to ask for |
| `ServerProofs`: `ServerRunsCert`, `ServerRunsCollection`, `ServerRunsRankings`, `ServerRunsStats`, `ServerTypeCorrect`, `ServerExpiresKeys`, `ServerAcceptsCurrentKeys`, `ServerShowsTheSteady`, `ServerPagesMeanBanned`, `ServerTieByFirstResult`, `ServerRefinesBank` | the server implements its parts, and what they promise holds in it |

They assume the named assumptions of the modules, which say that the sentinel
`None` is no value and that the sets of inputs are well typed, and nothing else.

*SaveSync.*  The properties of a step that stores (`SaveNeverRollsBack`, ...) are
about a check that was made several statements earlier, so they are not inductive.
The invariant (`Invariance`) adds, for every request, what it may rely on at its
statement as long as it has not been overtaken: past the check, the stored row is
the one that was compared.  A write by another request sets `raced`, which
releases the promise.  `EverySaveCarriesOn` takes what holds of two saves in a row to
any two: the order of versions is transitive (`NotLaterTransitive`).

`CompareMeetsOrder` compares the parts of the trimmed versions with those of the
versions themselves (`TrimKeepsParts`, `PrecedesByParts`): trimming takes zeros away,
and a part that is missing is a zero.

For `RetryPasses` the invariant `WrittenOK` says what a request that was not overtaken
has already written at each statement (`WrittenAt`): its client is active, its ids and
its run are stored.  A request that passes its checks against the stored save also
passes them against its own (`AcceptedOverItself`), if its save has a play time and a
supported version; it may lack them only where there was no save to compare it with,
which is the exception the property states (`TakenUnchecked`).  So whatever it has
written does not refuse it, and `RetryOK` carries that from the failure on.

The hand-off rests on `Handed`: the active client holds the stored save or is
`"unsent"`, nobody else is, and while there is no active client there is no save.  A
takeover keeps it because it marks the client it makes active (`HandedTo`), a store
because the client of an update that was not overtaken is still the active one
(`WrittenAt`), so the only copy that is not outdated is its own.  The claim is the
one statement that makes a client active without a mark: a claim that was not overtaken
finds the row still missing, and then there is no save to hold.  A write releases all
the other requests (`NoClaimLeft`); after a write by an overtaken one, `racyWrite` is set
for good and the properties promise nothing.

*DailySeed.*  A row's seed has the date it was claimed for, so `DailyInvariance`
follows every claim: a claim in flight on a day that is not torn has the seed of
today; and while a cron job is awake or a claim in flight the clocks are no
further apart than one midnight.

*RunClear.*  `FirstClearOnce` rests on a count: a seed has been answered with
success once if its completion is stored, else never.  The ban needs that a request
about to record a score at the cap has passed `Ban`.  The types of `dailyRuns` come
from `DailyInvariance` through `ClearImplementsDaily`.

The answer and the deletion of the run come last, and what they promise was stored
several statements before.  The invariant `DoneFirst` says what a clear has done by
each statement: past `GetDailyRunSeed` it knows today's seed, and that seed is the
one it read unless midnight has passed (`crossed`); past `Record` its result is among
today's (`Credited`); before `DeleteRun` its seed is completed (`Completed`); unless the
statement that does it has failed.  No step of another request takes any of this
away (`NothingTaken`): seeds and completions stay, results of a day only go up.

*Accounts.*  `AccountsInv` says what a request holds at its statement (`LocalInv`: an
existing account, for a login the one of its identity, and its cheat flag once it is
set) and where a token can be (`SharedInv`: in `sessions` from the moment it is
drawn, under way in one request only, unknown to the requests that present one
until it is handed out).  The requests interfere through the accounts alone, and
every step of another request lets them only `Grow`: rows stay, with their
identity, and a cheat flag is set to what the allow-list says.  So each step is
proved for the request that takes it, and `StepKeeps` carries the rest.

*SchemaSetup.*  The schema only grows, so the invariant is that the objects of the
statements a server is past are there; a table found by an older schema may lack
the two columns, which have statements of their own.  The list is in an order in
which everything a statement builds on comes before it (`QueriesInOrder`); so it is
there whenever a server comes to the statement (`GroundIsLaid`), and the only refusal
left is that another server has created the object since this one looked.  This is
the safety behind `EventuallyServes`: a refused server finds the object next time.

*CertCache.*  The invariant gives the keys in the cache, and those in an answer under
way, a time at which they were the published ones, no older than `MaxDelay` when they
were put into the cache.  Both properties compare that time with the key's own.

*Collection.*  The invariant says that a transaction holds exactly the last entry for
each id among those it has sent; `Commit` is then `Apply` of the whole batch, `Answer`
and `Ask` are steps of the bank, and every other step is a stutter.  That a held row
stands needs that a row is replaced in one transaction at a time (`HeldOnceInvariant`):
`Replace` takes only a row that nobody else holds, and other steps only give rows up.

*Rankings.*  The database may return any order in which nobody stands behind an
account it is ahead of.  Such an order lists every account once (`OrderListsAll`: an
injection between sets of one size), so those before a settled account are exactly
the ones ahead of it, and it stands at its `Place` in each of them
(`SettledAtItsPlace`).  The invariant of a walk (`SteadyWalk`) is that a steady account is
settled at a place within the pages counted, and has been seen once if its page has
been asked for and else not at all; a page adds the places behind the last one
(`PageShowsItsPlaces`), and the count has room for all of them (`PageCountCovers`).
`CalmWalk` keeps the page count of a walk during which nothing has changed: a counted
page without accounts means that fewer are listed than were counted
(`EmptyPageListsLess`).  `TieByFirstResult` rests on `StampIsFirst`: no result moves the
timestamp of the row it finds.  `OrdersExist` takes a smallest set of accounts without
an order, removes an account that is ahead of none of it, and puts it last.  A week's
score is written as a sum of seven terms, not as a sum over a set, because that is
defined by recursion, which these provers cannot unfold.

*Server.*  The specification of each part follows from that of the server: a step of
another part stutters, and `ServerStops` is the part's own stop or a stutter.  The
theorems about the parts carry over.

`GroundLaid`, `RefusedOnlyInARace`, `HeldOnce` and `HeldRowsStand` are stated in the
proof modules and are properties of no run.

Model-checked only: `TodayGetsSeed`, `EventuallyServes`, `UpsertEnds` and
`TitleStatsCatchUp`, which are liveness and out of the prover's reach; and
`ValidMeansCurrent` and `NoUnseenOverwrite`, which hold under the restricted use of
`SaveSync_handoff` only, so a theorem would have to assume it.  Every other safety
property of a run that passes is also proved.

## 5. Not modelled, and why

- Password registration, login and change: the routes answer
  `ErrPasswordAuthDisabled`; the functions behind them have no caller.
- PvP records and rankings: `RecordPvpResult` has no caller, so the table stays empty.
- The checks of an ID token (signature, claims, email): functions of the token.
- The HTTP server, CORS, flags, database DSN, TLS and pool settings, the calls to
  Discord and Google: input and output with no state of their own.  The pool cannot
  deadlock: no handler holds one connection while it asks for another.
- A ranking query that the database refuses: the weekly one orders by a column it
  does not group by (`db/daily.go` 84), which MySQL 8 rejects under its default
  `ONLY_FULL_GROUP_BY`; `Rankings` speaks of a database that accepts it.
- Setup in a build without devsetup, which does nothing.
- The struct definitions (`defs/`), beyond the fields that checks read.
- `sessions.expire`, written and never read; `lastActivity` and `lastLoggedIn`.

## 6. Plan

1. `SaveSync`, `GameVersion`, `DailySeed`, `RunClear`, `Accounts`, `SchemaSetup`,
   `CertCache`, `Collection`, `Rankings`, `TitleStats`, `Server`: done, with the proofs
   listed above.
2. Every safety property that holds without restrictions on the use: proved.  Still
   worth having: an abstract specification of one account's save that `SaveSync`
   implements as long as no overtaken request writes.
