# A verification development of the cafe and employee manager

This directory holds TLA+ modules that model the program in `src/`, TLC
configurations that check them on small instances, and proofs that TLAPS checks
for every value of the constants. `PROJECT.json` lists the components, the runs,
the mutants of each property, which lines of the source every definition stands
for, the hazards, and the theorems.

## The system and its parts

The program is a FastAPI backend over PostgreSQL with a Redis read cache, and a
React frontend that talks to it over HTTP.

| Part | State it keeps | Operations | Talks to |
| --- | --- | --- | --- |
| Write services (`employees/command_service.py`, `cafes/command_service.py`) | none of their own; one database session per request | create, update, delete of an employee and of a cafe | repositories, cache (bumps after the commit) |
| Persistence (`models/*.py`, `*/repository.py`) | tables `cafes`, `employees`, `employee_assignments`; unique, partial unique and foreign-key constraints, cascades | SELECTs, INSERT, UPDATE, DELETE, bulk DELETE | PostgreSQL at READ COMMITTED |
| Read services (`*/query_service.py`) | none | the two lists (filtered, sorted) and the two detail views | cache, then repositories |
| Versioned cache (`core/cache.py`) | in Redis: one version counter per list namespace and per detail record, payload keys that contain the version, expiry times | lookup or initialise a version, get, set, bump; each with retries and a logged fallback | Redis |
| Sessions and engine (`core/database.py`) | a connection pool | open, roll back, close; map lost connections to 503; readiness probe | PostgreSQL |
| Failure handling (`core/resilience.py`, `core/error_handlers.py`, `core/exceptions.py`) | none | bounded retries with exponential backoff, classification of errors, status codes | every other part |
| Readiness (`core/readiness.py`) | none | probes of database and Redis | engine, cache |
| Start and seeding (`docker-entrypoint.sh`, `scripts/seed.py`) | none | migrate, upsert the seed rows, serve; no bump follows the seeding | PostgreSQL |
| Schemas and routers (`*/schemas.py`, `*/router.py`, `shared/*`) | none | validation, path parameters, days worked | services |
| Frontend data layer (`app/queryClient.ts`, `api/*`) | query cache with stale times | queries with retries, mutations, invalidation | backend |
| Frontend routes and forms (`routes/**`) | form values, dirty flags | fill, edit, submit, leave | data layer |

What makes it hard:

* every request is a thread, no statement but the bulk DELETE takes a lock that
  the services rely on, so anything may commit between two SELECTs of a request;
* a write commits in PostgreSQL and afterwards bumps counters in Redis, with
  reads, fills, failures and crashes in between;
* the decision *what* to bump is made from rows read before the commit;
* Redis calls are retried although INCR is not idempotent, and their failure is
  swallowed by design ("stale cache possible");
* deletions of cafes delete employees with all their history by cascade, and
  wait for each other's row locks;
* the container seeds again at each start, against rows users have changed.

What would make each part correct: reads never older than an acknowledged write
and never stale for ever (cache); the schema's promises and an append-only
history under every interleaving, error answers only when a race justifies them,
and an answer to every request (write services); every changed view bumped unless
a race hid the change (invalidation); a start that always succeeds and keeps what
users did (seeding); bounded retries and the right status (failure handling); a
screen that converges to the database and a form that never overwrites what it
did not show (frontend).

## Modules

```
RegularReads         what a cached view promises its readers
  ^ implemented by
VersionedCache       one cached view: reads, fills, bumps, faults, expiry
  VersionedCacheProofs, MCVersionedCache
WriteServices        the six write operations over the three tables
  WriteServicesProofs, MCWriteServices
  ^ implemented by
FlushLocks           the statements of each flush and their row locks
  FlushLocksProofs, MCFlushLocks
Invalidation         the bumps that follow each commit, composed with the writes
  InvalidationProofs, MCInvalidation
Tenure               dates: start and end of assignments, days worked in the list
  TenureProofs, MCTenure
Seeding              every start of the container, against rows users changed
  SeedingProofs, MCSeeding
Screens              a browser tab: pages, query cache, forms, saves
  ScreensProofs, MCScreens
ConnectionPool       requests in time: retries, timeouts, who keeps a connection
  ConnectionPoolProofs, MCConnectionPool
```

**VersionedCache** is one view: a list namespace or one detail record. `counter`
and `entries` are its keys in Redis, a payload is the number of commits it
reflects. A read is `BeginRead`, the three calls of `_get_or_init_version`
(`LookupVersion`, `InitVersion`, `ReloadVersion`), `get_json` (`CacheHit`,
`CacheMiss`), the SELECT (`ReadDatabase`), `set_json` (`SetPayload`) and
`Respond`. A write is `Commit` followed by `BumpVersion`, with the answer given
when the bump is over. Each call to Redis is a step of its own, since calls of
different threads interleave between them. The constant `Faults` says what may go
wrong: a failed lookup (the fallback version 1), failed GET, SETEX or INCR (an
INCR that fails may have been applied), replies lost and retried, a failed
SELECT, a writer that dies before its bump, and a Redis that restarts from a
snapshot. `CacheEnabled = FALSE` is the `NoOpCacheClient`. A payload remembers
the filter it was selected for; `Key` is the filter's part of its key,
`normalized_location or 'all'`.

**RegularReads** is the same view without a cache: a read returns any content
between the newest acknowledged when it began and the newest committed when it
answers.

**WriteServices** runs each operation as the sequence of its statements. A SELECT
is one step and sees what is committed; with `autoflush=False` the statements of
a flush reach the database with the COMMIT and are one step that succeeds or
fails as a whole, with the first failing statement deciding the answer
(`UpdateFailure`). The exception is `delete_employees`, whose bulk DELETE runs at
once and holds row locks (`doomed`) until its transaction ends; `Needs` and
`WaitsFor` are the waits for those. Any two transactions that meet in a row
(`Footprint`) may be aborted as a deadlock: which ones really are is the matter
of FlushLocks. An employee row is its two unique columns, `email_address` and
`phone_number`, and a `profile`, which stands for its name and gender. `Edited` are
the columns that a request sets: SQLAlchemy leaves out of an UPDATE those that
`_apply_employee_fields` gave the value they had, so that a column somebody else has
changed meanwhile may be kept (`Written`). A cafe row is its name. Dates are left to
Tenure. With `DatabaseMayFail` every
statement may lose its connection, and a COMMIT may be applied although the
client is told 503.

**FlushLocks** takes the flushes apart, into the statements SQLAlchemy's unit of
work emits for a session: employees before assignments, UPDATE before INSERT, the
rows of a relationship with `cascade="all, delete-orphan"` selected first (`Load`)
and then deleted one by one, by primary key (`Pending`, `First`; the order of seed
rows is left open). `Wanted` is what the first statement that is not over has still
to lock: rows, entries of unique indexes, and referenced rows for the check of a
foreign key. An employee has two unique entries besides its key, which an INSERT
takes in the order in which the indexes were made, the email address and then the
phone number; an UPDATE takes those it changes (`Rekeyed`), and locks its row
`update` if there are any and `no_key` otherwise (`RowMode`). `Execute` takes one of
these, once nobody holds what it `Needed` to be free, or fails as PostgreSQL or
SQLAlchemy would (`Failure`). What it needs is more than the lock where a unique
index has an entry that a transaction is removing (`Rivals`), and less for an UPDATE
or the check of a foreign key whose row is not committed yet: it is `Invisible`, and
nothing to wait for. `Commit` writes exactly what was locked for writing, so a
statement that locks too little shows as a step WriteServices does not have.
`CircleVictim` is the deadlock abort. The SELECTs before a flush and the answer
after it are the actions of WriteServices. `create_cafe` and `update_cafe` are
single statements that hold nothing while they wait, and are left out.

**Tenure** is the assignment of WriteServices with its dates. An update fetches
the open row, takes `date.today()`, and closes and opens rows at its COMMIT, in
that order (`Steps`); `ChecksFail` is the constraint `end_date >= start_date`. A
read of the employee list computes `DaysWorked` row by row, each with the date of
that moment, and the payload is served until it expires or is bumped. The clock
of the backend may be set back once, by a day.

**Invalidation** extends WriteServices with the `_invalidate_*` calls: `Bumps` is
what each operation bumps, in order, computed as the code does from what its
session read; `owed` are the views changed since their last bump; `raced` is a
history variable for views changed by a write whose employees somebody else
changed meanwhile.

**Seeding** starts the container again and again (`Start`, `Migrate`, the phases
of `seed.py`, `Stop` at any moment) over tables the API's users write between the
starts. `UpsertCafes`, `UpsertEmployee` and `UpsertAssignment` find rows the way
the script does (cafes by name, employees by email address, assignments by
employee, cafe and start date), `Abandon` is the exception that ends the script
and, with `set -e`, the container. `NoRows` is the state of an empty volume.

**Screens** is one tab: the pages of the cafe or of the employee half, the
queries they mount, the form of the edit or create page with its leave guard
(`allowNavigationRef`), one save at a time. `InitialValues` is what a form starts
from and is compared with: the cached record on the edit page, `Empty` on the
create page. The record's contents are a sequence, and an answer to a read is any
of them from the newest acknowledged when it was sent: the frontend sees the
backend as `RegularReads` describes it. A creation repeats the last content: the
record that is edited stays as it is, and the lists get a newer position. TanStack Query
is external and modelled by what the routes rely on: staleness, retries, refetch
on mount, invalidation that restarts a running fetch only when there are data,
and structural sharing, which decides whether the hydration effect runs.

**ConnectionPool** adds time. A request is a sequence of transactions and calls
of Redis (`ReadProgram`, `EmployeePrograms`, `CafePrograms`, `ReadyProgram`); a
tick passes for everybody at once, and only while no attempt, statement or wait
is at its limit and no free connection has somebody waiting for it. What the
steps read and write is left to the other modules. The database stops and starts
again (`DatabaseStops`, `DatabaseStarts`, `DatabaseIsUp`); its connections in
use are `lost`, those idle in the pool are `stale` until the ping of
`pool_pre_ping` finds them at the next `Checkout`, and who opens a connection is
`dialing`. A database that is `down` does not listen; one that is `closed` shuts down
or starts, and refuses with a message of its own, as one that is up does when it has
too many clients. A failure of the database or the pool has the code and the kind of
text the driver gives it, and `Classified` is the decision of
`classify_database_dependency_error` between 503 and 500. `Rejected` is a 404 or a
409, and `RaceIsLost` the 500 of a row that is gone when it is written
(`StaleDataError`) or refreshed, or of identifiers that are all taken.
`TransactionTimeout` bounds connecting and all statements of a transaction; in the
code `connect_timeout` and `statement_timeout` bound each of these, so that it is
their sum over the longest transaction.

## Runs

| Run | Shows |
| --- | --- |
| `cache_fresh` | `TypeOK`, the invariant `CacheInv` and the refinement `ImplementsRegularReads` under all benign faults |
| `cache_faults` | under lookup and bump failures and Redis restarts a stale answer is possible, but not for ever: `EventuallyFresh` |
| `filters_apart` | refutes that different filters have different cache entries: no location, a blank one and `all` share a key |
| `writes` | `Integrity`, `HistoryIsAppendOnly`, `SameCafeKeepsRow`, `PutsAreWhole` and `RaceAnswersNeedARace` over all six operations and their bumps, and `OnlyRacesMissBumps`: a view that no bump covers is one whose employees another request changed during the write |
| `flushes` | `FlushesAreAtomic`: statement by statement, with row locks and lost connections, the transactions do what WriteServices says; `MutualWaitsAreKnown`: which requests can wait for each other |
| `flushes_answered` | `EveryRequestIsAnswered`, although updates and deletions of one employee, two updates, a creation and an update, and two cafe deletions can deadlock |
| `delete_only_staff` | refutes "Only employees with an active assignment to this cafe are removed": one moved away in between is deleted |
| `starts` | `SeedsArePresent` (with the promises of the schema), `SeedingAgainChangesNothing`, `SeedingKeepsUserRows` and `StartsFailForAReason` over starts, interrupted seedings and user writes between them |
| `starts_serve` | refutes that the script can be run again: after a user moved a seeded employee, or took its phone number, every later start of the container fails |
| `tab` | `OnlyRunningFetchesHideSaves`, `UnsavedEditsAreAskedFor`, `SavedFormsAreNotHeldBack` and `SavesEnd`, with other writers, failing requests and moves at any moment |
| `midnights` | `ChecksFailOnlyAfterStepBack`, `TenuresAreDisjoint` and `ListIsRecent`: updates and cached lists across midnights and a clock set back |
| `pool` | `AnsweredInTime`, `ConnectionsComeBack`, `FailsOpen` and `AnswersFitTheCause` for every kind of request behind a pool with fewer connections than threads, with a failing Redis, lost races, and a database that crashes, shuts down, starts and has too many clients |

Every property of a passing run has a mutant in `PROJECT.json`: a plausible bug
in a modelled definition under which TLC finds the property violated.

**What races do.** The exceptions in the properties are real executions, found by
removing them:

* Requests answered 500 because of a deadlock (`MutualWaitsAreKnown`): an update and
  the deletion of one employee; two updates of one employee that edit and move it;
  two updates that swap two addresses, two phone numbers or one of each, or of which
  one leaves a phone number that the other wants while both want one address; a
  creation and an update of that last kind; two deletions of cafes with closed
  assignments at each other's cafe. These are circles of two. A larger one can have
  a creation among deletions: it has the entry of its email address and wants its
  cafe; a deletion of the cafe has that, and wants by cascade a row that was
  inserted after it loaded the others; a deletion of the employee has the row, and
  wants the employee; an update of the employee has it, and wants the email address.
* A row that no client sent (`PutsAreWhole`): a PUT writes only what differs from
  what it read, so two of them leave a mixture.
* Counts of the cafe list that no bump follows (`raced`): two updates of one
  employee, of which the first reads an assignment that equals its payload before
  the other moves the employee.
* A list that shows the old row as fresh after a save (`late`): its first fetch was
  running when the answer came, and invalidation does not restart a fetch that
  has no data yet.
* A 500 for an outage (`AnswersFitTheCause`): while PostgreSQL shuts down, while it
  starts, and when it has too many clients, it refuses with an error that has no code
  or text the classification knows, for requests and for `/health/ready` alike;
  while nothing listens the answer is 503.
* A 500 for a race: a deadlock, a row that is gone when it is written or refreshed.
* A start that fails although nobody wrote since the last one, or that serves other
  rows (`SeedRowsAreUnique`): a user ends a seeded assignment and renames its cafe, a
  start inserts the cafe and the row anew, the user gives the first cafe its name
  back and, after one more start, renames the other one again. Now two rows have
  the key of one seed. This needs four writes, two more than the run `starts` has:
  the attempt to prove `SeedingAgainChangesNothing` without the condition found it.
* Tenures that overlap (`overtaken`): an update takes its date before midnight and
  commits after others have assigned and unassigned the employee on both sides.

**Bounds.** `cache_fresh` has two readers, two writers and two commits. The
invariant relates at most two readers, or a reader and an entry, and a writer to the
newest acknowledgement; two commits are needed for one payload to be older than
another, and two writers for acknowledgements out of commit order. `MaxAttempts = 2`
gives one lost reply per call, enough to double an INCR. `cache_faults` has a
payload lifetime of two ticks so that expiry and a renewed lifetime differ. Both ask
for one filter, since payloads of different keys never meet; `filters_apart` has
four, three of which have one key. `writes` has two workers, so every pair of
operations interleaves, and a third request that may come before, between or after
them; one employee, who works at the one cafe, and an unused identifier of each kind
make creations and deletions possible, a creation of the second cafe followed by two
overlapping requests makes moves possible. Of the three employees that clients
submit the first is the stored one, the second shares nothing with it, and the third
has the email address of the second and the phone number of the first: a conflict on
either column, an edit of one alone, and a mixture. Its connections are not lost: a
write cut off between COMMIT and bump owes its bumps by design, and lost connections
are checked by `flushes`, which implements WriteServices, and proved harmless to the
tables. `flushes` has two stored employees and a third identifier, which only a
creation can use. Four employees are submitted: one that differs from a stored one
in the profile only, one in the address only, a new one with that address, and one
that takes both unique values of the other stored one. Its initial rows
(`MovedInit`) are those of an employee who has moved from one cafe to the other,
beside one with any job and past that do not repeat a cafe; closed assignments at
the other cafe (`InitialHistory`) let two cafe deletions wait for each other. Two
requests are enough for what the run asks, which is about pairs; that nothing else
happens among more is proved. `flushes_answered` has the other order of keys and no
lost connections. Liveness allows no symmetry reduction, so it starts from one of
each kind of database (`NumberedInit`), with closed assignments only where the two
employees have worked at each other's cafe: the case of the crossing deletions. The
three employees that are submitted (`Crossing`) let a creation and an update wait
for each other, and so two updates of one or of different employees. `MaxRequests`,
`MaxCommits` and `MaxAttempts` are the only bounds in the guards of these modules. A
run of WriteServices stops when its requests are used up, which is why it does not
check for deadlock; that nothing hangs before is `EveryRequestIsAnswered`.
VersionedCache never stops, and is checked for deadlock.

`starts` has key sets large enough for two writes of users with the seedings
before, between and after them: one write to a seeded row, and another to a row
the seed will meet. What more writes can do is left to the proofs, which hold for
any number of them. `tab` has one save (an
update, a deletion or a creation), one write of somebody else or of the
abandoned save beside it, and two moves: enough to leave an edit page during a
save and come back, to have a fetch late, replaced or failed, and to be filled
by a refetch while typing. The retry limit is one there instead of two, and only
the detail query fails; the filtered list page behaves as the other and is not
visited. The user may stop at any time, so that run does not check for deadlock.
`midnights` has a day of four ticks, a payload that lives two and a read that
takes one: the same order as a day, `CACHE_TTL_SECONDS` (60) and the timeouts of
a read, which is what `TenureConstants` asks for. It starts before a midnight
and contains another; three updates are what it takes for two rows of one
employee to overlap, and one employee is enough since rows of different
employees do not meet (`ListIsRecent` speaks of each row of the list by itself).

`pool` has one connection and two threads: one waits while the other keeps the
connection, and may be overtaken when it comes back. The database may be
restarted any number of times. Its ticks keep the order of the real limits, not
their ratio. In the defaults an attempt takes up to a second, a statement and
the wait for a connection up to five, so that `update_cafe` on a cafe with five
employees may keep its connection for 8 x 3 attempts, longer than others wait
for one, and `/health/ready` may answer 503 after five seconds, not one, while
the database is up.

**Fairness.** `VersionedCache!FairSpec`: a request that has begun goes on, and
time passes; nobody is forced to write, snapshot or restart. Reading goes on as
well, which only makes the property harder to meet. `FlushLocks!FairLockSpec`: a
thread that can run its next statement eventually does, and the database looks
for circles. `Screens!FairSpec`: a
request is answered or times out, and the tab runs what follows. All are what threads in
a pool and a clock give; no strong fairness is used.

## Theorems

TLAPS proves the following for all constants that satisfy the named assumptions
of the modules (`CacheConstants`, `WriteConstants`, `ScreenConstants`,
`PoolConstants`, `TenureConstants`, `SeedConstants`, `FiniteEmployees`,
`FlushConstants`).

**The cache** (VersionedCacheProofs)

* `TypeCorrect`: `Spec => []TypeOK` under any faults.
* `CacheInvariant`, `Freshness` and `CacheRefinesRegularReads`: with `Faults` a
  subset of `BenignFaults` (lookups and bumps reach Redis, Redis keeps its state),
  `CacheInv` is invariant, every answer is regular, and the cached view implements
  `RegularReads`. `CacheInv` is needed because "reads are regular" says nothing
  about a payload nobody has read yet: it adds that what is stored under the newest
  version, or held by a reader about to store it there, reflects all acknowledged
  writes, and that what is stored under the version a reader works with is no older
  than its start. The assumption is necessary: the other faults violate freshness,
  and `cache_faults` shows what is left.

**The writes** (WriteServicesProofs), with any number of workers, rows and requests,
and lost connections

* `TypeCorrect`: the types, together with `RequestInv`, the shape each request
  keeps, without which the written values have no type.
* `IntegrityHolds` and `HistoryAppendOnly`: `Integrity`, with no email address and no
  phone number twice, is inductive with `TypeOK` and `RequestInv`; the lemmas say that
  inserting the next key and closing rows keep the keys (`Keyed`) and lose no row.
* `RacesAreAnswered`: a conflict, a 500 or a late 404 needs a race or a deadlock. The
  answers are given at the COMMIT for what was read before, so the invariant
  `ReadsHold` says what a session's reads still have in common with the tables as
  long as its employee and cafe are not in `interfered`.
* `PutsWriteWholeRows`: `PutsAreWhole`. `ReadsHold` has the reason: the columns that are
  not edited are those the session read, and as long as nobody interfered they are
  still in the table.
* `SameCafeRowsStay`: the open row survives a same-cafe update. `SeenRows` is the
  invariant: the row a session holds may be closed or gone, but the row of that key
  names the same cafe.

**The flushes** (FlushLocksProofs), with any number of workers, rows and requests,
and lost connections

* `LocksHold`: `LockInv` is inductive with the types, `Integrity` and `SeenRows`. Its
  two parts need each other. `Exclusive` says that no two transactions hold
  locks that conflict. `Grounded` says what a lock is worth to its holder: a creation
  that holds its entries has found identifier and address unused, an update that
  holds the entry of the open row has closed every open row there is, a cafe
  deletion past its bulk DELETE holds the deleted employees with all their rows. A
  commit of somebody else could only make this false by writing what it holds a
  conflicting lock for (`GroundedOutlivesCommits`), and a lock is granted only when
  what it needs is free and the statement does not fail (`GrantIsExclusive`,
  `GrantIsGrounded`).
* `FlushesAtomic`: the refinement of WriteServices. All it sees of a transaction is the
  COMMIT or the failure. At a COMMIT, what is locked is what the step of WriteServices
  writes, and its guard holds (`FlushedIsFree`, `CreateImplements`,
  `UpdateImplements`, ...); a statement fails as it says for the whole flush
  (`CreateFails`, `UpdateFails`); and transactions in a circle meet in a row of
  each other's `Footprint` (`WaitsMeet`, `CircleMeets`), which is when it allows an
  abort.
* `WaitsAreKnown`: `MutualWaitsAreKnown`. Whoever has one unique entry and waits at
  another has the email address and waits at the phone number (`EmailFirst`), so no
  two wait at entries the other is adding: of two writes of different employees one
  waits at a value that the employee of the other has (`WritesMeet`). A creation's
  employee has none yet, which leaves out two creations (`CreationsAreApart`). No
  deletion waits for a creation that waits itself: nobody sees its employee, and the
  share of the cafe is its last lock (`DeletionsPassCreations`). An update that
  holds something and whose employee does not exist waits for nobody
  (`LateUpdatesPass`).

The attempt changed the models where five things could not be proved, and a look
at PostgreSQL and SQLAlchemy said why: WriteServices let an update wait for an
employee whose row was gone, where its UPDATE finds nothing and fails at once; a
creation did not take the index entry of its open row; an update waited for a row
that another transaction was still inserting; loaded rows were found again by all
their fields, not by their key; and seed rows had an order among themselves that
nothing gives them.

**The bumps** (InvalidationProofs)

* `CacheTypeCorrect`: the types of what is owed and of what is to be bumped.
* `MissedBumpsNeedARace`: with `DatabaseMayFail = FALSE`, `OnlyRacesMissBumps`. A
  commit changes views, and `OwedArePromised` is the invariant that some request
  will bump each of them that is not in `raced`: it is in its `todo`, or the request
  has committed, has not computed its bumps yet and will find the view in what it
  refreshes (`Promised`). That the bumps computed before the COMMIT cover what the
  COMMIT changes is `FirstReads`: what the decision was made from, the previous cafe
  or the staff, is what the tables say unless somebody interfered. The hypothesis is
  what the code needs too: a connection lost after PostgreSQL has applied the
  COMMIT is answered 503 and skips the bumps. `FiniteEmployees` makes the staff of a
  cafe a sequence to be bumped one by one.

**Dates** (TenureProofs), with any number of workers, readers, employees and cafes, and
any length of the day that a payload and two reads fit in

* `NoConflictOfDates`: the check constraint fails only after the clock was set back.
  `DatesArePast` says that no row is of the future and that what a request has
  fetched is no later than the date it then took, which is the reason for the order
  of `Steps`. It rests on `RowsAreKeyed` and `SeenIsOld`: a fetched row is still in
  the table with its start, however its end has changed.
* `TenuresFollowEachOther`: `TenuresAreDisjoint` is inductive with these. The lemma
  that carries it is `FoundOnTheDay`: a commit that only updates of its own date
  have overtaken finds no row of the employee that ends later, and closes none that
  ended on another day.
* `ListsAreRecent`, with the type theorem `TypeCorrect`, from `Recent`: each row of a
  payload was computed at some tick at most a read before the payload was stored
  (`PayloadOK`), each row of an answer at most a payload's life before the answer's
  read began (`ReadOK`).

**Starts** (SeedingProofs), with any seeds that satisfy `SeedConstants` (as `seed.py`
does: no phone number, open assignment or start date of an employee twice) and any
number of starts and writes of users

* `TypeCorrect` and `ServedSeedsArePresent`, the latter with `SchemaHolds` of the tables
  at all times, from `SeedInv`. A transaction may be
  killed after any statement, so what it has done so far is part of the invariant
  (`DraftOK`): the draft keeps what the schema promises (`SchemaHolds`), the seeds
  that are not pending are in place (`Progress`), and a later seed writes over none
  of them.
* `UserRowsSurvive`, from its part `KeepsTables`: every row of the tables is still in
  the draft, and as it was if no seed names it.
* `FailuresHaveAReason`, from its part `Origins`: a row of the draft that is not of the
  tables is a seed's, so what is in the way of another seed was in the tables before.
* `RowsStayWhenSeededAgain`, from `Again`: while nobody writes, the draft equals the
  tables at every step of a seeding.

**Time and failures** (ConnectionPoolProofs), for any number of workers and staff, any
pool, retries and limits

* `TypesCorrect`, `FailuresFitTheirCause` and `RedisCostsNoAnswer`, from `Blamed`:
  who is about to fail has met the reason (`CausesMet`), and only a running
  request has a connection.
* `RequestsAreAnsweredInTime` and `ConnectionsComeBackInTime`, from `Paced`. Neither
  bound is inductive: how much time a request has left depends on what is left
  of its program. `OnProgram` says that `todo` is the rest of `Program(op)`, `InPace`
  that its age is covered by the steps done so far (`TimeFor`) and the current one, and
  `HoldsInTime` that what is left while a connection is kept is calls of Redis, as
  many as `CallsHolding` allows. `ProgramsAreWellFormed` and `TimesAddUp` are the facts
  about programs and sums that this needs.

**The tab** (ScreensProofs)

* `TypeCorrect`, with `WellPlaced`: cached positions exist, and no form is filled
  from a deleted record.
* `HiddenSavesAreLate`: any pages, saves, moves, failures and other writers.
  `OnlyRunningFetchesHideSaves` says nothing of fetches still running, so the
  invariant `Accounted` adds that a running fetch was sent after the newest
  answered save or is in `late`, and that on screen nothing is at rest without
  being fresh or failed. It rests on `InvalidatesChanges`: the routes invalidate
  all a write changes.
* `EditsAreGuarded` and `SavedFormsLeave`, from `FormGuard`: while a save waits for
  its refetches its form is let go or equals the cached record.

Only model-checked: liveness (`EventuallyFresh`, `EveryRequestIsAnswered`,
`SavesEnd`), which is out of the prover's reach. Every other property of a passing
run is the statement of a theorem. What the refuting runs find is a finding, not a
property.

## Not modelled

Logging, request ids, settings, migrations and presentation keep no state the
properties depend on. Text validation of the schemas is the framework's; the
models keep which payloads reach the services. Still to come, in this order:

1. **Frontend**: the logo upload, whose payload takes time to build; the cafe and
   employee halves in one tab, since writes to a cafe change employee views that
   are not invalidated.
2. **Rules over data**: sorting and normalisation as operators checked against
   reference definitions.
