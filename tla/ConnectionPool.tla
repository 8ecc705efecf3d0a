----------------------------- MODULE ConnectionPool -----------------------------
(***************************************************************************)
(* How long requests take and how long they keep a database connection:    *)
(* worker threads that share the engine's pool and call Redis with bounded *)
(* retries.  A request is the sequence of its transactions and its calls   *)
(* of Redis; what they read and write is left to the other modules.        *)
(*                                                                         *)
(* Time passes in ticks, and only when nobody is due: a call of Redis, the *)
(* statements of a transaction and the wait for a connection each have a   *)
(* limit, and a free connection is taken by somebody who waits for one.    *)
(* Who takes it is open; the pool does not queue.                          *)
(*                                                                         *)
(* The database may be stopped and started at any time.  It forgets its    *)
(* connections, those in use and those that wait in the pool.  While it    *)
(* shuts down and while it starts it answers who connects with an error of *)
(* its own, and so it does when it has as many connections as it takes.    *)
(***************************************************************************)
EXTENDS Integers, Sequences, FiniteSets

CONSTANTS
  Workers,            \* the threads that run requests
  PoolSize,           \* database_pool_size + database_max_overflow
  PoolTimeout,        \* ticks: database_pool_timeout_seconds
  TransactionTimeout, \* ticks: connecting, and all statements of a transaction
  AttemptTimeout,     \* ticks: one attempt at Redis, and the sleep after it
  MaxAttempts,        \* redis_retry_max_attempts
  Staff               \* how many employees a cafe has

ASSUME PoolConstants ==
  /\ PoolSize \in Nat \ {0} /\ MaxAttempts \in Nat \ {0}
  /\ PoolTimeout \in Nat /\ TransactionTimeout \in Nat /\ AttemptTimeout \in Nat
  /\ Staff \in Nat /\ IsFiniteSet(Workers)

VARIABLES
  op,       \* per worker: the request it runs, or "idle"
  todo,     \* per worker: what is left of it
  tries,    \* per worker: failed attempts of the current call of Redis
  spent,    \* per worker: ticks in the current attempt, transaction or wait
  holds,    \* the workers whose session has a connection of the pool
  database, \* "up", "down", or "closed" while it shuts down or starts
  dialing,  \* the sessions that open a connection
  lost,     \* the sessions whose connection the database has forgotten
  stale,    \* some idle connection of the pool is one the database has forgotten
  answer,   \* per worker: the last answer
  \* History variables.
  age,      \* per worker: ticks since the request began
  held,     \* per worker: ticks since its session took the connection
  met       \* per worker: what its request met, kept with an answer that tells a failure

links == <<database, dialing, lost, stale>>
vars == <<op, todo, tries, spent, holds, links, answer, age, held, met>>

-----------------------------------------------------------------------------
(* Requests                                                                *)

Bumps(n) == [i \in 1 .. n |-> "bump"]

\* _invalidate_employee_views: the list, and the detail of everybody.
StaffBumps == IF Staff = 0 THEN 0 ELSE 1 + Staff

\* A "transaction" ends with its COMMIT or ROLLBACK and gives the connection
\* back; "select" and "refresh" leave a transaction open until the session is
\* closed, with the connection.  "writeEmployee" is create_employee, or an
\* update_employee that leaves the employee at the same cafe.
ReadProgram == <<"lookup", "init", "reload", "get", "select", "set">>

EmployeePrograms ==
  [writeEmployee  |-> <<"transaction">> \o Bumps(2) \o <<"select">>,
   moveEmployee   |-> <<"transaction">> \o Bumps(3) \o <<"select">>,
   deleteEmployee |-> <<"transaction">> \o Bumps(2),
   deleteStaff    |-> <<"transaction">> \o Bumps(3)]

CafePrograms ==
  [createCafe |-> <<"transaction", "refresh", "bump">>,
   updateCafe |-> <<"transaction", "refresh">> \o Bumps(2 + StaffBumps),
   deleteCafe |-> <<"transaction">> \o Bumps(2 + StaffBumps)]

ReadyProgram == <<"probe", "ping">>

Operations ==
  {"read", "ready"} \cup DOMAIN EmployeePrograms \cup DOMAIN CafePrograms

Program(o) ==
  CASE o = "read" -> ReadProgram
    [] o = "ready" -> ReadyProgram
    [] o \in DOMAIN CafePrograms -> CafePrograms[o]
    [] OTHER -> EmployeePrograms[o]

VersionCalls == {"lookup", "init", "reload"}
RedisCalls == VersionCalls \cup {"get", "set", "bump", "ping"}
Transactions == {"transaction", "select", "refresh", "probe"}

Busy(w) == op[w] # "idle"
Step(w) == Head(todo[w])
Calling(w) == Busy(w) /\ Step(w) \in RedisCalls
InTransaction(w) == Busy(w) /\ Step(w) \in Transactions /\ w \in holds
Waiting(w) == Busy(w) /\ Step(w) \in Transactions /\ w \notin holds

-----------------------------------------------------------------------------
Init ==
  /\ op = [w \in Workers |-> "idle"]
  /\ todo = [w \in Workers |-> <<>>]
  /\ tries = [w \in Workers |-> 0]
  /\ spent = [w \in Workers |-> 0]
  /\ holds = {}
  /\ database = "up" /\ dialing = {} /\ lost = {} /\ stale = FALSE
  /\ answer = [w \in Workers |-> "none"]
  /\ age = [w \in Workers |-> 0]
  /\ held = [w \in Workers |-> 0]
  /\ met = [w \in Workers |-> {}]

\* What is the matter with the database.
Trouble ==
  CASE database = "up" -> {}
    [] database = "down" -> {"outage"}
    [] database = "closed" -> {"outage", "closed"}

\* A request reaches a thread.
Begin(w, o) ==
  /\ ~Busy(w)
  /\ op' = [op EXCEPT ![w] = o]
  /\ todo' = [todo EXCEPT ![w] = Program(o)]
  /\ answer' = [answer EXCEPT ![w] = "none"]
  /\ met' = [met EXCEPT ![w] = Trouble]
  /\ UNCHANGED <<tries, spent, holds, links, age, held>>

Failed == {"unavailable", "error"}

\* Mutant: the session of an answered request is not closed.
Answer_StaysOpen(w, a, reasons) ==
  /\ op' = [op EXCEPT ![w] = "idle"]
  /\ todo' = [todo EXCEPT ![w] = <<>>]
  /\ tries' = [tries EXCEPT ![w] = 0]
  /\ spent' = [spent EXCEPT ![w] = 0]
  /\ answer' = [answer EXCEPT ![w] = a]
  /\ age' = [age EXCEPT ![w] = 0]
  /\ met' = [met EXCEPT ![w] = IF a \in Failed THEN @ \cup reasons ELSE {}]
  /\ UNCHANGED <<holds, links, held>>

\* A connection goes back to the pool, which drops it if it was lost.
GiveBack(w) ==
  /\ holds' = holds \ {w} /\ dialing' = dialing \ {w} /\ lost' = lost \ {w}
  /\ held' = [held EXCEPT ![w] = 0]
  /\ UNCHANGED <<database, stale>>

\* The request is answered, for the given reasons if it fails, and its session
\* closed.
Answer(w, a, reasons) ==
  /\ op' = [op EXCEPT ![w] = "idle"]
  /\ todo' = [todo EXCEPT ![w] = <<>>]
  /\ tries' = [tries EXCEPT ![w] = 0]
  /\ spent' = [spent EXCEPT ![w] = 0]
  /\ answer' = [answer EXCEPT ![w] = a]
  /\ age' = [age EXCEPT ![w] = 0]
  /\ met' = [met EXCEPT ![w] = IF a \in Failed THEN @ \cup reasons ELSE {}]
  /\ GiveBack(w)

\* The request goes on with `rest', and its session keeps its connection or not.
GoOn(w, rest, keeps) ==
  IF rest = <<>>
    THEN Answer(w, "replied", {})
    ELSE /\ todo' = [todo EXCEPT ![w] = rest]
         /\ tries' = [tries EXCEPT ![w] = 0]
         /\ spent' = [spent EXCEPT ![w] = 0]
         /\ IF keeps THEN UNCHANGED <<holds, links, held>> ELSE GiveBack(w)
         /\ UNCHANGED <<op, answer, age, met>>

-----------------------------------------------------------------------------
(* Redis                                                                   *)

\* What a read does once it has a version.
AfterLookup == <<"get", "select", "set">>

\* Redis answers: a version is found or missing, a payload hit or missed.
RedisAnswers(w) ==
  /\ Calling(w)
  /\ \/ GoOn(w, Tail(todo[w]), TRUE)
     \/ Step(w) = "lookup" /\ GoOn(w, AfterLookup, TRUE)
     \/ Step(w) = "get" /\ Answer(w, "replied", {})

\* Mutant: a failure is passed on to the caller.
FailOpen_Raises(w) == Answer(w, "error", {})

\* The failure is logged, and the request goes on without Redis.
FailOpen(w) ==
  GoOn(w, IF Step(w) \in VersionCalls THEN AfterLookup ELSE Tail(todo[w]), TRUE)

\* Mutant: one attempt too many.
AttemptFails_OnceMore(w) ==
  /\ Calling(w)
  /\ \/ FailOpen(w)
     \/ /\ tries[w] < MaxAttempts
        /\ tries' = [tries EXCEPT ![w] = @ + 1]
        /\ spent' = [spent EXCEPT ![w] = 0]
        /\ UNCHANGED <<op, todo, holds, links, answer, age, held, met>>

\* retry_with_backoff: an attempt fails.  It is the last one, or the failure is
\* not one to be retried, or the next follows after a sleep.
AttemptFails(w) ==
  /\ Calling(w)
  /\ \/ FailOpen(w)
     \/ /\ tries[w] + 1 < MaxAttempts
        /\ tries' = [tries EXCEPT ![w] = @ + 1]
        /\ spent' = [spent EXCEPT ![w] = 0]
        /\ UNCHANGED <<op, todo, holds, links, answer, age, held, met>>

-----------------------------------------------------------------------------
(* Failures of the database                                                *)

\* The sqlstate of what the driver raises, where it has one.
SqlState(f) ==
  CASE f = "cancelled" -> "57014"
    [] f = "deadlock" -> "40P01"
    [] f = "closed" -> "57P03"
    [] f = "full" -> "53300"
    [] OTHER -> "none"

\* Texts with one of the markers: "connection refused", "server closed the
\* connection unexpectedly", "statement timeout", "timeout expired".  None is in
\* "the database system is starting up", "... is shutting down" and "sorry, too
\* many clients already".
Marked == {"refused", "lost", "cancelled", "timeout"}

\* Mutant: only what SQLAlchemy and PostgreSQL name by a code is classified.
Classified_ByCode(f) == f = "pool" \/ f = "lost" \/ SqlState(f) = "57014"

\* classify_database_dependency_error: SATimeoutError; connection_invalidated,
\* which is not set when the connection could not be opened; query_canceled;
\* the texts.
Classified(f) ==
  f = "pool" \/ f = "lost" \/ SqlState(f) = "57014" \/ f \in Marked

Status(f) == IF Classified(f) THEN "unavailable" ELSE "error"

FailsWith(w, f, reasons) == Answer(w, Status(f), reasons)

-----------------------------------------------------------------------------
(* The database                                                            *)

\* Mutant: the limit of the pool is checked a connection late.
Checkout_BeyondLimit(w) ==
  /\ Waiting(w) /\ Cardinality(holds) <= PoolSize
  /\ holds' = holds \cup {w}
  /\ spent' = [spent EXCEPT ![w] = 0]
  /\ \/ dialing' = dialing \cup {w}
     \/ database = "up" /\ UNCHANGED dialing
  /\ stale' = FALSE
  /\ UNCHANGED <<op, todo, tries, database, lost, answer, age, held, met>>

\* Mutant: without pool_pre_ping.
Checkout_NoPing(w) ==
  /\ Waiting(w) /\ Cardinality(holds) < PoolSize
  /\ holds' = holds \cup {w}
  /\ spent' = [spent EXCEPT ![w] = 0]
  /\ \/ /\ stale /\ lost' = lost \cup {w} /\ stale' = FALSE
        /\ UNCHANGED dialing
     \/ /\ ~stale
        /\ \/ dialing' = dialing \cup {w}
           \/ database = "up" /\ UNCHANGED dialing
        /\ UNCHANGED <<lost, stale>>
  /\ UNCHANGED <<op, todo, tries, database, answer, age, held, met>>

\* The session's first statement takes the connection that has been idle longest
\* from the pool.  One that was forgotten does not answer the ping, and the pool
\* drops it with all that are as old; then, or if none is idle, one is opened.
Checkout(w) ==
  /\ Waiting(w) /\ Cardinality(holds) < PoolSize
  /\ holds' = holds \cup {w}
  /\ spent' = [spent EXCEPT ![w] = 0]
  /\ \/ dialing' = dialing \cup {w}
     \/ database = "up" /\ UNCHANGED dialing
  /\ stale' = FALSE
  /\ UNCHANGED <<op, todo, tries, database, lost, answer, age, held, met>>

\* The database accepts, in time, a session that connects.
Connect(w) ==
  /\ w \in dialing /\ database = "up"
  /\ dialing' = dialing \ {w}
  /\ UNCHANGED <<op, todo, tries, spent, holds, database, lost, stale, answer, age,
                 held, met>>

\* sqlalchemy.exc.TimeoutError
PoolRefuses(w) ==
  /\ Waiting(w) /\ Cardinality(holds) = PoolSize
  /\ spent[w] = PoolTimeout
  /\ FailsWith(w, "pool", {"pool"})

\* The statements of a transaction can reach the database.
Served(w) == InTransaction(w) /\ w \notin dialing \cup lost

\* The statements succeed.
StatementsSucceed(w) ==
  /\ Served(w)
  /\ GoOn(w, Tail(todo[w]), Step(w) \in {"select", "refresh"})

\* What is asked for is not found, or the write conflicts: 404 and 409.  A probe
\* finds what it asks for.
Rejected(w) ==
  /\ Served(w) /\ Step(w) # "probe"
  /\ Answer(w, "replied", {})

\* The request loses a race that the services leave to the generic 500: a row it
\* read is gone when it is written (StaleDataError) or refreshed; or all twenty
\* identifiers it tries are taken (RuntimeError).
RaceIsLost(w) ==
  /\ Served(w)
  /\ \/ /\ Step(w) = "transaction"
        /\ op[w] \in {"writeEmployee", "moveEmployee", "updateCafe"}
     \/ Step(w) = "refresh"
  /\ Answer(w, "error", {"race"})

\* A connection breaks, a statement reaches statement_timeout, or a flush is the
\* victim of a deadlock.
StatementFails(w) ==
  /\ Served(w)
  /\ \/ \E f \in {"lost", "cancelled"} : FailsWith(w, f, {"failure"})
     \/ Step(w) = "transaction" /\ FailsWith(w, "deadlock", {"race"})

\* The connection was lost when the database stopped, or it cannot be opened: the
\* database does not listen, listens and is closed, has no connection left, or
\* does not answer within connect_timeout.
ConnectionFails(w) ==
  /\ InTransaction(w)
  /\ \/ w \in lost /\ FailsWith(w, "lost", {})
     \/ w \in dialing /\ database = "down" /\ FailsWith(w, "refused", {})
     \/ w \in dialing /\ database = "closed" /\ FailsWith(w, "closed", {})
     \/ w \in dialing /\ database = "up" /\ FailsWith(w, "full", {"closed"})
     \/ w \in dialing /\ database = "up" /\ FailsWith(w, "timeout", {"failure"})

\* All requests under way meet what happens to the database.
Meet(reasons) ==
  met' = [w \in Workers |-> IF Busy(w) THEN met[w] \cup reasons ELSE met[w]]

\* The database crashes, or shuts down: it ends its sessions and says "the database
\* system is shutting down" until it is down.
DatabaseStops ==
  /\ database = "up" /\ database' \in {"closed", "down"}
  /\ lost' = holds \ dialing
  /\ stale' = (stale \/ Cardinality(holds) < PoolSize)
  /\ Meet(IF database' = "down" THEN {"outage"} ELSE {"outage", "closed"})
  /\ UNCHANGED <<op, todo, tries, spent, holds, dialing, answer, age, held>>

DatabaseIsDown ==
  /\ database = "closed" /\ database' = "down"
  /\ UNCHANGED <<op, todo, tries, spent, holds, dialing, lost, stale, answer, age,
                 held, met>>

\* "The database system is starting up."
DatabaseStarts ==
  /\ database = "down" /\ database' = "closed"
  /\ Meet({"closed"})
  /\ UNCHANGED <<op, todo, tries, spent, holds, dialing, lost, stale, answer, age,
                 held>>

DatabaseIsUp ==
  /\ database = "closed" /\ database' = "up"
  /\ UNCHANGED <<op, todo, tries, spent, holds, dialing, lost, stale, answer, age,
                 held, met>>

-----------------------------------------------------------------------------
(* Time                                                                    *)

Limit(w) ==
  IF Calling(w) THEN AttemptTimeout
  ELSE IF w \in holds THEN TransactionTimeout ELSE PoolTimeout

\* Time passes for everybody at once, and beyond nobody's limit.
Tick ==
  /\ \E w \in Workers : Busy(w)
  /\ \A w \in Workers : Busy(w) => spent[w] < Limit(w)
  /\ Cardinality(holds) = PoolSize \/ ~\E w \in Workers : Waiting(w)
  /\ spent' = [w \in Workers |-> IF Busy(w) THEN spent[w] + 1 ELSE 0]
  /\ age' = [w \in Workers |-> IF Busy(w) THEN age[w] + 1 ELSE 0]
  /\ held' = [w \in Workers |-> IF w \in holds THEN held[w] + 1 ELSE 0]
  /\ UNCHANGED <<op, todo, tries, holds, links, answer, met>>

Next ==
  \/ \E w \in Workers :
       \/ \E o \in Operations : Begin(w, o)
       \/ RedisAnswers(w) \/ AttemptFails(w)
       \/ Checkout(w) \/ Connect(w) \/ PoolRefuses(w)
       \/ StatementsSucceed(w) \/ Rejected(w) \/ RaceIsLost(w)
       \/ StatementFails(w) \/ ConnectionFails(w)
  \/ DatabaseStops \/ DatabaseIsDown \/ DatabaseStarts \/ DatabaseIsUp
  \/ Tick

Spec == Init /\ [][Next]_vars

-----------------------------------------------------------------------------
(* Properties                                                              *)

\* The steps of these kinds among the first n of a request.
StepsAmong(o, n, kinds) == Cardinality({i \in 1 .. n : Program(o)[i] \in kinds})

\* The longest a call of Redis and a transaction take, the first n steps of a
\* request, and all of them.
CallTime == MaxAttempts * AttemptTimeout
TransactionTime == PoolTimeout + TransactionTimeout
TimeFor(o, n) == StepsAmong(o, n, RedisCalls) * CallTime
                   + StepsAmong(o, n, Transactions) * TransactionTime
Budget(o) == TimeFor(o, Len(Program(o)))

\* The calls of Redis a request makes while its session has a connection.
CallsHolding(o) ==
  CASE o \in {"read", "createCafe"} -> 1
    [] o = "updateCafe" -> 2 + StaffBumps
    [] OTHER -> 0

\* The reasons why the database could not be had in time (no connection was free,
\* a connection or a statement of the request failed, the database was down), and
\* all others for which a request is answered with a failure (it was the victim of
\* a deadlock or lost a race, the database refused to be connected).
OutOfReach == {"pool", "failure", "outage"}
OtherCauses == {"race", "closed"}

\* Types of the state.
TypeOK ==
  /\ op \in [Workers -> Operations \cup {"idle"}]
  /\ todo \in [Workers -> Seq(RedisCalls \cup Transactions)]
  /\ \A w \in Workers : (todo[w] = <<>>) = (op[w] = "idle")
  /\ tries \in [Workers -> 0 .. MaxAttempts - 1]
  /\ spent \in [Workers -> Nat] /\ age \in [Workers -> Nat]
  /\ held \in [Workers -> Nat]
  /\ holds \subseteq Workers /\ Cardinality(holds) <= PoolSize
  /\ answer \in [Workers -> {"none", "replied"} \cup Failed]
  /\ database \in {"up", "down", "closed"} /\ stale \in BOOLEAN
  /\ dialing \subseteq holds /\ lost \subseteq holds /\ dialing \cap lost = {}
  /\ met \in [Workers -> SUBSET (OutOfReach \cup OtherCauses)]

\* Bounded retries, pool waits and statement timeouts add up: a request is
\* answered within the sum over its steps, whatever fails and whoever else
\* holds the connections.  (resilience.py; "so DB calls stay bounded",
\* database.py.)
AnsweredInTime ==
  \A w \in Workers : Busy(w) => age[w] <= Budget(op[w])

\* A connection comes back.  A request that has one is in a transaction, or
\* reads or cafe writes keep it through their calls of Redis, no longer than
\* these take; the update of a cafe keeps it longer the more staff it has.
ConnectionsComeBack ==
  \A w \in holds :
    /\ Busy(w)
    /\ held[w] <= TransactionTimeout
                    + CallsHolding(op[w]) * CallTime

\* Redis costs no request its answer, nor does a connection that was left in the
\* pool when the database was restarted: who is told "unavailable" or "error"
\* has met a failure of the database, the limit of the pool or a lost race during
\* the request itself.  (pool_pre_ping in database.py, the fallbacks of cache.py.)
FailsOpen ==
  \A w \in Workers : answer[w] \in Failed => met[w] # {}

\* A 503 always tells of a database that could not be had in time, and such a
\* database is told as a 503 with three exceptions: while it shuts down, while it
\* starts and when it has no connection left, it answers itself, with an error
\* whose code and text are not known, and requests and the readiness probe get a
\* 500.  A request that met none of these gets a 500 only for a deadlock or a lost
\* race.  ("Map clearly identified database availability failures",
\* resilience.py.)
AnswersFitTheCause ==
  \A w \in Workers :
    /\ answer[w] = "unavailable" => met[w] \cap OutOfReach # {}
    /\ answer[w] = "error" => met[w] \cap OtherCauses # {}
===============================================================================
