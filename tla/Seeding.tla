-------------------------------- MODULE Seeding --------------------------------
(***************************************************************************)
(* Every start of the backend container: migrate, seed, serve.             *)
(*                                                                         *)
(* scripts/seed.py is one transaction.  It finds cafes by name, employees  *)
(* by email address and assignments by both and the start date, writes the *)
(* demo values over what it finds and inserts what it does not find.  The  *)
(* database outlives the container (the postgres-data volume), so from the *)
(* second start on the seed meets whatever users did through the API: here *)
(* the write operations one at a time, as their own module shows them to   *)
(* be for one worker.  Users write only while a container serves.          *)
(*                                                                         *)
(* An UPDATE or INSERT of a flush is a step, since the unique indexes are  *)
(* checked row by row and the rows come in the order of random keys.       *)
(***************************************************************************)
EXTENDS Naturals, FiniteSets

CONSTANTS
  CafeIds, EmployeeIds, JobIds,  \* primary keys, the bound on rows
  Names, Emails, Phones, Dates,
  NoDate,            \* end_date IS NULL
  Today,             \* the day on which users assign and unassign
  CafeSeeds,         \* the names of CAFE_SEEDS
  EmployeeSeeds,     \* EMPLOYEE_SEEDS: the phone number of each email address
  AssignmentSeeds,   \* ASSIGNMENT_SEEDS
  MaxWrites          \* bound on the writes of users

ASSUME SeedConstants ==
  /\ CafeSeeds \subseteq Names
  /\ DOMAIN EmployeeSeeds \subseteq Emails
  /\ \A m \in DOMAIN EmployeeSeeds : EmployeeSeeds[m] \in Phones
  /\ \A m, n \in DOMAIN EmployeeSeeds :
       EmployeeSeeds[m] = EmployeeSeeds[n] => m = n
  /\ NoDate \notin Dates /\ Today \in Dates
  /\ AssignmentSeeds \subseteq [email: DOMAIN EmployeeSeeds, cafe: CafeSeeds,
                                start: Dates \ {Today},
                                end: (Dates \ {Today}) \cup {NoDate}]
  /\ \A s, t \in AssignmentSeeds :
       /\ s.email = t.email
       /\ s.start = t.start \/ (s.end = NoDate /\ t.end = NoDate)
       => s = t
  /\ IsFiniteSet(JobIds) /\ MaxWrites \in Nat

VARIABLES
  tables,     \* the committed rows
  draft,      \* the rows as the seed's transaction sees them
  phase,      \* what the container does
  picked,     \* cafes_by_name: the row the seed took for each name
  pending,    \* seeds the current flush has not written yet
  untouched,  \* no user has written since the last seed (history)
  writes      \* writes of users so far

vars == <<tables, draft, phase, picked, pending, untouched, writes>>

\* profile: description, logo and location, or name and gender.
Cafe     == [id: CafeIds, name: Names, profile: {"seed", "user"}]
Employee == [id: EmployeeIds, email: Emails, phone: Phones,
             profile: {"seed", "user"}]
Job      == [id: JobIds, employee: EmployeeIds, cafe: CafeIds, start: Dates,
             end: Dates \cup {NoDate}]

Rows == [cafes: SUBSET Cafe, employees: SUBSET Employee, jobs: SUBSET Job]

NoRows == [cafes |-> {}, employees |-> {}, jobs |-> {}]

Phases == {"stopped", "migrating", "cafes", "employees", "assignments",
           "commit", "serving", "failed"}

Ids(rows) == {r.id : r \in rows}

Keyed(rows) == \A a, b \in rows : a.id = b.id => a = b

\* A generated key; which one is of no consequence, so employees and jobs are
\* numbered.
NewId(rows, ids) == {i \in ids \ Ids(rows) : \A k \in ids \ Ids(rows) : i <= k}

\* The rows with one more, or with the row of the same key replaced.
Put(rows, row) == {r \in rows : r.id # row.id} \cup {row}

NameOf(T, c)  == (CHOOSE r \in T.cafes : r.id = c).name
EmailOf(T, e) == (CHOOSE r \in T.employees : r.id = e).email

OpenJobs(T, e) == {j \in T.jobs : j.employee = e /\ j.end = NoDate}

Init ==
  /\ tables = NoRows
  /\ draft = NoRows
  /\ phase = "stopped"
  /\ picked = <<>>
  /\ pending = {}
  /\ untouched = FALSE
  /\ writes = 0

-------------------------------------------------------------------------------
(* The container.                                                           *)

Start ==
  /\ phase \in {"stopped", "failed"}
  /\ phase' = "migrating"
  /\ UNCHANGED <<tables, draft, picked, pending, untouched, writes>>

\* alembic upgrade head, once an attempt succeeds; then the seed's session.
Migrate ==
  /\ phase = "migrating"
  /\ phase' = "cafes"
  /\ draft' = tables
  /\ UNCHANGED <<tables, picked, pending, untouched, writes>>

\* The transaction is rolled back.
Abandon(end) ==
  /\ phase' = end
  /\ draft' = NoRows
  /\ picked' = <<>>
  /\ pending' = {}
  /\ UNCHANGED <<tables, untouched, writes>>

\* The container is stopped or killed, or the database is lost on the way.
Stop ==
  /\ phase \notin {"stopped", "failed"}
  /\ Abandon("stopped")

-------------------------------------------------------------------------------
(* scripts/seed.py.                                                         *)

Named(n) == {c \in draft.cafes : c.name = n}

\* upsert_cafes: of several cafes with one name, any may be the last of the
\* SELECT and stay in existing_cafes.
UpsertCafes ==
  /\ phase = "cafes"
  /\ \E pick \in [CafeSeeds -> CafeIds] :
       /\ \A n \in CafeSeeds :
            IF Named(n) # {} THEN pick[n] \in Ids(Named(n))
                             ELSE pick[n] \notin Ids(draft.cafes)
       /\ \A n, m \in CafeSeeds : pick[n] = pick[m] => n = m
       /\ draft' = [draft EXCEPT !.cafes =
            {c \in @ : \A n \in CafeSeeds : c.id # pick[n]} \cup
            {[id |-> pick[n], name |-> n, profile |-> "seed"] : n \in CafeSeeds}]
       /\ picked' = pick
  /\ pending' = DOMAIN EmployeeSeeds
  /\ phase' = "employees"
  /\ UNCHANGED <<tables, untouched, writes>>

\* The key of the row a seed updates, or a new key.
Target(found, rows, ids) == IF found # {} THEN Ids(found) ELSE NewId(rows, ids)

\* One seed is written; the flush is over with the last one.
Wrote(seed, rows, next, remaining) ==
  /\ draft' = rows
  /\ \/ pending # {seed} /\ pending' = pending \ {seed} /\ UNCHANGED phase
     \/ pending = {seed} /\ pending' = remaining /\ phase' = next
  /\ UNCHANGED <<tables, picked, untouched, writes>>

\* Mutant: employees are found by phone number.
Addressed_ByPhone(m) == {e \in draft.employees : e.phone = EmployeeSeeds[m]}

Addressed(m) == {e \in draft.employees : e.email = m}

\* Mutant: the email address is written to the phone number.
UpsertEmployee_WrongColumn(m) ==
  /\ phase = "employees"
  /\ m \in pending
  /\ \E id \in Target(Addressed(m), draft.employees, EmployeeIds) :
       LET row == [id |-> id, email |-> m, phone |-> m, profile |-> "seed"]
       IN Wrote(m, [draft EXCEPT !.employees = Put(@, row)],
                "assignments", AssignmentSeeds)

\* upsert_employees, and uq_employees_phone_number.  A flush emits its UPDATEs
\* before its INSERTs.
UpsertEmployee(m) ==
  /\ phase = "employees"
  /\ m \in pending
  /\ Addressed(m) = {} => \A n \in pending : Addressed(n) = {}
  /\ \E id \in Target(Addressed(m), draft.employees, EmployeeIds) :
       LET row == [id |-> id, email |-> m, phone |-> EmployeeSeeds[m],
                   profile |-> "seed"]
           taken == \E e \in draft.employees :
                      e.id # id /\ e.phone = EmployeeSeeds[m]
       IN \/ taken /\ Abandon("failed")
          \/ /\ ~taken
             /\ Wrote(m, [draft EXCEPT !.employees = Put(@, row)],
                      "assignments", AssignmentSeeds)

\* Mutant: only the open assignments are looked at.
JobsOf_OpenOnly(T, s) == {j \in T.jobs : /\ EmailOf(T, j.employee) = s.email
                                         /\ NameOf(T, j.cafe) = s.cafe
                                         /\ j.start = s.start
                                         /\ j.end = NoDate}

\* The rows assignment_index holds for the key of a seed.
JobsOf(T, s) == {j \in T.jobs : /\ EmailOf(T, j.employee) = s.email
                                /\ NameOf(T, j.cafe) = s.cafe
                                /\ j.start = s.start}

Matching(s) == JobsOf(draft, s)

\* Mutant: the row itself counts as another open one.
UpsertAssignment_MeetsItself(s) ==
  /\ phase = "assignments"
  /\ s \in pending
  /\ Matching(s) = {} => \A t \in pending : Matching(t) = {}
  /\ \E id \in Target(Matching(s), draft.jobs, JobIds),
        e \in Ids(Addressed(s.email)) :
       LET row == [id |-> id, employee |-> e, cafe |-> picked[s.cafe],
                   start |-> s.start, end |-> s.end]
           taken == s.end = NoDate /\ OpenJobs(draft, e) # {}
       IN \/ taken /\ Abandon("failed")
          \/ /\ ~taken
             /\ Wrote(s, [draft EXCEPT !.jobs = Put(@, row)], "commit", {})

\* Mutant: a row that was found keeps its end date.
UpsertAssignment_KeepsEnd(s) ==
  /\ phase = "assignments"
  /\ s \in pending
  /\ Matching(s) = {} => \A t \in pending : Matching(t) = {}
  /\ \E id \in Target(Matching(s), draft.jobs, JobIds),
        e \in Ids(Addressed(s.email)) :
       LET row == [id |-> id, employee |-> e, cafe |-> picked[s.cafe],
                   start |-> s.start,
                   end |-> IF Matching(s) = {} THEN s.end
                           ELSE (CHOOSE j \in draft.jobs : j.id = id).end]
           taken == row.end = NoDate /\ Ids(OpenJobs(draft, e)) \ {id} # {}
       IN \/ taken /\ Abandon("failed")
          \/ /\ ~taken
             /\ Wrote(s, [draft EXCEPT !.jobs = Put(@, row)], "commit", {})

\* upsert_assignments, and the index on one open row per employee.
UpsertAssignment(s) ==
  /\ phase = "assignments"
  /\ s \in pending
  /\ Matching(s) = {} => \A t \in pending : Matching(t) = {}
  /\ \E id \in Target(Matching(s), draft.jobs, JobIds),
        e \in Ids(Addressed(s.email)) :
       LET row == [id |-> id, employee |-> e, cafe |-> picked[s.cafe],
                   start |-> s.start, end |-> s.end]
           taken == s.end = NoDate /\ Ids(OpenJobs(draft, e)) \ {id} # {}
       IN \/ taken /\ Abandon("failed")
          \/ /\ ~taken
             /\ Wrote(s, [draft EXCEPT !.jobs = Put(@, row)], "commit", {})

Commit ==
  /\ phase = "commit"
  /\ phase' = "serving"
  /\ tables' = draft
  /\ draft' = NoRows
  /\ picked' = <<>>
  /\ untouched' = TRUE
  /\ UNCHANGED <<pending, writes>>

-------------------------------------------------------------------------------
(* Users, through the API of the container that serves.                     *)

UserWrites(T) ==
  /\ phase = "serving"
  /\ writes < MaxWrites
  /\ writes' = writes + 1
  /\ tables' = T
  /\ untouched' = FALSE
  /\ UNCHANGED <<draft, phase, picked, pending>>

PutCafe ==
  \E id \in CafeIds, n \in Names :
     UserWrites([tables EXCEPT !.cafes =
                   Put(@, [id |-> id, name |-> n, profile |-> "user"])])

\* With everyone who works there, and every job that was there.
DeleteCafe ==
  \E c \in Ids(tables.cafes) :
    LET staff == {j.employee : j \in {k \in tables.jobs :
                                        k.cafe = c /\ k.end = NoDate}}
    IN UserWrites(
         [cafes     |-> {r \in tables.cafes : r.id # c},
          employees |-> {r \in tables.employees : r.id \notin staff},
          jobs      |-> {j \in tables.jobs :
                           j.cafe # c /\ j.employee \notin staff}])

\* The jobs after an employee is sent to a cafe, or to none when S = {}.
Sent(e, S) ==
  LET closed == {IF j \in OpenJobs(tables, e) THEN [j EXCEPT !.end = Today]
                                             ELSE j : j \in tables.jobs}
  IN IF \E j \in OpenJobs(tables, e) : j.cafe \in S THEN {tables.jobs}
     ELSE IF S = {} THEN {closed}
     ELSE {closed \cup {[id |-> id, employee |-> e, cafe |-> c,
                         start |-> Today, end |-> NoDate]} :
             id \in NewId(tables.jobs, JobIds), c \in S}

\* create_employee requires a cafe, update_employee does not.
PutEmployee ==
  \E id \in Ids(tables.employees) \cup NewId(tables.employees, EmployeeIds),
     m \in Emails, f \in Phones,
     S \in {{}} \cup {{c} : c \in Ids(tables.cafes)} :
    /\ id \notin Ids(tables.employees) => S # {}
    /\ \A e \in tables.employees : e.id # id => e.email # m /\ e.phone # f
    /\ \E jobs \in Sent(id, S) :
         UserWrites([tables EXCEPT
           !.employees = Put(@, [id |-> id, email |-> m, phone |-> f,
                                 profile |-> "user"]),
           !.jobs = jobs])

DeleteEmployee ==
  \E e \in Ids(tables.employees) :
    UserWrites([tables EXCEPT !.employees = {r \in @ : r.id # e},
                              !.jobs = {j \in @ : j.employee # e}])

-------------------------------------------------------------------------------
Seed ==
  \/ UpsertCafes
  \/ \E m \in DOMAIN EmployeeSeeds : UpsertEmployee(m)
  \/ \E s \in AssignmentSeeds : UpsertAssignment(s)
  \/ Commit

Next ==
  \/ Start \/ Migrate \/ Seed \/ Stop
  \/ PutCafe \/ DeleteCafe \/ PutEmployee \/ DeleteEmployee

Spec == Init /\ [][Next]_vars

-------------------------------------------------------------------------------
(* Properties.                                                              *)

\* Every variable keeps its type.
TypeOK ==
  /\ tables \in Rows
  /\ draft \in Rows
  /\ phase \in Phases
  /\ picked \in [CafeSeeds -> CafeIds] \cup {<<>>}
  /\ \/ pending \subseteq DOMAIN EmployeeSeeds
     \/ pending \subseteq AssignmentSeeds
  /\ untouched \in BOOLEAN
  /\ writes \in 0..MaxWrites

\* No two cafes share the name of a seed, and no two assignments its key, which the
\* schema would allow: users rename cafes.
SeedRowsAreUnique ==
  /\ \A c, d \in tables.cafes : c.name = d.name /\ c.name \in CafeSeeds => c = d
  /\ \A s \in AssignmentSeeds : \A j, k \in JobsOf(tables, s) : j = k

\* "Verify the seed script inserts the demo dataset once and updates it on
\* reruns": started again before any user wrote, a container serves the same rows,
\* unless users have left two rows for one seed, of which it may take the other.
SeedingAgainChangesNothing ==
  [][untouched /\ phase # "serving" /\ SeedRowsAreUnique
       => phase' # "failed" /\ tables' = tables]_vars

\* A row no seed names keeps every value through a seeding, and no row is lost.
SeedingKeepsUserRows ==
  [][phase = "commit" /\ phase' = "serving" =>
       /\ \A c \in tables.cafes :
            c \in tables'.cafes
              \/ (c.name \in CafeSeeds /\ c.id \in Ids(tables'.cafes))
       /\ \A e \in tables.employees :
            e \in tables'.employees
              \/ (e.email \in DOMAIN EmployeeSeeds /\ e.id \in Ids(tables'.employees))
       /\ \A j \in tables.jobs :
            j \in tables'.jobs
              \/ (/\ \E s \in AssignmentSeeds : j \in JobsOf(tables, s)
                  /\ j.id \in Ids(tables'.jobs))]_vars

\* What the schema promises of the rows: primary keys, unique email addresses and
\* phone numbers, one open assignment per employee, foreign keys.
SchemaHolds(T) ==
  /\ Keyed(T.cafes) /\ Keyed(T.employees) /\ Keyed(T.jobs)
  /\ \A a, b \in T.employees : a.email = b.email \/ a.phone = b.phone => a = b
  /\ \A a, b \in T.jobs :
       a.employee = b.employee /\ a.end = NoDate /\ b.end = NoDate => a = b
  /\ \A j \in T.jobs : j.employee \in Ids(T.employees) /\ j.cafe \in Ids(T.cafes)

\* The tables keep the schema's promises, whatever a seeding found and wherever it
\* was stopped, and a container that serves has every seed in them as the script
\* states it, until a user writes.
SeedsArePresent ==
  /\ SchemaHolds(tables)
  /\ phase = "serving" /\ untouched =>
       /\ \A n \in CafeSeeds :
            \E c \in tables.cafes : c.name = n /\ c.profile = "seed"
       /\ \A m \in DOMAIN EmployeeSeeds : \E e \in tables.employees :
            e.email = m /\ e.phone = EmployeeSeeds[m] /\ e.profile = "seed"
       /\ \A s \in AssignmentSeeds : \E j \in JobsOf(tables, s) : j.end = s.end

\* A start fails for three reasons only: the phone number of a seeded employee
\* belongs to somebody else, a seeded employee has an open assignment that is not
\* the one of its seed, or renamed cafes left two rows for the key of one seed.
StartsFailForAReason ==
  [][phase # "failed" /\ phase' = "failed" =>
       \/ \E e \in tables.employees, m \in DOMAIN EmployeeSeeds :
            e.phone = EmployeeSeeds[m] /\ e.email # m
       \/ \E s \in AssignmentSeeds, j \in tables.jobs :
            /\ s.end = NoDate /\ j.end = NoDate
            /\ EmailOf(tables, j.employee) = s.email
            /\ j \notin JobsOf(tables, s)
       \/ \E s \in AssignmentSeeds : Cardinality(JobsOf(tables, s)) > 1]_vars

\* README: the backend "runs `python scripts/seed.py`" and "starts the backend
\* with Uvicorn"; its seed is updated on reruns.
EveryStartServes == phase # "failed"
===============================================================================
