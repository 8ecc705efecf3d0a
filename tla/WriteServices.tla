----------------------------- MODULE WriteServices -----------------------------
(***************************************************************************)
(* The six write operations of the backend, run by concurrent request      *)
(* threads against one PostgreSQL database: app/employees/command_service  *)
(* and app/cafes/command_service over the models' constraints.             *)
(*                                                                         *)
(* Sessions run at READ COMMITTED (nothing in app/core/database.py asks    *)
(* for more), with autoflush=False.  So every SELECT of a service is a     *)
(* step that sees the rows committed so far, and the statements of a flush *)
(* reach the database together with the COMMIT: they are one step, except  *)
(* the bulk DELETE of delete_cafe, which is executed at once and holds its *)
(* row locks until the transaction ends.  FlushLocks takes the flushes     *)
(* apart and implements this module.                                       *)
(*                                                                         *)
(* An employee row is its two unique columns and a profile, which is its   *)
(* name and gender; a cafe row is its name.  Dates are left out.           *)
(***************************************************************************)
EXTENDS Naturals, FiniteSets

CONSTANTS
  Workers,           \* request threads
  Employees,         \* business identifiers
  Cafes,             \* cafe identifiers
  Values,            \* of the columns of an employee
  Submitted,         \* the employees that the clients of a run send
  Names,             \* cafe names
  Ops,               \* the operations the clients of a run call
  NoRow,             \* no such row in the table
  NoCafe,            \* cafe_id = None
  NoRequest,         \* a worker that serves no request
  InitialEmployees,  \* rows the seeded database starts with
  InitialCafes,
  InitialHistory,    \* cafes that closed assignments of the seed may refer to
  MaxRequests,       \* bound on the requests of a run
  DatabaseMayFail    \* connections may be lost

Columns == {"email_address", "phone_number", "profile"}
UniqueColumns == {"email_address", "phone_number"}
Details == [Columns -> Values]

AllOps == {"create_employee", "update_employee", "delete_employee",
           "create_cafe", "update_cafe", "delete_cafe"}

ASSUME WriteConstants ==
  /\ Ops \subseteq AllOps
  /\ InitialEmployees \subseteq Employees
  /\ InitialCafes \subseteq Cafes
  /\ InitialHistory \subseteq InitialCafes
  /\ Submitted \subseteq Details
  /\ NoRow \notin Details \cup Names
  /\ NoCafe \notin Cafes
  /\ Employees \cap Cafes = {}
  /\ DatabaseMayFail \in BOOLEAN

VARIABLES
  employee,     \* table employees: [Employees -> Details or NoRow]
  cafe,         \* table cafes: [Cafes -> Names or NoRow]
  assignments,  \* table employee_assignments, open when end_date IS NULL
  nextId,       \* the key of the next assignment row
  retired,      \* cafe identifiers used and deleted, uuid4 makes no duplicates
  pc,           \* the next statement of each worker
  req,          \* the request each worker serves
  seen,         \* what each worker's session has read
  doomed,       \* employees a delete_cafe has deleted but not yet committed
  reply,        \* how each worker's last request was answered
  begun,        \* requests started so far
  interfered    \* rows others changed during each request (history)

tables == <<employee, cafe, assignments, nextId, retired>>
vars == <<tables, pc, req, seen, doomed, reply, begun, interfered>>

\* A row's key is its employee and id together.
Assignment == [id: Nat, employee: Employees, cafe: Cafes, open: BOOLEAN]

\* The payloads and path parameters of the six endpoints; what an endpoint does
\* not take is NoRow or NoCafe.  EmployeeCreateRequest requires a cafe_id.  The
\* cafe of create_cafe is the uuid4 its row will get.
Requests ==
  [op: {"create_employee"}, employee: {NoRow}, cafe: Cafes,
   details: Submitted, name: {NoRow}] \cup
  [op: {"update_employee"}, employee: Employees, cafe: Cafes \cup {NoCafe},
   details: Submitted, name: {NoRow}] \cup
  [op: {"delete_employee"}, employee: Employees, cafe: {NoCafe},
   details: {NoRow}, name: {NoRow}] \cup
  [op: {"create_cafe"}, employee: {NoRow}, cafe: Cafes,
   details: {NoRow}, name: Names] \cup
  [op: {"update_cafe"}, employee: {NoRow}, cafe: Cafes,
   details: {NoRow}, name: Names] \cup
  [op: {"delete_cafe"}, employee: {NoRow}, cafe: Cafes,
   details: {NoRow}, name: {NoRow}]

\* A request in progress: create_employee gets its identifier on the way.
InProgress ==
  [op: AllOps, employee: Employees \cup {NoRow}, cafe: Cafes \cup {NoCafe},
   details: Details \cup {NoRow}, name: Names \cup {NoRow}]

\* previous: the cafe of the first fetch_active_assignment; current: the row of
\* the second one, if any; staff: fetch_active_employee_ids_by_cafe.
Session == [details: Details \cup {NoRow}, name: Names \cup {NoRow},
            previous: Cafes \cup {NoCafe}, current: SUBSET Assignment,
            staff: SUBSET Employees]

NewSession == [details |-> NoRow, name |-> NoRow, previous |-> NoCafe,
               current |-> {}, staff |-> {}]

\* 404, the three messages of 409, 500 (twice) and 503.
Replies == {"none", "ok", "not_found", "taken", "already_active",
            "conflict", "server_error", "ids_exhausted", "unavailable"}

Steps == {"idle", "fetch", "previous", "require_cafe", "current", "pick_id",
          "staff", "delete_staff", "commit", "refresh", "finish"}

Rows(e)   == {a \in assignments : a.employee = e}
Active(e) == {a \in Rows(e) : a.open}
Staff(c)  == {e \in Employees : \E a \in Active(e) : a.cafe = c}
SameRow(a, b) == a.employee = b.employee /\ a.id = b.id

\* The cafe of a fetched row, None when there was none.
CafeOf(S) == IF S = {} THEN NoCafe ELSE (CHOOSE a \in S : TRUE).cafe

SeededRow(e, c, isOpen) ==
  [id |-> IF isOpen THEN 0 ELSE 1, employee |-> e, cafe |-> c, open |-> isOpen]

\* Any seeded database: cafes and employees, each employed somewhere or not, with
\* or without a closed assignment.
Init ==
  /\ employee \in [Employees -> Details \cup {NoRow}]
  /\ \A e \in Employees : employee[e] # NoRow <=> e \in InitialEmployees
  /\ \A e, f \in InitialEmployees : e # f =>
       \A c \in UniqueColumns : employee[e][c] # employee[f][c]
  /\ cafe \in [Cafes -> Names \cup {NoRow}]
  /\ \A c \in Cafes : cafe[c] # NoRow <=> c \in InitialCafes
  /\ \E job \in [InitialEmployees -> InitialCafes \cup {NoCafe}],
        past \in [InitialEmployees -> InitialHistory \cup {NoCafe}] :
        assignments =
          {SeededRow(e, job[e], TRUE) :
             e \in {f \in InitialEmployees : job[f] # NoCafe}} \cup
          {SeededRow(e, past[e], FALSE) :
             e \in {f \in InitialEmployees : past[f] # NoCafe}}
  /\ nextId = 2
  /\ retired = {}
  /\ pc = [w \in Workers |-> "idle"]
  /\ req = [w \in Workers |-> NoRequest]
  /\ seen = [w \in Workers |-> NewSession]
  /\ doomed = [w \in Workers |-> {}]
  /\ reply = [w \in Workers |-> "none"]
  /\ begun = 0
  /\ interfered = [w \in Workers |-> {}]

-------------------------------------------------------------------------------
(* Control of one request.                                                  *)

At(w, ops, step) == pc[w] = step /\ req[w].op \in ops

Goto(w, step) == pc' = [pc EXCEPT ![w] = step]

Remember(w, session) == seen' = [seen EXCEPT ![w] = session]

\* The request ends; closing its session rolls back what is not committed.
Answer(w, status) ==
  /\ Goto(w, "idle")
  /\ reply' = [reply EXCEPT ![w] = status]
  /\ req' = [req EXCEPT ![w] = NoRequest]
  /\ seen' = [seen EXCEPT ![w] = NewSession]
  /\ doomed' = [doomed EXCEPT ![w] = {}]
  /\ UNCHANGED begun

Reject(w, status) ==
  /\ Answer(w, status)
  /\ UNCHANGED <<tables, interfered>>

\* A SELECT: the session remembers its result and the request goes on.
Select(w, session, step) ==
  /\ Remember(w, session)
  /\ Goto(w, step)
  /\ UNCHANGED <<tables, req, doomed, reply, begun, interfered>>

FirstStep(op) ==
  CASE op = "create_employee" -> "require_cafe"
    [] op = "create_cafe" -> "commit"
    [] OTHER -> "fetch"

Begin(w) ==
  /\ pc[w] = "idle"
  /\ begun < MaxRequests
  /\ begun' = begun + 1
  /\ \E r \in Requests :
       /\ r.op \in Ops
       /\ r.op = "create_cafe" =>
            /\ cafe[r.cafe] = NoRow /\ r.cafe \notin retired
            /\ \A v \in Workers : pc[v] # "idle" => req[v].cafe # r.cafe
       /\ req' = [req EXCEPT ![w] = r]
       /\ Goto(w, FirstStep(r.op))
  /\ reply' = [reply EXCEPT ![w] = "none"]
  /\ interfered' = [interfered EXCEPT ![w] = {}]
  /\ UNCHANGED <<tables, seen, doomed>>

-------------------------------------------------------------------------------
(* The SELECTs that precede the writes.                                     *)

\* fetch_employee, then 404.
FetchEmployee(w) ==
  LET found == employee[req[w].employee] IN
  /\ At(w, {"update_employee", "delete_employee"}, "fetch")
  /\ \/ found = NoRow /\ Reject(w, "not_found")
     \/ found # NoRow /\ Select(w, [seen[w] EXCEPT !.details = found], "previous")

\* fetch_cafe, then 404.
FetchCafe(w) ==
  LET found == cafe[req[w].cafe] IN
  /\ At(w, {"update_cafe", "delete_cafe"}, "fetch")
  /\ \/ found = NoRow /\ Reject(w, "not_found")
     \/ found # NoRow /\ Select(w, [seen[w] EXCEPT !.name = found], "staff")

\* Mutant: the session keeps the assignment row, not the cafe of it.
FetchPrevious_KeepsTheRow(w) ==
  /\ At(w, {"update_employee", "delete_employee"}, "previous")
  /\ Select(w, [seen[w] EXCEPT !.previous = Active(req[w].employee)],
            IF req[w].op = "update_employee" THEN "require_cafe" ELSE "commit")

\* The first fetch_active_assignment of update_employee, the one of
\* delete_employee: they decide what will be invalidated.
FetchPrevious(w) ==
  /\ At(w, {"update_employee", "delete_employee"}, "previous")
  /\ Select(w, [seen[w] EXCEPT !.previous = CafeOf(Active(req[w].employee))],
            IF req[w].op = "update_employee" THEN "require_cafe" ELSE "commit")

\* _require_cafe, which passes None without a SELECT.
RequireCafe(w) ==
  /\ At(w, {"create_employee", "update_employee"}, "require_cafe")
  /\ \/ /\ req[w].cafe # NoCafe
        /\ cafe[req[w].cafe] = NoRow
        /\ Reject(w, "not_found")
     \/ /\ req[w].cafe # NoCafe => cafe[req[w].cafe] # NoRow
        /\ Select(w, seen[w], IF req[w].op = "create_employee"
                                THEN "pick_id" ELSE "current")

\* The second fetch_active_assignment, in _apply_assignment_transition.
FetchCurrent(w) ==
  /\ At(w, {"update_employee"}, "current")
  /\ Select(w, [seen[w] EXCEPT !.current = Active(req[w].employee)], "commit")

\* create_unique_employee_id draws identifiers until fetch_employee finds none,
\* 20 times at most.
CreateUniqueEmployeeId(w) ==
  /\ At(w, {"create_employee"}, "pick_id")
  /\ \/ \E e \in Employees :
          /\ employee[e] = NoRow
          /\ req' = [req EXCEPT ![w].employee = e]
          /\ Goto(w, "commit")
          /\ UNCHANGED <<tables, seen, doomed, reply, begun, interfered>>
     \/ /\ \E e \in Employees : employee[e] # NoRow
        /\ Reject(w, "ids_exhausted")

FetchStaff(w) ==
  /\ At(w, {"update_cafe", "delete_cafe"}, "staff")
  /\ Select(w, [seen[w] EXCEPT !.staff = Staff(req[w].cafe)],
            IF req[w].op = "update_cafe" THEN "commit" ELSE "delete_staff")

-------------------------------------------------------------------------------
(* Row locks.  The bulk DELETE of delete_cafe locks the employees it deletes *)
(* and the assignment rows the foreign key cascades to.  Whoever updates or  *)
(* deletes such a row, references the employee, or claims its unique email   *)
(* or phone number waits for that transaction to end.                        *)

\* The columns an INSERT or UPDATE sets: the unit of work leaves out those that
\* _apply_employee_fields gave the value the session has read.
Edited(w) == {c \in Columns : \/ req[w].op = "create_employee"
                              \/ req[w].details[c] # seen[w].details[c]}

\* The other employees that have the value this one is to get.
Rivals(w, c) == {f \in Employees \ {req[w].employee} :
                   employee[f] # NoRow /\ employee[f][c] = req[w].details[c]}

\* uq_employees_email_address, uq_employees_phone_number.
Taken(w) == \E c \in Edited(w) \cap UniqueColumns : Rivals(w, c) # {}

\* Whose rows the unique indexes make w wait for: the first of them fails a
\* statement before the second is looked at.
Claims(w) ==
  LET rivals(c) == IF c \in Edited(w) THEN Rivals(w, c) ELSE {}
  IN IF rivals("email_address") # {} THEN rivals("email_address")
                                     ELSE rivals("phone_number")

\* Mutant: the early return for an unchanged cafe is dropped.
Moves_Always(w) == TRUE

\* current_cafe_id == new_cafe_id keeps the active row, for days-worked.
Moves(w) == CafeOf(seen[w].current) # req[w].cafe

\* The employees whose rows w has to lock.  A statement that finds its row gone
\* fails at once.
Needs(w) ==
  CASE At(w, {"create_employee"}, "commit") ->
         IF employee[req[w].employee] # NoRow THEN {req[w].employee}
                                              ELSE Claims(w)
    [] At(w, {"update_employee"}, "commit") ->
         (IF Edited(w) # {} /\ employee[req[w].employee] # NoRow
            THEN {req[w].employee} \cup Claims(w) ELSE {}) \cup
         (IF /\ Moves(w)
             /\ \/ seen[w].current = {}
                \/ \E a \in assignments, b \in seen[w].current : SameRow(a, b)
            THEN {req[w].employee} ELSE {})
    [] At(w, {"delete_employee"}, "commit") -> {req[w].employee}
    [] At(w, {"delete_cafe"}, "delete_staff") -> seen[w].staff
    [] At(w, {"delete_cafe"}, "commit") ->
         {a.employee : a \in {b \in assignments : b.cafe = req[w].cafe}}
    [] OTHER -> {}

WaitsFor(w, v) == v # w /\ Needs(w) \cap doomed[v] # {}
Blocked(w) == \E v \in Workers : WaitsFor(w, v)

-------------------------------------------------------------------------------
(* Transactions.                                                            *)

\* The rows that differ between this state and the next.
Changed ==
  {e \in Employees : employee'[e] # employee[e] \/ Rows(e)' # Rows(e)}
    \cup {c \in Cafes : cafe'[c] # cafe[c]}

\* COMMIT succeeds.  When the connection is lost instead of answering, the
\* service raises although the transaction is committed.
Committed(w, step) ==
  /\ interfered' = [v \in Workers |->
       IF v = w \/ pc[v] = "idle" THEN interfered[v]
                                  ELSE interfered[v] \cup Changed]
  /\ \/ /\ Goto(w, step)
        /\ doomed' = [doomed EXCEPT ![w] = {}]
        /\ UNCHANGED <<req, seen, reply, begun>>
     \/ /\ DatabaseMayFail
        /\ Answer(w, "unavailable")

SetEmployee(e, row) == employee' = [employee EXCEPT ![e] = row]
SetCafe(c, row)     == cafe' = [cafe EXCEPT ![c] = row]
NewRow(e, c) == [id |-> nextId, employee |-> e, cafe |-> c, open |-> TRUE]

\* Mutant: an update forgets the phone number.
Written_NoPhone(w) ==
  LET row == employee[req[w].employee] IN
  [c \in Columns |-> IF c \in Edited(w) /\ (c # "phone_number" \/ row = NoRow)
                       THEN req[w].details[c] ELSE row[c]]

\* The row as an INSERT or UPDATE leaves it: columns that are not edited keep what
\* others have committed.
Written(w) ==
  [c \in Columns |-> IF c \in Edited(w) THEN req[w].details[c]
                                        ELSE employee[req[w].employee][c]]

CommitCreateEmployee(w) ==
  LET e == req[w].employee
      c == req[w].cafe
      failure == IF employee[e] # NoRow THEN "conflict"  \* the primary key
                 ELSE IF Taken(w) THEN "taken"
                 ELSE IF cafe[c] = NoRow THEN "conflict" \* the foreign key
                 ELSE "none"
  IN
  /\ At(w, {"create_employee"}, "commit")
  /\ ~Blocked(w)
  /\ \/ failure # "none" /\ Reject(w, failure)
     \/ /\ failure = "none"
        /\ SetEmployee(e, Written(w))
        /\ assignments' = assignments \cup {NewRow(e, c)}
        /\ nextId' = nextId + 1
        /\ UNCHANGED <<cafe, retired>>
        /\ Committed(w, "finish")

\* Mutant: there is no partial unique index on open rows.
UpdateFailure_NoIndex(w) ==
  LET e == req[w].employee
      c == req[w].cafe
      closed == {a \in assignments : \E b \in seen[w].current : SameRow(a, b)}
  IN IF Edited(w) # {} /\ employee[e] = NoRow THEN "server_error"
     ELSE IF Taken(w) THEN "taken"
     ELSE IF ~Moves(w) THEN "none"
     ELSE IF seen[w].current # {} /\ closed = {} THEN "server_error"
     ELSE IF c = NoCafe THEN "none"
     ELSE IF employee[e] = NoRow \/ cafe[c] = NoRow THEN "conflict"
     ELSE "none"

\* Mutant: the new row is inserted before the old one is closed.
UpdateFailure_InsertsFirst(w) ==
  LET e == req[w].employee
      c == req[w].cafe
  IN IF Edited(w) # {} /\ employee[e] = NoRow THEN "server_error"
     ELSE IF Taken(w) THEN "taken"
     ELSE IF ~Moves(w) \/ c = NoCafe THEN "none"
     ELSE IF Active(e) # {} THEN "already_active"
     ELSE IF employee[e] = NoRow \/ cafe[c] = NoRow THEN "conflict"
     ELSE "none"

\* The statements update_employee flushes, in their order, and the first that
\* fails: UPDATE employees and UPDATE employee_assignments expect their row
\* (StaleDataError, which is no IntegrityError, otherwise), INSERT meets the
\* partial unique index on open rows and then the two foreign keys.
UpdateFailure(w) ==
  LET e == req[w].employee
      c == req[w].cafe
      closed == {a \in assignments : \E b \in seen[w].current : SameRow(a, b)}
  IN IF Edited(w) # {} /\ employee[e] = NoRow THEN "server_error"
     ELSE IF Taken(w) THEN "taken"
     ELSE IF ~Moves(w) THEN "none"
     ELSE IF seen[w].current # {} /\ closed = {} THEN "server_error"
     ELSE IF c = NoCafe THEN "none"
     ELSE IF Active(e) \ closed # {} THEN "already_active"
     ELSE IF employee[e] = NoRow \/ cafe[c] = NoRow THEN "conflict"
     ELSE "none"

\* Mutant: the old row is deleted, not closed.
CloseRows_Deletes(S) == {a \in assignments : ~\E b \in S : SameRow(a, b)}

\* _apply_assignment_transition: close the row the session holds, open another.
CloseRows(S) ==
  {IF \E b \in S : SameRow(a, b) THEN [a EXCEPT !.open = FALSE] ELSE a :
     a \in assignments}

CommitUpdateEmployee(w) ==
  LET e == req[w].employee
      c == req[w].cafe
  IN
  /\ At(w, {"update_employee"}, "commit")
  /\ ~Blocked(w)
  /\ \/ UpdateFailure(w) # "none" /\ Reject(w, UpdateFailure(w))
     \/ /\ UpdateFailure(w) = "none"
        /\ IF Edited(w) # {} THEN SetEmployee(e, Written(w)) ELSE UNCHANGED employee
        /\ \/ ~Moves(w) /\ UNCHANGED <<assignments, nextId>>
           \/ /\ Moves(w) /\ c = NoCafe
              /\ assignments' = CloseRows(seen[w].current)
              /\ UNCHANGED nextId
           \/ /\ Moves(w) /\ c # NoCafe
              /\ assignments' = CloseRows(seen[w].current) \cup {NewRow(e, c)}
              /\ nextId' = nextId + 1
        /\ UNCHANGED <<cafe, retired>>
        /\ Committed(w, "finish")

\* session.delete(employee) with its assignments; deleting nothing is no error.
CommitDeleteEmployee(w) ==
  /\ At(w, {"delete_employee"}, "commit")
  /\ ~Blocked(w)
  /\ SetEmployee(req[w].employee, NoRow)
  /\ assignments' = assignments \ Rows(req[w].employee)
  /\ UNCHANGED <<cafe, nextId, retired>>
  /\ Committed(w, "finish")

CommitCreateCafe(w) ==
  /\ At(w, {"create_cafe"}, "commit")
  /\ SetCafe(req[w].cafe, req[w].name)
  /\ UNCHANGED <<employee, assignments, nextId, retired>>
  /\ Committed(w, "refresh")

\* An unchanged cafe is not written at all.
CommitUpdateCafe(w) ==
  LET c == req[w].cafe
      writes == req[w].name # seen[w].name
  IN
  /\ At(w, {"update_cafe"}, "commit")
  /\ \/ writes /\ cafe[c] = NoRow /\ Reject(w, "server_error")
     \/ /\ writes => cafe[c] # NoRow
        /\ IF writes THEN SetCafe(c, req[w].name) ELSE UNCHANGED cafe
        /\ UNCHANGED <<employee, assignments, nextId, retired>>
        /\ Committed(w, "refresh")

\* delete_employees: the DELETE runs at once, its effect waits for the COMMIT.
DeleteEmployees(w) ==
  /\ At(w, {"delete_cafe"}, "delete_staff")
  /\ ~Blocked(w)
  /\ doomed' = [doomed EXCEPT ![w] =
                  {e \in seen[w].staff : employee[e] # NoRow}]
  /\ Goto(w, "commit")
  /\ UNCHANGED <<tables, req, seen, reply, begun, interfered>>

\* The cafe goes with every assignment row that references it.
CommitDeleteCafe(w) ==
  LET c == req[w].cafe IN
  /\ At(w, {"delete_cafe"}, "commit")
  /\ ~Blocked(w)
  /\ employee' = [e \in Employees |->
                    IF e \in doomed[w] THEN NoRow ELSE employee[e]]
  /\ assignments' = {a \in assignments :
                       a.employee \notin doomed[w] /\ a.cafe # c}
  /\ SetCafe(c, NoRow)
  /\ retired' = retired \cup {c}
  /\ UNCHANGED nextId
  /\ Committed(w, "finish")

\* session.refresh(cafe), which raises when the row is gone again.
Refresh(w) ==
  /\ At(w, {"create_cafe", "update_cafe"}, "refresh")
  /\ \/ cafe[req[w].cafe] = NoRow /\ Reject(w, "server_error")
     \/ cafe[req[w].cafe] # NoRow /\ Select(w, seen[w], "finish")

\* The answer; employees are read again by _serialize_employee_from_session.
Finish(w) ==
  /\ pc[w] = "finish"
  /\ Reject(w, IF /\ req[w].op \in {"create_employee", "update_employee"}
                  /\ employee[req[w].employee] = NoRow
               THEN "not_found" ELSE "ok")

\* The employees and cafes whose rows a transaction locks at some statement, and
\* the values it enters in unique indexes.
Footprint(w) ==
  IF pc[w] \notin {"delete_staff", "commit"} THEN {}
  ELSE ((Employees \cup Cafes) \cap
          ({req[w].employee, req[w].cafe} \cup Needs(w) \cup seen[w].staff))
       \cup (IF req[w].details = NoRow THEN {}
             ELSE UNION {{<<c, req[w].details[c]>>} \cup Rivals(w, c) :
                           c \in Edited(w) \cap UniqueColumns})

\* PostgreSQL ends a cycle of waiting transactions by aborting one of them; the
\* error is no IntegrityError and names no dependency marker.  Flushes take their
\* locks statement by statement, in different orders: any two that meet in a row
\* may be part of a cycle.  FlushLocks has the statements and their cycles.
Deadlocked(w) == \E v \in Workers \ {w} : Footprint(w) \cap Footprint(v) # {}

DeadlockVictim(w) == Deadlocked(w) /\ Reject(w, "server_error")

\* A statement fails because the connection is lost or it times out: 503.
DatabaseFails(w) ==
  /\ DatabaseMayFail
  /\ pc[w] # "idle"
  /\ pc[w] = "finish" => req[w].op \in {"create_employee", "update_employee"}
  /\ Reject(w, "unavailable")

-------------------------------------------------------------------------------
Step(w) ==
  \/ FetchEmployee(w) \/ FetchCafe(w)
  \/ FetchPrevious(w) \/ RequireCafe(w) \/ FetchCurrent(w)
  \/ CreateUniqueEmployeeId(w) \/ FetchStaff(w)
  \/ CommitCreateEmployee(w) \/ CommitUpdateEmployee(w)
  \/ CommitDeleteEmployee(w)
  \/ CommitCreateCafe(w) \/ CommitUpdateCafe(w)
  \/ DeleteEmployees(w) \/ CommitDeleteCafe(w)
  \/ Refresh(w) \/ Finish(w)
  \/ DeadlockVictim(w) \/ DatabaseFails(w)

Next == \E w \in Workers : Begin(w) \/ Step(w)

Spec == Init /\ [][Next]_vars

-------------------------------------------------------------------------------
(* Properties.                                                              *)

\* Every variable keeps its type.
TypeOK ==
  /\ employee \in [Employees -> Details \cup {NoRow}]
  /\ cafe \in [Cafes -> Names \cup {NoRow}]
  /\ assignments \in SUBSET Assignment
  /\ nextId \in Nat
  /\ retired \in SUBSET Cafes
  /\ pc \in [Workers -> Steps]
  /\ req \in [Workers -> InProgress \cup {NoRequest}]
  /\ seen \in [Workers -> Session]
  /\ doomed \in [Workers -> SUBSET Employees]
  /\ reply \in [Workers -> Replies]
  /\ begun \in Nat
  /\ interfered \in [Workers -> SUBSET (Employees \cup Cafes)]

\* A request keeps the shape its endpoint gave it, and a new employee has an
\* identifier from the pick on.
RequestInv ==
  \A w \in Workers : pc[w] # "idle" =>
    LET r == req[w] IN
    /\ r \in InProgress
    /\ r.op \in {"create_employee", "update_employee"} => r.details \in Details
    /\ r.op \in {"update_employee", "delete_employee"} => r.employee \in Employees
    /\ r.op = "create_employee" /\ pc[w] \in {"commit", "finish"}
         => r.employee \in Employees
    /\ r.op \notin {"update_employee", "delete_employee"} => r.cafe \in Cafes
    /\ r.op \in {"create_cafe", "update_cafe"} => r.name \in Names

\* What the schema promises under every interleaving of the services: at most
\* one open assignment per employee, assignments only of employees and cafes
\* that exist, no email address, phone number or row key twice.
Integrity ==
  /\ \A a \in assignments : a.id < nextId
  /\ \A a, b \in assignments : SameRow(a, b) => a = b
  /\ \A a, b \in assignments :
       a.employee = b.employee /\ a.open /\ b.open => a = b
  /\ \A a \in assignments : employee[a.employee] # NoRow /\ cafe[a.cafe] # NoRow
  /\ \A e, f \in Employees :
       employee[e] # NoRow /\ employee[f] # NoRow /\ e # f =>
         \A c \in UniqueColumns : employee[e][c] # employee[f][c]

\* Assignment history is append-only (_apply_assignment_transition closes a row
\* and adds another, it never edits one): a row keeps its employee and cafe, is
\* never reopened once closed, and disappears only with its employee or cafe.
HistoryIsAppendOnly ==
  [][\A a \in assignments :
       \/ \E b \in assignments' : /\ SameRow(a, b) /\ a.cafe = b.cafe
                                  /\ b.open => a.open
       \/ employee'[a.employee] = NoRow
       \/ cafe'[a.cafe] = NoRow]_vars

\* "Same-cafe updates preserve the active assignment row so current days-worked
\* continuity is maintained", whatever else commits during the update.
SameCafeKeepsRow ==
  [][\A w \in Workers :
       At(w, {"update_employee"}, "commit") /\ pc'[w] = "finish"
         => \A a \in Active(req[w].employee) :
              a.cafe = req[w].cafe => a \in assignments']_vars

\* A PUT replaces the employee: after it the row has what the client sent.  But
\* only the columns that differ from what the session read are written, so this is
\* so only if nobody else changed the employee in between; two PUTs at a time may
\* leave a mixture that no client sent.  (_apply_employee_fields.)
PutsAreWhole ==
  [][\A w \in Workers :
       At(w, {"update_employee"}, "commit") /\ pc'[w] = "finish"
         => \/ employee'[req[w].employee] = req[w].details
            \/ req[w].employee \in interfered[w]]_vars

\* A client alone with its employee and cafe never meets a write-race answer:
\* 409 for an active assignment or a reference, 500 for a vanished row and 404
\* after the commit all need another request that changed one of the two, or a
\* deadlock.
RaceAnswersNeedARace ==
  [][\A w \in Workers :
       \/ reply'[w] = reply[w]
       \/ reply'[w] \notin {"already_active", "conflict", "server_error"}
            /\ (reply'[w] = "not_found" => pc[w] # "finish")
       \/ interfered[w] \cap {req[w].employee, req[w].cafe} # {}
       \/ reply'[w] = "server_error" /\ Deadlocked(w)]_vars

\* Every request is answered, although the flushes of transactions wait for each
\* other's row locks in different orders: PostgreSQL breaks the circles.
EveryRequestIsAnswered ==
  \A w \in Workers : pc[w] # "idle" ~> pc[w] = "idle"

-------------------------------------------------------------------------------
(* What a comment of the code says of it, and a race refutes.               *)

Commits(w, op) == At(w, {op}, "commit") /\ pc'[w] = "finish"

\* "Only employees with an active assignment to this cafe are removed by the
\* destructive delete rule."
DeleteTakesOnlyStaff ==
  [][\A w \in Workers : Commits(w, "delete_cafe") =>
       \A e \in Employees : employee[e] # NoRow /\ employee'[e] = NoRow
                              => e \in Staff(req[w].cafe)]_vars

===============================================================================
