------------------------------- MODULE FlushLocks -------------------------------
(***************************************************************************)
(* The statements of each flush, one by one, and the row locks PostgreSQL  *)
(* takes for them.  WriteServices lets a flush happen at its COMMIT, all at *)
(* once; here a transaction collects its locks statement by statement,     *)
(* waits for those that others hold, fails at the first statement that     *)
(* cannot be executed, and writes what it locked when it commits.          *)
(*                                                                         *)
(* SQLAlchemy's unit of work decides the statements and their order:       *)
(* employees before assignments, UPDATE before INSERT, and the rows of a   *)
(* relationship with cascade="all, delete-orphan" are selected and deleted *)
(* one by one, by primary key, before the row they belong to.              *)
(*                                                                         *)
(* The other writes to a cafe are single statements that hold nothing while *)
(* they wait, and are left out.                                            *)
(***************************************************************************)
EXTENDS WriteServices

CONSTANT KeyOrders  \* which orders of newer and older uuid4 keys to consider

ASSUME FlushConstants ==
  /\ Ops \subseteq {"create_employee", "update_employee",
                  "delete_employee", "delete_cafe"}
  /\ KeyOrders \subseteq {"newest_first", "oldest_first"}

VARIABLES
  held,     \* the locks each transaction holds: sets of <<row, mode>>
  loaded,   \* {S} when session.delete has loaded the related rows S, else {}
  keyOrder  \* how the keys of assignment rows compare

lockVars == <<vars, held, loaded, keyOrder>>

-------------------------------------------------------------------------------
(* Rows, index entries and lock modes.                                      *)

EmployeeRow(e)   == <<"employees", e>>
CafeRow(c)       == <<"cafes", c>>
AssignmentRow(a) == <<"employee_assignments", <<a.employee, a.id>>>>
UniqueEntry(c, v) == <<c, v>>  \* of uq_employees_<c>
OpenEntry(e)     == <<"uq_employee_assignments_one_active_per_employee", e>>

\* FOR UPDATE by DELETE, and by an UPDATE that changes a unique column; FOR NO KEY
\* UPDATE by other UPDATEs; FOR KEY SHARE by the check of a foreign key.  The last
\* one only conflicts with the first.
Conflict(m, n) == "share" \in {m, n} => "update" \in {m, n}

Locks(rows, mode) == {<<r, mode>> : r \in rows}
Holds(w, row, mode) == <<row, mode>> \in held[w]

\* The entry of a unique index that a request takes.
Entry(w, c) == UniqueEntry(c, req[w].details[c])

\* The unique columns of the stored row that an UPDATE changes: it may set one to
\* what others have made of it since the session read the row.
Rekeyed(w) == {c \in Edited(w) \cap UniqueColumns :
                 \/ employee[req[w].employee] = NoRow
                 \/ employee[req[w].employee][c] # req[w].details[c]}

RowMode(w) == IF Rekeyed(w) # {} THEN "update" ELSE "no_key"

-------------------------------------------------------------------------------
(* The statements of a transaction, in their order.                         *)

RowsAt(c) == {a \in assignments : a.cafe = c}
Existing(S) == {e \in S : employee[e] # NoRow}

\* The locks a statement has still to take; the next statement begins when there
\* are none.
Left(w, rows, mode) == Locks(rows, mode) \ held[w]
Then(S, T) == IF S # {} THEN S ELSE T

\* Mutant: the cafe is locked before anything else, as in _require_cafe.
CreateStatements_CafeFirst(w) ==
  Then(Left(w, {CafeRow(req[w].cafe)}, "share"),
  Then(Left(w, {EmployeeRow(req[w].employee)}, "update"),
  Then(Left(w, {Entry(w, "email_address")}, "update"),
  Then(Left(w, {Entry(w, "phone_number")}, "update"),
       Left(w, {OpenEntry(req[w].employee)}, "update")))))

\* The INSERT of the employee with its unique entries, in the order in which the
\* indexes were made; the INSERT of its row with its own and the foreign keys.
CreateStatements(w) ==
  Then(Left(w, {EmployeeRow(req[w].employee)}, "update"),
  Then(Left(w, {Entry(w, "email_address")}, "update"),
  Then(Left(w, {Entry(w, "phone_number")}, "update"),
  Then(Left(w, {OpenEntry(req[w].employee)}, "update"),
       Left(w, {CafeRow(req[w].cafe)}, "share")))))

\* UPDATE employees with its unique entries, UPDATE of the open assignment, INSERT
\* of the next one with its unique entry and its two foreign keys.
UpdateStatements(w) ==
  LET e == req[w].employee
      edited(rows) == IF Edited(w) # {} THEN rows ELSE {}
      rekeyed(c) == IF c \in Rekeyed(w) THEN {Entry(w, c)} ELSE {}
      closed(rows) == IF Moves(w) THEN rows ELSE {}
      opened(rows) == IF Moves(w) /\ req[w].cafe # NoCafe THEN rows ELSE {}
  IN Then(Left(w, edited({EmployeeRow(e)}), RowMode(w)),
     Then(Left(w, rekeyed("email_address"), "update"),
     Then(Left(w, rekeyed("phone_number"), "update"),
     Then(Left(w, closed({AssignmentRow(b) : b \in seen[w].current}), "no_key"),
     Then(Left(w, opened({OpenEntry(e)}), "update"),
     Then(Left(w, opened({EmployeeRow(e)}), "share"),
          Left(w, opened({CafeRow(req[w].cafe)}), "share")))))))

\* One executemany deletes the loaded rows that are left by their keys, row by row
\* in the order of the primary key; the order of rows of the seed is open.
Pending(w) == {a \in assignments : /\ \E b \in UNION loaded[w] : SameRow(a, b)
                                   /\ ~Holds(w, AssignmentRow(a), "update")}

First(S) == {a \in S : \A b \in S : IF keyOrder = "newest_first" THEN b.id <= a.id
                                                                 ELSE a.id <= b.id}

DeletesLoaded(w) == Locks({AssignmentRow(a) : a \in First(Pending(w))}, "update")

\* Mutant: the foreign key does not cascade, only the relationship does.
DeleteEmployeeStatements_NoCascade(w) ==
  Then(DeletesLoaded(w),
       Left(w, {EmployeeRow(e) : e \in Existing({req[w].employee})}, "update"))

\* The loaded rows, the employee, and what the foreign key cascades to.
DeleteEmployeeStatements(w) ==
  Then(DeletesLoaded(w),
  Then(Left(w, {EmployeeRow(e) : e \in Existing({req[w].employee})}, "update"),
       Left(w, {AssignmentRow(a) : a \in Rows(req[w].employee)}, "update")))

\* delete_employees: the employees in any order, then their rows by cascade.
DeleteStaffStatements(w) ==
  LET staff == Existing(seen[w].staff)
      rows == {a \in assignments : a.employee \in staff}
  IN Then(Left(w, {EmployeeRow(e) : e \in staff}, "update"),
          Left(w, {AssignmentRow(a) : a \in rows}, "update"))

DeleteCafeStatements(w) ==
  LET existing == {c \in {req[w].cafe} : cafe[c] # NoRow} IN
  Then(DeletesLoaded(w),
  Then(Left(w, {CafeRow(c) : c \in existing}, "update"),
       Left(w, {AssignmentRow(a) : a \in RowsAt(req[w].cafe)}, "update")))

\* What is left of the first statement that is not over.
Wanted(w) ==
  CASE At(w, {"create_employee"}, "commit")   -> CreateStatements(w)
    [] At(w, {"update_employee"}, "commit")   -> UpdateStatements(w)
    [] At(w, {"delete_employee"}, "commit")   -> DeleteEmployeeStatements(w)
    [] At(w, {"delete_cafe"}, "delete_staff") -> DeleteStaffStatements(w)
    [] At(w, {"delete_cafe"}, "commit")       -> DeleteCafeStatements(w)
    [] OTHER -> {}

Flushed(w) == Pending(w) = {} /\ Wanted(w) = {}

\* The flush, or the bulk DELETE, is under way.
Flushing(w) ==
  \/ pc[w] = "delete_staff"
  \/ /\ pc[w] = "commit"
     /\ req[w].op \in {"delete_employee", "delete_cafe"} => loaded[w] # {}

\* An UPDATE or the check of a foreign key does not see the row that an INSERT of
\* another transaction is adding, and finds none.
Invisible(w, lock) ==
  /\ req[w].op = "update_employee"
  /\ lock[1] = EmployeeRow(req[w].employee)
  /\ employee[req[w].employee] = NoRow

\* The unique column whose entry a lock is.
Enters(w, lock) == {c \in UniqueColumns : /\ req[w].details # NoRow
                                          /\ lock[1] = Entry(w, c)}

\* Whose end a lock has to wait for.  An INSERT or UPDATE that meets an entry of a
\* unique index waits for the transaction that is adding or removing it.
Needed(w, lock) ==
  (IF Invisible(w, lock) THEN {} ELSE {lock}) \cup
  Locks({EmployeeRow(e) : e \in UNION {Rivals(w, c) : c \in Enters(w, lock)}},
        "no_key") \cup
  (IF lock[1] = OpenEntry(req[w].employee)
     THEN Locks({AssignmentRow(a) : a \in Active(req[w].employee)}, "no_key")
     ELSE {})

Holders(w, lock) ==
  {v \in Workers \ {w} : \E k \in held[v] : \E l \in Needed(w, lock) :
                            l[1] = k[1] /\ Conflict(l[2], k[2])}

WaitsOn(w, v) == /\ v # w
                 /\ Flushing(w)
                 /\ \E lock \in Wanted(w) : v \in Holders(w, lock)

\* The rows a transaction has closed so far.
Closed(w) == {a \in assignments : Holds(w, AssignmentRow(a), "no_key")}

\* How a statement ends that has waited for its lock and cannot be executed.
Failure(w, lock) ==
  LET e == req[w].employee
      c == req[w].cafe
      lacks(row) == lock[1] = row
  IN
  CASE lacks(EmployeeRow(e)) /\ req[w].op = "create_employee"
         /\ employee[e] # NoRow -> "conflict"
    [] lacks(EmployeeRow(e)) /\ req[w].op = "update_employee"
         /\ employee[e] = NoRow ->
           IF lock[2] = "share" THEN "conflict" ELSE "server_error"
    [] \E u \in Enters(w, lock) : Rivals(w, u) # {} -> "taken"
    [] lacks(OpenEntry(e)) /\ Active(e) \ Closed(w) # {} -> "already_active"
    [] lacks(CafeRow(c)) /\ cafe[c] = NoRow -> "conflict"
    [] /\ \E b \in seen[w].current : lacks(AssignmentRow(b))
       /\ ~\E a \in assignments : lacks(AssignmentRow(a)) -> "server_error"
    [] OTHER -> "none"

-------------------------------------------------------------------------------
(* Steps.                                                                   *)

LockInit ==
  /\ Init
  /\ held = [w \in Workers |-> {}]
  /\ loaded = [w \in Workers |-> {}]
  /\ keyOrder \in KeyOrders

\* A request that ends or commits gives its locks back.
Release(w) ==
  /\ held' = [held EXCEPT ![w] = {}]
  /\ loaded' = [loaded EXCEPT ![w] = {}]
  /\ UNCHANGED keyOrder

\* The steps before and after the flush are those of WriteServices.
Outside(w) ==
  /\ \/ Begin(w) \/ FetchEmployee(w) \/ FetchCafe(w) \/ FetchPrevious(w)
     \/ RequireCafe(w) \/ FetchCurrent(w) \/ CreateUniqueEmployeeId(w)
     \/ FetchStaff(w) \/ Finish(w)
  /\ UNCHANGED <<held, loaded, keyOrder>>

\* session.delete selects the assignments of the relationship, those that the
\* transaction itself has deleted excepted.
Load(w) ==
  LET related == IF req[w].op = "delete_employee" THEN Rows(req[w].employee)
                 ELSE {a \in RowsAt(req[w].cafe) : a.employee \notin doomed[w]}
  IN
  /\ At(w, {"delete_employee", "delete_cafe"}, "commit")
  /\ loaded[w] = {}
  /\ loaded' = [loaded EXCEPT ![w] = {related}]
  /\ UNCHANGED <<vars, held, keyOrder>>

\* A statement that need not wait takes its next lock, or fails.
Execute(w) ==
  /\ Flushing(w)
  /\ \E lock \in Wanted(w) :
       /\ Holders(w, lock) = {}
       /\ \/ /\ Failure(w, lock) = "none"
             /\ held' = [held EXCEPT ![w] = @ \cup {lock}]
             /\ UNCHANGED <<vars, loaded, keyOrder>>
          \/ /\ Failure(w, lock) # "none"
             /\ Reject(w, Failure(w, lock))
             /\ Release(w)

\* The bulk DELETE of delete_cafe is over.
StaffDeleted(w) ==
  /\ At(w, {"delete_cafe"}, "delete_staff")
  /\ Flushed(w)
  /\ doomed' = [doomed EXCEPT ![w] =
                  {e \in Employees : Holds(w, EmployeeRow(e), "update")}]
  /\ Goto(w, "commit")
  /\ UNCHANGED <<tables, req, seen, reply, begun, interfered>>
  /\ UNCHANGED <<held, loaded, keyOrder>>

\* COMMIT: what the statements wrote is what they have locked for it.
Commit(w) ==
  LET op == req[w].op
      e == req[w].employee
      c == req[w].cafe
      locked(f) == \E mode \in {"update", "no_key"} : Holds(w, EmployeeRow(f), mode)
      gone  == {a \in assignments : Holds(w, AssignmentRow(a), "update")}
      opens == Holds(w, CafeRow(c), "share")
  IN
  /\ pc[w] = "commit"
  /\ Flushing(w)
  /\ Flushed(w)
  /\ employee' = [f \in Employees |->
       IF ~locked(f) THEN employee[f]
       ELSE IF op \in {"create_employee", "update_employee"} THEN Written(w)
       ELSE NoRow]
  /\ assignments' = (assignments \ (gone \cup Closed(w)))
                      \cup {[a EXCEPT !.open = FALSE] : a \in Closed(w)}
                      \cup (IF opens THEN {NewRow(e, c)} ELSE {})
  /\ nextId' = IF opens THEN nextId + 1 ELSE nextId
  /\ cafe' = IF Holds(w, CafeRow(c), "update") THEN [cafe EXCEPT ![c] = NoRow]
                                               ELSE cafe
  /\ retired' = IF op = "delete_cafe" THEN retired \cup {c} ELSE retired
  /\ Committed(w, "finish")
  /\ Release(w)

\* A circle of transactions each of which waits for the next.
Circle(S) == \A v \in S : /\ \E u \in S : WaitsOn(v, u)
                         /\ \E u \in S : WaitsOn(u, v)

\* Mutant: nobody looks for circles.
InCircle_Undetected(w) == FALSE

InCircle(w) == /\ Flushing(w)
               /\ \E S \in SUBSET Workers : w \in S /\ Circle(S)

CircleVictim(w) == InCircle(w) /\ Reject(w, "server_error") /\ Release(w)

ConnectionLost(w) == DatabaseFails(w) /\ Release(w)

LockStep(w) ==
  \/ Load(w) \/ Execute(w) \/ StaffDeleted(w) \/ Commit(w)
  \/ CircleVictim(w) \/ ConnectionLost(w)
  \/ Outside(w) /\ pc[w] # "idle"

LockNext == \E w \in Workers : (Outside(w) /\ pc[w] = "idle") \/ LockStep(w)

LockSpec == LockInit /\ [][LockNext]_lockVars

\* As in WriteServices: a thread that can run its next statement does.
FairLockSpec == LockSpec /\ \A w \in Workers : WF_lockVars(LockStep(w))

-------------------------------------------------------------------------------
(* Properties.                                                              *)

\* The row locks make every flush atomic: statement by statement, transactions do
\* what WriteServices says they do at their COMMIT, and they fail only as it says.
FlushesAreAtomic == Spec

\* What two requests ask for tells whether they can wait for each other.  Of two
\* deletions and updates, anything; two updates of one employee; or two that take
\* unique values.  The INSERT and the UPDATE enter the email address before the phone
\* number, so no two wait for entries of each other: one of them must be leaving a
\* value that the other wants, and either wants one of the other's, or both want one
\* email address.  Two creations never wait for each other, nor do a creation and a
\* deletion.
MutualWaitsAreKnown ==
  \A v, w \in Workers :
    LET ops == {req[v].op, req[w].op}
        \* x wants the value of column c that the employee of y has.
        wants(x, y, c) == /\ c \in Edited(x)
                          /\ employee[req[y].employee] # NoRow
                          /\ req[x].details[c] = employee[req[y].employee][c]
        wantsAny(x, y) == \E c \in UniqueColumns : wants(x, y, c)
    IN WaitsOn(v, w) /\ WaitsOn(w, v) =>
         \/ /\ ops \subseteq {"update_employee", "delete_employee", "delete_cafe"}
            /\ ops # {"update_employee"}
         \/ /\ ops = {"update_employee"}
            /\ req[v].employee = req[w].employee
         \/ /\ "update_employee" \in ops
            /\ ops \subseteq {"create_employee", "update_employee"}
            /\ \/ wantsAny(v, w) /\ wantsAny(w, v)
               \/ /\ req[v].details["email_address"] = req[w].details["email_address"]
                  /\ \/ wants(v, w, "phone_number")
                     \/ wants(w, v, "phone_number")

===============================================================================
