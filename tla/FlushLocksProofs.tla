---------------------------- MODULE FlushLocksProofs ----------------------------
(***************************************************************************)
(* Theorems about FlushLocks, for any number of request threads, employees, *)
(* cafes, values and requests: the row locks make every flush atomic, and   *)
(* which requests can wait for each other.                                  *)
(*                                                                         *)
(* A lock is more than an entry of a table: whoever holds it has found      *)
(* something true, and others leave it so because they need a lock that     *)
(* conflicts with it.  LockInv says what that is, for each kind of request. *)
(***************************************************************************)
EXTENDS FlushLocks, WriteServicesProofs

\* What belongs to a flush exists only during one.
Quiet(w) ==
  /\ pc[w] # "idle" => req[w].op \in Ops
  /\ pc[w] = "delete_staff" => req[w].op = "delete_cafe"
  /\ pc[w] \notin {"delete_staff", "commit"} => held[w] = {}
  /\ ~At(w, {"delete_employee", "delete_cafe"}, "commit") => loaded[w] = {}
  /\ ~At(w, {"delete_cafe"}, "commit") => doomed[w] = {}
  /\ doomed[w] \subseteq seen[w].staff

\* The rows session.delete has loaded are rows of what it deletes.
LoadedRows(w) ==
  \A b \in UNION loaded[w] :
    /\ b.id \in Nat /\ b.id < nextId
    /\ req[w].op = "delete_employee" => b.employee = req[w].employee
    /\ req[w].op = "delete_cafe" =>
         \A a \in assignments : SameRow(a, b) => a.cafe = req[w].cafe

\* The UPDATE of the employee is over, if there is one.
Entered(w) ==
  /\ Edited(w) # {} => Holds(w, EmployeeRow(req[w].employee), RowMode(w))
  /\ \A u \in Rekeyed(w) : Holds(w, Entry(w, u), "update")

\* An INSERT of an employee has found the identifier unused, and the values of the
\* unique columns one after the other.
CreateHolds(w) ==
  LET e == req[w].employee
      c == req[w].cafe
  IN At(w, {"create_employee"}, "commit") =>
    /\ \A l \in held[w] :
         \/ l \in {<<EmployeeRow(e), "update">>, <<OpenEntry(e), "update">>,
                   <<CafeRow(c), "share">>}
         \/ \E u \in UniqueColumns : l = <<Entry(w, u), "update">>
    /\ held[w] # {} => Holds(w, EmployeeRow(e), "update") /\ employee[e] = NoRow
    /\ \A u \in UniqueColumns : Holds(w, Entry(w, u), "update") =>
         /\ Rivals(w, u) = {}
         /\ Holds(w, Entry(w, "email_address"), "update")
    /\ Holds(w, OpenEntry(e), "update") =>
         \A u \in UniqueColumns : Holds(w, Entry(w, u), "update")
    /\ Holds(w, CafeRow(c), "share") =>
         Holds(w, OpenEntry(e), "update") /\ cafe[c] # NoRow

\* An update has found its rows and no one else with the values; once it has the
\* entry for the open row, the only open rows are those it has closed.
UpdateHolds(w) ==
  LET e == req[w].employee
      c == req[w].cafe
  IN At(w, {"update_employee"}, "commit") =>
    /\ \A l \in held[w] :
         \/ l \in {<<EmployeeRow(e), "update">>, <<EmployeeRow(e), "no_key">>,
                   <<OpenEntry(e), "update">>, <<EmployeeRow(e), "share">>,
                   <<CafeRow(c), "share">>}
         \/ \E u \in UniqueColumns : l = <<Entry(w, u), "update">>
         \/ \E b \in seen[w].current : l = <<AssignmentRow(b), "no_key">>
    /\ \A mode \in {"update", "no_key"} : Holds(w, EmployeeRow(e), mode) =>
         Edited(w) # {} /\ mode = RowMode(w) /\ employee[e] # NoRow
    /\ \A u \in UniqueColumns : Holds(w, Entry(w, u), "update") =>
         /\ Holds(w, EmployeeRow(e), "update") /\ u \in Rekeyed(w) /\ Rivals(w, u) = {}
         /\ "email_address" \in Rekeyed(w) =>
              Holds(w, Entry(w, "email_address"), "update")
    /\ \A b \in seen[w].current : Holds(w, AssignmentRow(b), "no_key") =>
         /\ Moves(w) /\ Entered(w)
         /\ \E a \in assignments : SameRow(a, b)
    /\ Holds(w, OpenEntry(e), "update") =>
         /\ Moves(w) /\ c # NoCafe /\ Entered(w)
         /\ \A b \in seen[w].current : Holds(w, AssignmentRow(b), "no_key")
         /\ Active(e) \subseteq Closed(w)
    /\ Holds(w, EmployeeRow(e), "share") =>
         Holds(w, OpenEntry(e), "update") /\ employee[e] # NoRow
    /\ Holds(w, CafeRow(c), "share") =>
         Holds(w, EmployeeRow(e), "share") /\ cafe[c] # NoRow

\* A deletion holds the employee, if there is one, and rows of it.
DeleteHolds(w) ==
  LET e == req[w].employee
  IN At(w, {"delete_employee"}, "commit") =>
    \A l \in held[w] :
      \/ l = <<EmployeeRow(e), "update">> /\ employee[e] # NoRow
      \/ \E a \in Rows(e) : l = <<AssignmentRow(a), "update">>

\* The bulk DELETE holds employees of the staff that exist, and their rows.
StaffHolds(w) ==
  At(w, {"delete_cafe"}, "delete_staff") =>
    \A l \in held[w] :
      \/ \E f \in Existing(seen[w].staff) : l = <<EmployeeRow(f), "update">>
      \/ \E a \in assignments : /\ a.employee \in seen[w].staff
                                /\ l = <<AssignmentRow(a), "update">>

\* After it, the deleted employees are held with all their rows.
CafeHolds(w) ==
  LET c == req[w].cafe
  IN At(w, {"delete_cafe"}, "commit") =>
    /\ \A l \in held[w] :
         \/ \E f \in doomed[w] : l = <<EmployeeRow(f), "update">>
         \/ \E a \in assignments : /\ a.employee \in doomed[w] \/ a.cafe = c
                                   /\ l = <<AssignmentRow(a), "update">>
         \/ l = <<CafeRow(c), "update">> /\ cafe[c] # NoRow
    /\ \A f \in doomed[w] : employee[f] # NoRow /\ Holds(w, EmployeeRow(f), "update")
    /\ \A a \in assignments :
         a.employee \in doomed[w] => Holds(w, AssignmentRow(a), "update")

Grounded(w) == /\ Quiet(w) /\ LoadedRows(w)
               /\ CreateHolds(w) /\ UpdateHolds(w)
               /\ DeleteHolds(w) /\ StaffHolds(w) /\ CafeHolds(w)

\* No two transactions hold locks that conflict.
Exclusive ==
  \A v, w \in Workers : v # w =>
    \A k \in held[v], l \in held[w] : k[1] = l[1] => ~Conflict(k[2], l[2])

LockInv == /\ DOMAIN held = Workers /\ DOMAIN loaded = Workers
           /\ Exclusive
           /\ \A w \in Workers : Grounded(w)
-------------------------------------------------------------------------------
\* Rows of different tables, and entries of different indexes, are different.
LEMMA RowsDiffer ==
  /\ \A x, y : EmployeeRow(x) = EmployeeRow(y) <=> x = y
  /\ \A x, y : CafeRow(x) = CafeRow(y) <=> x = y
  /\ \A c, d, x, y : UniqueEntry(c, x) = UniqueEntry(d, y) <=> c = d /\ x = y
  /\ \A x, y : OpenEntry(x) = OpenEntry(y) <=> x = y
  /\ \A x, y : AssignmentRow(x) = AssignmentRow(y) <=> SameRow(x, y)
  /\ \A x, y : EmployeeRow(x) # CafeRow(y)
  /\ \A x, y : EmployeeRow(x) # OpenEntry(y)
  /\ \A x, y : EmployeeRow(x) # AssignmentRow(y)
  /\ \A x, y : CafeRow(x) # OpenEntry(y)
  /\ \A x, y : CafeRow(x) # AssignmentRow(y)
  /\ \A x, y : OpenEntry(x) # AssignmentRow(y)
  BY DEF EmployeeRow, CafeRow, UniqueEntry, OpenEntry, AssignmentRow, SameRow

\* The entries of the unique columns are no rows, nor those for open rows.
LEMMA EntriesDiffer ==
  ASSUME NEW c \in UniqueColumns, NEW y
  PROVE  /\ \A x : UniqueEntry(c, y) # EmployeeRow(x)
         /\ \A x : UniqueEntry(c, y) # CafeRow(x)
         /\ \A x : UniqueEntry(c, y) # OpenEntry(x)
         /\ \A x : UniqueEntry(c, y) # AssignmentRow(x)
         /\ \A w : /\ Entry(w, c) # EmployeeRow(y) /\ Entry(w, c) # CafeRow(y)
                  /\ Entry(w, c) # OpenEntry(y) /\ Entry(w, c) # AssignmentRow(y)
  BY DEF EmployeeRow, CafeRow, UniqueEntry, OpenEntry, AssignmentRow, Entry,
         UniqueColumns

\* A request has two entries.
LEMMA OwnEntries ==
  ASSUME NEW w, NEW c, NEW d
  PROVE  /\ UniqueColumns = {"email_address", "phone_number"}
         /\ UniqueColumns \subseteq Columns
         /\ Entry(w, c) = Entry(w, d) <=> c = d
  BY DEF UniqueColumns, Columns, Entry, UniqueEntry

\* An UPDATE that changes a unique column locks its row for that.
LEMMA RowModes ==
  ASSUME NEW w
  PROVE  /\ Rekeyed(w) \subseteq Edited(w) /\ Rekeyed(w) \subseteq UniqueColumns
         /\ RowMode(w) \in {"update", "no_key"}
         /\ RowMode(w) = "update" <=> Rekeyed(w) # {}
  BY DEF Rekeyed, RowMode

\* Only a share leaves room, and only for what is no update.
LEMMA Conflicts ==
  /\ \A m \in {"update", "no_key", "share"} :
       Conflict("update", m) /\ Conflict(m, "update")
  /\ Conflict("no_key", "no_key")
  /\ ~Conflict("share", "share") /\ ~Conflict("share", "no_key")
  /\ ~Conflict("no_key", "share")
  BY DEF Conflict

\* A statement is reached when nothing is left of those before it.
LEMMA ThenMember ==
  /\ \A S, T, x : x \in Then(S, T) <=> x \in S \/ (S = {} /\ x \in T)
  /\ \A S, T : Then(S, T) = {} <=> S = {} /\ T = {}
  BY DEF Then

LEMMA LeftMember ==
  /\ \A w, rows, mode, x : x \in Left(w, rows, mode)
       <=> x \notin held[w] /\ \E r \in rows : x = <<r, mode>>
  /\ \A w, rows, mode : Left(w, rows, mode) = {}
       <=> \A r \in rows : Holds(w, r, mode)
  BY DEF Left, Locks, Holds

\* What create_employee wants, and what it has when its flush is over.
LEMMA CreateWants ==
  ASSUME NEW w \in Workers, At(w, {"create_employee"}, "commit")
  PROVE  LET e == req[w].employee
             c == req[w].cafe
             entered == \A u \in UniqueColumns : Holds(w, Entry(w, u), "update")
         IN
         /\ \A lock \in Wanted(w) :
              /\ lock \notin held[w]
              /\ \/ lock = <<EmployeeRow(e), "update">>
                 \/ /\ Holds(w, EmployeeRow(e), "update")
                    /\ \E u \in UniqueColumns :
                         /\ lock = <<Entry(w, u), "update">>
                         /\ \/ u = "email_address"
                            \/ Holds(w, Entry(w, "email_address"), "update")
                 \/ /\ lock = <<OpenEntry(e), "update">>
                    /\ Holds(w, EmployeeRow(e), "update") /\ entered
                 \/ /\ lock = <<CafeRow(c), "share">>
                    /\ Holds(w, EmployeeRow(e), "update") /\ entered
                    /\ Holds(w, OpenEntry(e), "update")
         /\ Wanted(w) = {} =>
              /\ Holds(w, EmployeeRow(e), "update") /\ entered
              /\ Holds(w, OpenEntry(e), "update")
              /\ Holds(w, CafeRow(c), "share")
  <1>1. Wanted(w) = CreateStatements(w)
    BY DEF Wanted, At
  <1>2. UniqueColumns = {"email_address", "phone_number"}
    BY OwnEntries
  <1>3. QED
    BY <1>1, <1>2, ThenMember, LeftMember DEF CreateStatements

\* The same of update_employee: a statement that does not apply wants nothing.
LEMMA UpdateWants ==
  ASSUME NEW w \in Workers, At(w, {"update_employee"}, "commit")
  PROVE  LET e == req[w].employee
             c == req[w].cafe
             closed == Moves(w) => \A b \in seen[w].current :
                                     Holds(w, AssignmentRow(b), "no_key")
         IN
         /\ \A lock \in Wanted(w) :
              /\ lock \notin held[w]
              /\ \/ lock = <<EmployeeRow(e), RowMode(w)>> /\ Edited(w) # {}
                 \/ /\ Holds(w, EmployeeRow(e), "update")
                    /\ \E u \in Rekeyed(w) :
                         /\ lock = <<Entry(w, u), "update">>
                         /\ u # "email_address" /\ "email_address" \in Rekeyed(w)
                              => Holds(w, Entry(w, "email_address"), "update")
                 \/ /\ \E b \in seen[w].current : lock = <<AssignmentRow(b), "no_key">>
                    /\ Moves(w) /\ Entered(w)
                 \/ /\ lock = <<OpenEntry(e), "update">> /\ Moves(w) /\ c # NoCafe
                    /\ Entered(w) /\ closed
                 \/ /\ lock = <<EmployeeRow(e), "share">> /\ Moves(w) /\ c # NoCafe
                    /\ Entered(w) /\ closed /\ Holds(w, OpenEntry(e), "update")
                 \/ /\ lock = <<CafeRow(c), "share">> /\ Moves(w) /\ c # NoCafe
                    /\ Entered(w) /\ closed /\ Holds(w, OpenEntry(e), "update")
                    /\ Holds(w, EmployeeRow(e), "share")
         /\ Wanted(w) = {} =>
              /\ Entered(w) /\ closed
              /\ Moves(w) /\ c # NoCafe =>
                   /\ Holds(w, OpenEntry(e), "update")
                   /\ Holds(w, EmployeeRow(e), "share")
                   /\ Holds(w, CafeRow(c), "share")
  <1> DEFINE e == req[w].employee
             c == req[w].cafe
             m == "email_address"
             p == "phone_number"
             opens == Moves(w) /\ c # NoCafe
             s1 == Left(w, IF Edited(w) # {} THEN {EmployeeRow(e)} ELSE {}, RowMode(w))
             s2 == Left(w, IF m \in Rekeyed(w) THEN {Entry(w, m)} ELSE {}, "update")
             s3 == Left(w, IF p \in Rekeyed(w) THEN {Entry(w, p)} ELSE {}, "update")
             rows == IF Moves(w) THEN {AssignmentRow(b) : b \in seen[w].current} ELSE {}
             s4 == Left(w, rows, "no_key")
             s5 == Left(w, IF opens THEN {OpenEntry(e)} ELSE {}, "update")
             s6 == Left(w, IF opens THEN {EmployeeRow(e)} ELSE {}, "share")
             s7 == Left(w, IF opens THEN {CafeRow(c)} ELSE {}, "share")
  <1>1. Wanted(w) = Then(s1, Then(s2, Then(s3, Then(s4, Then(s5, Then(s6, s7))))))
    BY DEF Wanted, At, UpdateStatements
  <1>2. /\ s1 = {} <=> (Edited(w) # {} => Holds(w, EmployeeRow(e), RowMode(w)))
        /\ s2 = {} <=> (m \in Rekeyed(w) => Holds(w, Entry(w, m), "update"))
        /\ s3 = {} <=> (p \in Rekeyed(w) => Holds(w, Entry(w, p), "update"))
        /\ s4 = {} <=> (Moves(w) => \A b \in seen[w].current :
                                      Holds(w, AssignmentRow(b), "no_key"))
        /\ s5 = {} <=> (opens => Holds(w, OpenEntry(e), "update"))
        /\ s6 = {} <=> (opens => Holds(w, EmployeeRow(e), "share"))
        /\ s7 = {} <=> (opens => Holds(w, CafeRow(c), "share"))
    <2>1. \A q, r, mode :
            Left(w, IF q THEN {r} ELSE {}, mode) = {} <=> (q => Holds(w, r, mode))
      BY LeftMember
    <2>2. s4 = {} <=> (Moves(w) => \A b \in seen[w].current :
                                     Holds(w, AssignmentRow(b), "no_key"))
      <3>1. \A r : r \in rows <=> /\ Moves(w)
                                 /\ \E b \in seen[w].current : r = AssignmentRow(b)
        OBVIOUS
      <3> HIDE DEF rows
      <3>2. QED
        BY <3>1, LeftMember
    <2>3. QED
      BY <2>1, <2>2
  <1>3. \A x : /\ x \in s1 => x = <<EmployeeRow(e), RowMode(w)>> /\ Edited(w) # {}
               /\ x \in s2 => x = <<Entry(w, m), "update">> /\ m \in Rekeyed(w)
               /\ x \in s3 => x = <<Entry(w, p), "update">> /\ p \in Rekeyed(w)
               /\ x \in s4 => /\ \E b \in seen[w].current :
                                   x = <<AssignmentRow(b), "no_key">>
                              /\ Moves(w)
               /\ x \in s5 => x = <<OpenEntry(e), "update">> /\ opens
               /\ x \in s6 => x = <<EmployeeRow(e), "share">> /\ opens
               /\ x \in s7 => x = <<CafeRow(c), "share">> /\ opens
               /\ x \in s1 \cup s2 \cup s3 \cup s4 \cup s5 \cup s6 \cup s7 => x \notin held[w]
    BY LeftMember
  <1> HIDE DEF s1, s2, s3, s4, s5, s6, s7
  <1>4. /\ \A x \in Wanted(w) :
             \/ x \in s1
             \/ x \in s2 /\ s1 = {}
             \/ x \in s3 /\ s1 = {} /\ s2 = {}
             \/ x \in s4 /\ s1 = {} /\ s2 = {} /\ s3 = {}
             \/ x \in s5 /\ s1 = {} /\ s2 = {} /\ s3 = {} /\ s4 = {}
             \/ x \in s6 /\ s1 = {} /\ s2 = {} /\ s3 = {} /\ s4 = {} /\ s5 = {}
             \/ x \in s7 /\ s1 = {} /\ s2 = {} /\ s3 = {} /\ s4 = {} /\ s5 = {} /\ s6 = {}
        /\ Wanted(w) = {} =>
             s1 = {} /\ s2 = {} /\ s3 = {} /\ s4 = {} /\ s5 = {} /\ s6 = {} /\ s7 = {}
    BY <1>1, ThenMember
  <1>5. /\ Rekeyed(w) \subseteq {m, p} /\ Rekeyed(w) \subseteq Edited(w)
        /\ Rekeyed(w) # {} => RowMode(w) = "update"
    BY RowModes, OwnEntries
  <1>6. s1 = {} /\ s2 = {} /\ s3 = {} <=> Entered(w)
    BY <1>2, <1>5 DEF Entered
  <1>7. QED
    BY <1>2, <1>3, <1>4, <1>5, <1>6

\* Loaded rows are deleted one by one, those that are still there.
LEMMA LoadedWants ==
  ASSUME NEW w \in Workers, NEW lock \in DeletesLoaded(w)
  PROVE  /\ lock \notin held[w]
         /\ \E a \in assignments, b \in UNION loaded[w] :
              SameRow(a, b) /\ lock = <<AssignmentRow(a), "update">>
  BY DEF DeletesLoaded, Locks, First, Pending, Holds

\* What delete_employee wants, and what it has when its flush is over.
LEMMA DeleteWants ==
  ASSUME NEW w \in Workers, At(w, {"delete_employee"}, "commit")
  PROVE  LET e == req[w].employee
         IN
         /\ \A lock \in Wanted(w) :
              /\ lock \notin held[w]
              /\ \/ \E a \in assignments, b \in UNION loaded[w] :
                      SameRow(a, b) /\ lock = <<AssignmentRow(a), "update">>
                 \/ lock = <<EmployeeRow(e), "update">> /\ employee[e] # NoRow
                 \/ \E a \in Rows(e) : lock = <<AssignmentRow(a), "update">>
         /\ Wanted(w) = {} =>
              /\ employee[e] # NoRow => Holds(w, EmployeeRow(e), "update")
              /\ \A a \in Rows(e) : Holds(w, AssignmentRow(a), "update")
  <1> DEFINE e == req[w].employee
             found == {EmployeeRow(f) : f \in Existing({e})}
             rows == {AssignmentRow(a) : a \in Rows(e)}
  <1>1. Wanted(w) = Then(DeletesLoaded(w),
                      Then(Left(w, found, "update"), Left(w, rows, "update")))
    BY DEF Wanted, At, DeleteEmployeeStatements
  <1>2. \A r : r \in found <=> r = EmployeeRow(e) /\ employee[e] # NoRow
    BY DEF Existing
  <1>3. \A r : r \in rows <=> \E a \in Rows(e) : r = AssignmentRow(a)
    OBVIOUS
  <1> HIDE DEF found, rows
  <1>4. QED
    BY <1>1, <1>2, <1>3, ThenMember, LeftMember, LoadedWants

\* What the bulk DELETE of delete_cafe wants and has.
LEMMA StaffWants ==
  ASSUME NEW w \in Workers, At(w, {"delete_cafe"}, "delete_staff")
  PROVE  LET staff == seen[w].staff
         IN
         /\ \A lock \in Wanted(w) :
              /\ lock \notin held[w]
              /\ \/ \E f \in Existing(staff) : lock = <<EmployeeRow(f), "update">>
                 \/ \E a \in assignments : /\ a.employee \in staff
                                           /\ lock = <<AssignmentRow(a), "update">>
         /\ Wanted(w) = {} =>
              /\ \A f \in Existing(staff) : Holds(w, EmployeeRow(f), "update")
              /\ \A a \in assignments :
                   a.employee \in Existing(staff) => Holds(w, AssignmentRow(a), "update")
  <1> DEFINE staff == Existing(seen[w].staff)
             found == {EmployeeRow(f) : f \in staff}
             rows == {AssignmentRow(a) : a \in {b \in assignments : b.employee \in staff}}
  <1>1. Wanted(w) = Then(Left(w, found, "update"), Left(w, rows, "update"))
    BY DEF Wanted, At, DeleteStaffStatements
  <1>2. \A r : r \in found <=> \E f \in staff : r = EmployeeRow(f)
    OBVIOUS
  <1>3. \A r : r \in rows <=>
          \E a \in assignments : a.employee \in staff /\ r = AssignmentRow(a)
    OBVIOUS
  <1>4. staff \subseteq seen[w].staff
    BY DEF Existing
  <1> HIDE DEF found, rows
  <1>5. QED
    BY <1>1, <1>2, <1>3, <1>4, ThenMember, LeftMember

\* And its flush.
LEMMA CafeWants ==
  ASSUME NEW w \in Workers, At(w, {"delete_cafe"}, "commit")
  PROVE  LET c == req[w].cafe
         IN
         /\ \A lock \in Wanted(w) :
              /\ lock \notin held[w]
              /\ \/ \E a \in assignments, b \in UNION loaded[w] :
                      SameRow(a, b) /\ lock = <<AssignmentRow(a), "update">>
                 \/ lock = <<CafeRow(c), "update">> /\ cafe[c] # NoRow
                 \/ \E a \in RowsAt(c) : lock = <<AssignmentRow(a), "update">>
         /\ Wanted(w) = {} =>
              /\ cafe[c] # NoRow => Holds(w, CafeRow(c), "update")
              /\ \A a \in RowsAt(c) : Holds(w, AssignmentRow(a), "update")
  <1> DEFINE c == req[w].cafe
             found == {CafeRow(d) : d \in {x \in {c} : cafe[x] # NoRow}}
             rows == {AssignmentRow(a) : a \in RowsAt(c)}
  <1>1. Wanted(w) = Then(DeletesLoaded(w),
                      Then(Left(w, found, "update"), Left(w, rows, "update")))
    BY DEF Wanted, At, DeleteCafeStatements
  <1>2. \A r : r \in found <=> r = CafeRow(c) /\ cafe[c] # NoRow
    OBVIOUS
  <1>3. \A r : r \in rows <=> \E a \in RowsAt(c) : r = AssignmentRow(a)
    OBVIOUS
  <1> HIDE DEF found, rows
  <1>4. QED
    BY <1>1, <1>2, <1>3, ThenMember, LeftMember, LoadedWants

\* Only a flush wants locks.
LEMMA OthersWantNothing ==
  ASSUME NEW w \in Workers, Wanted(w) # {}
  PROVE  \/ At(w, {"create_employee", "update_employee", "delete_employee",
                   "delete_cafe"}, "commit")
         \/ At(w, {"delete_cafe"}, "delete_staff")
  BY DEF Wanted, At

-------------------------------------------------------------------------------
\* What a COMMIT writes it has locked: rows it changes or removes, the entry of a
\* unique value it gives, and for a row it adds the entry of open rows and the
\* employee.
LEMMA CommitEffect ==
  ASSUME TypeOK, RequestInv, NEW v \in Workers, Grounded(v), Commit(v)
  PROVE  /\ \A f \in Employees :
              /\ employee'[f] # employee[f] => \/ Holds(v, EmployeeRow(f), "update")
                                               \/ Holds(v, EmployeeRow(f), "no_key")
              /\ \/ Holds(v, EmployeeRow(f), "update")
                 \/ employee'[f] = NoRow <=> employee[f] = NoRow
              /\ \A u \in UniqueColumns :
                   \/ employee'[f] = NoRow
                   \/ employee[f] # NoRow /\ employee'[f][u] = employee[f][u]
                   \/ Holds(v, UniqueEntry(u, employee'[f][u]), "update")
         /\ \A c \in Cafes :
              cafe'[c] # cafe[c] => Holds(v, CafeRow(c), "update")
         /\ \A a \in assignments :
              \/ a \in assignments'
              \/ Holds(v, AssignmentRow(a), "update")
              \/ /\ Holds(v, AssignmentRow(a), "no_key")
                 /\ \E b \in assignments' : SameRow(a, b)
         /\ \A b \in assignments' :
              \/ b \in assignments
              \/ \E a \in assignments :
                   /\ Holds(v, AssignmentRow(a), "no_key")
                   /\ SameRow(a, b) /\ a.cafe = b.cafe /\ ~b.open
              \/ /\ b.id = nextId
                 /\ Holds(v, OpenEntry(b.employee), "update")
                 /\ \/ Holds(v, EmployeeRow(b.employee), "update")
                    \/ Holds(v, EmployeeRow(b.employee), "share")
         /\ nextId' \in {nextId, nextId + 1}
  <1> DEFINE e == req[v].employee
             c == req[v].cafe
             gone == {a \in assignments : Holds(v, AssignmentRow(a), "update")}
             opens == Holds(v, CafeRow(c), "share")
  <1> USE WriteConstants, FlushConstants
  <1>1. /\ pc[v] = "commit" /\ Wanted(v) = {} /\ Pending(v) = {}
        /\ req[v].op \in {"create_employee", "update_employee", "delete_employee",
                          "delete_cafe"}
    BY DEF Commit, Flushed, Grounded, Quiet
  <1>2. /\ req[v].op \in {"create_employee", "update_employee"} =>
             req[v].details \in Details
        /\ e \in Employees \/ req[v].op = "delete_cafe"
        /\ c \in Cafes \cup {NoCafe}
    BY <1>1 DEF RequestInv, InProgress
  <1>3. /\ employee' = [f \in Employees |->
             IF ~\E mode \in {"update", "no_key"} : Holds(v, EmployeeRow(f), mode)
               THEN employee[f]
             ELSE IF req[v].op \in {"create_employee", "update_employee"} THEN Written(v)
             ELSE NoRow]
        /\ assignments' = (assignments \ (gone \cup Closed(v)))
                            \cup {[a EXCEPT !.open = FALSE] : a \in Closed(v)}
                            \cup (IF opens THEN {NewRow(e, c)} ELSE {})
        /\ nextId' = IF opens THEN nextId + 1 ELSE nextId
        /\ cafe' = IF Holds(v, CafeRow(c), "update") THEN [cafe EXCEPT ![c] = NoRow]
                                                     ELSE cafe
    BY DEF Commit
  <1>4. ASSUME NEW f \in Employees
        PROVE  /\ employee'[f] # employee[f] => \/ Holds(v, EmployeeRow(f), "update")
                                                \/ Holds(v, EmployeeRow(f), "no_key")
               /\ \/ Holds(v, EmployeeRow(f), "update")
                  \/ employee'[f] = NoRow <=> employee[f] = NoRow
               /\ \A u \in UniqueColumns :
                    \/ employee'[f] = NoRow
                    \/ employee[f] # NoRow /\ employee'[f][u] = employee[f][u]
                    \/ Holds(v, UniqueEntry(u, employee'[f][u]), "update")
    <2>1. CASE ~\E mode \in {"update", "no_key"} : Holds(v, EmployeeRow(f), mode)
      <3>1. employee'[f] = employee[f]
        BY <1>3, <2>1
      <3>2. QED
        BY <3>1
    <2>2. CASE /\ req[v].op \in {"delete_employee", "delete_cafe"}
               /\ \E mode \in {"update", "no_key"} : Holds(v, EmployeeRow(f), mode)
      <3>1. employee'[f] = NoRow
        BY <1>3, <2>2
      <3>2. \A l \in held[v] : l[2] = "update"
        BY <1>1, <2>2 DEF Grounded, DeleteHolds, CafeHolds, At
      <3>3. Holds(v, EmployeeRow(f), "update")
        BY <2>2, <3>2 DEF Holds
      <3>4. QED
        BY <3>1, <3>3
    <2>3. CASE /\ req[v].op = "create_employee"
               /\ \E mode \in {"update", "no_key"} : Holds(v, EmployeeRow(f), mode)
      <3>1. employee'[f] = req[v].details
        BY <1>2, <1>3, <2>3, WrittenType
      <3>2. Holds(v, EmployeeRow(e), "update")
            /\ \A u \in UniqueColumns : Holds(v, Entry(v, u), "update")
        BY <1>1, <2>3, CreateWants DEF At
      <3>3. f = e
        BY <1>1, <2>3, RowsDiffer, EntriesDiffer DEF Grounded, CreateHolds, At, Holds
      <3>4. QED
        BY <3>1, <3>2, <3>3 DEF Entry
    <2>4. CASE /\ req[v].op = "update_employee"
               /\ \E mode \in {"update", "no_key"} : Holds(v, EmployeeRow(f), mode)
      <3>1. At(v, {"update_employee"}, "commit") /\ UpdateHolds(v) /\ Entered(v)
        BY <1>1, <2>4, UpdateWants DEF Grounded, At
      <3>2. f = e
        BY <2>4, <3>1, RowsDiffer, EntriesDiffer DEF UpdateHolds, Holds
      <3>3. employee[e] \in Details
        BY <2>4, <3>1, <3>2 DEF UpdateHolds, TypeOK
      <3>4. employee'[f] = Written(v) /\ Written(v) \in Details
        BY <1>2, <1>3, <2>4, <3>3, WrittenType
      <3>5. ASSUME NEW u \in UniqueColumns
            PROVE  \/ Written(v)[u] = employee[e][u]
                   \/ Holds(v, UniqueEntry(u, Written(v)[u]), "update")
        <4>1. Written(v)[u] = IF u \in Edited(v) THEN req[v].details[u] ELSE employee[e][u]
          BY OwnEntries DEF Written
        <4>2. u \in Rekeyed(v) => Holds(v, Entry(v, u), "update")
          BY <3>1 DEF Entered
        <4>3. QED
          BY <4>1, <4>2 DEF Rekeyed, Entry
      <3>6. QED
        BY <2>4, <3>2, <3>3, <3>4, <3>5
    <2>5. QED
      BY <1>1, <2>1, <2>2, <2>3, <2>4
  <1>5. \A d \in Cafes : cafe'[d] # cafe[d] => Holds(v, CafeRow(d), "update")
    BY <1>3 DEF TypeOK
  <1>6. \A a \in Closed(v) : /\ a \in assignments
                             /\ Holds(v, AssignmentRow(a), "no_key")
                             /\ SameRow(a, [a EXCEPT !.open = FALSE])
                             /\ [a EXCEPT !.open = FALSE].cafe = a.cafe
                             /\ ~[a EXCEPT !.open = FALSE].open
    BY DEF Closed, TypeOK, Assignment, SameRow
  <1>7. ASSUME NEW a \in assignments
        PROVE  \/ a \in assignments'
               \/ Holds(v, AssignmentRow(a), "update")
               \/ /\ Holds(v, AssignmentRow(a), "no_key")
                  /\ \E b \in assignments' : SameRow(a, b)
    BY <1>3, <1>6
  <1>8. ASSUME NEW b \in assignments'
        PROVE  \/ b \in assignments
               \/ \E a \in assignments :
                    /\ Holds(v, AssignmentRow(a), "no_key")
                    /\ SameRow(a, b) /\ a.cafe = b.cafe /\ ~b.open
               \/ /\ b.id = nextId
                  /\ Holds(v, OpenEntry(b.employee), "update")
                  /\ \/ Holds(v, EmployeeRow(b.employee), "update")
                     \/ Holds(v, EmployeeRow(b.employee), "share")
    <2>1. CASE opens /\ b = NewRow(e, c)
      <3>1. b.id = nextId /\ b.employee = e
        BY <2>1 DEF NewRow
      <3>2. req[v].op \in {"create_employee", "update_employee"}
        BY <1>1, <2>1, RowsDiffer
           DEF Grounded, DeleteHolds, CafeHolds, At, Holds
      <3>3. /\ Holds(v, OpenEntry(e), "update")
            /\ Holds(v, EmployeeRow(e), "update") \/ Holds(v, EmployeeRow(e), "share")
        <4>1. CASE req[v].op = "create_employee"
          BY <1>1, <4>1, CreateWants DEF At
        <4>2. CASE req[v].op = "update_employee"
          BY <1>1, <2>1, <4>2 DEF Grounded, UpdateHolds, At
        <4>3. QED
          BY <3>2, <4>1, <4>2
      <3>4. QED
        BY <3>1, <3>3
    <2>2. CASE b \in {[a EXCEPT !.open = FALSE] : a \in Closed(v)}
      <3>1. PICK a \in Closed(v) : b = [a EXCEPT !.open = FALSE]
        BY <2>2
      <3>2. SameRow(a, b) /\ a.cafe = b.cafe /\ ~b.open
        BY <1>6, <3>1
      <3>3. QED
        BY <1>6, <3>2
    <2>3. QED
      BY <1>3, <2>1, <2>2
  <1>9. QED
    BY <1>3, <1>4, <1>5, <1>7, <1>8

-------------------------------------------------------------------------------
\* What of the state is about one request.
SameRequest(w) ==
  /\ pc'[w] = pc[w] /\ req'[w] = req[w] /\ seen'[w] = seen[w]
  /\ doomed'[w] = doomed[w] /\ held'[w] = held[w] /\ loaded'[w] = loaded[w]

\* A step leaves the other requests, with their locks, alone.
LEMMA OthersAlone ==
  ASSUME TypeOK, LockInv, NEW v \in Workers, Outside(v) \/ LockStep(v),
         NEW w \in Workers \ {v}
  PROVE  SameRequest(w)
  <1>1. ASSUME NEW s, Reject(v, s), Release(v)
        PROVE  SameRequest(w)
    BY <1>1 DEF Reject, Answer, Goto, Release, SameRequest, TypeOK, LockInv
  <1>2. CASE Outside(v)
    <2>1. Begin(v) \/ Step(v)
      BY <1>2 DEF Outside, Step
    <2>2. QED
      BY <1>2, <2>1, OthersGoOn DEF Outside, SameRequest
  <1>3. CASE Load(v)
    BY <1>3 DEF Load, SameRequest, LockInv, vars
  <1>4. CASE Execute(v)
    <2>1. CASE \E lock : /\ held' = [held EXCEPT ![v] = @ \cup {lock}]
                         /\ UNCHANGED <<vars, loaded, keyOrder>>
      BY <2>1 DEF SameRequest, LockInv, vars
    <2>2. QED
      BY <1>1, <1>4, <2>1 DEF Execute
  <1>5. CASE StaffDeleted(v)
    BY <1>5 DEF StaffDeleted, SameRequest, Goto, TypeOK
  <1>6. CASE Commit(v)
    BY <1>6 DEF Commit, Committed, Answer, Goto, Release, SameRequest, TypeOK, LockInv
  <1>7. CASE CircleVictim(v) \/ ConnectionLost(v)
    BY <1>1, <1>7 DEF CircleVictim, ConnectionLost, DatabaseFails
  <1>8. QED
    BY <1>2, <1>3, <1>4, <1>5, <1>6, <1>7 DEF LockStep

\* As long as no table changes, what its locks stand for stays true.
LEMMA GroundedStays ==
  ASSUME NEW w \in Workers, Grounded(w), SameRequest(w),
         UNCHANGED <<employee, cafe, assignments, nextId>>
  PROVE  Grounded(w)'
  <1> USE DEF SameRequest, At, Holds
  <1>1. Quiet(w)'
    BY DEF Grounded, Quiet
  <1>2. LoadedRows(w)'
    BY DEF Grounded, LoadedRows, SameRow
  <1>3. CreateHolds(w)'
    BY DEF Grounded, CreateHolds, Rivals, EmployeeRow, CafeRow, Entry, UniqueEntry,
           OpenEntry
  <1>4. UpdateHolds(w)'
    <2>1. /\ Edited(w)' = Edited(w) /\ Rekeyed(w)' = Rekeyed(w)
          /\ RowMode(w)' = RowMode(w)
          /\ \A u : Rivals(w, u)' = Rivals(w, u)
          /\ Moves(w)' = Moves(w)
      BY DEF Edited, Rekeyed, RowMode, Rivals, Moves, CafeOf
    <2>2. /\ Active(req[w].employee)' = Active(req[w].employee)
          /\ Closed(w)' = Closed(w)
          /\ Entered(w)' <=> Entered(w)
          /\ \A u : Entry(w, u)' = Entry(w, u)
      BY <2>1 DEF Active, Rows, Closed, AssignmentRow, Entered, Entry, UniqueEntry,
                  EmployeeRow
    <2>3. QED
      BY <2>1, <2>2 DEF Grounded, UpdateHolds, SameRow, EmployeeRow, CafeRow,
                        OpenEntry, AssignmentRow
  <1>5. DeleteHolds(w)'
    BY DEF Grounded, DeleteHolds, Rows, EmployeeRow, AssignmentRow
  <1>6. StaffHolds(w)'
    BY DEF Grounded, StaffHolds, Existing, EmployeeRow, AssignmentRow
  <1>7. CafeHolds(w)'
    BY DEF Grounded, CafeHolds, EmployeeRow, AssignmentRow, CafeRow
  <1>8. QED
    BY <1>1, <1>2, <1>3, <1>4, <1>5, <1>6, <1>7 DEF Grounded

\* And so it does when another transaction commits: what would make it false needs
\* a lock that conflicts.
LEMMA GroundedOutlivesCommits ==
  ASSUME TypeOK, RequestInv, LockInv, NEW v \in Workers, Commit(v),
         NEW w \in Workers \ {v}, SameRequest(w)
  PROVE  Grounded(w)'
  <1> DEFINE e == req[w].employee
             c == req[w].cafe
             exclusive(row, mode) ==
               \A n \in {"update", "no_key", "share"} :
                 Conflict(n, mode) => ~Holds(v, row, n)
  <1> USE WriteConstants DEF SameRequest, At
  <1>1. Grounded(v) /\ Grounded(w)
    BY DEF LockInv
  <1>2. \A row, mode : Holds(w, row, mode) => exclusive(row, mode)
    <2>1. \A row, mode, n : Holds(w, row, mode) /\ Holds(v, row, n)
                              => ~Conflict(n, mode)
      BY DEF LockInv, Exclusive, Holds
    <2>2. QED
      BY <2>1
  <1>3. /\ \A row : Holds(w, row, "update") =>
             ~Holds(v, row, "update") /\ ~Holds(v, row, "no_key") /\ ~Holds(v, row, "share")
        /\ \A row : Holds(w, row, "no_key") =>
             ~Holds(v, row, "update") /\ ~Holds(v, row, "no_key")
        /\ \A row : Holds(w, row, "share") => ~Holds(v, row, "update")
    BY <1>2, Conflicts
  <1>4. /\ \A f \in Employees :
             /\ Holds(w, EmployeeRow(f), "update") \/ Holds(w, EmployeeRow(f), "no_key")
                  => employee'[f] = employee[f]
             /\ Holds(w, EmployeeRow(f), "share")
                  => (employee'[f] = NoRow <=> employee[f] = NoRow)
        /\ \A d \in Cafes : Holds(w, CafeRow(d), "update")
                \/ Holds(w, CafeRow(d), "share") => cafe'[d] = cafe[d]
        /\ \A a \in assignments : Holds(w, AssignmentRow(a), "update")
                \/ Holds(w, AssignmentRow(a), "no_key") => a \in assignments'
    BY <1>1, <1>3, CommitEffect
  <1>5. ASSUME NEW u \in UniqueColumns, Holds(w, Entry(w, u), "update")
        PROVE  Rivals(w, u)' \subseteq Rivals(w, u)
    <2>1. ASSUME NEW f \in Employees, employee'[f] # NoRow,
                 employee'[f][u] = req[w].details[u]
          PROVE  employee[f] # NoRow /\ employee[f][u] = req[w].details[u]
      <3>1. ~Holds(v, UniqueEntry(u, employee'[f][u]), "update")
        BY <1>3, <1>5, <2>1 DEF Entry
      <3>2. QED
        BY <1>1, <2>1, <3>1, CommitEffect
    <2>2. QED
      BY <2>1 DEF Rivals
  <1>6. \A row, mode : Holds(w, row, mode)' <=> Holds(w, row, mode)
    BY DEF Holds
  <1>7. /\ pc[w] # "idle" => req[w] \in InProgress
        /\ req[w].op \in {"create_employee", "update_employee"} /\ pc[w] = "commit"
             => e \in Employees
        /\ At(w, {"delete_employee"}, "commit") => e \in Employees
        /\ pc[w] # "idle" => c \in Cafes \cup {NoCafe}
        /\ At(w, {"delete_cafe"}, "commit") => c \in Cafes
    BY DEF RequestInv, InProgress
  <1>8. Quiet(w)'
    BY <1>1 DEF Grounded, Quiet
  <1>9. LoadedRows(w)'
    <2>1. ASSUME NEW b \in UNION loaded[w]
          PROVE  /\ b.id < nextId'
                 /\ \A a \in assignments' : SameRow(a, b) =>
                      \E x \in assignments : SameRow(x, b) /\ x.cafe = a.cafe
      <3>1. b.id \in Nat /\ b.id < nextId
        BY <1>1 DEF Grounded, LoadedRows
      <3>2. b.id < nextId'
        BY <1>1, <3>1, CommitEffect DEF TypeOK
      <3>3. ASSUME NEW a \in assignments', SameRow(a, b)
            PROVE  \E x \in assignments : SameRow(x, b) /\ x.cafe = a.cafe
        BY <1>1, <3>1, <3>3, CommitEffect DEF SameRow, TypeOK
      <3>4. QED
        BY <3>2, <3>3
    <2>2. QED
      BY <1>1, <2>1 DEF Grounded, LoadedRows, SameRow
  <1>10. CreateHolds(w)'
    <2>1. CASE At(w, {"create_employee"}, "commit")
      <3>1. \A u \in UniqueColumns :
              Holds(w, Entry(w, u), "update") => Rivals(w, u)' = {}
        BY <1>1, <1>5, <2>1 DEF Grounded, CreateHolds
      <3>2. Holds(w, EmployeeRow(e), "update") => employee'[e] = employee[e]
        BY <1>4, <1>7, <2>1
      <3>3. Holds(w, CafeRow(c), "share") => c \in Cafes /\ cafe'[c] = cafe[c]
        BY <1>4, <1>7, <2>1 DEF RequestInv
      <3>4. QED
        BY <1>1, <1>6, <2>1, <3>1, <3>2, <3>3
           DEF Grounded, CreateHolds, EmployeeRow, CafeRow, Entry, UniqueEntry, OpenEntry
    <2>2. QED
      BY <2>1 DEF CreateHolds
  <1>11. DeleteHolds(w)'
    <2>1. CASE At(w, {"delete_employee"}, "commit")
      <3>1. ASSUME NEW l \in held[w]
            PROVE  \/ l = <<EmployeeRow(e), "update">> /\ employee'[e] # NoRow
                   \/ \E a \in Rows(e)' : l = <<AssignmentRow(a), "update">>
        <4>1. CASE l = <<EmployeeRow(e), "update">> /\ employee[e] # NoRow
          BY <1>4, <1>7, <2>1, <4>1 DEF Holds
        <4>2. CASE \E a \in Rows(e) : l = <<AssignmentRow(a), "update">>
          BY <1>4, <4>2 DEF Rows, Holds
        <4>3. QED
          BY <1>1, <2>1, <4>1, <4>2 DEF Grounded, DeleteHolds
      <3>2. QED
        BY <2>1, <3>1 DEF DeleteHolds, EmployeeRow, AssignmentRow
    <2>2. QED
      BY <2>1 DEF DeleteHolds
  <1>12. StaffHolds(w)'
    <2>1. CASE At(w, {"delete_cafe"}, "delete_staff")
      <3>1. ASSUME NEW l \in held[w]
            PROVE  \/ \E f \in Existing(seen[w].staff)' : l = <<EmployeeRow(f), "update">>
                   \/ \E a \in assignments' : /\ a.employee \in seen[w].staff
                                              /\ l = <<AssignmentRow(a), "update">>
        <4>1. seen[w].staff \subseteq Employees
          BY DEF TypeOK, Session
        <4>2. CASE \E f \in Existing(seen[w].staff) : l = <<EmployeeRow(f), "update">>
          BY <1>4, <4>1, <4>2 DEF Existing, Holds
        <4>3. CASE \E a \in assignments : /\ a.employee \in seen[w].staff
                                          /\ l = <<AssignmentRow(a), "update">>
          BY <1>4, <4>3 DEF Holds
        <4>4. QED
          BY <1>1, <2>1, <4>2, <4>3 DEF Grounded, StaffHolds
      <3>2. QED
        BY <2>1, <3>1 DEF StaffHolds, EmployeeRow, AssignmentRow
    <2>2. QED
      BY <2>1 DEF StaffHolds
  <1>13. CafeHolds(w)'
    <2>1. CASE At(w, {"delete_cafe"}, "commit")
      <3>1. ASSUME NEW l \in held[w]
            PROVE  \/ \E f \in doomed[w] : l = <<EmployeeRow(f), "update">>
                   \/ \E a \in assignments' : /\ a.employee \in doomed[w] \/ a.cafe = c
                                              /\ l = <<AssignmentRow(a), "update">>
                   \/ l = <<CafeRow(c), "update">> /\ cafe'[c] # NoRow
        <4>1. CASE \E a \in assignments : /\ a.employee \in doomed[w] \/ a.cafe = c
                                          /\ l = <<AssignmentRow(a), "update">>
          BY <1>4, <4>1 DEF Holds
        <4>2. CASE l = <<CafeRow(c), "update">> /\ cafe[c] # NoRow
          BY <1>4, <1>7, <2>1, <4>2 DEF Holds
        <4>3. QED
          BY <1>1, <2>1, <4>1, <4>2 DEF Grounded, CafeHolds
      <3>2. \A f \in doomed[w] : employee'[f] # NoRow /\ Holds(w, EmployeeRow(f), "update")
        BY <1>1, <1>4, <2>1 DEF Grounded, CafeHolds, TypeOK
      <3>3. ASSUME NEW a \in assignments', a.employee \in doomed[w]
            PROVE  Holds(w, AssignmentRow(a), "update")
        <4>1. Holds(w, EmployeeRow(a.employee), "update")
          BY <3>2, <3>3
        <4>2. a \in assignments \/ \E x \in assignments :
                /\ Holds(v, AssignmentRow(x), "no_key") /\ SameRow(x, a)
          BY <1>1, <1>3, <4>1, CommitEffect
        <4>3. \A x \in assignments : x.employee \in doomed[w]
                => Holds(w, AssignmentRow(x), "update")
          BY <1>1, <2>1 DEF Grounded, CafeHolds
        <4>4. QED
          BY <1>3, <3>3, <4>2, <4>3 DEF SameRow
      <3>4. QED
        BY <1>6, <2>1, <3>1, <3>2, <3>3 DEF CafeHolds, EmployeeRow, AssignmentRow, CafeRow
    <2>2. QED
      BY <2>1 DEF CafeHolds
  <1>14. UpdateHolds(w)'
    <2>1. CASE At(w, {"update_employee"}, "commit")
      <3>1. UpdateHolds(w)
        BY <1>1 DEF Grounded
      <3>2. /\ Holds(w, EmployeeRow(e), "update") \/ Holds(w, EmployeeRow(e), "no_key")
                 => employee'[e] = employee[e]
            /\ Holds(w, EmployeeRow(e), "share") => (employee'[e] = NoRow <=> employee[e] = NoRow)
            /\ Holds(w, CafeRow(c), "share") => c \in Cafes /\ cafe'[c] = cafe[c]
            /\ \A u \in UniqueColumns : Holds(w, Entry(w, u), "update") => Rivals(w, u)' = {}
        <4>1. Holds(w, CafeRow(c), "share") => c \in Cafes
          BY <1>7, <2>1, <3>1 DEF UpdateHolds
        <4>2. \A u \in UniqueColumns : Holds(w, Entry(w, u), "update") => Rivals(w, u)' = {}
          BY <1>5, <2>1, <3>1 DEF UpdateHolds
        <4>3. QED
          BY <1>4, <1>7, <2>1, <4>1, <4>2
      <3>3. ASSUME NEW b \in seen[w].current, Holds(w, AssignmentRow(b), "no_key")
            PROVE  \E a \in assignments' : SameRow(a, b)
        <4>1. PICK a \in assignments : SameRow(a, b)
          BY <2>1, <3>1, <3>3 DEF UpdateHolds
        <4>2. AssignmentRow(a) = AssignmentRow(b)
          BY <4>1, RowsDiffer
        <4>3. QED
          BY <1>4, <3>3, <4>1, <4>2
      <3>4. ASSUME Holds(w, OpenEntry(e), "update"), NEW a \in Active(e)'
            PROVE  a \in Closed(w)'
        <4>1. a \in assignments' /\ a.employee = e /\ a.open
          BY DEF Active, Rows
        <4>2. a \in assignments
          BY <1>1, <1>3, <3>4, <4>1, CommitEffect
        <4>3. a \in Closed(w)
          BY <2>1, <3>1, <3>4, <4>1, <4>2 DEF UpdateHolds, Active, Rows
        <4>4. QED
          BY <4>1, <4>3 DEF Closed, Holds, AssignmentRow
      <3>5. /\ Edited(w)' = Edited(w) /\ (Moves(w)' <=> Moves(w))
            /\ \A u : Entry(w, u)' = Entry(w, u)
        BY DEF Edited, Moves, CafeOf, Entry, UniqueEntry
      <3>6. ASSUME Holds(w, EmployeeRow(e), "update") \/ Holds(w, EmployeeRow(e), "no_key")
                   \/ Edited(w) = {}
            PROVE  Rekeyed(w)' = Rekeyed(w) /\ RowMode(w)' = RowMode(w)
        <4>1. Rekeyed(w)' = Rekeyed(w)
          BY <3>2, <3>5, <3>6 DEF Rekeyed
        <4>2. QED
          BY <4>1 DEF RowMode
      <3>7. Entered(w) => Entered(w)'
        <4>1. ASSUME Entered(w)
              PROVE  Holds(w, EmployeeRow(e), "update")
                     \/ Holds(w, EmployeeRow(e), "no_key") \/ Edited(w) = {}
          BY <4>1, RowModes DEF Entered
        <4>2. ASSUME Entered(w)
              PROVE  Rekeyed(w)' = Rekeyed(w) /\ RowMode(w)' = RowMode(w)
          BY <3>6, <4>1, <4>2
        <4>3. QED
          BY <1>6, <3>5, <4>2 DEF Entered, EmployeeRow
      <3>8. /\ \A mode \in {"update", "no_key"} : Holds(w, EmployeeRow(e), mode) =>
                 Edited(w)' # {} /\ mode = RowMode(w)' /\ employee'[e] # NoRow
            /\ \A u \in UniqueColumns : Holds(w, Entry(w, u), "update") =>
                 Holds(w, EmployeeRow(e), "update") /\ Rekeyed(w)' = Rekeyed(w)
                 /\ u \in Rekeyed(w)
        BY <2>1, <3>1, <3>2, <3>5, <3>6 DEF UpdateHolds
      <3>9. QED
        BY <1>6, <2>1, <3>1, <3>2, <3>3, <3>4, <3>5, <3>7, <3>8
           DEF UpdateHolds, EmployeeRow, CafeRow, OpenEntry, AssignmentRow, SameRow
    <2>2. QED
      BY <2>1 DEF UpdateHolds
  <1>15. QED
    BY <1>8, <1>9, <1>10, <1>11, <1>12, <1>13, <1>14 DEF Grounded

-------------------------------------------------------------------------------
\* How a statement fails, by the row it wants.
LEMMA FailureIs ==
  ASSUME NEW w \in Workers
  PROVE  LET e == req[w].employee
             c == req[w].cafe
         IN
         \A mode :
           /\ Failure(w, <<EmployeeRow(e), mode>>) =
                IF req[w].op = "create_employee" /\ employee[e] # NoRow THEN "conflict"
                ELSE IF req[w].op = "update_employee" /\ employee[e] = NoRow
                     THEN IF mode = "share" THEN "conflict" ELSE "server_error"
                     ELSE "none"
           /\ \A f : f # e => Failure(w, <<EmployeeRow(f), mode>>) = "none"
           /\ \A u \in UniqueColumns : req[w].details # NoRow =>
                Failure(w, <<Entry(w, u), mode>>) =
                  IF Rivals(w, u) # {} THEN "taken" ELSE "none"
           /\ Failure(w, <<OpenEntry(e), mode>>) =
                IF Active(e) \ Closed(w) # {} THEN "already_active" ELSE "none"
           /\ Failure(w, <<CafeRow(c), mode>>) =
                IF cafe[c] = NoRow THEN "conflict" ELSE "none"
           /\ \A b : Failure(w, <<AssignmentRow(b), mode>>) =
                IF /\ \E x \in seen[w].current : SameRow(b, x)
                   /\ ~\E a \in assignments : SameRow(b, a)
                THEN "server_error" ELSE "none"
  <1> DEFINE e == req[w].employee
             c == req[w].cafe
  <1>1. \A mode, x : /\ Enters(w, <<EmployeeRow(x), mode>>) = {}
                     /\ Enters(w, <<OpenEntry(x), mode>>) = {}
                     /\ Enters(w, <<CafeRow(x), mode>>) = {}
                     /\ Enters(w, <<AssignmentRow(x), mode>>) = {}
    BY EntriesDiffer DEF Enters
  <1>2. ASSUME NEW mode
        PROVE  Failure(w, <<EmployeeRow(e), mode>>) =
                IF req[w].op = "create_employee" /\ employee[e] # NoRow THEN "conflict"
                ELSE IF req[w].op = "update_employee" /\ employee[e] = NoRow
                     THEN IF mode = "share" THEN "conflict" ELSE "server_error"
                     ELSE "none"
    BY <1>1, RowsDiffer DEF Failure
  <1>3. ASSUME NEW mode, NEW f, f # e
        PROVE  Failure(w, <<EmployeeRow(f), mode>>) = "none"
    BY <1>1, <1>3, RowsDiffer DEF Failure
  <1>4. ASSUME NEW mode, NEW u \in UniqueColumns, req[w].details # NoRow
        PROVE  Failure(w, <<Entry(w, u), mode>>) =
                 IF Rivals(w, u) # {} THEN "taken" ELSE "none"
    <2>1. Enters(w, <<Entry(w, u), mode>>) = {u}
      BY <1>4, OwnEntries DEF Enters
    <2>2. /\ \A x : Entry(w, u) # EmployeeRow(x) /\ Entry(w, u) # OpenEntry(x)
                   /\ Entry(w, u) # CafeRow(x) /\ Entry(w, u) # AssignmentRow(x)
      BY EntriesDiffer
    <2>3. QED
      BY <2>1, <2>2 DEF Failure
  <1>5. ASSUME NEW mode
        PROVE  Failure(w, <<OpenEntry(e), mode>>) =
                 IF Active(e) \ Closed(w) # {} THEN "already_active" ELSE "none"
    BY <1>1, RowsDiffer DEF Failure
  <1>6. ASSUME NEW mode
        PROVE  Failure(w, <<CafeRow(c), mode>>) =
                 IF cafe[c] = NoRow THEN "conflict" ELSE "none"
    BY <1>1, RowsDiffer DEF Failure
  <1>7. ASSUME NEW mode, NEW b
        PROVE  Failure(w, <<AssignmentRow(b), mode>>) =
                IF /\ \E x \in seen[w].current : SameRow(b, x)
                   /\ ~\E a \in assignments : SameRow(b, a)
                THEN "server_error" ELSE "none"
    BY <1>1, RowsDiffer DEF Failure
  <1>8. QED
    BY <1>2, <1>3, <1>4, <1>5, <1>6, <1>7

\* w takes a lock.
Grants(w, lock) ==
  /\ Flushing(w) /\ lock \in Wanted(w)
  /\ Holders(w, lock) = {} /\ Failure(w, lock) = "none"
  /\ held' = [held EXCEPT ![w] = @ \cup {lock}]
  /\ UNCHANGED <<vars, loaded, keyOrder>>

\* A lock is taken only if nobody's conflicts with it.
LEMMA GrantIsExclusive ==
  ASSUME TypeOK, LockInv, NEW w \in Workers, NEW lock, Grants(w, lock)
  PROVE  Exclusive'
  <1>1. ~Invisible(w, lock)
    <2>1. SUFFICES ASSUME Invisible(w, lock)
                   PROVE  FALSE
      OBVIOUS
    <2>2. pc[w] # "idle" /\ At(w, {"update_employee"}, "commit")
      BY <2>1, OthersWantNothing DEF Invisible, Grants, At
    <2>3. \E mode : lock = <<EmployeeRow(req[w].employee), mode>>
      BY <2>1, <2>2, UpdateWants, RowModes, RowsDiffer, EntriesDiffer
         DEF Invisible, Grants
    <2>4. Failure(w, lock) # "none"
      BY <2>1, <2>3, FailureIs DEF Invisible
    <2>5. QED
      BY <2>4 DEF Grants
  <1>2. lock \in Needed(w, lock)
    BY <1>1 DEF Needed
  <1>3. \A v \in Workers \ {w} : \A k \in held[v] :
          lock[1] = k[1] => ~Conflict(lock[2], k[2])
    BY <1>2 DEF Grants, Holders
  <1>4. held'[w] = held[w] \cup {lock} /\ \A v \in Workers \ {w} : held'[v] = held[v]
    BY DEF Grants, LockInv
  <1>5. \A m, n : Conflict(m, n) <=> Conflict(n, m)
    BY DEF Conflict
  <1>6. ASSUME NEW u \in Workers, NEW v \in Workers, u # v,
               NEW k \in held'[u], NEW l \in held'[v], k[1] = l[1]
        PROVE  ~Conflict(k[2], l[2])
    BY <1>3, <1>4, <1>5, <1>6 DEF LockInv, Exclusive
  <1>7. QED
    BY <1>6 DEF Exclusive, Conflict

\* Whoever takes a lock has found what it stands for.
LEMMA GrantIsGrounded ==
  ASSUME TypeOK, RequestInv, LockInv, NEW w \in Workers, NEW lock, Grants(w, lock)
  PROVE  Grounded(w)'
  <1> DEFINE e == req[w].employee
             c == req[w].cafe
  <1> USE WriteConstants DEF At
  <1>1. /\ Grounded(w) /\ lock \in Wanted(w) /\ Failure(w, lock) = "none"
        /\ UNCHANGED <<vars, loaded, keyOrder>>
        /\ held'[w] = held[w] \cup {lock}
    BY DEF Grants, LockInv
  <1>2. UNCHANGED <<employee, cafe, assignments, nextId, pc, req, seen, doomed, loaded>>
    BY <1>1 DEF vars, tables
  <1>3. \A row, mode : Holds(w, row, mode)' <=> Holds(w, row, mode) \/ lock = <<row, mode>>
    BY <1>1 DEF Holds
  <1>4. \/ At(w, {"create_employee", "update_employee", "delete_employee",
                  "delete_cafe"}, "commit")
        \/ At(w, {"delete_cafe"}, "delete_staff")
    BY <1>1, OthersWantNothing
  <1>5. Quiet(w)' /\ LoadedRows(w)'
    BY <1>1, <1>2, <1>4 DEF Grounded, Quiet, LoadedRows, SameRow
  <1>6. /\ Edited(w)' = Edited(w) /\ Rekeyed(w)' = Rekeyed(w)
        /\ RowMode(w)' = RowMode(w)
        /\ Moves(w)' <=> Moves(w)
        /\ \A u : Rivals(w, u)' = Rivals(w, u) /\ Entry(w, u)' = Entry(w, u)
        /\ Active(e)' = Active(e) /\ Rows(e)' = Rows(e)
        /\ Closed(w) \subseteq Closed(w)'
    BY <1>2, <1>3 DEF Edited, Rekeyed, RowMode, Moves, CafeOf, Rivals, Entry,
         UniqueEntry, Active, Rows, Closed, AssignmentRow
  <1>7. CreateHolds(w)'
    <2>1. CASE At(w, {"create_employee"}, "commit")
      <3>1. CreateHolds(w)
        BY <1>1 DEF Grounded
      <3>2. req[w].details # NoRow
        BY <2>1 DEF RequestInv
      <3>3. CASE lock = <<EmployeeRow(e), "update">>
        <4>1. employee[e] = NoRow
          BY <1>1, <2>1, <3>3, FailureIs
        <4>2. held[w] = {}
          BY <1>1, <2>1, <3>1, <3>3, CreateWants DEF CreateHolds, Holds
        <4>3. QED
          BY <1>1, <1>2, <1>3, <1>6, <2>1, <3>3, <4>1, <4>2, RowsDiffer, EntriesDiffer
             DEF CreateHolds, EmployeeRow, CafeRow, OpenEntry, Holds
      <3>4. CASE /\ Holds(w, EmployeeRow(e), "update")
                 /\ \E u \in UniqueColumns :
                      /\ lock = <<Entry(w, u), "update">>
                      /\ u = "email_address" \/ Holds(w, Entry(w, "email_address"), "update")
        <4>1. PICK u \in UniqueColumns :
                /\ lock = <<Entry(w, u), "update">>
                /\ u = "email_address" \/ Holds(w, Entry(w, "email_address"), "update")
          BY <3>4
        <4>2. employee[e] = NoRow
          BY <2>1, <3>1, <3>4 DEF CreateHolds, Holds
        <4>3. Rivals(w, u) = {}
          BY <1>1, <3>2, <4>1, FailureIs
        <4>4. \A x \in UniqueColumns : lock = <<Entry(w, x), "update">> => x = u
          BY <4>1, OwnEntries
        <4>5. QED
          BY <1>1, <1>2, <1>3, <1>6, <2>1, <3>1, <3>4, <4>1, <4>2, <4>3, <4>4,
             EntriesDiffer DEF CreateHolds, EmployeeRow, CafeRow, OpenEntry
      <3>5. CASE /\ lock = <<OpenEntry(e), "update">>
                 /\ Holds(w, EmployeeRow(e), "update")
                 /\ \A u \in UniqueColumns : Holds(w, Entry(w, u), "update")
        BY <1>1, <1>2, <1>3, <1>6, <2>1, <3>1, <3>5, RowsDiffer, EntriesDiffer
           DEF CreateHolds, EmployeeRow, CafeRow, OpenEntry, Holds
      <3>6. CASE /\ lock = <<CafeRow(c), "share">>
                 /\ Holds(w, EmployeeRow(e), "update")
                 /\ Holds(w, OpenEntry(e), "update")
        <4>1. cafe[c] # NoRow
          BY <1>1, <3>6, FailureIs
        <4>2. QED
          BY <1>1, <1>2, <1>3, <1>6, <2>1, <3>1, <3>6, <4>1, RowsDiffer, EntriesDiffer
             DEF CreateHolds, EmployeeRow, CafeRow, OpenEntry, Holds
      <3>7. QED
        BY <1>1, <2>1, <3>3, <3>4, <3>5, <3>6, CreateWants
    <2>2. QED
      BY <1>2, <2>1 DEF CreateHolds
  <1>8. UpdateHolds(w)'
    <2>1. CASE At(w, {"update_employee"}, "commit")
      <3>1. UpdateHolds(w) /\ req[w].details # NoRow
        BY <1>1, <2>1 DEF Grounded, RequestInv
      <3>2. Entered(w) => Entered(w)'
        BY <1>2, <1>3, <1>6 DEF Entered, EmployeeRow
      <3>3. \A b \in seen[w].current : lock = <<AssignmentRow(b), "no_key">>
              => \E a \in assignments : SameRow(a, b)
        <4>1. \A b : SameRow(b, b)
          BY DEF SameRow
        <4>2. ASSUME NEW b \in seen[w].current, lock = <<AssignmentRow(b), "no_key">>,
                     ~\E a \in assignments : SameRow(b, a)
              PROVE  FALSE
          <5>1. Failure(w, <<AssignmentRow(b), "no_key">>) = "server_error"
            BY <4>1, <4>2, FailureIs
          <5>2. QED
            BY <1>1, <4>2, <5>1
        <4>3. QED
          BY <4>2 DEF SameRow
      <3> DEFINE hold(row, mode) == Holds(w, row, mode) \/ lock = <<row, mode>>
      <3>4. ASSUME
              \/ lock \in {<<EmployeeRow(e), "update">>, <<EmployeeRow(e), "no_key">>,
                           <<OpenEntry(e), "update">>, <<EmployeeRow(e), "share">>,
                           <<CafeRow(c), "share">>}
              \/ \E u \in UniqueColumns : lock = <<Entry(w, u), "update">>
              \/ \E b \in seen[w].current : lock = <<AssignmentRow(b), "no_key">>,
              \A mode \in {"update", "no_key"} : hold(EmployeeRow(e), mode) =>
                Edited(w) # {} /\ mode = RowMode(w) /\ employee[e] # NoRow,
              \A u \in UniqueColumns : hold(Entry(w, u), "update") =>
                /\ hold(EmployeeRow(e), "update") /\ u \in Rekeyed(w) /\ Rivals(w, u) = {}
                /\ "email_address" \in Rekeyed(w) => hold(Entry(w, "email_address"), "update"),
              \A b \in seen[w].current : hold(AssignmentRow(b), "no_key") =>
                /\ Moves(w) /\ Entered(w) /\ \E a \in assignments : SameRow(a, b),
              hold(OpenEntry(e), "update") =>
                /\ Moves(w) /\ c # NoCafe /\ Entered(w)
                /\ \A b \in seen[w].current : Holds(w, AssignmentRow(b), "no_key")
                /\ Active(e) \subseteq Closed(w),
              hold(EmployeeRow(e), "share") =>
                hold(OpenEntry(e), "update") /\ employee[e] # NoRow,
              hold(CafeRow(c), "share") =>
                hold(EmployeeRow(e), "share") /\ cafe[c] # NoRow
            PROVE UpdateHolds(w)'
        BY <1>1, <1>2, <1>3, <1>6, <3>1, <3>2, <3>4
           DEF UpdateHolds, EmployeeRow, CafeRow, OpenEntry, AssignmentRow, SameRow
      <3>5. /\ \A mode \in {"update", "no_key"} : Holds(w, EmployeeRow(e), mode) =>
                Edited(w) # {} /\ mode = RowMode(w) /\ employee[e] # NoRow
            /\ \A u \in UniqueColumns : Holds(w, Entry(w, u), "update") =>
                /\ Holds(w, EmployeeRow(e), "update") /\ u \in Rekeyed(w)
                /\ Rivals(w, u) = {}
                /\ "email_address" \in Rekeyed(w) =>
                     Holds(w, Entry(w, "email_address"), "update")
            /\ \A b \in seen[w].current : Holds(w, AssignmentRow(b), "no_key") =>
                /\ Moves(w) /\ Entered(w) /\ \E a \in assignments : SameRow(a, b)
            /\ Holds(w, OpenEntry(e), "update") =>
                /\ Moves(w) /\ c # NoCafe /\ Entered(w)
                /\ \A b \in seen[w].current : Holds(w, AssignmentRow(b), "no_key")
                /\ Active(e) \subseteq Closed(w)
            /\ Holds(w, EmployeeRow(e), "share") =>
                Holds(w, OpenEntry(e), "update") /\ employee[e] # NoRow
            /\ Holds(w, CafeRow(c), "share") =>
                Holds(w, EmployeeRow(e), "share") /\ cafe[c] # NoRow
        BY <2>1, <3>1 DEF UpdateHolds
      <3>6. /\ RowMode(w) \in {"update", "no_key"} /\ Rekeyed(w) \subseteq UniqueColumns
            /\ \A x, y \in UniqueColumns : Entry(w, x) = Entry(w, y) <=> x = y
        BY RowModes, OwnEntries
      <3>7. CASE lock = <<EmployeeRow(e), RowMode(w)>> /\ Edited(w) # {}
        <4>1. employee[e] # NoRow
          BY <1>1, <2>1, <3>6, <3>7, FailureIs
        <4>2. \A mode : lock = <<EmployeeRow(e), mode>> => mode = RowMode(w)
          BY <3>7
        <4>3. /\ \A u \in UniqueColumns : \A mode : lock # <<Entry(w, u), mode>>
              /\ \A b, mode : lock # <<AssignmentRow(b), mode>>
              /\ \A mode : lock # <<OpenEntry(e), mode>> /\ lock # <<CafeRow(c), mode>>
              /\ lock # <<EmployeeRow(e), "share">>
          BY <3>6, <3>7, RowsDiffer, EntriesDiffer
        <4>4. QED
          BY <3>4, <3>5, <3>6, <3>7, <4>1, <4>2, <4>3
      <3>8. CASE /\ Holds(w, EmployeeRow(e), "update")
                 /\ \E u \in Rekeyed(w) :
                      /\ lock = <<Entry(w, u), "update">>
                      /\ u # "email_address" /\ "email_address" \in Rekeyed(w)
                           => Holds(w, Entry(w, "email_address"), "update")
        <4>1. PICK u \in Rekeyed(w) :
                /\ lock = <<Entry(w, u), "update">>
                /\ u # "email_address" /\ "email_address" \in Rekeyed(w)
                     => Holds(w, Entry(w, "email_address"), "update")
          BY <3>8
        <4>2. u \in UniqueColumns
          BY <3>6
        <4>3. Rivals(w, u) = {}
          BY <1>1, <3>1, <4>1, <4>2, FailureIs
        <4>4. \A x \in UniqueColumns : lock = <<Entry(w, x), "update">> => x = u
          BY <3>6, <4>1, <4>2
        <4>5. /\ \A b, mode : lock # <<AssignmentRow(b), mode>>
              /\ \A mode : /\ lock # <<OpenEntry(e), mode>> /\ lock # <<CafeRow(c), mode>>
                           /\ lock # <<EmployeeRow(e), mode>>
          BY <4>1, <4>2, EntriesDiffer
        <4>6. QED
          BY <3>4, <3>5, <3>8, <4>1, <4>2, <4>3, <4>4, <4>5
      <3>9. CASE /\ \E b \in seen[w].current : lock = <<AssignmentRow(b), "no_key">>
                 /\ Moves(w) /\ Entered(w)
        <4>1. PICK b \in seen[w].current : lock = <<AssignmentRow(b), "no_key">>
          BY <3>9
        <4>2. /\ \A u \in UniqueColumns : \A mode : lock # <<Entry(w, u), mode>>
              /\ \A mode : /\ lock # <<OpenEntry(e), mode>> /\ lock # <<CafeRow(c), mode>>
                           /\ lock # <<EmployeeRow(e), mode>>
          BY <4>1, RowsDiffer, EntriesDiffer
        <4>3. QED
          BY <3>3, <3>4, <3>5, <3>9, <4>2
      <3>10. CASE /\ lock = <<OpenEntry(e), "update">> /\ Moves(w) /\ c # NoCafe
                  /\ Entered(w)
                  /\ \A b \in seen[w].current : Holds(w, AssignmentRow(b), "no_key")
        <4>1. Active(e) \subseteq Closed(w)
          BY <1>1, <3>10, FailureIs
        <4>2. /\ \A u \in UniqueColumns : \A mode : lock # <<Entry(w, u), mode>>
              /\ \A b, mode : lock # <<AssignmentRow(b), mode>>
              /\ \A mode : lock # <<EmployeeRow(e), mode>> /\ lock # <<CafeRow(c), mode>>
          BY <3>10, RowsDiffer, EntriesDiffer
        <4>3. QED
          BY <3>4, <3>5, <3>10, <4>1, <4>2
      <3>11. CASE /\ lock = <<EmployeeRow(e), "share">>
                  /\ Holds(w, OpenEntry(e), "update")
        <4>1. employee[e] # NoRow
          BY <1>1, <2>1, <3>11, FailureIs
        <4>2. /\ \A u \in UniqueColumns : \A mode : lock # <<Entry(w, u), mode>>
              /\ \A b, mode : lock # <<AssignmentRow(b), mode>>
              /\ \A mode : lock # <<OpenEntry(e), mode>> /\ lock # <<CafeRow(c), mode>>
              /\ \A mode \in {"update", "no_key"} : lock # <<EmployeeRow(e), mode>>
          BY <3>11, RowsDiffer, EntriesDiffer
        <4>3. QED
          BY <3>4, <3>5, <3>11, <4>1, <4>2
      <3>12. CASE /\ lock = <<CafeRow(c), "share">>
                  /\ Holds(w, EmployeeRow(e), "share")
        <4>1. cafe[c] # NoRow
          BY <1>1, <3>12, FailureIs
        <4>2. /\ \A u \in UniqueColumns : \A mode : lock # <<Entry(w, u), mode>>
              /\ \A b, mode : lock # <<AssignmentRow(b), mode>>
              /\ \A mode : lock # <<OpenEntry(e), mode>> /\ lock # <<EmployeeRow(e), mode>>
          BY <3>12, RowsDiffer, EntriesDiffer
        <4>3. QED
          BY <3>4, <3>5, <3>12, <4>1, <4>2
      <3>13. QED
        BY <1>1, <2>1, <3>7, <3>8, <3>9, <3>10, <3>11, <3>12, UpdateWants
    <2>2. QED
      BY <1>2, <2>1 DEF UpdateHolds
  <1>9. DeleteHolds(w)'
    <2>1. CASE At(w, {"delete_employee"}, "commit")
      <3>1. \/ lock = <<EmployeeRow(e), "update">> /\ employee[e] # NoRow
            \/ \E a \in Rows(e) : lock = <<AssignmentRow(a), "update">>
        <4>1. \A a \in assignments, b \in UNION loaded[w] : SameRow(a, b) => a \in Rows(e)
          BY <1>1, <2>1 DEF Grounded, LoadedRows, SameRow, Rows
        <4>2. QED
          BY <1>1, <2>1, <4>1, DeleteWants
      <3>2. QED
        BY <1>1, <1>2, <1>6, <2>1, <3>1 DEF Grounded, DeleteHolds, EmployeeRow, AssignmentRow
    <2>2. QED
      BY <1>2, <2>1 DEF DeleteHolds
  <1>10. StaffHolds(w)'
    <2>1. CASE At(w, {"delete_cafe"}, "delete_staff")
      <3>1. Existing(seen[w].staff)' = Existing(seen[w].staff)
        BY <1>2 DEF Existing
      <3>2. QED
        BY <1>1, <1>2, <2>1, <3>1, StaffWants
           DEF Grounded, StaffHolds, EmployeeRow, AssignmentRow
    <2>2. QED
      BY <1>2, <2>1 DEF StaffHolds
  <1>11. CafeHolds(w)'
    <2>1. CASE At(w, {"delete_cafe"}, "commit")
      <3>1. \/ \E a \in assignments : a.cafe = c /\ lock = <<AssignmentRow(a), "update">>
            \/ lock = <<CafeRow(c), "update">> /\ cafe[c] # NoRow
        <4>1. \A a \in assignments, b \in UNION loaded[w] : SameRow(a, b) => a.cafe = c
          BY <1>1, <2>1 DEF Grounded, LoadedRows
        <4>2. QED
          BY <1>1, <2>1, <4>1, CafeWants DEF RowsAt
      <3>2. QED
        BY <1>1, <1>2, <1>3, <2>1, <3>1
           DEF Grounded, CafeHolds, EmployeeRow, AssignmentRow, CafeRow
    <2>2. QED
      BY <1>2, <2>1 DEF CafeHolds
  <1>12. QED
    BY <1>5, <1>7, <1>8, <1>9, <1>10, <1>11 DEF Grounded

-------------------------------------------------------------------------------
\* A request without locks has nothing to keep true.
LEMMA FreshIsGrounded ==
  ASSUME NEW w \in Workers, held'[w] = {}, loaded'[w] = {}, doomed'[w] = {},
         pc'[w] # "idle" => req'[w].op \in Ops,
         pc'[w] = "delete_staff" => req'[w].op = "delete_cafe"
  PROVE  Grounded(w)'
  <1>1. Quiet(w)' /\ LoadedRows(w)'
    BY DEF Quiet, LoadedRows
  <1>2. CreateHolds(w)' /\ DeleteHolds(w)' /\ StaffHolds(w)' /\ CafeHolds(w)'
    BY DEF CreateHolds, DeleteHolds, StaffHolds, CafeHolds, Holds
  <1>3. UpdateHolds(w)'
    BY DEF UpdateHolds, Holds
  <1>4. QED
    BY <1>1, <1>2, <1>3 DEF Grounded

\* The end of a request gives everything back.
LEMMA EndIsGrounded ==
  ASSUME TypeOK, LockInv, NEW w \in Workers, NEW s, Reject(w, s), Release(w)
  PROVE  Grounded(w)'
  <1>1. held'[w] = {} /\ loaded'[w] = {} /\ doomed'[w] = {} /\ pc'[w] = "idle"
    BY DEF Reject, Answer, Goto, Release, TypeOK, LockInv
  <1>2. QED
    BY <1>1, FreshIsGrounded

\* So does a COMMIT.
LEMMA CommitIsGrounded ==
  ASSUME TypeOK, LockInv, NEW w \in Workers, Commit(w)
  PROVE  Grounded(w)'
  <1>1. held'[w] = {} /\ loaded'[w] = {}
    BY DEF Commit, Release, LockInv
  <1>2. \/ pc'[w] = "finish" /\ doomed'[w] = {} /\ req'[w] = req[w]
        \/ pc'[w] = "idle" /\ doomed'[w] = {}
    BY DEF Commit, Committed, Goto, Answer, TypeOK
  <1>3. req[w].op \in Ops
    BY DEF LockInv, Grounded, Quiet, Commit
  <1>4. QED
    BY <1>1, <1>2, <1>3, FreshIsGrounded

\* Outside of a flush there are no locks.
LEMMA OutsideIsGrounded ==
  ASSUME TypeOK, RequestInv, LockInv, NEW w \in Workers, Outside(w)
  PROVE  Grounded(w)'
  <1>1. Quiet(w)
    BY DEF LockInv, Grounded
  <1>2. pc[w] \notin {"delete_staff", "commit"}
    BY DEF Outside, Begin, FetchEmployee, FetchCafe, FetchPrevious, RequireCafe,
           FetchCurrent, CreateUniqueEmployeeId, FetchStaff, Finish, At
  <1>3. held'[w] = {} /\ loaded'[w] = {} /\ doomed[w] = {}
    BY <1>1, <1>2 DEF Quiet, Outside, At
  <1>4. CASE Begin(w)
    <2>1. PICK r \in Requests : r.op \in Ops /\ req' = [req EXCEPT ![w] = r]
                                /\ Goto(w, FirstStep(r.op))
      BY <1>4 DEF Begin
    <2>2. /\ pc'[w] # "delete_staff" /\ req'[w].op \in Ops
          /\ doomed'[w] = doomed[w]
      BY <1>4, <2>1 DEF Begin, Goto, FirstStep, TypeOK
    <2>3. QED
      BY <1>3, <2>2, FreshIsGrounded
  <1>5. ASSUME NEW s, Reject(w, s)
        PROVE  Grounded(w)'
    BY <1>3, <1>5, FreshIsGrounded DEF Reject, Answer, Goto, TypeOK
  <1>6. ASSUME NEW session, NEW step, Select(w, session, step), pc[w] # "idle",
               step = "delete_staff" => req[w].op = "delete_cafe"
        PROVE  Grounded(w)'
    BY <1>1, <1>3, <1>6, FreshIsGrounded DEF Select, Goto, Quiet, TypeOK
  <1>7. CASE CreateUniqueEmployeeId(w)
    <2>1. CASE \E x \in Employees : /\ req' = [req EXCEPT ![w].employee = x]
                                    /\ Goto(w, "commit") /\ UNCHANGED doomed
      <3>1. req[w] \in InProgress /\ req[w].op \in Ops
        BY <1>1, <1>7 DEF CreateUniqueEmployeeId, At, RequestInv, Quiet
      <3>2. req'[w].op = req[w].op /\ pc'[w] = "commit" /\ doomed'[w] = doomed[w]
        BY <2>1, <3>1 DEF Goto, TypeOK, InProgress
      <3>3. QED
        BY <1>3, <3>1, <3>2, FreshIsGrounded
    <2>2. QED
      BY <1>5, <1>7, <2>1 DEF CreateUniqueEmployeeId
  <1>8. CASE FetchStaff(w)
    BY <1>6, <1>8 DEF FetchStaff, At
  <1>9. CASE FetchEmployee(w) \/ FetchCafe(w) \/ FetchPrevious(w) \/ RequireCafe(w)
             \/ FetchCurrent(w) \/ Finish(w)
    BY <1>5, <1>6, <1>9 DEF FetchEmployee, FetchCafe, FetchPrevious, RequireCafe,
         FetchCurrent, Finish, At
  <1>10. QED
    BY <1>4, <1>7, <1>8, <1>9 DEF Outside

\* session.delete remembers rows of what it is about to delete.
LEMMA LoadIsGrounded ==
  ASSUME TypeOK, RequestInv, Integrity, LockInv, NEW w \in Workers, Load(w)
  PROVE  Grounded(w)'
  <1> DEFINE related == IF req[w].op = "delete_employee" THEN Rows(req[w].employee)
                        ELSE {a \in RowsAt(req[w].cafe) : a.employee \notin doomed[w]}
  <1>1. /\ UNCHANGED <<vars, held>> /\ loaded'[w] = {related}
        /\ At(w, {"delete_employee", "delete_cafe"}, "commit")
    BY DEF Load, LockInv
  <1>2. Grounded(w)
    BY DEF LockInv
  <1>3. Quiet(w)'
    BY <1>1, <1>2 DEF Grounded, Quiet, vars, At
  <1>4. related \subseteq assignments
        /\ \A b \in related :
             /\ req[w].op = "delete_employee" => b.employee = req[w].employee
             /\ req[w].op = "delete_cafe" => b.cafe = req[w].cafe
    BY DEF Rows, RowsAt
  <1>5. ASSUME NEW b \in related
        PROVE  /\ b.id \in Nat /\ b.id < nextId
               /\ \A a \in assignments : SameRow(a, b) => a = b
    BY <1>4 DEF Integrity, TypeOK, Assignment
  <1>6. LoadedRows(w)'
    <2> HIDE DEF related
    <2>1. UNION loaded'[w] = related
      BY <1>1
    <2>2. QED
      BY <1>1, <1>4, <1>5, <2>1 DEF LoadedRows, vars, tables, SameRow
  <1>7. UNCHANGED <<employee, cafe, assignments, nextId, pc, req, seen, doomed, held>>
    BY <1>1 DEF vars, tables
  <1>8. CreateHolds(w)' /\ UpdateHolds(w)'
    BY <1>1, <1>7 DEF CreateHolds, UpdateHolds, At
  <1>9. DeleteHolds(w)' /\ StaffHolds(w)'
    BY <1>1, <1>2, <1>7 DEF Grounded, DeleteHolds, StaffHolds, At, Rows, EmployeeRow,
         AssignmentRow
  <1>10. CafeHolds(w)'
    BY <1>2, <1>7 DEF Grounded, CafeHolds, At, Holds, EmployeeRow, AssignmentRow, CafeRow
  <1>11. QED
    BY <1>3, <1>6, <1>8, <1>9, <1>10 DEF Grounded

\* The bulk DELETE has locked the employees of the staff that exist, and every row
\* of them: no row outlives its employee.
LEMMA StaffAreHeld ==
  ASSUME TypeOK, Integrity, LockInv, NEW w \in Workers, StaffDeleted(w)
  PROVE  /\ \A f \in Employees : Holds(w, EmployeeRow(f), "update")
                                   <=> f \in Existing(seen[w].staff)
         /\ \A a \in assignments : a.employee \in seen[w].staff
              => a.employee \in Existing(seen[w].staff)
                 /\ Holds(w, AssignmentRow(a), "update")
         /\ doomed'[w] = Existing(seen[w].staff)
  <1>1. At(w, {"delete_cafe"}, "delete_staff") /\ Wanted(w) = {}
    BY DEF StaffDeleted, Flushed
  <1>2. Existing(seen[w].staff) \subseteq Employees
    BY DEF Existing, TypeOK, Session
  <1>3. \A f \in Employees : Holds(w, EmployeeRow(f), "update")
          => f \in Existing(seen[w].staff)
    BY <1>1, RowsDiffer DEF LockInv, Grounded, StaffHolds, Holds
  <1>4. \A a \in assignments : a.employee \in seen[w].staff
          => a.employee \in Existing(seen[w].staff)
    BY DEF Integrity, Existing
  <1>5. doomed'[w] = {f \in Employees : Holds(w, EmployeeRow(f), "update")}
    BY DEF StaffDeleted, TypeOK
  <1>6. QED
    BY <1>1, <1>2, <1>3, <1>4, <1>5, StaffWants

LEMMA StaffDeletedIsGrounded ==
  ASSUME TypeOK, RequestInv, Integrity, LockInv, NEW w \in Workers, StaffDeleted(w)
  PROVE  Grounded(w)'
  <1>1. /\ At(w, {"delete_cafe"}, "delete_staff") /\ Grounded(w)
        /\ pc'[w] = "commit"
        /\ UNCHANGED <<employee, cafe, assignments, nextId, req, seen, held, loaded>>
    BY DEF StaffDeleted, LockInv, Goto, TypeOK, tables
  <1>2. \A l \in held[w] :
          \/ \E f \in doomed'[w] : l = <<EmployeeRow(f), "update">>
          \/ \E a \in assignments : /\ a.employee \in doomed'[w]
                                    /\ l = <<AssignmentRow(a), "update">>
    BY <1>1, StaffAreHeld DEF Grounded, StaffHolds
  <1>3. \A f \in doomed'[w] : f \in seen[w].staff /\ employee[f] # NoRow
                              /\ Holds(w, EmployeeRow(f), "update")
    BY <1>1, StaffAreHeld DEF Existing, TypeOK, Session
  <1>4. \A a \in assignments : a.employee \in doomed'[w]
          => Holds(w, AssignmentRow(a), "update")
    BY <1>3, StaffAreHeld
  <1>5. Quiet(w)' /\ LoadedRows(w)'
    BY <1>1, <1>3 DEF Grounded, Quiet, LoadedRows, At
  <1>6. CafeHolds(w)'
    BY <1>1, <1>2, <1>3, <1>4 DEF CafeHolds, Holds, EmployeeRow, AssignmentRow, CafeRow
  <1>7. CreateHolds(w)' /\ UpdateHolds(w)' /\ DeleteHolds(w)' /\ StaffHolds(w)'
    BY <1>1 DEF CreateHolds, UpdateHolds, DeleteHolds, StaffHolds, At
  <1>8. QED
    BY <1>5, <1>6, <1>7 DEF Grounded

\* Locks given back cannot conflict.
LEMMA ExclusiveStays ==
  ASSUME Exclusive, \A u \in Workers : held'[u] \subseteq held[u]
  PROVE  Exclusive'
  BY DEF Exclusive, Conflict

\* Every step keeps what the locks stand for.
LEMMA LockInvStep ==
  ASSUME TypeOK, RequestInv, Integrity, LockInv, [LockNext]_lockVars
  PROVE  LockInv'
  <1>1. ASSUME NEW v \in Workers, Outside(v) \/ LockStep(v)
        PROVE  DOMAIN held' = Workers /\ DOMAIN loaded' = Workers
    BY <1>1 DEF LockInv, Outside, LockStep, Load, Execute, StaffDeleted, Commit,
         CircleVictim, ConnectionLost, Release
  <1>2. ASSUME NEW v \in Workers, Outside(v) \/ LockStep(v),
               Grounded(v)', \A u \in Workers : held'[u] \subseteq held[u],
               UNCHANGED tables \/ Commit(v)
        PROVE  LockInv'
    <2>1. ASSUME NEW w \in Workers \ {v}
          PROVE  Grounded(w)'
      <3>1. SameRequest(w) /\ Grounded(w)
        BY <1>2, OthersAlone DEF LockInv
      <3>2. CASE UNCHANGED tables
        BY <3>1, <3>2, GroundedStays DEF tables
      <3>3. CASE Commit(v)
        BY <3>1, <3>3, GroundedOutlivesCommits
      <3>4. QED
        BY <1>2, <3>2, <3>3
    <2>2. Exclusive'
      BY <1>2, ExclusiveStays DEF LockInv
    <2>3. QED
      BY <1>1, <1>2, <2>1, <2>2 DEF LockInv
  <1>3. ASSUME NEW v \in Workers, NEW s, Reject(v, s), Release(v), LockStep(v)
        PROVE  LockInv'
    <2>1. Grounded(v)' /\ UNCHANGED tables
      BY <1>3, EndIsGrounded DEF Reject
    <2>2. \A u \in Workers : held'[u] \subseteq held[u]
      BY <1>3 DEF Release, LockInv
    <2>3. QED
      BY <1>2, <1>3, <2>1, <2>2
  <1>4. ASSUME NEW v \in Workers, Outside(v)
        PROVE  LockInv'
    <2>1. UNCHANGED <<tables, held>>
      BY <1>4 DEF Outside, Begin, FetchEmployee, FetchCafe, FetchPrevious, RequireCafe,
           FetchCurrent, CreateUniqueEmployeeId, FetchStaff, Finish, Reject, Select
    <2>2. QED
      BY <1>2, <1>4, <2>1, OutsideIsGrounded
  <1>5. ASSUME NEW v \in Workers, Load(v)
        PROVE  LockInv'
    <2>1. UNCHANGED <<tables, held>> /\ LockStep(v)
      BY <1>5 DEF Load, vars, LockStep
    <2>2. QED
      BY <1>2, <1>5, <2>1, LoadIsGrounded
  <1>6. ASSUME NEW v \in Workers, Execute(v)
        PROVE  LockInv'
    <2>1. PICK lock \in Wanted(v) :
            \/ Grants(v, lock)
            \/ Reject(v, Failure(v, lock)) /\ Release(v)
      BY <1>6 DEF Execute, Grants
    <2>2. LockStep(v)
      BY <1>6 DEF LockStep
    <2>3. CASE Grants(v, lock)
      <3>1. Exclusive' /\ Grounded(v)'
        BY <2>3, GrantIsExclusive, GrantIsGrounded
      <3>2. ASSUME NEW w \in Workers \ {v}
            PROVE  Grounded(w)'
        <4>1. SameRequest(w) /\ Grounded(w)
          BY <2>2, OthersAlone DEF LockInv
        <4>2. UNCHANGED <<employee, cafe, assignments, nextId>>
          BY <2>3 DEF Grants, vars, tables
        <4>3. QED
          BY <4>1, <4>2, GroundedStays
      <3>3. QED
        BY <1>1, <2>2, <3>1, <3>2 DEF LockInv
    <2>4. CASE Reject(v, Failure(v, lock)) /\ Release(v)
      BY <1>3, <2>2, <2>4
    <2>5. QED
      BY <2>1, <2>3, <2>4
  <1>7. ASSUME NEW v \in Workers, StaffDeleted(v)
        PROVE  LockInv'
    <2>1. UNCHANGED <<tables, held>> /\ LockStep(v)
      BY <1>7 DEF StaffDeleted, LockStep
    <2>2. QED
      BY <1>2, <1>7, <2>1, StaffDeletedIsGrounded
  <1>8. ASSUME NEW v \in Workers, Commit(v)
        PROVE  LockInv'
    <2>1. LockStep(v) /\ \A u \in Workers : held'[u] \subseteq held[u]
      BY <1>8 DEF Commit, Release, LockStep, LockInv
    <2>2. QED
      BY <1>2, <1>8, <2>1, CommitIsGrounded
  <1>9. ASSUME NEW v \in Workers, CircleVictim(v) \/ ConnectionLost(v)
        PROVE  LockInv'
    <2>1. LockStep(v) /\ \E s : Reject(v, s) /\ Release(v)
      BY <1>9 DEF CircleVictim, ConnectionLost, DatabaseFails, LockStep
    <2>2. QED
      BY <1>3, <2>1
  <1>10. CASE UNCHANGED lockVars
    <2>1. UNCHANGED <<employee, cafe, assignments, nextId, held, loaded>>
          /\ \A w \in Workers : SameRequest(w)
      BY <1>10 DEF lockVars, vars, tables, SameRequest
    <2>2. \A w \in Workers : Grounded(w)'
      BY <2>1, GroundedStays DEF LockInv
    <2>3. Exclusive'
      BY <2>1, ExclusiveStays DEF LockInv
    <2>4. QED
      BY <2>1, <2>2, <2>3 DEF LockInv
  <1>11. QED
    BY <1>4, <1>5, <1>6, <1>7, <1>8, <1>9, <1>10 DEF LockNext, LockStep

-------------------------------------------------------------------------------
\* Whom a delete_cafe has deleted it holds, row by row, until it commits.
LEMMA DoomedAreHeld ==
  ASSUME LockInv, NEW v \in Workers, NEW f \in doomed[v]
  PROVE  /\ employee[f] # NoRow
         /\ Holds(v, EmployeeRow(f), "update")
         /\ \A a \in assignments : a.employee = f => Holds(v, AssignmentRow(a), "update")
  BY DEF LockInv, Grounded, Quiet, CafeHolds

\* So nobody else holds anything of them,
LEMMA HeldNotDoomed ==
  ASSUME LockInv, NEW v \in Workers, NEW w \in Workers \ {v}, NEW f,
         \/ \E mode \in {"update", "no_key", "share"} : Holds(w, EmployeeRow(f), mode)
         \/ \E mode \in {"update", "no_key", "share"} : \E a \in assignments :
              a.employee = f /\ Holds(w, AssignmentRow(a), mode)
  PROVE  f \notin doomed[v]
  <1> SUFFICES ASSUME f \in doomed[v]
               PROVE  FALSE
    OBVIOUS
  <1>1. \A row : \A mode \in {"update", "no_key", "share"} :
          Holds(w, row, mode) => ~Holds(v, row, "update")
    BY Conflicts DEF LockInv, Exclusive, Holds
  <1>2. QED
    BY <1>1, DoomedAreHeld

\* and whoever needs something of them waits.
LEMMA NeededNotDoomed ==
  ASSUME LockInv, NEW v \in Workers, NEW w \in Workers \ {v}, NEW lock, NEW f,
         Holders(w, lock) = {},
         \/ \E mode \in {"update", "no_key", "share"} :
              <<EmployeeRow(f), mode>> \in Needed(w, lock)
         \/ \E mode \in {"update", "no_key", "share"} : \E a \in assignments :
              a.employee = f /\ <<AssignmentRow(a), mode>> \in Needed(w, lock)
  PROVE  f \notin doomed[v]
  <1> SUFFICES ASSUME f \in doomed[v]
               PROVE  FALSE
    OBVIOUS
  <1>1. \A row : \A mode \in {"update", "no_key", "share"} :
          <<row, mode>> \in Needed(w, lock) => ~Holds(v, row, "update")
    BY Conflicts DEF Holders, Holds
  <1>2. QED
    BY <1>1, DoomedAreHeld

\* The rows an update has closed are those of its session, once it holds them.
LEMMA ClosedRows ==
  ASSUME LockInv, NEW w \in Workers, At(w, {"update_employee"}, "commit")
  PROVE  LET rows == {a \in assignments : \E b \in seen[w].current : SameRow(a, b)}
         IN
         /\ Closed(w) \subseteq rows
         /\ (\A b \in seen[w].current : Holds(w, AssignmentRow(b), "no_key"))
              => Closed(w) = rows
  <1>1. \A a \in assignments : Holds(w, AssignmentRow(a), "no_key")
          => \E b \in seen[w].current : SameRow(a, b)
    <2>1. \A l \in held[w] : l[2] = "no_key" =>
            \/ l[1] = EmployeeRow(req[w].employee)
            \/ \E b \in seen[w].current : l = <<AssignmentRow(b), "no_key">>
      BY DEF LockInv, Grounded, UpdateHolds
    <2>2. QED
      BY <2>1, RowsDiffer DEF Holds
  <1>2. \A a \in assignments, b \in seen[w].current :
          SameRow(a, b) /\ Holds(w, AssignmentRow(b), "no_key")
            => Holds(w, AssignmentRow(a), "no_key")
    BY RowsDiffer
  <1>3. QED
    BY <1>1, <1>2 DEF Closed

\* Whom the unique indexes make a request wait for: the first of them decides.
LEMMA TakenClaims ==
  ASSUME NEW w
  PROVE  LET taken(u) == u \in Edited(w) /\ Rivals(w, u) # {}
         IN
         /\ Taken(w) <=> Claims(w) # {}
         /\ Taken(w) <=> \E u \in UniqueColumns : taken(u)
         /\ taken("email_address") => Claims(w) = Rivals(w, "email_address")
         /\ ~taken("email_address") /\ taken("phone_number")
              => Claims(w) = Rivals(w, "phone_number")
  BY DEF Taken, Claims, UniqueColumns

\* A value that the row has by now is no one else's.
LEMMA OwnValues ==
  ASSUME TypeOK, RequestInv, Integrity, NEW w \in Workers,
         At(w, {"update_employee"}, "commit"),
         NEW u \in Edited(w) \cap UniqueColumns, u \notin Rekeyed(w)
  PROVE  Rivals(w, u) = {}
  <1>1. /\ req[w].employee \in Employees /\ employee[req[w].employee] # NoRow
        /\ employee[req[w].employee][u] = req[w].details[u]
    BY DEF Rekeyed, RequestInv, At
  <1>2. QED
    BY <1>1 DEF Integrity, Rivals

\* An UPDATE that is over found no one else with the values.
LEMMA EnteredIsUntaken ==
  ASSUME TypeOK, RequestInv, Integrity, NEW w \in Workers, UpdateHolds(w),
         At(w, {"update_employee"}, "commit"), Entered(w)
  PROVE  /\ ~Taken(w) /\ Claims(w) = {}
         /\ Edited(w) # {} => employee[req[w].employee] # NoRow
  <1>1. ASSUME NEW u \in Edited(w) \cap UniqueColumns
        PROVE  Rivals(w, u) = {}
    <2>1. CASE u \in Rekeyed(w)
      BY <2>1 DEF UpdateHolds, Entered
    <2>2. QED
      BY <2>1, OwnValues
  <1>2. ~Taken(w)
    BY <1>1 DEF Taken
  <1>3. Edited(w) # {} => employee[req[w].employee] # NoRow
    BY RowModes DEF UpdateHolds, Entered
  <1>4. QED
    BY <1>2, <1>3, TakenClaims

\* A flush that is over waited for nothing that a delete_cafe still holds.
LEMMA FlushedIsFree ==
  ASSUME TypeOK, RequestInv, Integrity, SeenRows, LockInv,
         NEW w \in Workers, Wanted(w) = {}, Flushing(w)
  PROVE  ~Blocked(w)
  <1> DEFINE e == req[w].employee
             c == req[w].cafe
  <1> USE WriteConstants
  <1> SUFFICES ASSUME NEW v \in Workers \ {w}, NEW f \in Needs(w), f \in doomed[v]
               PROVE  FALSE
    BY DEF Blocked, WaitsFor
  <1>1. /\ employee[f] # NoRow
        /\ \A mode \in {"update", "no_key", "share"} : ~Holds(w, EmployeeRow(f), mode)
        /\ \A mode \in {"update", "no_key", "share"} : \A a \in assignments :
             a.employee = f => ~Holds(w, AssignmentRow(a), mode)
    BY DoomedAreHeld, HeldNotDoomed
  <1>2. CASE At(w, {"create_employee"}, "commit")
    <2>1. CreateHolds(w) /\ Holds(w, EmployeeRow(e), "update")
          /\ \A u \in UniqueColumns : Holds(w, Entry(w, u), "update")
      BY <1>2, CreateWants DEF LockInv, Grounded
    <2>2. employee[e] = NoRow /\ \A u \in UniqueColumns : Rivals(w, u) = {}
      BY <1>2, <2>1 DEF CreateHolds, Holds
    <2>3. Claims(w) = {}
      BY <2>2, TakenClaims
    <2>4. QED
      BY <1>2, <2>2, <2>3 DEF Needs, At
  <1>3. CASE At(w, {"update_employee"}, "commit")
    <2>1. UpdateHolds(w) /\ Entered(w)
      BY <1>3, UpdateWants DEF LockInv, Grounded
    <2>2. CASE f \in {e} \cup Claims(w) /\ Edited(w) # {}
      <3>1. Claims(w) = {}
        BY <1>3, <2>1, EnteredIsUntaken
      <3>2. Holds(w, EmployeeRow(e), RowMode(w)) /\ RowMode(w) \in {"update", "no_key"}
        BY <2>1, <2>2, RowModes DEF Entered
      <3>3. QED
        BY <1>1, <2>2, <3>1, <3>2
    <2>3. CASE f = e /\ Moves(w) /\ seen[w].current = {}
      <3>1. c # NoCafe
        BY <2>3 DEF Moves, CafeOf
      <3>2. QED
        BY <1>1, <1>3, <2>3, <3>1, UpdateWants
    <2>4. CASE /\ f = e /\ Moves(w)
               /\ \E a \in assignments, b \in seen[w].current : SameRow(a, b)
      <3>1. PICK a \in assignments, b \in seen[w].current : SameRow(a, b)
        BY <2>4
      <3>2. Holds(w, AssignmentRow(b), "no_key")
        BY <1>3, <2>4, UpdateWants
      <3>3. a.employee = e /\ AssignmentRow(a) = AssignmentRow(b)
        BY <1>3, <3>1, RowsDiffer DEF SeenRows, SameRow
      <3>4. QED
        BY <1>1, <2>4, <3>2, <3>3
    <2>5. QED
      BY <1>3, <2>2, <2>3, <2>4 DEF Needs, At
  <1>4. CASE At(w, {"delete_employee"}, "commit")
    BY <1>1, <1>4, DeleteWants DEF Needs, At
  <1>5. CASE At(w, {"delete_cafe"}, "delete_staff")
    BY <1>1, <1>5, StaffWants DEF Needs, At, Existing
  <1>6. CASE At(w, {"delete_cafe"}, "commit")
    <2>1. PICK a \in RowsAt(c) : a.employee = f
      BY <1>6 DEF Needs, At, RowsAt
    <2>2. Holds(w, AssignmentRow(a), "update") /\ a \in assignments
      BY <1>6, CafeWants DEF RowsAt
    <2>3. QED
      BY <1>1, <2>1, <2>2
  <1>7. QED
    BY <1>2, <1>3, <1>4, <1>5, <1>6 DEF Needs, At

\* A statement of create_employee that fails, fails as the COMMIT would.
LEMMA CreateFails ==
  ASSUME TypeOK, RequestInv, Integrity, LockInv, NEW w \in Workers,
         At(w, {"create_employee"}, "commit"), NEW lock \in Wanted(w),
         Holders(w, lock) = {}, Failure(w, lock) # "none",
         Reject(w, Failure(w, lock))
  PROVE  CommitCreateEmployee(w)
  <1> DEFINE e == req[w].employee
             c == req[w].cafe
             m == "email_address"
             failure == IF employee[e] # NoRow THEN "conflict"
                        ELSE IF Taken(w) THEN "taken"
                        ELSE IF cafe[c] = NoRow THEN "conflict"
                        ELSE "none"
  <1> USE WriteConstants
  <1>2. /\ CreateHolds(w) /\ e \in Employees /\ req[w].details # NoRow
        /\ req[w].op = "create_employee" /\ Edited(w) = Columns
    BY DEF LockInv, Grounded, RequestInv, At, Edited
  <1>3. SUFFICES /\ Failure(w, lock) = failure
                 /\ \A v \in Workers \ {w} : Needs(w) \cap doomed[v] = {}
    BY DEF Blocked, WaitsFor, CommitCreateEmployee
  <1>4. Needs(w) = IF employee[e] # NoRow THEN {e} ELSE Claims(w)
    BY DEF Needs, At
  <1>5. lock \in Needed(w, lock)
    BY <1>2 DEF Needed, Invisible
  <1>6. CASE lock = <<EmployeeRow(e), "update">>
    <2>1. employee[e] # NoRow /\ Failure(w, lock) = "conflict"
      BY <1>2, <1>6, FailureIs
    <2>2. QED
      BY <1>4, <1>5, <1>6, <2>1, NeededNotDoomed
  <1>7. CASE /\ Holds(w, EmployeeRow(e), "update")
             /\ \E u \in UniqueColumns : /\ lock = <<Entry(w, u), "update">>
                                         /\ u = m \/ Holds(w, Entry(w, m), "update")
    <2>1. PICK u \in UniqueColumns : /\ lock = <<Entry(w, u), "update">>
                                     /\ u = m \/ Holds(w, Entry(w, m), "update")
      BY <1>7
    <2>2. Rivals(w, u) # {} /\ Failure(w, lock) = "taken"
      BY <1>2, <2>1, FailureIs
    <2>3. employee[e] = NoRow
      BY <1>2, <1>7 DEF CreateHolds, Holds
    <2>4. Taken(w) /\ Claims(w) = Rivals(w, u)
      <3>1. u = m \/ Rivals(w, m) = {}
        BY <1>2, <2>1, OwnEntries DEF CreateHolds
      <3>2. QED
        BY <1>2, <2>2, <3>1, TakenClaims, OwnEntries
    <2>5. ASSUME NEW f \in Claims(w)
          PROVE  <<EmployeeRow(f), "no_key">> \in Needed(w, lock)
      BY <1>2, <2>1, <2>4 DEF Enters, Needed, Locks
    <2>6. QED
      BY <1>4, <2>2, <2>3, <2>4, <2>5, NeededNotDoomed
  <1>8. CASE /\ lock = <<OpenEntry(e), "update">> /\ Holds(w, EmployeeRow(e), "update")
    <2>1. Active(e) # {}
      BY <1>8, FailureIs
    <2>2. employee[e] = NoRow
      BY <1>2, <1>8 DEF CreateHolds, Holds
    <2>3. QED
      BY <2>1, <2>2 DEF Integrity, Active, Rows
  <1>9. CASE /\ lock = <<CafeRow(c), "share">> /\ Holds(w, EmployeeRow(e), "update")
             /\ \A u \in UniqueColumns : Holds(w, Entry(w, u), "update")
    <2>1. cafe[c] = NoRow /\ Failure(w, lock) = "conflict"
      BY <1>9, FailureIs
    <2>2. employee[e] = NoRow /\ \A u \in UniqueColumns : Rivals(w, u) = {}
      BY <1>2, <1>9 DEF CreateHolds, Holds
    <2>3. ~Taken(w) /\ Claims(w) = {}
      BY <2>2, TakenClaims
    <2>4. QED
      BY <1>4, <2>1, <2>2, <2>3
  <1>10. QED
    BY <1>6, <1>7, <1>8, <1>9, CreateWants

\* So does a statement of update_employee.
LEMMA UpdateFails ==
  ASSUME TypeOK, RequestInv, Integrity, SeenRows, LockInv, NEW w \in Workers,
         At(w, {"update_employee"}, "commit"), NEW lock \in Wanted(w),
         Holders(w, lock) = {}, Failure(w, lock) # "none",
         Reject(w, Failure(w, lock))
  PROVE  CommitUpdateEmployee(w)
  <1> DEFINE e == req[w].employee
             m == "email_address"
             c == req[w].cafe
             closed == {a \in assignments : \E b \in seen[w].current : SameRow(a, b)}
             held_rows == \A b \in seen[w].current : Holds(w, AssignmentRow(b), "no_key")
  <1> USE WriteConstants
  <1>1. SUFFICES /\ Failure(w, lock) = UpdateFailure(w)
                 /\ \A v \in Workers \ {w} : Needs(w) \cap doomed[v] = {}
    BY DEF Blocked, WaitsFor, CommitUpdateEmployee
  <1>2. /\ UpdateHolds(w) /\ e \in Employees /\ req[w].details # NoRow
        /\ req[w].op = "update_employee"
    BY DEF LockInv, Grounded, RequestInv, At
  <1>3. ASSUME NEW v \in Workers \ {w}, NEW f \in doomed[v], f \in Needs(w)
        PROVE  /\ employee[f] # NoRow
               /\ \/ f \in {e} \cup Claims(w) /\ Edited(w) # {}
                  \/ f = e /\ Moves(w) /\ seen[w].current = {}
                  \/ f = e /\ Moves(w) /\ closed # {}
               /\ \A mode \in {"update", "no_key", "share"} : ~Holds(w, EmployeeRow(f), mode)
               /\ \A mode \in {"update", "no_key", "share"} : \A a \in assignments :
                    a.employee = f => ~Holds(w, AssignmentRow(a), mode)
    <2>1. \/ f \in {e} \cup Claims(w) /\ Edited(w) # {}
          \/ f = e /\ Moves(w) /\ seen[w].current = {}
          \/ f = e /\ Moves(w) /\ closed # {}
      BY <1>3 DEF Needs, At
    <2>2. QED
      BY <1>3, <2>1, DoomedAreHeld, HeldNotDoomed
  <1>4. Entered(w) => /\ ~Taken(w) /\ Claims(w) = {}
                      /\ Edited(w) # {} => /\ employee[e] # NoRow
                                           /\ \E mode \in {"update", "no_key"} :
                                                Holds(w, EmployeeRow(e), mode)
    BY <1>2, EnteredIsUntaken, RowModes DEF Entered
  <1>5. ASSUME held_rows
        PROVE  /\ Closed(w) = closed
               /\ seen[w].current # {} => closed # {}
               /\ closed # {} => \E a \in assignments : a.employee = e
                                                /\ Holds(w, AssignmentRow(a), "no_key")
    <2>1. Closed(w) = closed
      BY <1>5, ClosedRows
    <2>2. seen[w].current # {} => closed # {}
      BY <1>2, <1>5 DEF UpdateHolds
    <2>3. \A a \in closed : a.employee = e
      BY DEF SeenRows, SameRow
    <2>4. QED
      BY <2>1, <2>2, <2>3 DEF Closed
  <1>6. CASE lock = <<EmployeeRow(e), RowMode(w)>> /\ Edited(w) # {}
    <2>1. employee[e] = NoRow /\ Failure(w, lock) = "server_error"
      BY <1>2, <1>6, RowModes, FailureIs
    <2>2. UpdateFailure(w) = "server_error"
      BY <1>6, <2>1 DEF UpdateFailure
    <2>3. ASSUME NEW v \in Workers \ {w}, NEW f \in doomed[v], f \in Needs(w)
          PROVE  FALSE
      BY <1>3, <2>1, <2>3 DEF Needs, At
    <2>4. QED
      BY <2>1, <2>2, <2>3
  <1>7. CASE /\ Holds(w, EmployeeRow(e), "update")
             /\ \E x \in Rekeyed(w) :
                  /\ lock = <<Entry(w, x), "update">>
                  /\ x # m /\ m \in Rekeyed(w) => Holds(w, Entry(w, m), "update")
    <2>1. PICK x \in Rekeyed(w) :
            /\ lock = <<Entry(w, x), "update">>
            /\ x # m /\ m \in Rekeyed(w) => Holds(w, Entry(w, m), "update")
      BY <1>7
    <2>2. x \in UniqueColumns /\ x \in Edited(w)
      BY RowModes
    <2>3. Rivals(w, x) # {} /\ Failure(w, lock) = "taken"
      BY <1>2, <2>1, <2>2, FailureIs
    <2>4. Taken(w) /\ Claims(w) = Rivals(w, x)
      <3>1. x = m \/ m \notin Edited(w) \/ Rivals(w, m) = {}
        <4>1. CASE m \in Rekeyed(w)
          BY <1>2, <2>1, <4>1, OwnEntries DEF UpdateHolds
        <4>2. CASE m \in Edited(w) \ Rekeyed(w)
          BY <4>2, OwnValues, OwnEntries
        <4>3. QED
          BY <4>1, <4>2
      <3>2. QED
        BY <2>2, <2>3, <3>1, TakenClaims, OwnEntries
    <2>5. UpdateFailure(w) = "taken"
      BY <1>2, <1>7, <2>2, <2>4 DEF UpdateFailure, UpdateHolds
    <2>6. ASSUME NEW f \in Claims(w)
          PROVE  <<EmployeeRow(f), "no_key">> \in Needed(w, lock)
      BY <1>2, <2>1, <2>2, <2>4 DEF Enters, Needed, Locks
    <2>7. ASSUME NEW v \in Workers \ {w}, NEW f \in doomed[v], f \in Needs(w)
          PROVE  FALSE
      BY <1>3, <1>7, <2>6, <2>7, NeededNotDoomed
    <2>8. QED
      BY <2>3, <2>5, <2>7
  <1>8. CASE /\ \E b \in seen[w].current : lock = <<AssignmentRow(b), "no_key">>
             /\ Moves(w) /\ Entered(w)
    <2>1. PICK b \in seen[w].current : lock = <<AssignmentRow(b), "no_key">>
      BY <1>8
    <2>2. Failure(w, lock) = "server_error" /\ ~\E a \in assignments : SameRow(b, a)
      BY <2>1, FailureIs
    <2>3. closed = {}
      <3>1. \A x \in seen[w].current : x = b
        BY DEF SeenRows
      <3>2. QED
        BY <2>2, <3>1 DEF SameRow
    <2>4. UpdateFailure(w) = "server_error"
      BY <1>4, <1>8, <2>3 DEF UpdateFailure
    <2>5. ASSUME NEW v \in Workers \ {w}, NEW f \in doomed[v], f \in Needs(w)
          PROVE  FALSE
      BY <1>3, <1>4, <1>8, <2>3, <2>5
    <2>6. QED
      BY <2>2, <2>4, <2>5
  <1>9. CASE /\ lock = <<OpenEntry(e), "update">> /\ Moves(w) /\ c # NoCafe
             /\ Entered(w) /\ held_rows
    <2>1. Failure(w, lock) = "already_active" /\ Active(e) \ closed # {}
      BY <1>5, <1>9, FailureIs
    <2>2. UpdateFailure(w) = "already_active"
      <3>1. ~(Edited(w) # {} /\ employee[e] = NoRow) /\ ~Taken(w)
            /\ ~(seen[w].current # {} /\ closed = {})
        BY <1>4, <1>5, <1>9
      <3>2. QED
        BY <1>9, <2>1, <3>1 DEF UpdateFailure
    <2>3. \A a \in Active(e) : <<AssignmentRow(a), "no_key">> \in Needed(w, lock)
      BY <1>9 DEF Needed, Locks
    <2>4. \A v \in Workers \ {w} : e \notin doomed[v]
      BY <2>1, <2>3, NeededNotDoomed DEF Active, Rows
    <2>5. ASSUME NEW v \in Workers \ {w}, NEW f \in doomed[v], f \in Needs(w)
          PROVE  FALSE
      BY <1>3, <1>4, <1>9, <2>4, <2>5
    <2>6. QED
      BY <2>1, <2>2, <2>5
  <1>10. CASE /\ lock = <<EmployeeRow(e), "share">> /\ Moves(w) /\ c # NoCafe
              /\ Entered(w) /\ held_rows /\ Holds(w, OpenEntry(e), "update")
    <2>1. Failure(w, lock) = "conflict" /\ employee[e] = NoRow
      BY <1>2, <1>10, FailureIs
    <2>2. Active(e) \subseteq closed
      BY <1>2, <1>5, <1>10 DEF UpdateHolds
    <2>3. UpdateFailure(w) = "conflict"
      <3>1. Edited(w) = {} /\ ~Taken(w) /\ ~(seen[w].current # {} /\ closed = {})
        BY <1>4, <1>5, <1>10, <2>1
      <3>2. QED
        BY <1>10, <2>1, <2>2, <3>1 DEF UpdateFailure
    <2>4. ASSUME NEW v \in Workers \ {w}, NEW f \in doomed[v], f \in Needs(w)
          PROVE  FALSE
      BY <1>3, <1>4, <1>10, <2>1, <2>4
    <2>5. QED
      BY <2>1, <2>3, <2>4
  <1>11. CASE /\ lock = <<CafeRow(c), "share">> /\ Moves(w) /\ c # NoCafe
              /\ Entered(w) /\ held_rows /\ Holds(w, OpenEntry(e), "update")
              /\ Holds(w, EmployeeRow(e), "share")
    <2>1. Failure(w, lock) = "conflict" /\ cafe[c] = NoRow
      BY <1>11, FailureIs
    <2>2. Active(e) \subseteq closed
      BY <1>2, <1>5, <1>11 DEF UpdateHolds
    <2>3. UpdateFailure(w) = "conflict"
      <3>1. ~(Edited(w) # {} /\ employee[e] = NoRow) /\ ~Taken(w)
            /\ ~(seen[w].current # {} /\ closed = {})
        BY <1>4, <1>5, <1>11
      <3>2. QED
        BY <1>11, <2>1, <2>2, <3>1 DEF UpdateFailure
    <2>4. ASSUME NEW v \in Workers \ {w}, NEW f \in doomed[v], f \in Needs(w)
          PROVE  FALSE
      BY <1>3, <1>4, <1>11, <2>4
    <2>5. QED
      BY <2>1, <2>3, <2>4
  <1>12. QED
    BY <1>6, <1>7, <1>8, <1>9, <1>10, <1>11, UpdateWants

\* A deletion always finds what it wants.
LEMMA DeletionsDoNotFail ==
  ASSUME LockInv, NEW w \in Workers, NEW lock \in Wanted(w),
         \/ At(w, {"delete_employee", "delete_cafe"}, "commit")
         \/ At(w, {"delete_cafe"}, "delete_staff")
  PROVE  Failure(w, lock) = "none"
  <1>1. req[w].op \notin {"create_employee", "update_employee"}
    BY DEF At
  <1>2. \A f, mode : Failure(w, <<EmployeeRow(f), mode>>) = "none"
    <2>1. \A mode : Failure(w, <<EmployeeRow(req[w].employee), mode>>) = "none"
      BY <1>1, FailureIs
    <2>2. \A f, mode : f # req[w].employee => Failure(w, <<EmployeeRow(f), mode>>) = "none"
      BY FailureIs
    <2>3. QED
      BY <2>1, <2>2
  <1>3. \A a \in assignments : \A mode : Failure(w, <<AssignmentRow(a), mode>>) = "none"
    BY FailureIs DEF SameRow
  <1>4. cafe[req[w].cafe] # NoRow
          => \A mode : Failure(w, <<CafeRow(req[w].cafe), mode>>) = "none"
    BY FailureIs
  <1>5. CASE At(w, {"delete_employee"}, "commit")
    BY <1>2, <1>3, <1>5, DeleteWants DEF Rows
  <1>6. CASE At(w, {"delete_cafe"}, "delete_staff")
    BY <1>2, <1>3, <1>6, StaffWants
  <1>7. CASE At(w, {"delete_cafe"}, "commit")
    BY <1>2, <1>3, <1>4, <1>7, CafeWants DEF RowsAt
  <1>8. QED
    BY <1>5, <1>6, <1>7 DEF At

-------------------------------------------------------------------------------
\* What a COMMIT of the statements writes is what WriteServices writes at once.
LEMMA CreateImplements ==
  ASSUME TypeOK, RequestInv, Integrity, SeenRows, LockInv, NEW w \in Workers,
         Commit(w), req[w].op = "create_employee"
  PROVE  CommitCreateEmployee(w)
  <1> DEFINE e == req[w].employee
             c == req[w].cafe
  <1> USE WriteConstants
  <1>1. At(w, {"create_employee"}, "commit") /\ Wanted(w) = {} /\ Flushing(w)
    BY DEF Commit, Flushed, At
  <1>2. CreateHolds(w) /\ e \in Employees /\ c \in Cafes
    BY <1>1 DEF LockInv, Grounded, RequestInv, At
  <1>3. /\ Holds(w, EmployeeRow(e), "update")
        /\ \A x \in UniqueColumns : Holds(w, Entry(w, x), "update")
        /\ Holds(w, OpenEntry(e), "update") /\ Holds(w, CafeRow(c), "share")
    BY <1>1, CreateWants
  <1>4. /\ employee[e] = NoRow /\ ~Taken(w) /\ cafe[c] # NoRow
    BY <1>1, <1>2, <1>3, TakenClaims DEF CreateHolds, Holds
  <1>5. /\ \A f : Holds(w, EmployeeRow(f), "update") <=> f = e
        /\ \A a : ~Holds(w, AssignmentRow(a), "update") /\ ~Holds(w, AssignmentRow(a), "no_key")
        /\ \A f : ~Holds(w, EmployeeRow(f), "no_key")
        /\ ~Holds(w, CafeRow(c), "update")
    BY <1>1, <1>2, <1>3, RowsDiffer, EntriesDiffer DEF CreateHolds, Holds
  <1>6. Closed(w) = {}
    BY <1>5 DEF Closed
  <1>7. employee' = [employee EXCEPT ![e] = Written(w)]
    <2>1. employee' = [f \in Employees |-> IF f = e THEN Written(w) ELSE employee[f]]
      BY <1>1, <1>5 DEF Commit, At
    <2>2. QED
      BY <1>2, <2>1 DEF TypeOK
  <1>8. assignments' = assignments \cup {NewRow(e, c)} /\ nextId' = nextId + 1
    BY <1>3, <1>5, <1>6 DEF Commit
  <1>9. UNCHANGED <<cafe, retired>> /\ Committed(w, "finish")
    BY <1>5, <1>1 DEF Commit, At
  <1>10. ~Blocked(w)
    BY <1>1, FlushedIsFree
  <1>11. QED
    BY <1>1, <1>4, <1>7, <1>8, <1>9, <1>10 DEF CommitCreateEmployee, SetEmployee

LEMMA UpdateImplements ==
  ASSUME TypeOK, RequestInv, Integrity, SeenRows, LockInv, NEW w \in Workers,
         Commit(w), req[w].op = "update_employee"
  PROVE  CommitUpdateEmployee(w)
  <1> DEFINE e == req[w].employee
             c == req[w].cafe
             opens == Moves(w) /\ c # NoCafe
             closed == {a \in assignments : \E b \in seen[w].current : SameRow(a, b)}
  <1> USE WriteConstants
  <1>1. At(w, {"update_employee"}, "commit") /\ Wanted(w) = {} /\ Flushing(w)
    BY DEF Commit, Flushed, At
  <1>2. UpdateHolds(w) /\ e \in Employees
    BY <1>1 DEF LockInv, Grounded, RequestInv, At
  <1>3. /\ Entered(w)
        /\ Moves(w) => \A b \in seen[w].current : Holds(w, AssignmentRow(b), "no_key")
        /\ opens => /\ Holds(w, OpenEntry(e), "update")
                    /\ Holds(w, EmployeeRow(e), "share")
                    /\ Holds(w, CafeRow(c), "share")
    BY <1>1, UpdateWants
  <1>4. /\ \A l \in held[w] :
             \/ l \in {<<EmployeeRow(e), "update">>, <<EmployeeRow(e), "no_key">>,
                       <<OpenEntry(e), "update">>, <<EmployeeRow(e), "share">>,
                       <<CafeRow(c), "share">>}
             \/ \E x \in UniqueColumns : l = <<Entry(w, x), "update">>
             \/ \E b \in seen[w].current : l = <<AssignmentRow(b), "no_key">>
        /\ \A mode \in {"update", "no_key"} :
             Holds(w, EmployeeRow(e), mode) => Edited(w) # {}
    BY <1>1, <1>2 DEF UpdateHolds
  <1>5. /\ \A f : (\E mode \in {"update", "no_key"} : Holds(w, EmployeeRow(f), mode))
                  <=> f = e /\ Edited(w) # {}
        /\ \A a : /\ ~Holds(w, AssignmentRow(a), "update")
                  /\ Holds(w, AssignmentRow(a), "no_key") =>
                       \E b \in seen[w].current : SameRow(a, b)
        /\ ~Holds(w, CafeRow(c), "update")
    <2>1. \A f : \A mode \in {"update", "no_key"} : Holds(w, EmployeeRow(f), mode)
            => f = e /\ Edited(w) # {}
      BY <1>4, RowsDiffer, EntriesDiffer DEF Holds
    <2>2. Edited(w) # {} => \E mode \in {"update", "no_key"} :
            Holds(w, EmployeeRow(e), mode)
      BY <1>3, RowModes DEF Entered
    <2>3. \A a : /\ ~Holds(w, AssignmentRow(a), "update")
                 /\ Holds(w, AssignmentRow(a), "no_key") =>
                      \E b \in seen[w].current : SameRow(a, b)
      BY <1>4, RowsDiffer, EntriesDiffer DEF Holds
    <2>4. ~Holds(w, CafeRow(c), "update")
      BY <1>4, RowsDiffer, EntriesDiffer DEF Holds
    <2>5. QED
      BY <2>1, <2>2, <2>3, <2>4
  <1>6. Closed(w) = IF Moves(w) THEN closed ELSE {}
    <2>1. CASE Moves(w)
      BY <1>1, <1>3, <2>1, ClosedRows
    <2>2. CASE ~Moves(w)
      <3>1. \A b \in seen[w].current : ~Holds(w, AssignmentRow(b), "no_key")
        BY <1>1, <1>2, <2>2 DEF UpdateHolds
      <3>2. \A a : ~Holds(w, AssignmentRow(a), "no_key")
        BY <1>5, <3>1, RowsDiffer
      <3>3. QED
        BY <2>2, <3>2 DEF Closed
    <2>3. QED
      BY <2>1, <2>2
  <1>7. Holds(w, CafeRow(c), "share") <=> opens
    BY <1>1, <1>2, <1>3 DEF UpdateHolds
  <1>8. UpdateFailure(w) = "none"
    <2>1. ~Taken(w) /\ (Edited(w) # {} => employee[e] # NoRow)
      BY <1>1, <1>2, <1>3, EnteredIsUntaken
    <2>2. Moves(w) /\ seen[w].current # {} => closed # {}
      BY <1>1, <1>2, <1>3 DEF UpdateHolds
    <2>3. opens => Active(e) \subseteq closed /\ employee[e] # NoRow /\ cafe[c] # NoRow
      BY <1>1, <1>2, <1>3, <1>6 DEF UpdateHolds
    <2>4. QED
      BY <2>1, <2>2, <2>3 DEF UpdateFailure
  <1>9. IF Edited(w) # {} THEN SetEmployee(e, Written(w)) ELSE UNCHANGED employee
    <2>1. employee' = [f \in Employees |->
                         IF f = e /\ Edited(w) # {} THEN Written(w) ELSE employee[f]]
      BY <1>1, <1>5 DEF Commit, At
    <2>2. QED
      BY <1>2, <2>1 DEF SetEmployee, TypeOK
  <1>10. /\ assignments' = (assignments \ Closed(w))
                             \cup {[a EXCEPT !.open = FALSE] : a \in Closed(w)}
                             \cup (IF opens THEN {NewRow(e, c)} ELSE {})
         /\ nextId' = IF opens THEN nextId + 1 ELSE nextId
    <2>1. {a \in assignments : Holds(w, AssignmentRow(a), "update")} = {}
      BY <1>5
    <2>2. QED
      BY <1>7, <2>1 DEF Commit
  <1>11. CloseRows(seen[w].current)
           = (assignments \ closed) \cup {[a EXCEPT !.open = FALSE] : a \in closed}
    BY DEF CloseRows
  <1>12. \/ ~Moves(w) /\ UNCHANGED <<assignments, nextId>>
         \/ /\ Moves(w) /\ c = NoCafe
            /\ assignments' = CloseRows(seen[w].current)
            /\ UNCHANGED nextId
         \/ /\ Moves(w) /\ c # NoCafe
            /\ assignments' = CloseRows(seen[w].current) \cup {NewRow(e, c)}
            /\ nextId' = nextId + 1
    <2> HIDE DEF closed
    <2>1. CASE ~Moves(w)
      BY <1>6, <1>10, <2>1
    <2>2. CASE Moves(w)
      BY <1>6, <1>10, <1>11, <2>2
    <2>3. QED
      BY <2>1, <2>2
  <1>13. UNCHANGED <<cafe, retired>> /\ Committed(w, "finish")
    BY <1>5 DEF Commit
  <1>14. ~Blocked(w)
    BY <1>1, FlushedIsFree
  <1>15. QED
    BY <1>1, <1>8, <1>9, <1>12, <1>13, <1>14 DEF CommitUpdateEmployee

LEMMA DeleteImplements ==
  ASSUME TypeOK, RequestInv, Integrity, SeenRows, LockInv, NEW w \in Workers,
         Commit(w), req[w].op = "delete_employee"
  PROVE  CommitDeleteEmployee(w)
  <1> DEFINE e == req[w].employee
  <1> USE WriteConstants
  <1>1. At(w, {"delete_employee"}, "commit") /\ Wanted(w) = {} /\ Flushing(w)
    BY DEF Commit, Flushed, At
  <1>2. DeleteHolds(w) /\ e \in Employees
    BY <1>1 DEF LockInv, Grounded, RequestInv, At
  <1>3. /\ \A f : Holds(w, EmployeeRow(f), "update") <=> f = e /\ employee[e] # NoRow
        /\ \A a : Holds(w, AssignmentRow(a), "update") => \E b \in Rows(e) : SameRow(a, b)
        /\ \A x : ~Holds(w, AssignmentRow(x), "no_key") /\ ~Holds(w, EmployeeRow(x), "no_key")
        /\ \A d, mode : ~Holds(w, CafeRow(d), mode)
    BY <1>1, <1>2, RowsDiffer, DeleteWants DEF DeleteHolds, Holds
  <1>4. {a \in assignments : Holds(w, AssignmentRow(a), "update")} = Rows(e)
    BY <1>1, <1>3, DeleteWants DEF Rows, SameRow
  <1>5. Closed(w) = {}
    BY <1>3 DEF Closed
  <1>6. employee' = [employee EXCEPT ![e] = NoRow]
    <2>1. employee' = [f \in Employees |->
            IF f = e /\ employee[e] # NoRow THEN NoRow ELSE employee[f]]
      BY <1>1, <1>3 DEF Commit, At
    <2>2. QED
      BY <1>2, <2>1 DEF TypeOK
  <1>7. assignments' = assignments \ Rows(e) /\ UNCHANGED <<cafe, nextId, retired>>
        /\ Committed(w, "finish")
    BY <1>1, <1>3, <1>4, <1>5 DEF Commit, At
  <1>8. ~Blocked(w)
    BY <1>1, FlushedIsFree
  <1>9. QED
    BY <1>1, <1>6, <1>7, <1>8 DEF CommitDeleteEmployee, SetEmployee

LEMMA CafeImplements ==
  ASSUME TypeOK, RequestInv, Integrity, SeenRows, LockInv, NEW w \in Workers,
         Commit(w), req[w].op = "delete_cafe"
  PROVE  CommitDeleteCafe(w)
  <1> DEFINE c == req[w].cafe
             gone == {a \in assignments : Holds(w, AssignmentRow(a), "update")}
  <1> USE WriteConstants
  <1>1. At(w, {"delete_cafe"}, "commit") /\ Wanted(w) = {} /\ Flushing(w)
    BY DEF Commit, Flushed, At
  <1>2. CafeHolds(w) /\ c \in Cafes /\ doomed[w] \subseteq Employees
    BY <1>1 DEF LockInv, Grounded, RequestInv, At, TypeOK
  <1>3. /\ \A f : Holds(w, EmployeeRow(f), "update") => f \in doomed[w]
        /\ \A a : Holds(w, AssignmentRow(a), "update") =>
             \E b \in assignments : /\ b.employee \in doomed[w] \/ b.cafe = c
                                    /\ SameRow(a, b)
        /\ \A x : ~Holds(w, AssignmentRow(x), "no_key") /\ ~Holds(w, EmployeeRow(x), "no_key")
        /\ Holds(w, CafeRow(c), "update") => cafe[c] # NoRow
        /\ ~Holds(w, CafeRow(c), "share")
    BY <1>1, <1>2, RowsDiffer DEF CafeHolds, Holds
  <1>4. \A a \in assignments :
          a \in gone <=> a.employee \in doomed[w] \/ a.cafe = c
    <2>1. \A a, b \in assignments : SameRow(a, b) => a = b
      BY DEF Integrity
    <2>2. \A a \in assignments : a.cafe = c => Holds(w, AssignmentRow(a), "update")
      BY <1>1, CafeWants DEF RowsAt
    <2>3. \A a \in assignments : a.employee \in doomed[w]
            => Holds(w, AssignmentRow(a), "update")
      BY <1>1, <1>2 DEF CafeHolds
    <2>4. QED
      BY <1>3, <2>1, <2>2, <2>3
  <1>5. Closed(w) = {}
    BY <1>3 DEF Closed
  <1>6. employee' = [f \in Employees |-> IF f \in doomed[w] THEN NoRow ELSE employee[f]]
    <2>1. \A f \in Employees : Holds(w, EmployeeRow(f), "update") <=> f \in doomed[w]
      BY <1>1, <1>2, <1>3 DEF CafeHolds
    <2>2. employee' = [f \in Employees |->
                         IF ~Holds(w, EmployeeRow(f), "update") THEN employee[f] ELSE NoRow]
      BY <1>1, <1>3 DEF Commit, At
    <2>3. QED
      BY <2>1, <2>2
  <1>7. assignments' = {a \in assignments : a.employee \notin doomed[w] /\ a.cafe # c}
    <2>1. assignments' = assignments \ gone
      BY <1>3, <1>5 DEF Commit
    <2>2. QED
      BY <1>4, <2>1
  <1>8. cafe' = [cafe EXCEPT ![c] = NoRow]
    <2>1. CASE cafe[c] # NoRow
      BY <1>1, <2>1, CafeWants DEF Commit
    <2>2. CASE cafe[c] = NoRow
      BY <1>2, <1>3, <2>2 DEF Commit, TypeOK
    <2>3. QED
      BY <2>1, <2>2
  <1>9. retired' = retired \cup {c} /\ UNCHANGED nextId /\ Committed(w, "finish")
    BY <1>3 DEF Commit
  <1>10. ~Blocked(w)
    BY <1>1, FlushedIsFree
  <1>11. QED
    BY <1>1, <1>6, <1>7, <1>8, <1>9, <1>10 DEF CommitDeleteCafe, SetCafe

\* The bulk DELETE, statement by statement, deletes what DeleteEmployees does.
LEMMA StaffImplements ==
  ASSUME TypeOK, RequestInv, Integrity, SeenRows, LockInv, NEW w \in Workers,
         StaffDeleted(w)
  PROVE  DeleteEmployees(w)
  <1>1. doomed' = [doomed EXCEPT ![w] = {e \in seen[w].staff : employee[e] # NoRow}]
    BY StaffAreHeld DEF StaffDeleted, Existing, TypeOK
  <1>2. ~Blocked(w)
    BY FlushedIsFree DEF StaffDeleted, Flushed, Flushing, At
  <1>3. QED
    BY <1>1, <1>2 DEF StaffDeleted, DeleteEmployees

-------------------------------------------------------------------------------
\* Who waits needs a row that the other holds.
LEMMA WaitIs ==
  ASSUME NEW v \in Workers, NEW w \in Workers, WaitsOn(v, w)
  PROVE  \E lock \in Wanted(v) : \E k \in held[w], l \in Needed(v, lock) :
           l[1] = k[1] /\ Conflict(l[2], k[2])
  BY DEF WaitsOn, Holders

\* What a lock needs besides itself.
LEMMA NeededIs ==
  ASSUME NEW w \in Workers, NEW lock, NEW l \in Needed(w, lock)
  PROVE  \/ l = lock /\ ~Invisible(w, lock)
         \/ \E u \in Enters(w, lock) : \E f \in Rivals(w, u) :
              l = <<EmployeeRow(f), "no_key">>
         \/ /\ lock[1] = OpenEntry(req[w].employee)
            /\ \E a \in Active(req[w].employee) : l = <<AssignmentRow(a), "no_key">>
  BY DEF Needed, Locks

\* The lock on an entry of a unique index, and no other, needs the rows of those who
\* have the value; it is for a column that the statement sets.
LEMMA EntersIs ==
  ASSUME NEW w \in Workers, NEW lock \in Wanted(w), NEW u \in Enters(w, lock)
  PROVE  /\ u \in UniqueColumns /\ u \in Edited(w)
         /\ lock = <<Entry(w, u), "update">> /\ lock \notin held[w]
         /\ \/ At(w, {"create_employee"}, "commit")
            \/ At(w, {"update_employee"}, "commit") /\ u \in Rekeyed(w)
  <1>1. u \in UniqueColumns /\ lock[1] = Entry(w, u)
    BY DEF Enters
  <1>2. \A x : /\ lock[1] # EmployeeRow(x) /\ lock[1] # CafeRow(x)
               /\ lock[1] # OpenEntry(x) /\ lock[1] # AssignmentRow(x)
    BY <1>1, EntriesDiffer
  <1>3. \A x \in UniqueColumns : lock[1] = Entry(w, x) => x = u
    BY <1>1 DEF Entry, UniqueEntry
  <1>4. CASE At(w, {"create_employee"}, "commit")
    <2>1. lock \notin held[w] /\ \E x \in UniqueColumns : lock = <<Entry(w, x), "update">>
      BY <1>2, <1>4, CreateWants
    <2>2. Edited(w) = Columns
      BY <1>4 DEF Edited, At
    <2>3. QED
      BY <1>1, <1>3, <1>4, <2>1, <2>2, OwnEntries
  <1>5. CASE At(w, {"update_employee"}, "commit")
    <2>1. lock \notin held[w] /\ \E x \in Rekeyed(w) : lock = <<Entry(w, x), "update">>
      BY <1>2, <1>5, UpdateWants
    <2>2. QED
      BY <1>1, <1>3, <1>5, <2>1, RowModes
  <1>6. ~At(w, {"delete_employee", "delete_cafe"}, "commit")
        /\ ~At(w, {"delete_cafe"}, "delete_staff")
    BY <1>2, DeleteWants, CafeWants, StaffWants DEF At
  <1>7. QED
    BY <1>4, <1>5, <1>6, OthersWantNothing DEF At

-------------------------------------------------------------------------------
\* A row, or its entry in an index, of somebody in the footprint of a transaction, or
\* the entry of a value in it.
Touches(w, row) ==
  \E x \in Footprint(w) :
    \/ row = EmployeeRow(x) \/ row = OpenEntry(x) \/ row = CafeRow(x)
    \/ \E a \in Assignment : a.employee = x /\ row = AssignmentRow(a)
    \/ row = x /\ \E u \in UniqueColumns : \E y : x = UniqueEntry(u, y)

LEMMA TouchersMeet ==
  ASSUME NEW v \in Workers, NEW w \in Workers, NEW row, Touches(v, row), Touches(w, row)
  PROVE  Footprint(v) \cap Footprint(w) # {}
  BY RowsDiffer, EntriesDiffer DEF Touches, SameRow

\* In a flush, the request's own rows are in its footprint.
LEMMA OwnFootprint ==
  ASSUME TypeOK, RequestInv, NEW w \in Workers,
         \/ At(w, {"create_employee", "update_employee", "delete_employee",
                   "delete_cafe"}, "commit")
         \/ At(w, {"delete_cafe"}, "delete_staff")
  PROVE  /\ req[w].op # "delete_cafe" =>
              req[w].employee \in Footprint(w) /\ req[w].employee \in Employees
         /\ req[w].cafe \in Cafes => req[w].cafe \in Footprint(w)
         /\ seen[w].staff \subseteq Footprint(w)
         /\ req[w].op \in {"create_employee", "update_employee"} =>
              \A u \in UniqueColumns : u \in Edited(w) =>
                Entry(w, u) \in Footprint(w) /\ Rivals(w, u) \subseteq Footprint(w)
         /\ At(w, {"delete_cafe"}, "commit") =>
              \A a \in assignments : a.cafe = req[w].cafe => a.employee \in Footprint(w)
  <1> USE WriteConstants
  <1>1. pc[w] \in {"delete_staff", "commit"}
    BY DEF At
  <1>2. req[w].op # "delete_cafe" => req[w].employee \in Employees
    BY DEF At, RequestInv
  <1>3. seen[w].staff \subseteq Employees
    BY DEF TypeOK, Session
  <1>4. req[w].op \in {"create_employee", "update_employee"} => req[w].details # NoRow
    BY <1>1 DEF RequestInv
  <1>5. At(w, {"delete_cafe"}, "commit") =>
          \A a \in assignments : a.cafe = req[w].cafe =>
            a.employee \in Needs(w) /\ a.employee \in Employees
    BY DEF At, Needs, TypeOK, Assignment
  <1>6. /\ (Employees \cup Cafes) \cap
              ({req[w].employee, req[w].cafe} \cup Needs(w) \cup seen[w].staff)
             \subseteq Footprint(w)
        /\ req[w].details # NoRow =>
             \A u \in UniqueColumns : u \in Edited(w) =>
               {<<u, req[w].details[u]>>} \cup Rivals(w, u) \subseteq Footprint(w)
    BY <1>1 DEF Footprint
  <1>7. \A u : Entry(w, u) = <<u, req[w].details[u]>>
    BY DEF Entry, UniqueEntry
  <1>8. QED
    BY <1>2, <1>3, <1>4, <1>5, <1>6, <1>7

\* What a transaction holds belongs to its footprint.
LEMMA HeldTouches ==
  ASSUME TypeOK, RequestInv, SeenRows, LockInv, NEW w \in Workers, NEW k \in held[w]
  PROVE  Touches(w, k[1])
  <1> DEFINE e == req[w].employee
             c == req[w].cafe
  <1> USE WriteConstants, FlushConstants
  <1>1. Grounded(w)
    BY DEF LockInv
  <1>2. \/ At(w, {"create_employee"}, "commit") \/ At(w, {"update_employee"}, "commit")
        \/ At(w, {"delete_employee"}, "commit") \/ At(w, {"delete_cafe"}, "commit")
        \/ At(w, {"delete_cafe"}, "delete_staff")
    BY <1>1 DEF Grounded, Quiet, At
  <1>3. \/ At(w, {"create_employee", "update_employee", "delete_employee",
                   "delete_cafe"}, "commit")
        \/ At(w, {"delete_cafe"}, "delete_staff")
    BY <1>2 DEF At
  <1>4. \A a \in assignments : a \in Assignment
    BY DEF TypeOK
  <1>5. ASSUME NEW x \in Footprint(w),
               \/ k[1] = EmployeeRow(x) \/ k[1] = OpenEntry(x) \/ k[1] = CafeRow(x)
               \/ \E a \in Assignment : a.employee = x /\ k[1] = AssignmentRow(a)
               \/ k[1] = x /\ \E u \in UniqueColumns : x = Entry(w, u)
        PROVE  Touches(w, k[1])
    BY <1>5 DEF Touches, Entry
  <1>6. CASE At(w, {"create_employee"}, "commit")
    <2>1. \/ \E u \in UniqueColumns : k = <<Entry(w, u), "update">>
          \/ k[1] \in {EmployeeRow(e), OpenEntry(e), CafeRow(c)}
      BY <1>1, <1>6 DEF Grounded, CreateHolds
    <2>2. /\ e \in Footprint(w) /\ c \in Footprint(w)
          /\ \A u \in UniqueColumns : Entry(w, u) \in Footprint(w)
      <3>1. Edited(w) = Columns
        BY <1>6 DEF At, Edited
      <3>2. QED
        BY <1>3, <1>6, <3>1, OwnFootprint, OwnEntries DEF At, RequestInv
    <2>3. QED
      BY <1>5, <2>1, <2>2
  <1>7. CASE At(w, {"update_employee"}, "commit")
    <2>1. \/ \E u \in UniqueColumns : k = <<Entry(w, u), "update">>
          \/ k[1] \in {EmployeeRow(e), OpenEntry(e)}
          \/ k = <<CafeRow(c), "share">>
          \/ \E b \in seen[w].current : k[1] = AssignmentRow(b)
      BY <1>1, <1>7 DEF Grounded, UpdateHolds
    <2>2. e \in Footprint(w)
      BY <1>3, <1>7, OwnFootprint DEF At
    <2>3. CASE k = <<CafeRow(c), "share">>
      <3>1. c # NoCafe
        BY <1>1, <1>7, <2>3 DEF Grounded, UpdateHolds, Holds
      <3>2. c \in Cafes
        BY <1>7, <3>1 DEF At, RequestInv, InProgress
      <3>3. QED
        BY <1>3, <1>5, <2>3, <3>2, OwnFootprint
    <2>4. CASE \E b \in seen[w].current : k[1] = AssignmentRow(b)
      <3>1. PICK b \in seen[w].current : k[1] = AssignmentRow(b)
        BY <2>4
      <3>2. b \in Assignment /\ b.employee = e
        BY <1>7 DEF TypeOK, Session, SeenRows
      <3>3. QED
        BY <1>5, <2>2, <3>1, <3>2
    <2>5. CASE \E u \in UniqueColumns : k = <<Entry(w, u), "update">>
      <3>1. PICK u \in UniqueColumns : k = <<Entry(w, u), "update">>
        BY <2>5
      <3>2. u \in Edited(w)
        BY <1>1, <1>7, <3>1, RowModes DEF Grounded, UpdateHolds, Holds
      <3>3. QED
        BY <1>3, <1>5, <1>7, <3>1, <3>2, OwnFootprint DEF At
    <2>6. QED
      BY <1>5, <2>1, <2>2, <2>3, <2>4, <2>5
  <1>8. CASE At(w, {"delete_employee"}, "commit")
    <2>1. k[1] = EmployeeRow(e) \/ \E a \in Rows(e) : k[1] = AssignmentRow(a)
      BY <1>1, <1>8 DEF Grounded, DeleteHolds
    <2>2. e \in Footprint(w)
      BY <1>3, <1>8, OwnFootprint DEF At
    <2>3. QED
      BY <1>4, <1>5, <2>1, <2>2 DEF Rows
  <1>9. CASE At(w, {"delete_cafe"}, "delete_staff")
    <2>1. \/ \E f \in seen[w].staff : k[1] = EmployeeRow(f)
          \/ \E a \in assignments : a.employee \in seen[w].staff /\ k[1] = AssignmentRow(a)
      BY <1>1, <1>9 DEF Grounded, StaffHolds, Existing
    <2>2. QED
      BY <1>3, <1>4, <1>5, <2>1, OwnFootprint
  <1>10. CASE At(w, {"delete_cafe"}, "commit")
    <2>1. \/ \E f \in doomed[w] : k[1] = EmployeeRow(f)
          \/ \E a \in assignments : /\ a.employee \in doomed[w] \/ a.cafe = c
                                    /\ k[1] = AssignmentRow(a)
          \/ k[1] = CafeRow(c)
      BY <1>1, <1>10 DEF Grounded, CafeHolds
    <2>2. doomed[w] \subseteq Footprint(w)
      BY <1>1, <1>3, OwnFootprint DEF Grounded, Quiet
    <2>3. c \in Footprint(w) /\ \A a \in assignments : a.cafe = c => a.employee \in Footprint(w)
      BY <1>3, <1>10, OwnFootprint DEF At, RequestInv
    <2>4. QED
      BY <1>4, <1>5, <2>1, <2>2, <2>3
  <1>11. QED
    BY <1>2, <1>6, <1>7, <1>8, <1>9, <1>10

\* So does what it waits for.
LEMMA NeededTouches ==
  ASSUME TypeOK, RequestInv, SeenRows, LockInv, NEW w \in Workers,
         NEW lock \in Wanted(w), NEW l \in Needed(w, lock)
  PROVE  Touches(w, l[1])
  <1> DEFINE e == req[w].employee
             c == req[w].cafe
  <1> USE WriteConstants, FlushConstants
  <1>1. Grounded(w)
    BY DEF LockInv
  <1>2. \/ At(w, {"create_employee", "update_employee", "delete_employee",
                   "delete_cafe"}, "commit")
        \/ At(w, {"delete_cafe"}, "delete_staff")
    BY OthersWantNothing
  <1>3. \A a \in assignments : a \in Assignment
    BY DEF TypeOK
  <1>4. ASSUME NEW row, NEW x \in Footprint(w),
               \/ row = EmployeeRow(x) \/ row = OpenEntry(x) \/ row = CafeRow(x)
               \/ \E a \in Assignment : a.employee = x /\ row = AssignmentRow(a)
               \/ row = x /\ \E u \in UniqueColumns : x = Entry(w, u)
        PROVE  Touches(w, row)
    BY <1>4 DEF Touches, Entry
  <1>5. /\ req[w].op # "delete_cafe" => e \in Footprint(w)
        /\ c \in Cafes => c \in Footprint(w)
        /\ seen[w].staff \subseteq Footprint(w)
        /\ req[w].op \in {"create_employee", "update_employee"} =>
             \A u \in UniqueColumns : u \in Edited(w) =>
               Entry(w, u) \in Footprint(w) /\ Rivals(w, u) \subseteq Footprint(w)
        /\ At(w, {"delete_cafe"}, "commit") =>
             \A a \in assignments : a.cafe = req[w].cafe => a.employee \in Footprint(w)
    BY <1>2, OwnFootprint
  <1>6. Touches(w, lock[1])
    <2>1. CASE At(w, {"create_employee"}, "commit")
      <3>1. \/ \E u \in UniqueColumns : lock[1] = Entry(w, u)
            \/ lock[1] \in {EmployeeRow(e), OpenEntry(e), CafeRow(c)}
        BY <2>1, CreateWants
      <3>2. c \in Cafes /\ \A u \in UniqueColumns : u \in Edited(w)
        BY <2>1, OwnEntries DEF At, RequestInv, Edited
      <3>3. QED
        BY <1>4, <1>5, <2>1, <3>1, <3>2 DEF At
    <2>2. CASE At(w, {"update_employee"}, "commit")
      <3>1. \/ \E u \in UniqueColumns : lock[1] = Entry(w, u) /\ u \in Edited(w)
            \/ lock[1] \in {EmployeeRow(e), OpenEntry(e)}
            \/ lock[1] = CafeRow(c) /\ c # NoCafe
            \/ \E b \in seen[w].current : lock[1] = AssignmentRow(b)
        BY <2>2, UpdateWants, RowModes
      <3>2. c # NoCafe => c \in Cafes
        BY <2>2 DEF At, RequestInv, InProgress
      <3>3. \A b \in seen[w].current : b \in Assignment /\ b.employee = e
        BY <2>2 DEF TypeOK, Session, SeenRows
      <3>4. QED
        BY <1>4, <1>5, <2>2, <3>1, <3>2, <3>3 DEF At
    <2>3. CASE At(w, {"delete_employee"}, "commit")
      <3>1. lock[1] = EmployeeRow(e)
            \/ \E a \in assignments : a.employee = e /\ lock[1] = AssignmentRow(a)
        <4>1. \A a \in assignments, b \in UNION loaded[w] : SameRow(a, b) => a.employee = e
          BY <1>1, <2>3 DEF Grounded, LoadedRows, SameRow, At
        <4>2. QED
          BY <2>3, <4>1, DeleteWants DEF Rows
      <3>2. QED
        BY <1>3, <1>4, <1>5, <2>3, <3>1 DEF At
    <2>4. CASE At(w, {"delete_cafe"}, "delete_staff")
      <3>1. \/ \E f \in seen[w].staff : lock[1] = EmployeeRow(f)
            \/ \E a \in assignments : a.employee \in seen[w].staff /\ lock[1] = AssignmentRow(a)
        BY <2>4, StaffWants DEF Existing
      <3>2. QED
        BY <1>3, <1>4, <1>5, <3>1
    <2>5. CASE At(w, {"delete_cafe"}, "commit")
      <3>1. \/ \E a \in assignments : a.cafe = c /\ lock[1] = AssignmentRow(a)
            \/ lock[1] = CafeRow(c)
        <4>1. \A a \in assignments, b \in UNION loaded[w] : SameRow(a, b) => a.cafe = c
          BY <1>1, <2>5 DEF Grounded, LoadedRows, At
        <4>2. QED
          BY <2>5, <4>1, CafeWants DEF RowsAt
      <3>2. c \in Cafes
        BY <2>5 DEF At, RequestInv
      <3>3. QED
        BY <1>3, <1>4, <1>5, <2>5, <3>1, <3>2
    <2>6. QED
      BY <1>2, <2>1, <2>2, <2>3, <2>4, <2>5 DEF At
  <1>7. CASE l = lock
    BY <1>6, <1>7
  <1>8. CASE \E u \in Enters(w, lock) : \E f \in Rivals(w, u) :
               l = <<EmployeeRow(f), "no_key">>
    <2>1. PICK u \in Enters(w, lock) : \E f \in Rivals(w, u) :
                                         l = <<EmployeeRow(f), "no_key">>
      BY <1>8
    <2>2. Rivals(w, u) \subseteq Footprint(w)
      BY <1>5, EntersIs DEF At
    <2>3. QED
      BY <1>4, <2>1, <2>2
  <1>9. CASE /\ lock[1] = OpenEntry(e)
             /\ \E a \in Active(e) : l[1] = AssignmentRow(a)
    <2>1. req[w].op \in {"create_employee", "update_employee"}
      BY <1>2, <1>9, RowsDiffer, DeleteWants, StaffWants, CafeWants DEF At
    <2>2. QED
      BY <1>3, <1>4, <1>5, <1>9, <2>1 DEF Active, Rows
  <1>10. QED
    BY <1>7, <1>8, <1>9, NeededIs

\* A transaction only waits for one that it meets in a row or an entry.
LEMMA WaitsMeet ==
  ASSUME TypeOK, RequestInv, SeenRows, LockInv, NEW v \in Workers, NEW w \in Workers,
         WaitsOn(v, w)
  PROVE  Footprint(v) \cap Footprint(w) # {}
  <1>1. PICK lock \in Wanted(v) : \E k \in held[w], l \in Needed(v, lock) : l[1] = k[1]
    BY WaitIs
  <1>2. PICK k \in held[w], l \in Needed(v, lock) : l[1] = k[1]
    BY <1>1
  <1>3. Touches(w, k[1]) /\ Touches(v, k[1])
    BY <1>2, HeldTouches, NeededTouches
  <1>4. QED
    BY <1>3, TouchersMeet

\* So whoever is in a circle meets one of its neighbours there.
LEMMA CircleMeets ==
  ASSUME TypeOK, RequestInv, SeenRows, LockInv, NEW w \in Workers, InCircle(w)
  PROVE  Deadlocked(w)
  <1>1. PICK u \in Workers : WaitsOn(w, u)
    BY DEF InCircle, Circle
  <1>2. u # w
    BY <1>1 DEF WaitsOn
  <1>3. QED
    BY <1>1, <1>2, WaitsMeet DEF Deadlocked

\* Every step of the statements is a step of WriteServices, or changes nothing of it.
LEMMA AtomicStep ==
  ASSUME TypeOK, RequestInv, Integrity, SeenRows, LockInv, [LockNext]_lockVars
  PROVE  [Next]_vars
  <1> USE FlushConstants
  <1>1. ASSUME NEW w \in Workers, Outside(w)
        PROVE  Begin(w) \/ Step(w)
    BY <1>1 DEF Outside, Step
  <1>2. ASSUME NEW w \in Workers, Execute(w)
        PROVE  Step(w) \/ UNCHANGED vars
    <2>1. PICK lock \in Wanted(w) :
            /\ Holders(w, lock) = {}
            /\ \/ UNCHANGED vars
               \/ Failure(w, lock) # "none" /\ Reject(w, Failure(w, lock))
      BY <1>2 DEF Execute
    <2>2. \/ At(w, {"create_employee"}, "commit")
          \/ At(w, {"update_employee"}, "commit")
          \/ At(w, {"delete_employee", "delete_cafe"}, "commit")
          \/ At(w, {"delete_cafe"}, "delete_staff")
      BY OthersWantNothing DEF At
    <2>3. QED
      BY <2>1, <2>2, CreateFails, UpdateFails, DeletionsDoNotFail DEF Step
  <1>3. ASSUME NEW w \in Workers, Commit(w)
        PROVE  Step(w)
    <2>1. req[w].op \in {"create_employee", "update_employee", "delete_employee",
                         "delete_cafe"}
      BY <1>3 DEF Commit, LockInv, Grounded, Quiet
    <2>2. QED
      BY <1>3, <2>1, CreateImplements, UpdateImplements, DeleteImplements,
         CafeImplements DEF Step
  <1>4. ASSUME NEW w \in Workers, LockStep(w)
        PROVE  Begin(w) \/ Step(w) \/ UNCHANGED vars
    <2>1. CASE Load(w)
      BY <2>1 DEF Load
    <2>2. CASE StaffDeleted(w)
      BY <2>2, StaffImplements DEF Step
    <2>3. CASE CircleVictim(w)
      BY <2>3, CircleMeets DEF CircleVictim, DeadlockVictim, Step
    <2>4. CASE ConnectionLost(w)
      BY <2>4 DEF ConnectionLost, Step
    <2>5. QED
      BY <1>1, <1>2, <1>3, <1>4, <2>1, <2>2, <2>3, <2>4 DEF LockStep
  <1>5. QED
    BY <1>1, <1>4 DEF LockNext, Next, lockVars

-------------------------------------------------------------------------------
\* What every reachable state of the statements satisfies.
AllInv == TypeOK /\ RequestInv /\ Integrity /\ SeenRows /\ LockInv

LEMMA AllInvStep == ASSUME AllInv, [LockNext]_lockVars PROVE AllInv'
  <1>1. [Next]_vars
    BY AtomicStep DEF AllInv
  <1>2. TypeOK' /\ RequestInv'
    BY <1>1, TypeStep DEF AllInv
  <1>3. Integrity'
    BY <1>1, IntegrityStep DEF AllInv
  <1>4. SeenRows'
    BY <1>1, SeenRowsStep DEF AllInv
  <1>5. LockInv'
    BY LockInvStep DEF AllInv
  <1>6. QED
    BY <1>2, <1>3, <1>4, <1>5 DEF AllInv

\* What a lock stands for is true from when it is taken to when it is given back,
\* and no two transactions ever hold locks that conflict.
THEOREM LocksHold == LockSpec => []AllInv
  <1>1. ASSUME LockInit
        PROVE  AllInv
    <2>1. Init
      BY <1>1 DEF LockInit
    <2>2. TypeOK /\ RequestInv /\ Integrity
      BY <2>1, InitTypes, InitIntegrity
    <2>3. SeenRows
      BY <2>1 DEF Init, SeenRows, At
    <2>4. Exclusive /\ DOMAIN held = Workers /\ DOMAIN loaded = Workers
      BY <1>1 DEF LockInit, Exclusive
    <2>5. ASSUME NEW w \in Workers
          PROVE  Grounded(w)
      <3>1. /\ held[w] = {} /\ loaded[w] = {} /\ doomed[w] = {} /\ pc[w] = "idle"
        BY <1>1, <2>1 DEF LockInit, Init
      <3>2. QED
        BY <3>1 DEF Grounded, Quiet, LoadedRows, CreateHolds, UpdateHolds,
             DeleteHolds, StaffHolds, CafeHolds, At
    <2>6. QED
      BY <2>2, <2>3, <2>4, <2>5 DEF AllInv, LockInv
  <1>2. AllInv /\ [LockNext]_lockVars => AllInv'
    BY AllInvStep
  <1>3. QED
    BY <1>1, <1>2, PTL DEF LockSpec

\* Statement by statement, waiting for each other's row locks, in any order and with
\* circles broken at any of their transactions, the flushes do what WriteServices
\* says they do at their COMMIT, and fail only as it says.
THEOREM FlushesAtomic == LockSpec => FlushesAreAtomic
  <1>1. LockInit => Init
    BY DEF LockInit
  <1>2. AllInv /\ [LockNext]_lockVars => [Next]_vars
    BY AtomicStep DEF AllInv
  <1>3. QED
    BY <1>1, <1>2, LocksHold, PTL DEF LockSpec, FlushesAreAtomic, Spec

-------------------------------------------------------------------------------
\* What a deletion wants, it needs and nothing else.
LEMMA DeletionNeeds ==
  ASSUME NEW w \in Workers, req[w].op \in {"delete_employee", "delete_cafe"},
         NEW lock \in Wanted(w), NEW l \in Needed(w, lock)
  PROVE  /\ l = lock
         /\ \/ \E a : l[1] = AssignmentRow(a)
            \/ \E f : l[1] = EmployeeRow(f) /\ employee[f] # NoRow
            \/ \E c : l[1] = CafeRow(c)
  <1>1. \/ At(w, {"delete_employee"}, "commit") \/ At(w, {"delete_cafe"}, "commit")
        \/ At(w, {"delete_cafe"}, "delete_staff")
    BY OthersWantNothing DEF At
  <1>2. \/ \E a : lock[1] = AssignmentRow(a)
        \/ \E f : lock[1] = EmployeeRow(f) /\ employee[f] # NoRow
        \/ \E c : lock[1] = CafeRow(c)
    BY <1>1, DeleteWants, StaffWants, CafeWants DEF Existing
  <1>3. \A x : lock[1] # OpenEntry(x)
    BY <1>2, RowsDiffer
  <1>4. Enters(w, lock) = {}
    BY EntersIs DEF At
  <1>5. QED
    BY <1>2, <1>3, <1>4, NeededIs

\* No deletion waits for an INSERT of an employee that is not over: nobody else sees
\* that employee yet, and the share of the cafe is taken last.
LEMMA DeletionsPassCreations ==
  ASSUME AllInv, NEW v \in Workers, NEW w \in Workers,
         At(v, {"create_employee"}, "commit"), Wanted(v) # {},
         req[w].op \in {"delete_employee", "delete_cafe"}
  PROVE  ~WaitsOn(w, v)
  <1> DEFINE e == req[v].employee
             c == req[v].cafe
  <1> SUFFICES ASSUME WaitsOn(w, v)
               PROVE  FALSE
    OBVIOUS
  <1>1. CreateHolds(v)
    BY DEF AllInv, LockInv, Grounded
  <1>2. PICK lock \in Wanted(w) : \E k \in held[v], l \in Needed(w, lock) : l[1] = k[1]
    BY WaitIs
  <1>3. PICK k \in held[v], l \in Needed(w, lock) : l[1] = k[1]
    BY <1>2
  <1>4. ~Holds(v, CafeRow(c), "share")
    BY <1>1, CreateWants DEF CreateHolds, Holds
  <1>5. \/ k = <<EmployeeRow(e), "update">> \/ k = <<OpenEntry(e), "update">>
        \/ \E u \in UniqueColumns : k = <<Entry(v, u), "update">>
    BY <1>1, <1>4 DEF CreateHolds, Holds
  <1>6. employee[e] = NoRow
    BY <1>1 DEF CreateHolds
  <1>7. \/ \E a : k[1] = AssignmentRow(a)
        \/ \E f : k[1] = EmployeeRow(f) /\ employee[f] # NoRow
        \/ \E d : k[1] = CafeRow(d)
    BY <1>3, DeletionNeeds
  <1>8. QED
    BY <1>5, <1>6, <1>7, RowsDiffer, EntriesDiffer

\* An update of an employee that does not exist (any more) holds at most the entry
\* for the open row, and waits for nobody then.
LEMMA LateUpdatesPass ==
  ASSUME AllInv, NEW w \in Workers, NEW v \in Workers,
         At(w, {"update_employee"}, "commit"), held[w] # {},
         employee[req[w].employee] = NoRow
  PROVE  ~WaitsOn(w, v)
  <1> DEFINE e == req[w].employee
             c == req[w].cafe
  <1> SUFFICES ASSUME NEW lock \in Wanted(w), NEW l \in Needed(w, lock)
               PROVE  FALSE
    BY WaitIs
  <1>1. UpdateHolds(w) /\ \A b \in seen[w].current : b.employee = e
    BY DEF AllInv, LockInv, Grounded, SeenRows
  <1>2. /\ \A mode \in {"update", "no_key", "share"} : ~Holds(w, EmployeeRow(e), mode)
        /\ \A u \in UniqueColumns : ~Holds(w, Entry(w, u), "update")
        /\ ~Holds(w, CafeRow(c), "share")
    BY <1>1 DEF UpdateHolds
  <1>3. \A b \in seen[w].current : ~Holds(w, AssignmentRow(b), "no_key")
    <2>1. \A a \in assignments : a.employee # e
      BY DEF AllInv, Integrity
    <2>2. QED
      BY <1>1, <2>1 DEF UpdateHolds, SameRow
  <1>4. Holds(w, OpenEntry(e), "update")
    BY <1>1, <1>2, <1>3 DEF UpdateHolds, Holds
  <1>5. Entered(w) /\ seen[w].current = {}
    BY <1>1, <1>3, <1>4 DEF UpdateHolds
  <1>6. Edited(w) = {}
    BY <1>2, <1>5, RowModes DEF Entered
  <1>7. lock = <<EmployeeRow(e), "share">>
    BY <1>2, <1>4, <1>5, <1>6, UpdateWants DEF Holds
  <1>8. Invisible(w, lock)
    BY <1>7 DEF Invisible, At
  <1>9. Enters(w, lock) = {} /\ lock[1] # OpenEntry(e)
    BY <1>7, RowsDiffer, EntriesDiffer DEF Enters
  <1>10. QED
    BY <1>8, <1>9, NeededIs

-------------------------------------------------------------------------------
\* An INSERT or UPDATE of an employee is under way.
EntersEmployee(w) == At(w, {"create_employee", "update_employee"}, "commit")

\* It enters the email address before the phone number.
LEMMA EmailFirst ==
  ASSUME AllInv, NEW w \in Workers, EntersEmployee(w),
         NEW lock \in Wanted(w), NEW u \in Enters(w, lock),
         NEW x \in UniqueColumns, Holds(w, Entry(w, x), "update")
  PROVE  u = "phone_number" /\ x = "email_address"
  <1>1. /\ u \in UniqueColumns /\ ~Holds(w, Entry(w, u), "update")
        /\ At(w, {"update_employee"}, "commit") => u \in Rekeyed(w)
    BY EntersIs DEF Holds, At
  <1>2. CreateHolds(w) /\ UpdateHolds(w)
    BY DEF AllInv, LockInv, Grounded
  <1>3. u # "email_address"
    <2>1. CASE At(w, {"create_employee"}, "commit")
      BY <1>1, <1>2, <2>1 DEF CreateHolds
    <2>2. CASE At(w, {"update_employee"}, "commit")
      BY <1>1, <1>2, <2>2 DEF UpdateHolds
    <2>3. QED
      BY <2>1, <2>2 DEF EntersEmployee, At
  <1>4. QED
    BY <1>1, <1>3, OwnEntries

\* v waits at an entry that w is adding, with the same value,
Shares(v, w, u) ==
  /\ u \in UniqueColumns
  /\ \E lock \in Wanted(v) : u \in Enters(v, lock)
  /\ Holds(w, Entry(w, u), "update")
  /\ req[v].details[u] = req[w].details[u]

\* or at one that the employee of w has.
Follows(v, w, u) ==
  /\ u \in UniqueColumns /\ u \in Edited(v)
  /\ \E lock \in Wanted(v) : u \in Enters(v, lock)
  /\ employee[req[w].employee] # NoRow
  /\ req[v].details[u] = employee[req[w].employee][u]

\* Writes of different employees wait for each other for no other reason.
LEMMA WritesMeet ==
  ASSUME AllInv, NEW v \in Workers, NEW w \in Workers, WaitsOn(v, w),
         EntersEmployee(v), EntersEmployee(w), req[v].employee # req[w].employee
  PROVE  \E u \in UniqueColumns : Shares(v, w, u) \/ Follows(v, w, u)
  <1> DEFINE e == req[v].employee
             f == req[w].employee
             c == req[v].cafe
             d == req[w].cafe
  <1>1. PICK lock \in Wanted(v) : \E k \in held[w], l \in Needed(v, lock) :
          l[1] = k[1] /\ Conflict(l[2], k[2])
    BY WaitIs
  <1>2. PICK k \in held[w], l \in Needed(v, lock) : l[1] = k[1] /\ Conflict(l[2], k[2])
    BY <1>1
  <1>3. /\ At(v, {"create_employee"}, "commit") \/ At(v, {"update_employee"}, "commit")
        /\ At(w, {"create_employee"}, "commit") \/ At(w, {"update_employee"}, "commit")
        /\ CreateHolds(w) /\ UpdateHolds(w)
    BY DEF EntersEmployee, At, AllInv, LockInv, Grounded
  <1>4. \/ k[1] \in {EmployeeRow(f), OpenEntry(f)}
        \/ k = <<CafeRow(d), "share">>
        \/ \E u \in UniqueColumns : k = <<Entry(w, u), "update">>
        \/ \E b : b.employee = f /\ k[1] = AssignmentRow(b)
    <2>1. CASE At(w, {"create_employee"}, "commit")
      BY <1>3, <2>1 DEF CreateHolds
    <2>2. CASE At(w, {"update_employee"}, "commit")
      <3>1. \A b \in seen[w].current : b.employee = f
        BY <2>2 DEF AllInv, SeenRows
      <3>2. QED
        BY <1>3, <2>2, <3>1 DEF UpdateHolds
    <2>3. QED
      BY <1>3, <2>1, <2>2
  <1>5. \/ lock[1] \in {EmployeeRow(e), OpenEntry(e)}
        \/ lock = <<CafeRow(c), "share">>
        \/ \E u \in UniqueColumns : lock[1] = Entry(v, u)
        \/ \E b : b.employee = e /\ lock[1] = AssignmentRow(b)
    <2>1. CASE At(v, {"create_employee"}, "commit")
      BY <2>1, CreateWants
    <2>2. CASE At(v, {"update_employee"}, "commit")
      <3>1. \A b \in seen[v].current : b.employee = e
        BY <2>2 DEF AllInv, SeenRows
      <3>2. QED
        BY <2>2, <3>1, UpdateWants, RowModes
    <2>3. QED
      BY <1>3, <2>1, <2>2
  <1>6. \A u \in UniqueColumns : lock[1] = Entry(v, u) => u \in Enters(v, lock)
    <2>1. req[v].details # NoRow
      BY WriteConstants DEF EntersEmployee, At, AllInv, RequestInv
    <2>2. QED
      BY <2>1 DEF Enters
  <1>7. CASE l = lock
    <2>1. CASE lock[1] \in {EmployeeRow(e), OpenEntry(e)}
      BY <1>2, <1>4, <1>7, <2>1, RowsDiffer, EntriesDiffer
    <2>2. CASE lock = <<CafeRow(c), "share">>
      BY <1>2, <1>4, <1>7, <2>2, RowsDiffer, EntriesDiffer, Conflicts
    <2>3. CASE \E b : b.employee = e /\ lock[1] = AssignmentRow(b)
      BY <1>2, <1>4, <1>7, <2>3, RowsDiffer, EntriesDiffer DEF SameRow
    <2>4. CASE \E u \in UniqueColumns : lock[1] = Entry(v, u)
      <3>1. PICK u \in UniqueColumns : lock[1] = Entry(v, u)
        BY <2>4
      <3>2. PICK x \in UniqueColumns : k = <<Entry(w, x), "update">>
        BY <1>2, <1>4, <1>7, <3>1, EntriesDiffer
      <3>3. x = u /\ req[v].details[u] = req[w].details[u]
        BY <1>2, <1>7, <3>1, <3>2 DEF Entry, UniqueEntry
      <3>4. Shares(v, w, u)
        BY <1>6, <3>1, <3>2, <3>3 DEF Shares, Holds
      <3>5. QED
        BY <3>4
    <2>5. QED
      BY <1>5, <2>1, <2>2, <2>3, <2>4
  <1>8. CASE \E u \in Enters(v, lock) : \E g \in Rivals(v, u) :
               l = <<EmployeeRow(g), "no_key">>
    <2>1. PICK u \in Enters(v, lock) : \E g \in Rivals(v, u) :
                                         l = <<EmployeeRow(g), "no_key">>
      BY <1>8
    <2>2. f \in Rivals(v, u)
      BY <1>2, <1>4, <2>1, RowsDiffer, EntriesDiffer
    <2>3. u \in UniqueColumns /\ u \in Edited(v)
      BY EntersIs
    <2>4. Follows(v, w, u)
      BY <2>2, <2>3 DEF Follows, Rivals
    <2>5. QED
      BY <2>3, <2>4
  <1>9. CASE \E a \in Active(e) : l = <<AssignmentRow(a), "no_key">>
    BY <1>2, <1>4, <1>9, RowsDiffer, EntriesDiffer DEF SameRow, Active, Rows
  <1>10. QED
    BY <1>7, <1>8, <1>9, NeededIs

\* An INSERT and another write that wait for each other are of different employees.
LEMMA CreationsAreApart ==
  ASSUME AllInv, NEW v \in Workers, NEW w \in Workers, WaitsOn(v, w), WaitsOn(w, v),
         At(v, {"create_employee"}, "commit"), EntersEmployee(w)
  PROVE  /\ employee[req[v].employee] = NoRow
         /\ req[v].employee # req[w].employee
         /\ At(w, {"create_employee"}, "commit") => employee[req[w].employee] = NoRow
  <1>1. v # w /\ held[v] # {} /\ held[w] # {}
    BY WaitIs DEF WaitsOn
  <1>2. CreateHolds(v) /\ CreateHolds(w)
    BY DEF AllInv, LockInv, Grounded
  <1>3. employee[req[v].employee] = NoRow /\ Holds(v, EmployeeRow(req[v].employee), "update")
    BY <1>1, <1>2 DEF CreateHolds
  <1>4. CASE At(w, {"create_employee"}, "commit")
    <2>1. /\ employee[req[w].employee] = NoRow
          /\ Holds(w, EmployeeRow(req[w].employee), "update")
      BY <1>1, <1>2, <1>4 DEF CreateHolds
    <2>2. \A row : Holds(v, row, "update") => ~Holds(w, row, "update")
      BY <1>1, Conflicts DEF AllInv, LockInv, Exclusive, Holds
    <2>3. QED
      BY <1>3, <2>1, <2>2
  <1>5. CASE At(w, {"update_employee"}, "commit")
    <2>1. employee[req[w].employee] # NoRow
      BY <1>1, <1>5, LateUpdatesPass
    <2>2. QED
      BY <1>3, <1>5, <2>1 DEF At
  <1>6. QED
    BY <1>4, <1>5 DEF EntersEmployee, At

\* Two requests wait for each other only if one of them deletes and neither inserts
\* an employee, if both update one employee, or for unique values: one of the two is
\* leaving a value that the other wants, and either wants one of the other's, or both
\* want one email address.
THEOREM WaitsAreKnown == LockSpec => []MutualWaitsAreKnown
  <1> USE FlushConstants
  <1> DEFINE deletions == {"delete_employee", "delete_cafe"}
             wants(x, y, c) == /\ c \in Edited(x)
                               /\ employee[req[y].employee] # NoRow
                               /\ req[x].details[c] = employee[req[y].employee][c]
             wantsAny(x, y) == \E c \in UniqueColumns : wants(x, y, c)
             either(x, y) == \/ wantsAny(x, y) /\ wantsAny(y, x)
                             \/ /\ req[x].details["email_address"]
                                    = req[y].details["email_address"]
                                /\ wants(x, y, "phone_number") \/ wants(y, x, "phone_number")
  <1>1. ASSUME AllInv, NEW v \in Workers, NEW w \in Workers, EntersEmployee(v), EntersEmployee(w),
               WaitsOn(v, w), WaitsOn(w, v), req[v].employee # req[w].employee
        PROVE  /\ either(v, w)
               /\ \E x \in {v, w} : employee[req[x].employee] # NoRow
    <2>1. PICK u \in UniqueColumns : Shares(v, w, u) \/ Follows(v, w, u)
      BY <1>1, WritesMeet
    <2>2. PICK x \in UniqueColumns : Shares(w, v, x) \/ Follows(w, v, x)
      BY <1>1, WritesMeet
    <2>3. ASSUME Shares(v, w, u)
          PROVE  u = "email_address" /\ x = "phone_number"
      <3>1. PICK lock \in Wanted(w) : x \in Enters(w, lock)
        BY <2>2 DEF Shares, Follows
      <3>2. QED
        BY <1>1, <2>3, <3>1, EmailFirst DEF Shares
    <2>4. ASSUME Shares(w, v, x)
          PROVE  x = "email_address" /\ u = "phone_number"
      <3>1. PICK lock \in Wanted(v) : u \in Enters(v, lock)
        BY <2>1 DEF Shares, Follows
      <3>2. QED
        BY <1>1, <2>4, <3>1, EmailFirst DEF Shares
    <2>5. CASE Follows(v, w, u) /\ Follows(w, v, x)
      BY <2>5 DEF Follows
    <2>6. CASE Shares(v, w, u) /\ Follows(w, v, x)
      BY <2>3, <2>6 DEF Shares, Follows
    <2>7. CASE Follows(v, w, u) /\ Shares(w, v, x)
      BY <2>4, <2>7 DEF Shares, Follows
    <2>8. QED
      BY <2>1, <2>2, <2>3, <2>4, <2>5, <2>6, <2>7
  <1>2. ASSUME AllInv, NEW v \in Workers, NEW w \in Workers,
               WaitsOn(v, w), WaitsOn(w, v), At(v, {"create_employee"}, "commit")
        PROVE  req[w].op = "update_employee" /\ either(v, w)
    <2>1. Wanted(v) # {} /\ Wanted(w) # {}
      BY <1>2 DEF WaitsOn
    <2>2. req[w].op \notin deletions
      BY <1>2, <2>1, DeletionsPassCreations
    <2>3. EntersEmployee(v) /\ EntersEmployee(w)
      BY <1>2, <2>1, <2>2, OthersWantNothing DEF EntersEmployee, At
    <2>4. /\ employee[req[v].employee] = NoRow
          /\ req[v].employee # req[w].employee
          /\ At(w, {"create_employee"}, "commit") => employee[req[w].employee] = NoRow
      BY <1>2, <2>3, CreationsAreApart
    <2>5. either(v, w) /\ employee[req[w].employee] # NoRow
      BY <1>1, <1>2, <2>3, <2>4
    <2>6. QED
      BY <2>3, <2>4, <2>5 DEF EntersEmployee, At
  <1>3. ASSUME AllInv
        PROVE  MutualWaitsAreKnown
    <2> SUFFICES ASSUME NEW v \in Workers, NEW w \in Workers, WaitsOn(v, w), WaitsOn(w, v)
                 PROVE  LET ops == {req[v].op, req[w].op}
                        IN
                        \/ /\ ops \subseteq {"update_employee", "delete_employee", "delete_cafe"}
                           /\ ops # {"update_employee"}
                        \/ /\ ops = {"update_employee"}
                           /\ req[v].employee = req[w].employee
                        \/ /\ "update_employee" \in ops
                           /\ ops \subseteq {"create_employee", "update_employee"}
                           /\ either(v, w)
      BY DEF MutualWaitsAreKnown
    <2>1. ASSUME NEW x \in {v, w}
          PROVE  \/ EntersEmployee(x) /\ req[x].op \in {"create_employee", "update_employee"}
                 \/ req[x].op \in deletions
      <3>1. Wanted(x) # {} /\ x \in Workers
        BY <2>1 DEF WaitsOn
      <3>2. QED
        BY <3>1, OthersWantNothing DEF EntersEmployee, At
    <2>2. CASE req[v].op = "create_employee"
      BY <1>2, <1>3, <2>1, <2>2 DEF EntersEmployee, At
    <2>3. CASE req[w].op = "create_employee"
      <3>1. req[v].op = "update_employee" /\ either(w, v)
        BY <1>2, <1>3, <2>1, <2>3 DEF EntersEmployee, At
      <3>2. QED
        BY <2>3, <3>1
    <2>4. CASE req[v].op = "update_employee" /\ req[w].op = "update_employee"
      <3>1. req[v].employee # req[w].employee => either(v, w)
        BY <1>1, <1>3, <2>1, <2>4
      <3>2. QED
        BY <2>4, <3>1
    <2>5. QED
      BY <2>1, <2>2, <2>3, <2>4
  <1>4. QED
    BY <1>3, LocksHold, PTL

===============================================================================
