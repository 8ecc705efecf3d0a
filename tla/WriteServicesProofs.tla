-------------------------- MODULE WriteServicesProofs --------------------------
(***************************************************************************)
(* Theorems about WriteServices, for any number of request threads,        *)
(* employees, cafes and requests, with and without database failures.      *)
(***************************************************************************)
EXTENDS WriteServices, TLAPS

\* The cafe of a fetched assignment, or None, is what a session may remember.
LEMMA CafeOfType == ASSUME NEW S, S \subseteq Assignment
                    PROVE  CafeOf(S) \in Cafes \cup {NoCafe}
  BY DEF CafeOf, Assignment

\* A session stays one when it remembers what a SELECT returned.
LEMMA SessionType ==
  ASSUME NEW s \in Session
  PROVE  /\ \A x \in Details \cup {NoRow} : [s EXCEPT !.details = x] \in Session
         /\ \A x \in Names \cup {NoRow} : [s EXCEPT !.name = x] \in Session
         /\ \A x \in Cafes \cup {NoCafe} : [s EXCEPT !.previous = x] \in Session
         /\ \A x \in SUBSET Assignment : [s EXCEPT !.current = x] \in Session
         /\ \A x \in SUBSET Employees : [s EXCEPT !.staff = x] \in Session
  BY DEF Session

\* Closing rows keeps them assignments.
LEMMA CloseRowsType == ASSUME assignments \subseteq Assignment, NEW S
                       PROVE  CloseRows(S) \subseteq Assignment
  BY DEF CloseRows, Assignment

\* Nothing the end of a request does disturbs the types.
LEMMA AnswerType ==
  ASSUME TypeOK, RequestInv, NEW w \in Workers,
         NEW status \in Replies, Answer(w, status)
  PROVE  /\ pc' \in [Workers -> Steps]
         /\ req' \in [Workers -> InProgress \cup {NoRequest}]
         /\ seen' \in [Workers -> Session]
         /\ doomed' \in [Workers -> SUBSET Employees]
         /\ reply' \in [Workers -> Replies]
         /\ begun' \in Nat
         /\ RequestInv'
  <1>1. NewSession \in Session
    BY DEF NewSession, Session
  <1>2. pc' \in [Workers -> Steps] /\ pc'[w] = "idle"
        /\ \A v \in Workers \ {w} : pc'[v] = pc[v] /\ req'[v] = req[v]
    BY DEF TypeOK, Answer, Goto, Steps
  <1>3. RequestInv'
    BY <1>2 DEF RequestInv
  <1>4. QED
    BY <1>1, <1>2, <1>3 DEF TypeOK, Answer, Goto

\* What is written is an employee: an INSERT sets all columns, an UPDATE those that
\* it edits of a row.
LEMMA WrittenType ==
  ASSUME NEW w \in Workers, req[w].details \in Details,
         req[w].op # "create_employee" => employee[req[w].employee] \in Details
  PROVE  /\ Written(w) \in Details
         /\ req[w].op = "create_employee" => Written(w) = req[w].details
  BY DEF Written, Details, Edited

LEMMA RejectType ==
  ASSUME TypeOK, RequestInv, NEW w \in Workers,
         NEW status \in Replies, Reject(w, status)
  PROVE  TypeOK' /\ RequestInv'
  BY AnswerType DEF Reject, tables, TypeOK

LEMMA SelectType ==
  ASSUME TypeOK, RequestInv, NEW w \in Workers, NEW session \in Session,
         NEW step \in Steps \ {"idle"}, Select(w, session, step),
         pc[w] # "idle",
         req[w].op = "create_employee" => step \notin {"commit", "finish"}
  PROVE  TypeOK' /\ RequestInv'
  <1>1. TypeOK'
    BY DEF Select, Remember, Goto, tables, TypeOK
  <1>2. RequestInv'
    BY DEF Select, Remember, Goto, tables, TypeOK, RequestInv
  <1>3. QED
    BY <1>1, <1>2

\* A commit keeps the types if what it writes to the tables does.
LEMMA CommittedType ==
  ASSUME TypeOK, RequestInv, NEW w \in Workers, NEW step \in {"refresh", "finish"},
         Committed(w, step), pc[w] = "commit",
         employee' \in [Employees -> Details \cup {NoRow}],
         cafe' \in [Cafes -> Names \cup {NoRow}],
         assignments' \in SUBSET Assignment,
         nextId' \in Nat,
         retired' \in SUBSET Cafes
  PROVE  TypeOK' /\ RequestInv'
  <1>1. Changed \subseteq Employees \cup Cafes
    BY DEF Changed
  <1>2. interfered' \in [Workers -> SUBSET (Employees \cup Cafes)]
    BY <1>1 DEF Committed, TypeOK
  <1>3. CASE Answer(w, "unavailable")
    BY <1>2, <1>3, AnswerType DEF TypeOK, Replies
  <1>4. CASE /\ Goto(w, step)
             /\ doomed' = [doomed EXCEPT ![w] = {}]
             /\ UNCHANGED <<req, seen, reply, begun>>
    <2>1. TypeOK'
      BY <1>2, <1>4 DEF TypeOK, Goto, Steps
    <2>2. RequestInv'
      BY <1>4 DEF TypeOK, Goto, RequestInv
    <2>3. QED
      BY <2>1, <2>2
  <1>5. QED
    BY <1>3, <1>4 DEF Committed

\* Every step keeps the types of the tables and the shape of the requests.
LEMMA TypeStep ==
  ASSUME TypeOK, RequestInv, [Next]_vars
  PROVE  TypeOK' /\ RequestInv'
  <1> USE WriteConstants
  <1>1. ASSUME NEW w \in Workers, Begin(w)
        PROVE  TypeOK' /\ RequestInv'
    <2>1. PICK r \in Requests : req' = [req EXCEPT ![w] = r]
                                /\ Goto(w, FirstStep(r.op))
      BY <1>1 DEF Begin
    <2>2. r \in InProgress /\ FirstStep(r.op) \in {"fetch", "require_cafe", "commit"}
          /\ (r.op = "create_employee" => FirstStep(r.op) = "require_cafe")
      BY DEF Requests, InProgress, AllOps, FirstStep
    <2>3. TypeOK'
      BY <1>1, <2>1, <2>2 DEF Begin, Goto, TypeOK, tables, Steps, Replies
    <2>4. RequestInv'
      BY <2>1, <2>2 DEF Goto, RequestInv, TypeOK, Requests
    <2>5. QED
      BY <2>3, <2>4
  <1>2. ASSUME NEW w \in Workers, FetchEmployee(w)
        PROVE  TypeOK' /\ RequestInv'
    <2>1. req[w].employee \in Employees /\ pc[w] # "idle"
          /\ req[w].op # "create_employee"
      BY <1>2 DEF FetchEmployee, At, RequestInv
    <2>2. [seen[w] EXCEPT !.details = employee[req[w].employee]] \in Session
      BY <2>1, SessionType DEF TypeOK
    <2>3. QED
      BY <1>2, <2>1, <2>2, RejectType, SelectType
         DEF FetchEmployee, Replies, Steps
  <1>3. ASSUME NEW w \in Workers, FetchCafe(w)
        PROVE  TypeOK' /\ RequestInv'
    <2>1. req[w].cafe \in Cafes /\ pc[w] # "idle" /\ req[w].op # "create_employee"
      BY <1>3 DEF FetchCafe, At, RequestInv
    <2>2. [seen[w] EXCEPT !.name = cafe[req[w].cafe]] \in Session
      BY <2>1, SessionType DEF TypeOK
    <2>3. QED
      BY <1>3, <2>1, <2>2, RejectType, SelectType
         DEF FetchCafe, Replies, Steps
  <1>4. ASSUME NEW w \in Workers, FetchPrevious(w)
        PROVE  TypeOK' /\ RequestInv'
    <2>1. pc[w] # "idle" /\ req[w].op # "create_employee"
      BY <1>4 DEF FetchPrevious, At
    <2>2. CafeOf(Active(req[w].employee)) \in Cafes \cup {NoCafe}
      BY CafeOfType DEF Active, Rows, TypeOK
    <2>3. [seen[w] EXCEPT !.previous = CafeOf(Active(req[w].employee))]
            \in Session
      BY <2>2, SessionType DEF TypeOK
    <2>4. QED
      BY <1>4, <2>1, <2>3, SelectType DEF FetchPrevious, Steps
  <1>5. ASSUME NEW w \in Workers, RequireCafe(w)
        PROVE  TypeOK' /\ RequestInv'
    <2>1. pc[w] # "idle" /\ seen[w] \in Session
      BY <1>5 DEF RequireCafe, At, TypeOK
    <2>2. QED
      BY <1>5, <2>1, RejectType, SelectType DEF RequireCafe, Replies, Steps
  <1>6. ASSUME NEW w \in Workers, FetchCurrent(w)
        PROVE  TypeOK' /\ RequestInv'
    <2>1. pc[w] # "idle" /\ req[w].op = "update_employee"
      BY <1>6 DEF FetchCurrent, At
    <2>2. [seen[w] EXCEPT !.current = Active(req[w].employee)] \in Session
      <3>1. Active(req[w].employee) \subseteq Assignment
        BY DEF TypeOK, Active, Rows
      <3>2. QED
        BY <3>1, SessionType DEF TypeOK
    <2>3. QED
      BY <1>6, <2>1, <2>2, SelectType DEF FetchCurrent, Steps
  <1>7. ASSUME NEW w \in Workers, CreateUniqueEmployeeId(w)
        PROVE  TypeOK' /\ RequestInv'
    <2>1. CASE Reject(w, "ids_exhausted")
      BY <2>1, RejectType DEF Replies
    <2>2. CASE \E e \in Employees :
                 /\ employee[e] = NoRow
                 /\ req' = [req EXCEPT ![w].employee = e]
                 /\ Goto(w, "commit")
                 /\ UNCHANGED <<tables, seen, doomed, reply, begun, interfered>>
      <3>1. PICK e \in Employees :
                 /\ req' = [req EXCEPT ![w].employee = e]
                 /\ Goto(w, "commit")
                 /\ UNCHANGED <<tables, seen, doomed, reply, begun, interfered>>
        BY <2>2
      <3>2. pc[w] = "pick_id" /\ req[w].op = "create_employee"
            /\ req[w] \in InProgress
        BY <1>7 DEF CreateUniqueEmployeeId, At, RequestInv
      <3>3. /\ [req[w] EXCEPT !.employee = e] \in InProgress
            /\ req' = [req EXCEPT ![w] = [req[w] EXCEPT !.employee = e]]
        BY <3>1, <3>2 DEF InProgress
      <3>4. TypeOK'
        BY <3>1, <3>3 DEF TypeOK, Goto, tables, Steps
      <3>5. RequestInv'
        BY <3>1, <3>2, <3>3 DEF RequestInv, Goto, TypeOK, InProgress
      <3>6. QED
        BY <3>4, <3>5
    <2>3. QED
      BY <1>7, <2>1, <2>2 DEF CreateUniqueEmployeeId
  <1>8. ASSUME NEW w \in Workers, FetchStaff(w)
        PROVE  TypeOK' /\ RequestInv'
    <2>1. pc[w] # "idle" /\ req[w].op # "create_employee"
      BY <1>8 DEF FetchStaff, At
    <2>2. [seen[w] EXCEPT !.staff = Staff(req[w].cafe)] \in Session
      <3>1. Staff(req[w].cafe) \subseteq Employees
        BY DEF Staff
      <3>2. QED
        BY <3>1, SessionType DEF TypeOK
    <2>3. QED
      BY <1>8, <2>1, <2>2, SelectType DEF FetchStaff, Steps
  <1>9. ASSUME NEW w \in Workers, CommitCreateEmployee(w)
        PROVE  TypeOK' /\ RequestInv'
    <2>1. pc[w] = "commit" /\ pc[w] # "idle" /\ req[w].op = "create_employee"
      BY <1>9 DEF CommitCreateEmployee, At
    <2>2. /\ req[w].employee \in Employees
          /\ req[w].details \in Details
          /\ req[w].cafe \in Cafes
      BY <2>1 DEF RequestInv
    <2>3. CASE \E failure \in {"conflict", "taken"} : Reject(w, failure)
      BY <2>3, RejectType DEF Replies
    <2>4. CASE /\ SetEmployee(req[w].employee, Written(w))
               /\ assignments' = assignments \cup
                                   {NewRow(req[w].employee, req[w].cafe)}
               /\ nextId' = nextId + 1
               /\ UNCHANGED <<cafe, retired>>
               /\ Committed(w, "finish")
      <3>1. NewRow(req[w].employee, req[w].cafe) \in Assignment
        BY <2>2 DEF NewRow, Assignment, TypeOK
      <3>2. QED
        BY <2>1, <2>2, <2>4, <3>1, WrittenType, CommittedType DEF SetEmployee, TypeOK
    <2>5. QED
      BY <1>9, <2>3, <2>4 DEF CommitCreateEmployee
  <1>10. ASSUME NEW w \in Workers, CommitUpdateEmployee(w)
         PROVE  TypeOK' /\ RequestInv'
    <2>1. pc[w] = "commit" /\ req[w].op = "update_employee"
      BY <1>10 DEF CommitUpdateEmployee, At
    <2>2. /\ req[w].employee \in Employees
          /\ req[w].details \in Details
          /\ req[w].cafe \in Cafes \cup {NoCafe}
      BY <2>1 DEF RequestInv, InProgress
    <2>3. CASE Reject(w, UpdateFailure(w))
      <3>1. UpdateFailure(w) \in Replies
        BY DEF UpdateFailure, Replies
      <3>2. QED
        BY <2>3, <3>1, RejectType
    <2>4. CASE UpdateFailure(w) = "none" /\ Committed(w, "finish")
      <3>1. employee' \in [Employees -> Details \cup {NoRow}]
            /\ cafe' = cafe /\ retired' = retired
        <4>1. CASE Edited(w) # {}
          <5>1. employee[req[w].employee] \in Details
            BY <2>2, <2>4, <4>1 DEF UpdateFailure, TypeOK
          <5>2. QED
            BY <1>10, <2>2, <2>4, <2>3, <5>1, WrittenType
               DEF CommitUpdateEmployee, SetEmployee, TypeOK
        <4>2. CASE Edited(w) = {}
          BY <1>10, <2>4, <2>3, <4>2 DEF CommitUpdateEmployee, TypeOK
        <4>3. QED
          BY <4>1, <4>2
      <3>2. assignments' \in SUBSET Assignment /\ nextId' \in Nat
        <4>1. CASE UNCHANGED <<assignments, nextId>>
          BY <4>1 DEF TypeOK
        <4>2. CASE /\ assignments' = CloseRows(seen[w].current)
                   /\ UNCHANGED nextId
          BY <4>2, CloseRowsType DEF TypeOK
        <4>3. CASE /\ req[w].cafe # NoCafe
                   /\ assignments' = CloseRows(seen[w].current) \cup
                                       {NewRow(req[w].employee, req[w].cafe)}
                   /\ nextId' = nextId + 1
          <5>1. NewRow(req[w].employee, req[w].cafe) \in Assignment
            BY <2>2, <4>3 DEF NewRow, Assignment, TypeOK
          <5>2. QED
            BY <4>3, <5>1, CloseRowsType DEF TypeOK
        <4>4. QED
          BY <1>10, <2>3, <2>4, <4>1, <4>2, <4>3 DEF CommitUpdateEmployee
      <3>3. QED
        BY <2>1, <2>4, <3>1, <3>2, CommittedType DEF TypeOK
    <2>5. QED
      BY <1>10, <2>3, <2>4 DEF CommitUpdateEmployee
  <1>11. ASSUME NEW w \in Workers, CommitDeleteEmployee(w)
         PROVE  TypeOK' /\ RequestInv'
    BY <1>11, CommittedType
       DEF CommitDeleteEmployee, At, SetEmployee, TypeOK
  <1>12. ASSUME NEW w \in Workers, CommitCreateCafe(w)
         PROVE  TypeOK' /\ RequestInv'
    <2>1. pc[w] = "commit" /\ req[w].name \in Names
      BY <1>12 DEF CommitCreateCafe, At, RequestInv
    <2>2. QED
      BY <1>12, <2>1, CommittedType DEF CommitCreateCafe, SetCafe, TypeOK
  <1>13. ASSUME NEW w \in Workers, CommitUpdateCafe(w)
         PROVE  TypeOK' /\ RequestInv'
    <2>1. pc[w] = "commit" /\ req[w].name \in Names
      BY <1>13 DEF CommitUpdateCafe, At, RequestInv
    <2>2. CASE Reject(w, "server_error")
      BY <2>2, RejectType DEF Replies
    <2>3. CASE cafe' \in [Cafes -> Names \cup {NoRow}]
               /\ UNCHANGED <<employee, assignments, nextId, retired>>
               /\ Committed(w, "refresh")
      BY <2>1, <2>3, CommittedType DEF TypeOK
    <2>4. QED
      BY <1>13, <2>1, <2>2, <2>3 DEF CommitUpdateCafe, SetCafe, TypeOK
  <1>14. ASSUME NEW w \in Workers, DeleteEmployees(w)
         PROVE  TypeOK' /\ RequestInv'
    <2>1. pc[w] = "delete_staff" /\ req[w].op = "delete_cafe"
      BY <1>14 DEF DeleteEmployees, At
    <2>2. seen[w].staff \subseteq Employees
      BY DEF TypeOK, Session
    <2>3. TypeOK'
      BY <1>14, <2>2 DEF DeleteEmployees, Goto, tables, TypeOK, Steps
    <2>4. RequestInv'
      BY <1>14, <2>1 DEF DeleteEmployees, Goto, tables, TypeOK, RequestInv
    <2>5. QED
      BY <2>3, <2>4
  <1>15. ASSUME NEW w \in Workers, CommitDeleteCafe(w)
         PROVE  TypeOK' /\ RequestInv'
    <2>1. pc[w] = "commit" /\ req[w].cafe \in Cafes
      BY <1>15 DEF CommitDeleteCafe, At, RequestInv
    <2>2. QED
      BY <1>15, <2>1, CommittedType DEF CommitDeleteCafe, SetCafe, TypeOK
  <1>16. ASSUME NEW w \in Workers, Refresh(w)
         PROVE  TypeOK' /\ RequestInv'
    <2>1. pc[w] # "idle" /\ seen[w] \in Session /\ req[w].op # "create_employee"
      BY <1>16 DEF Refresh, At, TypeOK
    <2>2. QED
      BY <1>16, <2>1, RejectType, SelectType DEF Refresh, Replies, Steps
  <1>17. ASSUME NEW w \in Workers,
                Finish(w) \/ DeadlockVictim(w) \/ DatabaseFails(w)
         PROVE  TypeOK' /\ RequestInv'
    BY <1>17, RejectType
       DEF Finish, DeadlockVictim, DatabaseFails, Replies
  <1>18. CASE UNCHANGED vars
    BY <1>18 DEF vars, tables, TypeOK, RequestInv
  <1>19. QED
    BY <1>1, <1>2, <1>3, <1>4, <1>5, <1>6, <1>7, <1>8, <1>9, <1>10, <1>11,
       <1>12, <1>13, <1>14, <1>15, <1>16, <1>17, <1>18 DEF Next, Step

\* A seeded database, and no request.
LEMMA InitTypes == ASSUME Init PROVE TypeOK /\ RequestInv
  <1>1. assignments \subseteq Assignment
    <2>1. \A e \in Employees, c \in Cafes, isOpen \in BOOLEAN :
            SeededRow(e, c, isOpen) \in Assignment
      BY DEF SeededRow, Assignment
    <2>2. PICK job \in [InitialEmployees -> InitialCafes \cup {NoCafe}],
               past \in [InitialEmployees -> InitialHistory \cup {NoCafe}] :
            assignments =
              {SeededRow(e, job[e], TRUE) :
                 e \in {f \in InitialEmployees : job[f] # NoCafe}} \cup
              {SeededRow(e, past[e], FALSE) :
                 e \in {f \in InitialEmployees : past[f] # NoCafe}}
      BY DEF Init
    <2>3. \A e \in InitialEmployees :
            /\ e \in Employees
            /\ job[e] # NoCafe => job[e] \in Cafes
            /\ past[e] # NoCafe => past[e] \in Cafes
      BY WriteConstants
    <2>4. QED
      BY <2>1, <2>2, <2>3
  <1>2. NewSession \in Session
    BY DEF NewSession, Session
  <1>3. TypeOK
    <2>1. /\ pc \in [Workers -> Steps]
          /\ req \in [Workers -> InProgress \cup {NoRequest}]
          /\ seen \in [Workers -> Session]
          /\ doomed \in [Workers -> SUBSET Employees]
          /\ reply \in [Workers -> Replies]
          /\ interfered \in [Workers -> SUBSET (Employees \cup Cafes)]
      BY <1>2 DEF Init, Steps, Replies
    <2>2. nextId \in Nat /\ begun \in Nat /\ retired \in SUBSET Cafes
      BY DEF Init
    <2>3. /\ employee \in [Employees -> Details \cup {NoRow}]
          /\ cafe \in [Cafes -> Names \cup {NoRow}]
      BY DEF Init
    <2>4. QED
      BY <1>1, <2>1, <2>2, <2>3 DEF TypeOK
  <1>4. RequestInv
    BY DEF Init, RequestInv
  <1>5. QED
    BY <1>3, <1>4

\* Every reachable state is well typed, whatever fails and whoever interleaves.
THEOREM TypeCorrect == Spec => [](TypeOK /\ RequestInv)
  <1>1. Init => TypeOK /\ RequestInv
    BY InitTypes
  <1>2. TypeOK /\ RequestInv /\ [Next]_vars => TypeOK' /\ RequestInv'
    BY TypeStep
  <1>3. QED
    BY <1>1, <1>2, PTL DEF Spec

-------------------------------------------------------------------------------
\* The steps that can change a table.
Writes(w) ==
  \/ CommitCreateEmployee(w) \/ CommitUpdateEmployee(w)
  \/ CommitDeleteEmployee(w) \/ CommitCreateCafe(w)
  \/ CommitUpdateCafe(w) \/ CommitDeleteCafe(w)

LEMMA OnlyCommitsWrite ==
  ASSUME [Next]_vars, \A w \in Workers : ~Writes(w)
  PROVE  UNCHANGED tables
  BY DEF Next, Step, Writes, vars, Begin, Select, Reject, FetchEmployee,
         FetchCafe, FetchPrevious, RequireCafe, FetchCurrent,
         CreateUniqueEmployeeId, FetchStaff, DeleteEmployees, Refresh, Finish,
         DeadlockVictim, DatabaseFails

\* Closing rows changes no key, reference or owner, and opens nothing.
LEMMA CloseRowsKeeps ==
  ASSUME assignments \subseteq Assignment, NEW S
  PROVE  /\ \A b \in CloseRows(S) : \E a \in assignments :
              /\ SameRow(a, b) /\ a.cafe = b.cafe
              /\ b.open => a.open /\ ~\E c \in S : SameRow(a, c)
              /\ b = IF \E c \in S : SameRow(a, c)
                       THEN [a EXCEPT !.open = FALSE] ELSE a
  <1> DEFINE Image(a) == IF \E c \in S : SameRow(a, c)
                           THEN [a EXCEPT !.open = FALSE] ELSE a
  <1>1. \A a \in assignments :
          /\ SameRow(a, Image(a)) /\ a.cafe = Image(a).cafe
          /\ Image(a).open => a.open /\ ~\E c \in S : SameRow(a, c)
    BY DEF Assignment, SameRow
  <1>2. CloseRows(S) = {Image(a) : a \in assignments}
    BY DEF CloseRows, SameRow
  <1> HIDE DEF Image
  <1>3. \A b \in CloseRows(S) : \E a \in assignments : b = Image(a)
    BY <1>2
  <1>5. \A b \in CloseRows(S) : \E a \in assignments :
          /\ SameRow(a, b) /\ a.cafe = b.cafe
          /\ b.open => a.open /\ ~\E c \in S : SameRow(a, c)
          /\ b = Image(a)
    BY <1>1, <1>3
  <1>6. QED
    BY <1>5 DEF Image

\* No row is lost by closing rows.
LEMMA CloseRowsLosesNone ==
  ASSUME assignments \subseteq Assignment, NEW S, NEW a \in assignments
  PROVE  \E b \in CloseRows(S) :
           SameRow(a, b) /\ a.cafe = b.cafe /\ (b.open => a.open)
  <1>1. CASE \E c \in S : SameRow(a, c)
    <2>1. [a EXCEPT !.open = FALSE] \in CloseRows(S)
      BY <1>1 DEF CloseRows
    <2>2. /\ SameRow(a, [a EXCEPT !.open = FALSE])
          /\ a.cafe = [a EXCEPT !.open = FALSE].cafe
          /\ ~[a EXCEPT !.open = FALSE].open
      BY DEF SameRow, Assignment
    <2>3. QED
      BY <2>1, <2>2
  <1>2. CASE ~\E c \in S : SameRow(a, c)
    <2>1. a \in CloseRows(S)
      BY <1>2 DEF CloseRows
    <2>2. QED
      BY <2>1 DEF SameRow
  <1>3. QED
    BY <1>1, <1>2

\* The keys of a set of rows: used ones only, none twice, none open twice.
Keyed(S, n) ==
  /\ \A a \in S : a.id < n
  /\ \A a, b \in S : SameRow(a, b) => a = b
  /\ \A a, b \in S : a.employee = b.employee /\ a.open /\ b.open => a = b

\* Adding an open row of an employee without one keeps the keys.
LEMMA InsertKeepsKeys ==
  ASSUME NEW S, S \subseteq Assignment, NEW e, NEW c, nextId \in Nat,
         Keyed(S, nextId), \A a \in S : a.employee = e => ~a.open
  PROVE  Keyed(S \cup {NewRow(e, c)}, nextId + 1)
  <1> DEFINE new == NewRow(e, c)
  <1>1. new.id = nextId /\ new.employee = e /\ new.open
    BY DEF NewRow
  <1>2. \A a \in S : a.id \in Nat /\ a.id < nextId
    BY DEF Assignment, Keyed
  <1> HIDE DEF new
  <1>3. \A a \in S : a.id # new.id
    BY <1>1, <1>2
  <1>4. \A a \in S \cup {new} : a.id < nextId + 1
    BY <1>1, <1>2
  <1>5. \A a, b \in S \cup {new} : SameRow(a, b) => a = b
    BY <1>3 DEF SameRow, Keyed
  <1>6. \A a, b \in S \cup {new} :
          a.employee = b.employee /\ a.open /\ b.open => a = b
    BY <1>1 DEF Keyed
  <1>7. QED
    BY <1>4, <1>5, <1>6 DEF new, Keyed

\* Closing rows keeps the keys.
LEMMA CloseKeepsKeys ==
  ASSUME assignments \subseteq Assignment, NEW S, Keyed(assignments, nextId)
  PROVE  Keyed(CloseRows(S), nextId)
  <1> DEFINE Image(a) == IF \E c \in S : SameRow(a, c)
                           THEN [a EXCEPT !.open = FALSE] ELSE a
  <1>1. \A b \in CloseRows(S) : \E a \in assignments :
          /\ SameRow(a, b) /\ (b.open => a.open) /\ b = Image(a)
    BY CloseRowsKeeps
  <1> HIDE DEF Image
  <1>2. \A b \in CloseRows(S) : b.id < nextId
    BY <1>1 DEF SameRow, Keyed
  <1>3. ASSUME NEW x \in CloseRows(S), NEW y \in CloseRows(S), SameRow(x, y)
        PROVE  x = y
    <2>1. PICK a \in assignments : SameRow(a, x) /\ x = Image(a)
      BY <1>1
    <2>2. PICK b \in assignments : SameRow(b, y) /\ y = Image(b)
      BY <1>1
    <2>3. a = b
      BY <1>3, <2>1, <2>2 DEF SameRow, Keyed
    <2>4. QED
      BY <2>1, <2>2, <2>3
  <1>4. ASSUME NEW x \in CloseRows(S), NEW y \in CloseRows(S),
               x.employee = y.employee, x.open, y.open
        PROVE  x = y
    <2>1. PICK a \in assignments : SameRow(a, x) /\ a.open /\ x = Image(a)
      BY <1>1, <1>4
    <2>2. PICK b \in assignments : SameRow(b, y) /\ b.open /\ y = Image(b)
      BY <1>1, <1>4
    <2>3. a = b
      BY <1>4, <2>1, <2>2 DEF SameRow, Keyed
    <2>4. QED
      BY <2>1, <2>2, <2>3
  <1>5. QED
    BY <1>2, <1>3, <1>4 DEF Keyed

\* What the two unique indexes promise.
UniqueValues ==
  \A x, y \in Employees :
    employee[x] # NoRow /\ employee[y] # NoRow /\ x # y =>
      \A c \in UniqueColumns : employee[x][c] # employee[y][c]

\* A row that no other rivals keeps their promise.
LEMMA WrittenIsUnique ==
  ASSUME TypeOK, UniqueValues, NEW w \in Workers, req[w].employee \in Employees,
         ~Taken(w), employee[req[w].employee] = NoRow => req[w].op = "create_employee",
         employee' = [employee EXCEPT ![req[w].employee] = Written(w)]
  PROVE  UniqueValues'
  <1> DEFINE e == req[w].employee
  <1>1. ASSUME NEW y \in Employees, y # e, employee[y] # NoRow,
               NEW c \in UniqueColumns
        PROVE  Written(w)[c] # employee[y][c]
    <2>1. c \in Columns
      BY DEF UniqueColumns, Columns
    <2>2. CASE c \in Edited(w)
      BY <1>1, <2>1, <2>2 DEF Taken, Rivals, Written
    <2>3. CASE c \notin Edited(w)
      <3>1. Written(w)[c] = employee[e][c] /\ employee[e] # NoRow
        BY <2>1, <2>3 DEF Written, Edited
      <3>2. QED
        BY <1>1, <3>1 DEF UniqueValues
    <2>4. QED
      BY <2>2, <2>3
  <1>2. \A y \in Employees : employee'[y] = IF y = e THEN Written(w) ELSE employee[y]
    BY DEF TypeOK
  <1>3. QED
    BY <1>1, <1>2 DEF UniqueValues

LEMMA IntegrityKeys == Integrity => Keyed(assignments, nextId)
  BY DEF Integrity, Keyed

\* No commit, of whichever operation, breaks what the schema promises.
LEMMA IntegrityStep ==
  ASSUME TypeOK, RequestInv, Integrity, [Next]_vars
  PROVE  Integrity'
  <1> USE WriteConstants
  <1>1. ASSUME NEW w \in Workers, CommitCreateEmployee(w)
        PROVE  Integrity'
    <2> DEFINE e == req[w].employee
               c == req[w].cafe
    <2>1. e \in Employees /\ c \in Cafes /\ req[w].details \in Details
      BY <1>1 DEF CommitCreateEmployee, At, RequestInv
    <2>2. CASE UNCHANGED tables
      BY <2>2 DEF tables, Integrity, SameRow
    <2>3. CASE /\ employee[e] = NoRow /\ ~Taken(w) /\ cafe[c] # NoRow
               /\ SetEmployee(e, Written(w))
               /\ assignments' = assignments \cup {NewRow(e, c)}
               /\ nextId' = nextId + 1
               /\ UNCHANGED <<cafe, retired>>
      <3>1. \A a \in assignments : a.employee # e
        BY <2>3 DEF Integrity
      <3>2. Keyed(assignments', nextId')
        <4>1. Keyed(assignments, nextId)
          BY IntegrityKeys
        <4>2. QED
          BY <2>3, <3>1, <4>1, InsertKeepsKeys DEF TypeOK
      <3>3. \A a \in assignments' :
              employee'[a.employee] # NoRow /\ cafe'[a.cafe] # NoRow
        <4>1. Written(w) # NoRow
          BY <1>1, <2>1, WrittenType DEF CommitCreateEmployee, At
        <4>2. QED
          BY <2>1, <2>3, <4>1 DEF Integrity, TypeOK, SetEmployee, NewRow, Assignment
      <3>4. UniqueValues'
        BY <1>1, <2>1, <2>3, WrittenIsUnique
           DEF CommitCreateEmployee, At, SetEmployee, Integrity, UniqueValues
      <3>5. QED
        BY <3>2, <3>3, <3>4 DEF Integrity, Keyed, SameRow, UniqueValues
    <2>4. QED
      BY <1>1, <2>2, <2>3 DEF CommitCreateEmployee, Reject
  <1>2. ASSUME NEW w \in Workers, CommitUpdateEmployee(w)
        PROVE  Integrity'
    <2> DEFINE e == req[w].employee
               c == req[w].cafe
               S == CloseRows(seen[w].current)
    <2>1. /\ e \in Employees /\ c \in Cafes \cup {NoCafe}
          /\ req[w].details \in Details
      BY <1>2 DEF CommitUpdateEmployee, At, RequestInv, InProgress
    <2>2. CASE UNCHANGED tables
      BY <2>2 DEF tables, Integrity, SameRow
    <2>3. CASE UpdateFailure(w) = "none" /\ ~UNCHANGED tables
      <3>0. UNCHANGED cafe
        BY <1>2, <2>3 DEF CommitUpdateEmployee, Reject
      <3>1. /\ UniqueValues'
            /\ \A x \in Employees : employee[x] # NoRow => employee'[x] # NoRow
        <4>1. CASE UNCHANGED employee
          BY <4>1 DEF Integrity, UniqueValues
        <4>2. CASE Edited(w) # {} /\ SetEmployee(e, Written(w))
          <5>1. ~Taken(w) /\ employee[e] \in Details
            BY <2>1, <2>3, <4>2 DEF UpdateFailure, TypeOK
          <5>2. Written(w) # NoRow
            BY <2>1, <5>1, WrittenType
          <5>3. UniqueValues'
            <6>1. UniqueValues /\ employee[e] # NoRow
              BY <5>1 DEF Integrity, UniqueValues
            <6>2. employee' = [employee EXCEPT ![e] = Written(w)]
              BY <4>2 DEF SetEmployee
            <6>3. QED
              BY <2>1, <5>1, <6>1, <6>2, WrittenIsUnique
          <5>4. QED
            BY <2>1, <4>2, <5>2, <5>3 DEF TypeOK, SetEmployee
        <4>3. QED
          BY <1>2, <2>3, <4>1, <4>2 DEF CommitUpdateEmployee, Reject
      <3>2. S \subseteq Assignment
        BY CloseRowsType DEF TypeOK
      <3>3. Keyed(S, nextId)
            /\ \A a \in S : employee[a.employee] # NoRow /\ cafe[a.cafe] # NoRow
        <4>1. Keyed(S, nextId)
          BY IntegrityKeys, CloseKeepsKeys DEF TypeOK
        <4>2. \A b \in S : \E a \in assignments :
                SameRow(a, b) /\ a.cafe = b.cafe
          BY CloseRowsKeeps DEF TypeOK
        <4>3. QED
          BY <4>1, <4>2 DEF SameRow, Integrity
      <3>4. CASE UNCHANGED <<assignments, nextId>>
        BY <3>0, <3>1, <3>4 DEF Integrity, SameRow, TypeOK, Assignment, UniqueValues
      <3>5. CASE assignments' = S /\ UNCHANGED nextId
        BY <3>0, <3>1, <3>2, <3>3, <3>5
           DEF Integrity, Keyed, SameRow, Assignment, UniqueValues
      <3>6. CASE /\ Moves(w) /\ c # NoCafe
                 /\ assignments' = S \cup {NewRow(e, c)}
                 /\ nextId' = nextId + 1
        <4>1. /\ employee[e] # NoRow /\ cafe[c] # NoRow
              /\ \A a \in Active(e) : \E b \in seen[w].current : SameRow(a, b)
          BY <2>1, <2>3, <3>6 DEF UpdateFailure, Active, Rows
        <4>2. \A a \in S : a.employee = e => ~a.open
          BY <4>1, CloseRowsKeeps DEF SameRow, Active, Rows, TypeOK
        <4>3. Keyed(assignments', nextId')
          BY <3>2, <3>3, <3>6, <4>2, InsertKeepsKeys DEF TypeOK
        <4>4. \A a \in assignments' :
                employee'[a.employee] # NoRow /\ cafe'[a.cafe] # NoRow
          <5>1. NewRow(e, c).employee = e /\ NewRow(e, c).cafe = c
            BY DEF NewRow
          <5>2. \A a \in S : a.employee \in Employees
            BY <3>2 DEF Assignment
          <5>3. QED
            BY <2>1, <3>0, <3>1, <3>3, <3>6, <4>1, <5>1, <5>2
        <4>5. QED
          BY <3>1, <4>3, <4>4 DEF Integrity, Keyed, SameRow, UniqueValues
      <3>7. QED
        BY <1>2, <2>3, <3>4, <3>5, <3>6 DEF CommitUpdateEmployee, Reject
    <2>4. QED
      BY <1>2, <2>2, <2>3 DEF CommitUpdateEmployee, Reject
  <1>3. ASSUME NEW w \in Workers, CommitDeleteEmployee(w)
        PROVE  Integrity'
    BY <1>3 DEF CommitDeleteEmployee, SetEmployee, Rows, Integrity, TypeOK,
                SameRow
  <1>4. ASSUME NEW w \in Workers, CommitCreateCafe(w)
        PROVE  Integrity'
    <2>1. req[w].name \in Names
      BY <1>4 DEF CommitCreateCafe, At, RequestInv
    <2>2. QED
      BY <1>4, <2>1 DEF CommitCreateCafe, SetCafe, Integrity, TypeOK, SameRow,
                        Assignment
  <1>5. ASSUME NEW w \in Workers, CommitUpdateCafe(w)
        PROVE  Integrity'
    <2>1. req[w].name \in Names
      BY <1>5 DEF CommitUpdateCafe, At, RequestInv
    <2>2. /\ UNCHANGED <<employee, assignments, nextId>>
          /\ \A c \in Cafes : cafe[c] # NoRow => cafe'[c] # NoRow
      BY <1>5, <2>1 DEF CommitUpdateCafe, SetCafe, TypeOK, Reject, tables
    <2>3. QED
      BY <2>2 DEF Integrity, TypeOK, SameRow, Assignment
  <1>6. ASSUME NEW w \in Workers, CommitDeleteCafe(w)
        PROVE  Integrity'
    BY <1>6 DEF CommitDeleteCafe, SetCafe, Integrity, TypeOK, SameRow,
                Assignment
  <1>7. CASE UNCHANGED tables
    BY <1>7 DEF tables, Integrity, SameRow
  <1>8. QED
    BY <1>1, <1>2, <1>3, <1>4, <1>5, <1>6, <1>7, OnlyCommitsWrite DEF Writes

\* The rows of the seed keep what the schema promises.
LEMMA InitIntegrity == ASSUME Init PROVE Integrity
  <1>1. PICK job \in [InitialEmployees -> InitialCafes \cup {NoCafe}],
             past \in [InitialEmployees -> InitialHistory \cup {NoCafe}] :
          assignments =
            {SeededRow(e, job[e], TRUE) :
               e \in {f \in InitialEmployees : job[f] # NoCafe}} \cup
            {SeededRow(e, past[e], FALSE) :
               e \in {f \in InitialEmployees : past[f] # NoCafe}}
    BY DEF Init
  <1> DEFINE Job(e) == SeededRow(e, job[e], TRUE)
             Past(e) == SeededRow(e, past[e], FALSE)
  <1>2. \A a \in assignments :
          \E e \in InitialEmployees :
            \/ job[e] \in InitialCafes /\ a = Job(e)
            \/ past[e] \in InitialCafes /\ a = Past(e)
    BY <1>1, WriteConstants
  <1>3. \A e : /\ Job(e).employee = e /\ Job(e).cafe = job[e]
               /\ Job(e).id = 0 /\ Job(e).open
               /\ Past(e).employee = e /\ Past(e).cafe = past[e]
               /\ Past(e).id = 1 /\ ~Past(e).open
    BY DEF SeededRow
  <1> HIDE DEF Job, Past
  <1>4. \A a \in assignments : a.id < nextId
    <2>1. nextId = 2
      BY DEF Init
    <2>2. QED
      BY <1>2, <1>3, <2>1
  <1>5. \A a, b \in assignments : SameRow(a, b) => a = b
    BY <1>2, <1>3 DEF SameRow
  <1>6. \A a, b \in assignments :
          a.employee = b.employee /\ a.open /\ b.open => a = b
    BY <1>2, <1>3
  <1>7. \A a \in assignments :
          employee[a.employee] # NoRow /\ cafe[a.cafe] # NoRow
    <2>1. /\ \A e \in InitialEmployees : employee[e] # NoRow
          /\ \A c \in InitialCafes : cafe[c] # NoRow
      BY WriteConstants DEF Init
    <2>2. QED
      BY <1>2, <1>3, <2>1
  <1>8. UniqueValues
    <2>1. /\ \A e \in Employees : employee[e] # NoRow => e \in InitialEmployees
          /\ \A e, f \in InitialEmployees : e # f =>
               \A c \in UniqueColumns : employee[e][c] # employee[f][c]
      BY DEF Init
    <2>2. QED
      BY <2>1 DEF UniqueValues
  <1>9. QED
    BY <1>4, <1>5, <1>6, <1>7, <1>8 DEF Integrity, UniqueValues

\* However the requests interleave, the tables keep what the schema promises:
\* one open assignment per employee, no dangling reference, no unique value twice.
THEOREM IntegrityHolds == Spec => []Integrity
  <1>1. Init => Integrity
    BY InitIntegrity
  <1>2. /\ TypeOK /\ RequestInv /\ Integrity /\ [Next]_vars
        => Integrity'
    BY IntegrityStep
  <1>3. QED
    BY <1>1, <1>2, TypeCorrect, PTL DEF Spec

-------------------------------------------------------------------------------
\* One step of the services: what becomes of each assignment row.
HistoryStep ==
  \A a \in assignments :
    \/ \E b \in assignments' : /\ SameRow(a, b) /\ a.cafe = b.cafe
                               /\ b.open => a.open
    \/ employee'[a.employee] = NoRow
    \/ cafe'[a.cafe] = NoRow

\* Rows that stay are kept as they are, so only closing and deleting matter.
LEMMA KeptHistory ==
  ASSUME assignments \subseteq assignments'
  PROVE  HistoryStep
  BY DEF HistoryStep, SameRow

\* The history of assignments is append-only: what was recorded is closed at
\* most, until its employee or its cafe is deleted.
THEOREM HistoryAppendOnly == Spec => HistoryIsAppendOnly
  <1> USE WriteConstants
  <1>1. ASSUME TypeOK, RequestInv, [Next]_vars
        PROVE  HistoryStep
    <2>1. ASSUME NEW w \in Workers, CommitUpdateEmployee(w)
          PROVE  HistoryStep
      <3>1. \/ UNCHANGED assignments
            \/ CloseRows(seen[w].current) \subseteq assignments'
        BY <2>1 DEF CommitUpdateEmployee, Reject, tables
      <3>2. CASE UNCHANGED assignments
        BY <3>2, KeptHistory
      <3>3. CASE CloseRows(seen[w].current) \subseteq assignments'
        <4>1. \A a \in assignments : \E b \in CloseRows(seen[w].current) :
                /\ SameRow(a, b) /\ a.cafe = b.cafe /\ (b.open => a.open)
          BY <1>1, CloseRowsLosesNone DEF TypeOK
        <4>2. QED
          BY <3>3, <4>1 DEF HistoryStep
      <3>4. QED
        BY <3>1, <3>2, <3>3
    <2>2. ASSUME NEW w \in Workers, CommitDeleteEmployee(w)
          PROVE  HistoryStep
      <3>1. ASSUME NEW a \in assignments
            PROVE  a \in assignments' \/ employee'[a.employee] = NoRow
        <4>1. a.employee \in Employees
          BY <1>1 DEF TypeOK, Assignment
        <4>2. CASE a.employee # req[w].employee
          BY <2>2, <4>2 DEF CommitDeleteEmployee, Rows
        <4>3. CASE a.employee = req[w].employee
          BY <1>1, <2>2, <4>1, <4>3 DEF CommitDeleteEmployee, SetEmployee, TypeOK
        <4>4. QED
          BY <4>2, <4>3
      <3>2. QED
        BY <3>1 DEF HistoryStep, SameRow
    <2>3. ASSUME NEW w \in Workers, CommitDeleteCafe(w)
          PROVE  HistoryStep
      <3>1. ASSUME NEW a \in assignments
            PROVE  \/ a \in assignments'
                   \/ employee'[a.employee] = NoRow
                   \/ cafe'[a.cafe] = NoRow
        <4>1. a.employee \in Employees /\ a.cafe \in Cafes
          BY <1>1 DEF TypeOK, Assignment
        <4>2. CASE a.employee \in doomed[w]
          BY <2>3, <4>1, <4>2 DEF CommitDeleteCafe
        <4>3. CASE a.cafe = req[w].cafe
          BY <1>1, <2>3, <4>1, <4>3 DEF CommitDeleteCafe, SetCafe, TypeOK
        <4>4. CASE a.employee \notin doomed[w] /\ a.cafe # req[w].cafe
          BY <2>3, <4>4 DEF CommitDeleteCafe
        <4>5. QED
          BY <4>2, <4>3, <4>4
      <3>2. QED
        BY <3>1 DEF HistoryStep, SameRow
    <2>4. ASSUME NEW w \in Workers, \/ CommitCreateEmployee(w)
                                     \/ CommitCreateCafe(w)
                                     \/ CommitUpdateCafe(w)
          PROVE  HistoryStep
      BY <2>4, KeptHistory DEF CommitCreateEmployee, CommitCreateCafe,
                               CommitUpdateCafe, Reject, tables
    <2>5. CASE UNCHANGED tables
      BY <2>5, KeptHistory DEF tables
    <2>6. QED
      BY <1>1, <2>1, <2>2, <2>3, <2>4, <2>5, OnlyCommitsWrite DEF Writes
  <1>2. TypeOK /\ RequestInv /\ [Next]_vars => [HistoryStep]_vars
    BY <1>1
  <1>3. QED
    BY <1>2, TypeCorrect, PTL DEF Spec, HistoryIsAppendOnly, HistoryStep

-------------------------------------------------------------------------------
\* A step of one worker leaves the others' requests alone, and whoever is under
\* way is told of all rows it changes.
LEMMA OthersGoOn ==
  ASSUME TypeOK, NEW v \in Workers, Begin(v) \/ Step(v),
         NEW w \in Workers \ {v}
  PROVE  /\ pc'[w] = pc[w] /\ req'[w] = req[w] /\ seen'[w] = seen[w]
         /\ reply'[w] = reply[w] /\ doomed'[w] = doomed[w]
         /\ pc[w] = "idle" => interfered'[w] = interfered[w]
         /\ pc[w] # "idle" =>
              interfered'[w] \in {interfered[w], interfered[w] \cup Changed}
         /\ UNCHANGED tables \/ interfered'[w] = interfered[w] \cup Changed
              \/ pc[w] = "idle"
  <1> USE DEF TypeOK, Goto, tables
  <1>1. CASE Begin(v)
    BY <1>1 DEF Begin
  <1>2. ASSUME NEW s, Answer(v, s)
        PROVE  /\ pc'[w] = pc[w] /\ req'[w] = req[w] /\ seen'[w] = seen[w]
               /\ reply'[w] = reply[w] /\ doomed'[w] = doomed[w]
    BY <1>2 DEF Answer
  <1>3. ASSUME NEW s, Reject(v, s)
        PROVE  /\ pc'[w] = pc[w] /\ req'[w] = req[w] /\ seen'[w] = seen[w]
               /\ reply'[w] = reply[w] /\ doomed'[w] = doomed[w] /\ UNCHANGED <<tables, interfered>>
    BY <1>2, <1>3 DEF Reject
  <1>4. ASSUME NEW s, NEW next, Select(v, s, next)
        PROVE  /\ pc'[w] = pc[w] /\ req'[w] = req[w] /\ seen'[w] = seen[w]
               /\ reply'[w] = reply[w] /\ doomed'[w] = doomed[w] /\ UNCHANGED <<tables, interfered>>
    BY <1>4 DEF Select, Remember
  <1>5. ASSUME NEW next, Committed(v, next)
        PROVE  /\ pc'[w] = pc[w] /\ req'[w] = req[w] /\ seen'[w] = seen[w]
               /\ reply'[w] = reply[w] /\ doomed'[w] = doomed[w]
               /\ interfered'[w] = IF pc[w] = "idle" THEN interfered[w]
                                   ELSE interfered[w] \cup Changed
    BY <1>2, <1>5 DEF Committed
  <1>6. CASE Writes(v)
    BY <1>3, <1>5, <1>6
       DEF Writes, CommitCreateEmployee, CommitUpdateEmployee,
           CommitDeleteEmployee, CommitCreateCafe, CommitUpdateCafe,
           CommitDeleteCafe
  <1>7. CASE CreateUniqueEmployeeId(v) \/ DeleteEmployees(v)
    BY <1>3, <1>7 DEF CreateUniqueEmployeeId, DeleteEmployees
  <1>8. CASE \/ FetchEmployee(v) \/ FetchCafe(v) \/ FetchPrevious(v)
             \/ RequireCafe(v) \/ FetchCurrent(v) \/ FetchStaff(v) \/ Refresh(v)
             \/ Finish(v) \/ DeadlockVictim(v) \/ DatabaseFails(v)
    BY <1>3, <1>4, <1>8
       DEF FetchEmployee, FetchCafe, FetchPrevious, RequireCafe, FetchCurrent,
           FetchStaff, Refresh, Finish, DeadlockVictim, DatabaseFails
  <1>9. QED
    BY <1>1, <1>6, <1>7, <1>8 DEF Step, Writes

\* So a row that a request has not been told of is as it was.
LEMMA UntouchedRows ==
  ASSUME TypeOK, NEW v \in Workers, Begin(v) \/ Step(v),
         NEW w \in Workers \ {v}, pc[w] # "idle"
  PROVE  /\ interfered[w] \subseteq interfered'[w]
         /\ \A e \in Employees : e \notin interfered'[w]
              => employee'[e] = employee[e] /\ Rows(e)' = Rows(e)
         /\ \A c \in Cafes : c \notin interfered'[w] => cafe'[c] = cafe[c]
  <1>1. CASE UNCHANGED tables
    BY <1>1, OthersGoOn DEF tables, Rows
  <1>2. CASE interfered'[w] = interfered[w] \cup Changed
    BY <1>2 DEF Changed
  <1>3. QED
    BY <1>1, <1>2, OthersGoOn

-------------------------------------------------------------------------------
\* What a request has read stays true of the rows nobody else has changed.
ReadsHoldOf(w) ==
  LET r == req[w] IN
    /\ r.op = "update_employee" /\ pc[w] # "fetch"
         => r.employee \in interfered[w] \/ employee[r.employee] # NoRow
    /\ r.op = "update_employee" /\ pc[w] \notin {"fetch", "finish"}
         => r.employee \in interfered[w] \/ seen[w].details = employee[r.employee]
    /\ r.op = "update_employee" /\ pc[w] = "commit"
         => r.employee \in interfered[w] \/ seen[w].current = Active(r.employee)
    /\ r.op = "create_employee" /\ pc[w] = "commit"
         => r.employee \in interfered[w] \/ employee[r.employee] = NoRow
    /\ r.op = "create_employee" /\ pc[w] = "finish"
         => r.employee \in interfered[w] \/ employee[r.employee] # NoRow
    /\ At(w, {"create_employee"}, "pick_id") \/ At(w, {"create_employee"}, "commit")
         => r.cafe \in interfered[w] \/ cafe[r.cafe] # NoRow
    /\ At(w, {"update_employee"}, "current") \/ At(w, {"update_employee"}, "commit")
         => r.cafe \in interfered[w] \cup {NoCafe} \/ cafe[r.cafe] # NoRow
    /\ r.op = "update_cafe" /\ pc[w] \in {"staff", "commit", "refresh"}
         => r.cafe \in interfered[w] \/ cafe[r.cafe] # NoRow
    /\ r.op = "create_cafe" /\ pc[w] = "refresh"
         => r.cafe \in interfered[w] \/ cafe[r.cafe] # NoRow

ReadsHold == \A w \in Workers : pc[w] # "idle" => ReadsHoldOf(w)

\* The open row a session holds, at most one, names the cafe that its row in the
\* table names, if that is still there.
SeenRows ==
  \A w \in Workers : At(w, {"update_employee"}, "commit") =>
    /\ \A a, b \in seen[w].current : a = b
    /\ \A b \in seen[w].current :
         /\ b.employee = req[w].employee /\ b.id < nextId
         /\ \A a \in assignments : SameRow(a, b) => a.cafe = b.cafe

\* A rejected request reads nothing any more.
LEMMA RejectEnds == ASSUME TypeOK, NEW w \in Workers, NEW s, Reject(w, s)
                    PROVE  pc'[w] = "idle" /\ UNCHANGED tables
                           /\ interfered' = interfered /\ reply'[w] = s
  BY DEF Reject, Answer, Goto, TypeOK

\* A SELECT changes the session only.
LEMMA SelectKeeps ==
  ASSUME TypeOK, NEW w \in Workers, NEW s, NEW next, Select(w, s, next)
  PROVE  /\ pc'[w] = next /\ seen'[w] = s /\ req' = req /\ reply' = reply
         /\ UNCHANGED tables /\ interfered' = interfered
  BY DEF Select, Remember, Goto, TypeOK

\* After its COMMIT a request goes on, or it is over.
LEMMA CommittedGoesOn ==
  ASSUME TypeOK, NEW w \in Workers, NEW next, Committed(w, next)
  PROVE  /\ interfered'[w] = interfered[w]
         /\ \/ pc'[w] = next /\ req' = req /\ seen' = seen /\ reply' = reply
            \/ pc'[w] = "idle" /\ reply'[w] = "unavailable"
  BY DEF Committed, Answer, Goto, TypeOK

\* What others do leaves what a request has read as it was, or tells it.
LEMMA OthersLeaveReads ==
  ASSUME TypeOK, RequestInv, NEW v \in Workers, Begin(v) \/ Step(v),
         NEW w \in Workers \ {v}, pc[w] # "idle", ReadsHoldOf(w)
  PROVE  ReadsHoldOf(w)'
  <1> USE WriteConstants
  <1>1. /\ pc'[w] = pc[w] /\ req'[w] = req[w] /\ seen'[w] = seen[w]
        /\ interfered[w] \subseteq interfered'[w]
    BY OthersGoOn, UntouchedRows
  <1>2. \A e \in Employees : e \notin interfered'[w]
          => employee'[e] = employee[e] /\ Active(e)' = Active(e)
    BY UntouchedRows DEF Active
  <1>3. \A c \in Cafes : c \notin interfered'[w] => cafe'[c] = cafe[c]
    BY UntouchedRows
  <1>4. /\ req[w] \in InProgress
        /\ req[w].op = "update_employee" => req[w].employee \in Employees
        /\ req[w].op = "create_employee" /\ pc[w] \in {"commit", "finish"}
             => req[w].employee \in Employees
        /\ req[w].cafe \in Cafes \cup {NoCafe}
        /\ req[w].op \in {"create_employee", "create_cafe", "update_cafe"}
             => req[w].cafe \in Cafes
    BY DEF RequestInv, InProgress
  <1>5. QED
    BY <1>1, <1>2, <1>3, <1>4 DEF ReadsHoldOf, At

\* And each step of the request itself reads what it relies on.
LEMMA OwnReads ==
  ASSUME TypeOK, RequestInv, ReadsHold, NEW w \in Workers,
         Begin(w) \/ Step(w), pc'[w] # "idle"
  PROVE  ReadsHoldOf(w)'
  <1> USE WriteConstants
  <1>0. pc[w] # "idle" => ReadsHoldOf(w) /\ req[w] \in InProgress
    BY DEF ReadsHold, RequestInv
  <1>1. CASE Begin(w)
    <2>1. PICK r \in Requests : req'[w] = r /\ pc'[w] = FirstStep(r.op)
      BY <1>1 DEF Begin, Goto, TypeOK
    <2>2. QED
      BY <2>1 DEF ReadsHoldOf, At, FirstStep
  <1>2. CASE FetchEmployee(w) \/ FetchCafe(w) \/ FetchPrevious(w)
    <2>1. PICK s, next : Select(w, s, next)
                         /\ next \in {"previous", "staff", "require_cafe", "commit"}
                         /\ (next = "commit" => req[w].op = "delete_employee")
                         /\ (req[w].op = "update_employee"
                               => \/ req[w].employee \in interfered[w]
                                  \/ /\ employee[req[w].employee] # NoRow
                                     /\ s.details = employee[req[w].employee])
                         /\ (next = "staff" => cafe[req[w].cafe] # NoRow)
                         /\ (req[w].op = "update_cafe" => next = "staff")
                         /\ req[w].op # "create_employee"
      BY <1>0, <1>2, RejectEnds
         DEF FetchEmployee, FetchCafe, FetchPrevious, At, ReadsHoldOf, TypeOK, Session
    <2>2. /\ pc'[w] = next /\ req' = req /\ interfered' = interfered /\ seen'[w] = s
          /\ employee' = employee /\ cafe' = cafe
      BY <2>1, SelectKeeps DEF tables
    <2>3. QED
      BY <2>1, <2>2 DEF ReadsHoldOf, At
  <1>3. CASE RequireCafe(w)
    <2>1. /\ Select(w, seen[w], IF req[w].op = "create_employee"
                                  THEN "pick_id" ELSE "current")
          /\ req[w].cafe # NoCafe => cafe[req[w].cafe] # NoRow
          /\ pc[w] = "require_cafe"
          /\ req[w].op \in {"create_employee", "update_employee"}
      BY <1>3, RejectEnds DEF RequireCafe, At
    <2>2. req[w].op = "create_employee" => req[w].cafe # NoCafe
      BY <2>1 DEF RequestInv
    <2>3. /\ pc'[w] = IF req[w].op = "create_employee" THEN "pick_id" ELSE "current"
          /\ req' = req /\ interfered' = interfered /\ seen'[w] = seen[w]
          /\ employee' = employee /\ cafe' = cafe
      BY <2>1, SelectKeeps DEF tables
    <2>4. QED
      BY <1>0, <2>1, <2>2, <2>3 DEF ReadsHoldOf, At
  <1>4. CASE FetchCurrent(w)
    <2>1. /\ Select(w, [seen[w] EXCEPT !.current = Active(req[w].employee)],
                    "commit")
          /\ pc[w] = "current" /\ req[w].op = "update_employee"
      BY <1>4 DEF FetchCurrent, At
    <2>2. /\ pc'[w] = "commit" /\ req' = req /\ interfered' = interfered
          /\ employee' = employee /\ cafe' = cafe
          /\ seen'[w].current = Active(req[w].employee)
          /\ seen'[w].details = seen[w].details
          /\ Active(req[w].employee)' = Active(req[w].employee)
      BY <2>1, SelectKeeps DEF tables, TypeOK, Session, Active, Rows
    <2>3. QED
      BY <1>0, <2>1, <2>2 DEF ReadsHoldOf, At
  <1>5. CASE CreateUniqueEmployeeId(w)
    <2>1. PICK e \in Employees :
            /\ employee[e] = NoRow
            /\ req' = [req EXCEPT ![w].employee = e]
            /\ Goto(w, "commit")
            /\ UNCHANGED <<tables, seen, doomed, reply, begun, interfered>>
      BY <1>5, RejectEnds DEF CreateUniqueEmployeeId
    <2>2. pc[w] = "pick_id" /\ req[w].op = "create_employee"
      BY <1>5 DEF CreateUniqueEmployeeId, At
    <2>3. /\ req'[w].op = "create_employee" /\ req'[w].employee = e
          /\ req'[w].cafe = req[w].cafe
          /\ pc'[w] = "commit" /\ employee' = employee /\ cafe' = cafe
          /\ interfered' = interfered
      BY <1>0, <2>1, <2>2 DEF Goto, tables, TypeOK, InProgress
    <2>4. QED
      BY <1>0, <2>1, <2>2, <2>3 DEF ReadsHoldOf, At
  <1>6. CASE FetchStaff(w) \/ DeleteEmployees(w)
    <2>1. /\ pc'[w] \in {"commit", "delete_staff"} /\ req' = req
          /\ interfered' = interfered /\ cafe' = cafe
          /\ req[w].op \in {"update_cafe", "delete_cafe"}
          /\ req[w].op = "update_cafe" => pc[w] = "staff"
      BY <1>6, SelectKeeps
         DEF FetchStaff, DeleteEmployees, At, Goto, TypeOK, tables
    <2>2. QED
      BY <1>0, <2>1 DEF ReadsHoldOf, At
  <1>7. CASE CommitCreateEmployee(w)
    <2>1. /\ Committed(w, "finish")
          /\ employee' = [employee EXCEPT ![req[w].employee] = Written(w)]
          /\ req[w].op = "create_employee" /\ pc[w] = "commit"
      BY <1>7, RejectEnds DEF CommitCreateEmployee, SetEmployee, At
    <2>2. req[w].employee \in Employees /\ Written(w) # NoRow
      BY <2>1, WrittenType DEF RequestInv
    <2>3. pc'[w] = "finish" /\ req' = req
      BY <2>1, CommittedGoesOn
    <2>4. QED
      BY <2>1, <2>2, <2>3 DEF ReadsHoldOf, At, TypeOK
  <1>8. CASE CommitUpdateEmployee(w)
    <2>1. /\ Committed(w, "finish")
          /\ \/ employee' = employee
             \/ /\ employee' = [employee EXCEPT ![req[w].employee] = Written(w)]
                /\ employee[req[w].employee] # NoRow
          /\ req[w].op = "update_employee" /\ pc[w] = "commit"
      BY <1>8, RejectEnds DEF CommitUpdateEmployee, SetEmployee, At, UpdateFailure
    <2>2. /\ req[w].employee \in Employees
          /\ employee[req[w].employee] # NoRow => Written(w) # NoRow
      BY <2>1, WrittenType DEF RequestInv, TypeOK
    <2>3. pc'[w] = "finish" /\ req' = req /\ interfered'[w] = interfered[w]
      BY <2>1, CommittedGoesOn
    <2>4. QED
      BY <1>0, <2>1, <2>2, <2>3 DEF ReadsHoldOf, At, TypeOK
  <1>9. CASE CommitDeleteEmployee(w) \/ CommitDeleteCafe(w)
    <2>1. /\ Committed(w, "finish")
          /\ req[w].op \in {"delete_employee", "delete_cafe"}
      BY <1>9 DEF CommitDeleteEmployee, CommitDeleteCafe, At
    <2>2. pc'[w] = "finish" /\ req' = req
      BY <2>1, CommittedGoesOn
    <2>3. QED
      BY <2>1, <2>2 DEF ReadsHoldOf, At
  <1>10. CASE CommitCreateCafe(w) \/ CommitUpdateCafe(w)
    <2>1. /\ Committed(w, "refresh")
          /\ req[w].op \in {"create_cafe", "update_cafe"} /\ pc[w] = "commit"
          /\ \/ cafe' = [cafe EXCEPT ![req[w].cafe] = req[w].name]
             \/ req[w].op = "update_cafe" /\ cafe' = cafe
      BY <1>10, RejectEnds DEF CommitCreateCafe, CommitUpdateCafe, SetCafe, At
    <2>2. req[w].cafe \in Cafes /\ req[w].name # NoRow
      BY <2>1 DEF RequestInv
    <2>3. pc'[w] = "refresh" /\ req' = req /\ interfered'[w] = interfered[w]
      BY <2>1, CommittedGoesOn
    <2>4. QED
      BY <1>0, <2>1, <2>2, <2>3 DEF ReadsHoldOf, At, TypeOK
  <1>11. CASE Refresh(w)
    <2>1. /\ pc'[w] = "finish" /\ req' = req
          /\ req[w].op \in {"create_cafe", "update_cafe"}
      BY <1>11, RejectEnds, SelectKeeps DEF Refresh, At
    <2>2. QED
      BY <2>1 DEF ReadsHoldOf, At
  <1>12. CASE Finish(w) \/ DeadlockVictim(w) \/ DatabaseFails(w)
    BY <1>12, RejectEnds DEF Finish, DeadlockVictim, DatabaseFails
  <1>13. QED
    BY <1>1, <1>2, <1>3, <1>4, <1>5, <1>6, <1>7, <1>8, <1>9, <1>10, <1>11,
       <1>12 DEF Step

LEMMA ReadsStep == ASSUME TypeOK, RequestInv, ReadsHold, [Next]_vars
                   PROVE  ReadsHold'
  <1>1. ASSUME NEW v \in Workers, Begin(v) \/ Step(v)
        PROVE  ReadsHold'
    <2>1. ASSUME NEW w \in Workers, pc'[w] # "idle"
          PROVE  ReadsHoldOf(w)'
      <3>1. CASE w = v
        BY <1>1, <2>1, <3>1, OwnReads
      <3>2. CASE w # v
        BY <1>1, <2>1, <3>2, OthersGoOn, OthersLeaveReads DEF ReadsHold
      <3>3. QED
        BY <3>1, <3>2
    <2>2. QED
      BY <2>1 DEF ReadsHold
  <1>2. CASE UNCHANGED vars
    BY <1>2 DEF vars, tables, ReadsHold, ReadsHoldOf, At, Active, Rows
  <1>3. QED
    BY <1>1, <1>2 DEF Next

LEMMA ReadsInvariant == Spec => []ReadsHold
  <1>1. Init => ReadsHold
    BY DEF Init, ReadsHold
  <1>2. TypeOK /\ RequestInv /\ ReadsHold /\ [Next]_vars => ReadsHold'
    BY ReadsStep
  <1>3. QED
    BY <1>1, <1>2, TypeCorrect, PTL DEF Spec

\* What RaceAnswersNeedARace says of a step.
AnswersExplained ==
  \A w \in Workers :
       \/ reply'[w] = reply[w]
       \/ reply'[w] \notin {"already_active", "conflict", "server_error"}
            /\ (reply'[w] = "not_found" => pc[w] # "finish")
       \/ interfered[w] \cap {req[w].employee, req[w].cafe} # {}
       \/ reply'[w] = "server_error" /\ Deadlocked(w)

\* Every answer that a race explains meets one: what the request read is true of
\* all rows but those others changed, so that a failure at its COMMIT or after it
\* is about such a row.
THEOREM RacesAreAnswered == Spec => RaceAnswersNeedARace
  <1> USE WriteConstants
  <1> DEFINE Raced(w) == interfered[w] \cap {req[w].employee, req[w].cafe} # {}
             Explained(w) ==
               \/ reply'[w] = reply[w]
               \/ /\ reply'[w] \notin {"already_active", "conflict", "server_error"}
                  /\ reply'[w] = "not_found" => pc[w] # "finish"
               \/ Raced(w)
               \/ reply'[w] = "server_error" /\ Deadlocked(w)
  <1>1. ASSUME TypeOK, RequestInv, ReadsHold, NEW v \in Workers,
               Begin(v) \/ Step(v), NEW w \in Workers
        PROVE  Explained(w)
    <2>1. CASE w # v
      BY <1>1, <2>1, OthersGoOn
    <2>2. CASE w = v /\ pc[w] = "idle"
      BY <1>1, <2>2 DEF Begin, TypeOK, Step, FetchEmployee, FetchCafe,
           FetchPrevious, RequireCafe, FetchCurrent, CreateUniqueEmployeeId,
           FetchStaff, CommitCreateEmployee, CommitUpdateEmployee,
           CommitDeleteEmployee, CommitCreateCafe, CommitUpdateCafe,
           DeleteEmployees, CommitDeleteCafe, Refresh, Finish, DatabaseFails, At,
           DeadlockVictim, Deadlocked, Reject, Answer
    <2>3. CASE w = v /\ pc[w] # "idle"
      <3> USE <1>1, <2>3
      <3>0. Step(w) /\ ReadsHoldOf(w)
        BY DEF Begin, ReadsHold
      <3>1. CASE FetchEmployee(w) \/ FetchCafe(w) \/ RequireCafe(w)
        BY <3>1, RejectEnds, SelectKeeps
           DEF FetchEmployee, FetchCafe, RequireCafe, At
      <3>2. CASE FetchPrevious(w) \/ FetchCurrent(w) \/ FetchStaff(w)
        BY <3>2, SelectKeeps DEF FetchPrevious, FetchCurrent, FetchStaff
      <3>3. CASE CreateUniqueEmployeeId(w) \/ DeleteEmployees(w)
        BY <3>3, RejectEnds DEF CreateUniqueEmployeeId, DeleteEmployees
      <3>4. CASE CommitCreateEmployee(w)
        <4>1. /\ req[w].op = "create_employee" /\ pc[w] = "commit"
              /\ \/ Committed(w, "finish") \/ Reject(w, "taken")
                 \/ /\ Reject(w, "conflict")
                    /\ \/ employee[req[w].employee] # NoRow
                       \/ cafe[req[w].cafe] = NoRow
          BY <3>4 DEF CommitCreateEmployee, At
        <4>2. QED
          BY <3>0, <4>1, RejectEnds, CommittedGoesOn DEF ReadsHoldOf, At
      <3>5. CASE CommitUpdateEmployee(w)
        <4>1. /\ req[w].op = "update_employee" /\ pc[w] = "commit"
              /\ Committed(w, "finish") \/ Reject(w, UpdateFailure(w))
          BY <3>5 DEF CommitUpdateEmployee, At
        <4>2. CASE Reject(w, UpdateFailure(w)) /\ ~Raced(w)
          <5>1. /\ employee[req[w].employee] # NoRow
                /\ seen[w].current = Active(req[w].employee)
                /\ req[w].cafe = NoCafe \/ cafe[req[w].cafe] # NoRow
            BY <3>0, <4>1, <4>2 DEF ReadsHoldOf, At
          <5> DEFINE closed == {a \in assignments :
                                  \E b \in seen[w].current : SameRow(a, b)}
          <5>2. Active(req[w].employee) \subseteq closed
            BY <5>1 DEF Active, Rows, SameRow
          <5>3. UpdateFailure(w) \in {"taken", "none"}
            BY <5>1, <5>2 DEF UpdateFailure
          <5>4. QED
            BY <4>2, <5>3, RejectEnds
        <4>3. QED
          BY <4>1, <4>2, CommittedGoesOn
      <3>6. CASE CommitDeleteEmployee(w) \/ CommitDeleteCafe(w) \/ CommitCreateCafe(w)
        BY <3>6, CommittedGoesOn
           DEF CommitDeleteEmployee, CommitDeleteCafe, CommitCreateCafe
      <3>7. CASE CommitUpdateCafe(w) \/ Refresh(w)
        BY <3>0, <3>7, RejectEnds, CommittedGoesOn, SelectKeeps
           DEF CommitUpdateCafe, Refresh, At, ReadsHoldOf
      <3>8. CASE Finish(w)
        BY <3>0, <3>8, RejectEnds DEF Finish, ReadsHoldOf
      <3>9. CASE DeadlockVictim(w) \/ DatabaseFails(w)
        BY <3>9, RejectEnds DEF DeadlockVictim, DatabaseFails
      <3>10. QED
        BY <3>0, <3>1, <3>2, <3>3, <3>4, <3>5, <3>6, <3>7, <3>8, <3>9 DEF Step
    <2>4. QED
      BY <2>1, <2>2, <2>3
  <1>2. TypeOK /\ RequestInv /\ ReadsHold /\ [Next]_vars
        => [AnswersExplained]_vars
    BY <1>1 DEF Next, AnswersExplained
  <1>3. QED
    BY <1>2, TypeCorrect, ReadsInvariant, PTL
       DEF Spec, RaceAnswersNeedARace, AnswersExplained

\* A PUT leaves the employee that the client sent, unless somebody changed it
\* between the PUT's first read and its COMMIT: what is not edited is what was read,
\* and what was read is still there.
THEOREM PutsWriteWholeRows == Spec => PutsAreWhole
  <1> USE WriteConstants
  <1> DEFINE Whole(w) ==
        At(w, {"update_employee"}, "commit") /\ pc'[w] = "finish"
          => \/ employee'[req[w].employee] = req[w].details
             \/ req[w].employee \in interfered[w]
  <1>1. ASSUME TypeOK, RequestInv, ReadsHold, NEW w \in Workers, NEW v \in Workers,
               Begin(v) \/ Step(v)
        PROVE  Whole(w)
    <2> SUFFICES ASSUME At(w, {"update_employee"}, "commit"), pc'[w] = "finish",
                        req[w].employee \notin interfered[w]
                 PROVE  employee'[req[w].employee] = req[w].details
      OBVIOUS
    <2>1. v = w
      BY <1>1, OthersGoOn DEF At
    <2>2. CommitUpdateEmployee(w) /\ ~\E s : Reject(w, s)
      BY <1>1, <2>1, RejectEnds
         DEF Begin, Step, At, FetchEmployee, FetchCafe, FetchPrevious, RequireCafe,
             FetchCurrent, CreateUniqueEmployeeId, FetchStaff, DeleteEmployees,
             CommitCreateEmployee, CommitDeleteEmployee, CommitCreateCafe,
             CommitUpdateCafe, CommitDeleteCafe, Refresh, Finish, DeadlockVictim,
             DatabaseFails
    <2>3. /\ seen[w].details = employee[req[w].employee]
          /\ employee[req[w].employee] \in Details
          /\ req[w].details \in Details /\ req[w].employee \in Employees
          /\ req[w].op # "create_employee"
      BY <1>1 DEF ReadsHold, ReadsHoldOf, At, RequestInv, TypeOK
    <2>4. Written(w) = req[w].details
      BY <2>3 DEF Written, Edited, Details
    <2>5. CASE Edited(w) = {}
      <3>1. employee[req[w].employee] = req[w].details
        BY <2>3, <2>5 DEF Edited, Details
      <3>2. QED
        BY <2>2, <2>5, <3>1 DEF CommitUpdateEmployee
    <2>6. CASE Edited(w) # {}
      BY <1>1, <2>2, <2>3, <2>4, <2>6 DEF CommitUpdateEmployee, SetEmployee, TypeOK
    <2>7. QED
      BY <2>5, <2>6
  <1>2. TypeOK /\ RequestInv /\ ReadsHold /\ [Next]_vars
        => [\A w \in Workers : Whole(w)]_vars
    BY <1>1 DEF Next
  <1>3. QED
    BY <1>2, ReadsInvariant, TypeCorrect, PTL DEF Spec, PutsAreWhole

-------------------------------------------------------------------------------
\* A row keeps its cafe, and new rows have new keys.
LEMMA RowsKeepTheirCafe ==
  ASSUME TypeOK, RequestInv, [Next]_vars
  PROVE  /\ nextId' \in Nat /\ nextId <= nextId'
         /\ \A b \in assignments' :
              \/ b.id = nextId
              \/ \E a \in assignments : SameRow(a, b) /\ a.cafe = b.cafe
  <1>1. ASSUME NEW w \in Workers, CommitCreateEmployee(w)
        PROVE  UNCHANGED <<assignments, nextId>> \/
               /\ assignments' = assignments \cup
                                   {NewRow(req[w].employee, req[w].cafe)}
               /\ nextId' = nextId + 1
    BY <1>1 DEF CommitCreateEmployee, Reject, tables
  <1>2. ASSUME NEW w \in Workers, CommitUpdateEmployee(w)
        PROVE  UNCHANGED <<assignments, nextId>> \/
               /\ assignments' \subseteq CloseRows(seen[w].current) \cup
                                   {NewRow(req[w].employee, req[w].cafe)}
               /\ nextId' \in {nextId, nextId + 1}
    BY <1>2 DEF CommitUpdateEmployee, Reject, tables
  <1>3. ASSUME NEW w \in Workers,
               CommitDeleteEmployee(w) \/ CommitDeleteCafe(w)
        PROVE  assignments' \subseteq assignments /\ nextId' = nextId
    BY <1>3 DEF CommitDeleteEmployee, CommitDeleteCafe
  <1>4. ASSUME NEW w \in Workers, CommitCreateCafe(w) \/ CommitUpdateCafe(w)
        PROVE  UNCHANGED <<assignments, nextId>>
    BY <1>4 DEF CommitCreateCafe, CommitUpdateCafe, Reject, tables
  <1>5. \A e, c : NewRow(e, c).id = nextId
    BY DEF NewRow
  <1>6. CASE assignments' \subseteq assignments /\ nextId' = nextId
    BY <1>6 DEF TypeOK, SameRow
  <1>7. ASSUME NEW w \in Workers, CommitCreateEmployee(w) \/ CommitUpdateEmployee(w)
        PROVE  /\ nextId' \in {nextId, nextId + 1}
               /\ \A b \in assignments' :
                    \/ b.id = nextId
                    \/ \E a \in assignments : SameRow(a, b) /\ a.cafe = b.cafe
    BY <1>1, <1>2, <1>5, <1>7, CloseRowsKeeps DEF TypeOK, SameRow
  <1>8. QED
    BY <1>3, <1>4, <1>6, <1>7, OnlyCommitsWrite DEF Writes, TypeOK, tables

\* The row of a session goes on naming its cafe.
LEMMA SeenRowsStep ==
  ASSUME TypeOK, RequestInv, Integrity, SeenRows, [Next]_vars
  PROVE  SeenRows'
  <1>1. ASSUME NEW w \in Workers, At(w, {"update_employee"}, "commit"),
               pc'[w] = pc[w], req'[w] = req[w], seen'[w] = seen[w]
        PROVE  /\ \A a, b \in seen'[w].current : a = b
               /\ \A b \in seen'[w].current :
                    /\ b.employee = req'[w].employee /\ b.id < nextId'
                    /\ \A a \in assignments' : SameRow(a, b) => a.cafe = b.cafe
    <2>1. \A b \in seen[w].current : b.id \in Nat
      BY DEF TypeOK, Session, Assignment
    <2>2. ASSUME NEW b \in seen[w].current
          PROVE  /\ b.employee = req'[w].employee /\ b.id < nextId'
                 /\ \A a \in assignments' : SameRow(a, b) => a.cafe = b.cafe
      BY <1>1, <2>1, RowsKeepTheirCafe DEF SeenRows, SameRow, TypeOK
    <2>3. QED
      BY <1>1, <2>2 DEF SeenRows
  <1>2. ASSUME NEW w \in Workers, FetchCurrent(w)
        PROVE  /\ \A a, b \in seen'[w].current : a = b
               /\ \A b \in seen'[w].current :
                    /\ b.employee = req'[w].employee /\ b.id < nextId'
                    /\ \A a \in assignments' : SameRow(a, b) => a.cafe = b.cafe
    <2>1. /\ req' = req /\ assignments' = assignments /\ nextId' = nextId
          /\ seen'[w].current = Active(req[w].employee)
      BY <1>2, SelectKeeps DEF FetchCurrent, tables, TypeOK, Session
    <2>2. QED
      BY <2>1 DEF Integrity, Active, Rows, SameRow
  <1>3. ASSUME NEW w \in Workers, Begin(w) \/ Step(w), ~FetchCurrent(w)
        PROVE  ~At(w, {"update_employee"}, "commit")'
    <2>1. CASE Begin(w)
      BY <2>1 DEF Begin, At, Goto, TypeOK, FirstStep
    <2>2. CASE \/ FetchEmployee(w) \/ FetchCafe(w) \/ RequireCafe(w) \/ FetchStaff(w)
               \/ Refresh(w) \/ Finish(w) \/ DeadlockVictim(w) \/ DatabaseFails(w)
      BY <2>2, RejectEnds, SelectKeeps
         DEF FetchEmployee, FetchCafe, RequireCafe, FetchStaff, Refresh, Finish,
             DeadlockVictim, DatabaseFails, At
    <2>3. CASE FetchPrevious(w) \/ DeleteEmployees(w)
      BY <2>3, SelectKeeps DEF FetchPrevious, DeleteEmployees, At, Goto, TypeOK
    <2>4. CASE CreateUniqueEmployeeId(w)
      <3>1. CASE Reject(w, "ids_exhausted")
        BY <3>1, RejectEnds DEF At
      <3>2. CASE \E e \in Employees : req' = [req EXCEPT ![w].employee = e]
        <4>1. req[w] \in InProgress /\ req[w].op = "create_employee"
          BY <2>4 DEF CreateUniqueEmployeeId, At, RequestInv
        <4>2. req'[w].op = "create_employee"
          BY <3>2, <4>1 DEF TypeOK, InProgress
        <4>3. QED
          BY <4>2 DEF At
      <3>3. QED
        BY <2>4, <3>1, <3>2 DEF CreateUniqueEmployeeId
    <2>5. CASE Writes(w)
      <3>1. \/ \E s : Reject(w, s)
            \/ \E next \in {"refresh", "finish"} : Committed(w, next)
        BY <2>5 DEF Writes, CommitCreateEmployee, CommitUpdateEmployee,
             CommitDeleteEmployee, CommitCreateCafe, CommitUpdateCafe,
             CommitDeleteCafe
      <3>2. QED
        BY <3>1, RejectEnds, CommittedGoesOn DEF At
    <2>6. QED
      BY <1>3, <2>1, <2>2, <2>3, <2>4, <2>5 DEF Step, Writes
  <1>4. ASSUME NEW v \in Workers, Begin(v) \/ Step(v)
        PROVE  SeenRows'
    BY <1>1, <1>2, <1>3, <1>4, OthersGoOn DEF SeenRows, At
  <1>5. CASE UNCHANGED vars
    BY <1>5 DEF vars, tables, SeenRows, At, SameRow
  <1>6. QED
    BY <1>4, <1>5 DEF Next

LEMMA SeenRowsInvariant == Spec => []SeenRows
  <1>1. Init => SeenRows
    BY DEF Init, SeenRows, At
  <1>2. TypeOK /\ RequestInv /\ Integrity /\ SeenRows /\ [Next]_vars => SeenRows'
    BY SeenRowsStep
  <1>3. QED
    BY <1>1, <1>2, TypeCorrect, IntegrityHolds, PTL DEF Spec

\* "Same-cafe updates preserve the active assignment row", whatever commits
\* between the update's SELECTs and its COMMIT: the row it would close is not one
\* of the cafe it is asked for.
THEOREM SameCafeRowsStay == Spec => SameCafeKeepsRow
  <1> USE WriteConstants
  <1> DEFINE Kept(w) ==
        At(w, {"update_employee"}, "commit") /\ pc'[w] = "finish"
          => \A a \in Active(req[w].employee) :
               a.cafe = req[w].cafe => a \in assignments'
  <1>1. ASSUME TypeOK, RequestInv, SeenRows, NEW w \in Workers, NEW v \in Workers,
               Begin(v) \/ Step(v)
        PROVE  Kept(w)
    <2> SUFFICES ASSUME At(w, {"update_employee"}, "commit"), pc'[w] = "finish",
                        NEW a \in Active(req[w].employee), a.cafe = req[w].cafe
                 PROVE  a \in assignments'
      OBVIOUS
    <2>1. v = w
      BY <1>1, OthersGoOn DEF At
    <2>2. CommitUpdateEmployee(w)
      BY <1>1, <2>1, RejectEnds
         DEF Begin, Step, At, FetchEmployee, FetchCafe, FetchPrevious, RequireCafe,
             FetchCurrent, CreateUniqueEmployeeId, FetchStaff, DeleteEmployees,
             CommitCreateEmployee, CommitDeleteEmployee, CommitCreateCafe,
             CommitUpdateCafe, CommitDeleteCafe, Refresh, Finish, DeadlockVictim,
             DatabaseFails
    <2>3. a \in assignments /\ a.cafe \in Cafes /\ a.cafe # NoCafe
      BY <1>1 DEF Active, Rows, TypeOK, Assignment
    <2>4. UpdateFailure(w) = "none"
      BY <1>1, <2>2, RejectEnds DEF CommitUpdateEmployee
    <2>5. CASE UNCHANGED assignments
      BY <2>3, <2>5
    <2>6. CASE Moves(w)
      <3>1. PICK b \in seen[w].current : SameRow(a, b)
        BY <2>3, <2>4, <2>6 DEF UpdateFailure
      <3>2. b.cafe = req[w].cafe /\ \A x \in seen[w].current : x = b
        BY <1>1, <2>3, <3>1 DEF SeenRows
      <3>3. CafeOf(seen[w].current) = req[w].cafe
        BY <3>1, <3>2 DEF CafeOf
      <3>4. QED
        BY <2>6, <3>3 DEF Moves
    <2>7. QED
      BY <2>2, <2>4, <2>5, <2>6 DEF CommitUpdateEmployee, Reject, tables
  <1>2. TypeOK /\ RequestInv /\ SeenRows /\ [Next]_vars
        => [\A w \in Workers : Kept(w)]_vars
    BY <1>1 DEF Next
  <1>3. QED
    BY <1>2, SeenRowsInvariant, TypeCorrect, PTL DEF Spec, SameCafeKeepsRow

===============================================================================
