-------------------------- MODULE InvalidationProofs --------------------------
(***************************************************************************)
(* Proofs about Invalidation: while no COMMIT loses its answer, every      *)
(* cached view that a commit changed is about to be invalidated, or a race *)
(* changed it.                                                             *)
(***************************************************************************)
EXTENDS Invalidation, WriteServicesProofs, FiniteSetTheorems

\* SetToSeq puts each member of a finite set in the sequence, and nothing else.
LEMMA InOrder ==
  ASSUME NEW S, IsFiniteSet(S)
  PROVE  SetToSeq(S) \in Seq(S) /\ ToSet(SetToSeq(S)) = S
  <1> DEFINE n == Cardinality(S)
             f == SetToSeq(S)
  <1>1. n \in Nat /\ ExistsBijection(1..n, S)
    BY FS_CardinalityType
  <1>2. \E g \in [1..n -> S] : IsInjective(g)
    BY <1>1 DEF ExistsBijection, Bijection, Injection
  <1>3. f \in [1..n -> S] /\ IsInjective(f)
    BY <1>2 DEF SetToSeq
  <1>4. f \in Injection(1..n, S)
    BY <1>3 DEF Injection
  <1>5. Cardinality(1..n) = n
    BY <1>1, FS_Interval
  <1>6. f \in Surjection(1..n, S)
    BY <1>4, <1>5, FS_Injection
  <1>7. \A x \in S : \E i \in 1..n : f[i] = x
    BY <1>6 DEF Surjection
  <1>8. DOMAIN f = 1..n
    BY <1>3
  <1>9. ToSet(f) = S
    BY <1>3, <1>7, <1>8 DEF ToSet
  <1>10. f \in Seq(S)
    BY <1>1, <1>3
  <1>11. QED
    BY <1>9, <1>10

\* What a bump leaves to do.
LEMMA HeadAndTail ==
  ASSUME NEW V, NEW s \in Seq(V), s # <<>>
  PROVE  /\ Tail(s) \in Seq(V) /\ Head(s) \in V
         /\ ToSet(s) = {Head(s)} \cup ToSet(Tail(s))
  <1>1. /\ Len(s) \in Nat \ {0} /\ DOMAIN s = 1..Len(s)
        /\ Head(s) = s[1] /\ Tail(s) \in Seq(V)
        /\ DOMAIN Tail(s) = 1..(Len(s) - 1)
        /\ \A i \in 1..(Len(s) - 1) : Tail(s)[i] = s[i + 1]
    OBVIOUS
  <1>2. ASSUME NEW i \in 1..Len(s), i # 1
        PROVE  s[i] \in ToSet(Tail(s))
    <2> DEFINE j == i - 1
    <2>1. j \in 1..(Len(s) - 1) /\ i = j + 1
      BY <1>1, <1>2
    <2>2. Tail(s)[j] = s[i]
      BY <1>1, <2>1
    <2>3. QED
      BY <1>1, <2>1, <2>2 DEF ToSet
  <1>3. ASSUME NEW j \in 1..(Len(s) - 1)
        PROVE  Tail(s)[j] \in ToSet(s)
    <2>1. j + 1 \in 1..Len(s) /\ Tail(s)[j] = s[j + 1]
      BY <1>1
    <2>2. QED
      BY <1>1, <2>1 DEF ToSet
  <1>4. Head(s) \in ToSet(s) /\ Head(s) \in V
    <2>1. 1 \in DOMAIN s
      BY <1>1
    <2>2. QED
      BY <1>1, <2>1 DEF ToSet
  <1>5. ToSet(s) \subseteq {Head(s)} \cup ToSet(Tail(s))
    BY <1>1, <1>2 DEF ToSet
  <1>6. ToSet(Tail(s)) \subseteq ToSet(s)
    BY <1>1, <1>3 DEF ToSet
  <1>7. QED
    BY <1>1, <1>4, <1>5, <1>6

LEMMA ConcatenatedSet ==
  ASSUME NEW V, NEW s \in Seq(V), NEW t \in Seq(V)
  PROVE  s \o t \in Seq(V) /\ ToSet(s \o t) = ToSet(s) \cup ToSet(t)
  <1>1. /\ Len(s \o t) = Len(s) + Len(t) /\ DOMAIN (s \o t) = 1..Len(s \o t)
        /\ \A i \in 1..Len(s) : (s \o t)[i] = s[i]
        /\ \A i \in 1..Len(t) : (s \o t)[Len(s) + i] = t[i]
    OBVIOUS
  <1>2. ASSUME NEW i \in 1..Len(s \o t)
        PROVE  i \in 1..Len(s) \/ \E j \in 1..Len(t) : i = Len(s) + j
    <2>1. CASE i > Len(s)
      <3>1. i - Len(s) \in 1..Len(t) /\ i = Len(s) + (i - Len(s))
        BY <1>1, <2>1
      <3>2. QED
        BY <3>1
    <2>2. QED
      BY <1>1, <2>1
  <1>3. ToSet(s \o t) \subseteq ToSet(s) \cup ToSet(t)
    BY <1>1, <1>2 DEF ToSet
  <1>4. \A i \in 1..Len(s) : i \in 1..Len(s \o t)
    BY <1>1
  <1>5. \A i \in 1..Len(t) : Len(s) + i \in 1..Len(s \o t)
    BY <1>1
  <1>6. ToSet(s) \subseteq ToSet(s \o t)
    BY <1>1, <1>4 DEF ToSet
  <1>7. ASSUME NEW i \in 1..Len(t)
        PROVE  t[i] \in ToSet(s \o t)
    BY <1>1, <1>5 DEF ToSet
  <1>8. ToSet(t) \subseteq ToSet(s \o t)
    BY <1>1, <1>7 DEF ToSet
  <1>9. QED
    BY <1>3, <1>6, <1>8

\* The views whose counters a request bumps, whatever the order.
BumpSet(w) ==
  LET r == req[w] IN
  CASE r.op = "create_employee" -> {"employees", "cafes"}
    [] r.op = "update_employee" ->
         {"employees", r.employee} \cup
           (IF seen[w].previous # r.cafe THEN {"cafes"} ELSE {})
    [] r.op = "delete_employee" ->
         {"employees", r.employee} \cup
           (IF seen[w].previous # NoCafe THEN {"cafes"} ELSE {})
    [] r.op = "create_cafe" -> {"cafes"}
    [] OTHER -> {"cafes", r.cafe} \cup
                  (IF seen[w].staff # {} THEN {"employees"} \cup seen[w].staff
                                         ELSE {})

LEMMA BumpsAreBumpSet ==
  ASSUME TypeOK, RequestInv, NEW w \in Workers, pc[w] # "idle"
  PROVE  Bumps(w) \in Seq(Views) /\ ToSet(Bumps(w)) = BumpSet(w)
  <1> DEFINE r == req[w]
             S == seen[w].staff
  <1>1. /\ {"cafes", "employees"} \subseteq Views
        /\ Cafes \subseteq Views /\ Employees \subseteq Views
    BY DEF Views
  <1>2. /\ r \in InProgress /\ r.op \in AllOps
        /\ r.op \in {"update_employee", "delete_employee"} => r.employee \in Employees
        /\ r.op \in {"update_cafe", "delete_cafe"} => r.cafe \in Cafes
    BY DEF RequestInv, InProgress
  <1>3. ASSUME NEW x \in Views
        PROVE  <<x>> \in Seq(Views) /\ ToSet(<<x>>) = {x}
    BY <1>3 DEF ToSet
  <1>4. ASSUME NEW x \in Views, NEW y \in Views
        PROVE  <<x, y>> \in Seq(Views) /\ ToSet(<<x, y>>) = {x, y}
    <2>1. DOMAIN <<x, y>> = {1, 2} /\ <<x, y>>[1] = x /\ <<x, y>>[2] = y
      OBVIOUS
    <2>2. QED
      BY <2>1 DEF ToSet
  <1>5. <<>> \in Seq(Views) /\ ToSet(<<>>) = {}
    BY DEF ToSet
  <1>6. S \subseteq Employees /\ IsFiniteSet(S)
    BY FiniteEmployees, FS_Subset DEF TypeOK, Session
  <1>7. SetToSeq(S) \in Seq(Views) /\ ToSet(SetToSeq(S)) = S
    <2>1. SetToSeq(S) \in Seq(S) /\ ToSet(SetToSeq(S)) = S
      BY <1>6, InOrder
    <2>2. Seq(S) \subseteq Seq(Views)
      BY <1>1, <1>6
    <2>3. QED
      BY <2>1, <2>2
  <1>8. ASSUME NEW s \in Seq(Views), NEW t \in Seq(Views)
         PROVE  s \o t \in Seq(Views) /\ ToSet(s \o t) = ToSet(s) \cup ToSet(t)
    BY ConcatenatedSet
  <1>9. CASE r.op = "create_employee"
    BY <1>1, <1>4, <1>9 DEF Bumps, BumpSet
  <1>10. CASE r.op = "update_employee"
    <2>1. <<"employees", r.employee>> \in Seq(Views)
          /\ ToSet(<<"employees", r.employee>>) = {"employees", r.employee}
      BY <1>1, <1>2, <1>4, <1>10
    <2> DEFINE rest == When(seen[w].previous # r.cafe, <<"cafes">>)
    <2>2. rest \in Seq(Views)
          /\ ToSet(rest) = IF seen[w].previous # r.cafe THEN {"cafes"} ELSE {}
      BY <1>1, <1>3, <1>5 DEF When
    <2>3. Bumps(w) = <<"employees", r.employee>> \o rest
      BY <1>10 DEF Bumps
    <2> HIDE DEF rest
    <2>4. /\ Bumps(w) \in Seq(Views)
          /\ ToSet(Bumps(w)) = ToSet(<<"employees", r.employee>>) \cup ToSet(rest)
      BY <2>1, <2>2, <2>3, <1>8
    <2>5. QED
      BY <1>10, <2>1, <2>2, <2>4 DEF BumpSet
  <1>11. CASE r.op = "delete_employee"
    <2>1. <<"employees", r.employee>> \in Seq(Views)
          /\ ToSet(<<"employees", r.employee>>) = {"employees", r.employee}
      BY <1>1, <1>2, <1>4, <1>11
    <2> DEFINE rest == When(seen[w].previous # NoCafe, <<"cafes">>)
    <2>2. rest \in Seq(Views)
          /\ ToSet(rest) = IF seen[w].previous # NoCafe THEN {"cafes"} ELSE {}
      BY <1>1, <1>3, <1>5 DEF When
    <2>3. Bumps(w) = <<"employees", r.employee>> \o rest
      BY <1>11 DEF Bumps
    <2> HIDE DEF rest
    <2>4. /\ Bumps(w) \in Seq(Views)
          /\ ToSet(Bumps(w)) = ToSet(<<"employees", r.employee>>) \cup ToSet(rest)
      <3> DEFINE first == <<"employees", r.employee>>
      <3>1. first \in Seq(Views) /\ Bumps(w) = first \o rest
        BY <2>1, <2>3
      <3> HIDE DEF first
      <3>2. Bumps(w) \in Seq(Views) /\ ToSet(Bumps(w)) = ToSet(first) \cup ToSet(rest)
        BY <2>2, <3>1, <1>8
      <3>3. QED
        BY <3>2 DEF first
    <2>5. QED
      BY <1>11, <2>1, <2>2, <2>4 DEF BumpSet
  <1>12. CASE r.op = "create_cafe"
    BY <1>1, <1>3, <1>12 DEF Bumps, BumpSet
  <1>13. CASE r.op \in {"update_cafe", "delete_cafe"}
    <2>1. <<"cafes", r.cafe>> \in Seq(Views)
          /\ ToSet(<<"cafes", r.cafe>>) = {"cafes", r.cafe}
      BY <1>1, <1>2, <1>4, <1>13
    <2>2. <<"employees">> \o SetToSeq(S) \in Seq(Views)
          /\ ToSet(<<"employees">> \o SetToSeq(S)) = {"employees"} \cup S
      <3>1. <<"employees">> \in Seq(Views) /\ ToSet(<<"employees">>) = {"employees"}
        BY <1>1, <1>3
      <3>2. QED
        BY <3>1, <1>7, <1>8
    <2>3. EmployeeViewBumps(w) \in Seq(Views)
          /\ ToSet(EmployeeViewBumps(w)) = IF S # {} THEN {"employees"} \cup S
                                                   ELSE {}
      BY <1>5, <2>2 DEF EmployeeViewBumps, When
    <2>4. Bumps(w) = <<"cafes", r.cafe>> \o EmployeeViewBumps(w)
      BY <1>13 DEF Bumps
    <2>5. /\ Bumps(w) \in Seq(Views)
          /\ ToSet(Bumps(w)) = ToSet(<<"cafes", r.cafe>>)
                                  \cup ToSet(EmployeeViewBumps(w))
      <3> DEFINE first == <<"cafes", r.cafe>>
                 rest  == EmployeeViewBumps(w)
      <3>1. first \in Seq(Views) /\ rest \in Seq(Views) /\ Bumps(w) = first \o rest
        BY <2>1, <2>3, <2>4
      <3> HIDE DEF first, rest
      <3>2. Bumps(w) \in Seq(Views) /\ ToSet(Bumps(w)) = ToSet(first) \cup ToSet(rest)
        BY <3>1, <1>8
      <3>3. QED
        BY <3>2 DEF first, rest
    <2>6. QED
      BY <1>13, <2>1, <2>3, <2>5 DEF BumpSet
  <1>14. QED
    BY <1>2, <1>9, <1>10, <1>11, <1>12, <1>13 DEF AllOps

-------------------------------------------------------------------------------
\* What a write has read to decide on its bumps is true, at its COMMIT, of every
\* row but those others changed meanwhile; and a cafe is created once.
FirstReadsOf(w) ==
  LET e == req[w].employee
      c == req[w].cafe
  IN
  /\ req[w].op \in {"update_employee", "delete_employee"}
       /\ pc[w] \in {"require_cafe", "current", "commit"}
       => e \in interfered[w] \/ seen[w].previous = CafeOf(Active(e))
  /\ req[w].op \in {"update_cafe", "delete_cafe"}
       /\ pc[w] \in {"delete_staff", "commit"}
       => \A f \in Employees \ interfered[w] : f \in seen[w].staff <=> f \in Staff(c)
  /\ At(w, {"delete_cafe"}, "commit") => doomed[w] \subseteq seen[w].staff
  /\ At(w, {"create_cafe"}, "commit") =>
       /\ cafe[c] = NoRow
       /\ \A v \in Workers \ {w} :
            At(v, {"create_cafe"}, "commit") => req[v].cafe # c

FirstReads == \A w \in Workers : pc[w] # "idle" => FirstReadsOf(w)

\* Only Begin brings a create_cafe to its COMMIT, with a cafe nobody else names.
LEMMA CreatorsBegin ==
  ASSUME TypeOK, RequestInv, NEW w \in Workers, Begin(w) \/ Step(w),
         At(w, {"create_cafe"}, "commit")'
  PROVE  /\ UNCHANGED tables /\ pc[w] = "idle" /\ cafe[req'[w].cafe] = NoRow
         /\ \A v \in Workers : pc[v] # "idle" => req[v].cafe # req'[w].cafe
         /\ \A v \in Workers \ {w} : pc'[v] = pc[v] /\ req'[v] = req[v]
  <1>1. CASE Begin(w)
    BY <1>1 DEF Begin, At, Goto, TypeOK, FirstStep
  <1>2. CASE \/ FetchEmployee(w) \/ FetchCafe(w) \/ RequireCafe(w) \/ FetchStaff(w)
             \/ Refresh(w) \/ Finish(w) \/ DeadlockVictim(w) \/ DatabaseFails(w)
    BY <1>2, RejectEnds, SelectKeeps
       DEF FetchEmployee, FetchCafe, RequireCafe, FetchStaff, Refresh, Finish,
           DeadlockVictim, DatabaseFails, At
  <1>3. CASE FetchPrevious(w) \/ FetchCurrent(w) \/ DeleteEmployees(w)
    BY <1>3, SelectKeeps DEF FetchPrevious, FetchCurrent, DeleteEmployees, At
  <1>4. CASE CreateUniqueEmployeeId(w)
    <2>1. req[w] \in InProgress /\ req[w].op = "create_employee"
      BY <1>4 DEF CreateUniqueEmployeeId, At, RequestInv
    <2>2. req'[w].op = "create_employee" \/ pc'[w] = "idle"
      BY <1>4, <2>1, RejectEnds DEF CreateUniqueEmployeeId, TypeOK, InProgress
    <2>3. QED
      BY <2>2 DEF At
  <1>5. CASE Writes(w)
    <2>1. \/ \E s : Reject(w, s)
          \/ \E next \in {"refresh", "finish"} : Committed(w, next)
      BY <1>5 DEF Writes, CommitCreateEmployee, CommitUpdateEmployee,
           CommitDeleteEmployee, CommitCreateCafe, CommitUpdateCafe,
           CommitDeleteCafe
    <2>2. QED
      BY <2>1, RejectEnds, CommittedGoesOn DEF At
  <1>6. QED
    BY <1>1, <1>2, <1>3, <1>4, <1>5 DEF Step, Writes

\* And only its COMMIT gives a missing cafe a row.
LEMMA CafesAreCreated ==
  ASSUME TypeOK, NEW w \in Workers, Begin(w) \/ Step(w),
         NEW c \in Cafes, cafe[c] = NoRow, cafe'[c] # NoRow
  PROVE  At(w, {"create_cafe"}, "commit") /\ req[w].cafe = c
  <1>1. CASE Writes(w)
    BY <1>1, RejectEnds
       DEF Writes, CommitCreateEmployee, CommitUpdateEmployee,
           CommitDeleteEmployee, CommitCreateCafe, CommitUpdateCafe,
           CommitDeleteCafe, SetCafe, At, TypeOK, tables
  <1>2. CASE ~Writes(w)
    BY <1>2, RejectEnds, SelectKeeps
       DEF Begin, Step, Writes, tables, FetchEmployee, FetchCafe, FetchPrevious,
           RequireCafe, FetchCurrent, CreateUniqueEmployeeId, FetchStaff,
           DeleteEmployees, Refresh, Finish, DeadlockVictim, DatabaseFails
  <1>3. QED
    BY <1>1, <1>2

\* The steps of others.
LEMMA OthersLeaveFirstReads ==
  ASSUME TypeOK, RequestInv, FirstReads, NEW v \in Workers, Begin(v) \/ Step(v),
         NEW w \in Workers \ {v}, pc[w] # "idle"
  PROVE  FirstReadsOf(w)'
  <1> USE WriteConstants
  <1>1. /\ pc'[w] = pc[w] /\ req'[w] = req[w] /\ seen'[w] = seen[w]
        /\ doomed'[w] = doomed[w] /\ interfered[w] \subseteq interfered'[w]
        /\ FirstReadsOf(w)
    BY OthersGoOn, UntouchedRows DEF FirstReads
  <1>2. \A e \in Employees : e \notin interfered'[w] => Active(e)' = Active(e)
    BY UntouchedRows DEF Active
  <1>3. /\ req[w] \in InProgress
        /\ req[w].op \in {"update_employee", "delete_employee"}
             => req[w].employee \in Employees
        /\ req[w].op \in {"create_cafe", "update_cafe", "delete_cafe"}
             => req[w].cafe \in Cafes
    BY DEF RequestInv, InProgress
  <1>4. req'[w].op \in {"update_employee", "delete_employee"}
          /\ pc'[w] \in {"require_cafe", "current", "commit"}
          => req'[w].employee \in interfered'[w]
             \/ seen'[w].previous = CafeOf(Active(req[w].employee)')
    BY <1>1, <1>2, <1>3 DEF FirstReadsOf
  <1>5. ASSUME NEW f \in Employees \ interfered'[w], NEW c
        PROVE  f \in Staff(c)' <=> f \in Staff(c)
    BY <1>2 DEF Staff
  <1>6. ASSUME At(w, {"create_cafe"}, "commit")'
        PROVE  /\ cafe'[req[w].cafe] = NoRow
               /\ \A u \in Workers \ {w} : At(u, {"create_cafe"}, "commit")'
                    => req'[u].cafe # req[w].cafe
    <2>1. /\ At(w, {"create_cafe"}, "commit") /\ cafe[req[w].cafe] = NoRow
          /\ \A u \in Workers \ {w} : At(u, {"create_cafe"}, "commit")
               => req[u].cafe # req[w].cafe
      BY <1>1, <1>6 DEF At, FirstReadsOf
    <2>2. cafe'[req[w].cafe] = NoRow
      BY <1>3, <2>1, CafesAreCreated DEF At
    <2>3. ASSUME NEW u \in Workers \ {w}, At(u, {"create_cafe"}, "commit")'
          PROVE  req'[u].cafe # req[w].cafe
      <3>1. CASE u = v
        BY <2>3, <3>1, CreatorsBegin
      <3>2. CASE u # v
        BY <2>1, <2>3, <3>2, OthersGoOn DEF At
      <3>3. QED
        BY <3>1, <3>2
    <2>4. QED
      BY <2>2, <2>3
  <1>7. req'[w].op \in {"update_cafe", "delete_cafe"}
          /\ pc'[w] \in {"delete_staff", "commit"}
          => \A f \in Employees \ interfered'[w] :
               f \in seen'[w].staff <=> f \in Staff(req[w].cafe)'
    BY <1>1, <1>5 DEF FirstReadsOf
  <1>8. At(w, {"delete_cafe"}, "commit")' => doomed'[w] \subseteq seen'[w].staff
    BY <1>1 DEF FirstReadsOf, At
  <1>9. QED
    BY <1>1, <1>4, <1>6, <1>7, <1>8 DEF FirstReadsOf

\* The steps of the request itself.
LEMMA OwnFirstReads ==
  ASSUME TypeOK, RequestInv, FirstReads, NEW w \in Workers,
         Begin(w) \/ Step(w), pc'[w] # "idle"
  PROVE  FirstReadsOf(w)'
  <1>0. pc[w] # "idle" => FirstReadsOf(w) /\ req[w] \in InProgress
    BY DEF FirstReads, RequestInv
  <1>1. At(w, {"create_cafe"}, "commit")' =>
          /\ cafe'[req'[w].cafe] = NoRow
          /\ \A u \in Workers \ {w} : At(u, {"create_cafe"}, "commit")'
               => req'[u].cafe # req'[w].cafe
    BY CreatorsBegin DEF At, tables
  <1>2. CASE Begin(w)
    <2>1. PICK r \in Requests : req'[w] = r /\ pc'[w] = FirstStep(r.op)
      BY <1>2 DEF Begin, Goto, TypeOK
    <2>2. QED
      BY <1>1, <2>1 DEF FirstReadsOf, At, FirstStep
  <1>3. CASE FetchEmployee(w) \/ FetchCafe(w)
    BY <1>3, RejectEnds, SelectKeeps DEF FetchEmployee, FetchCafe, FirstReadsOf, At
  <1>4. CASE FetchPrevious(w)
    <2>1. /\ Select(w, [seen[w] EXCEPT !.previous = CafeOf(Active(req[w].employee))],
                    IF req[w].op = "update_employee" THEN "require_cafe" ELSE "commit")
          /\ req[w].op \in {"update_employee", "delete_employee"}
      BY <1>4 DEF FetchPrevious, At
    <2>2. /\ req' = req
          /\ seen'[w] = [seen[w] EXCEPT !.previous = CafeOf(Active(req[w].employee))]
          /\ Active(req[w].employee)' = Active(req[w].employee)
      BY <2>1, SelectKeeps DEF tables, Active, Rows
    <2>3. seen'[w].previous = CafeOf(Active(req[w].employee))
      BY <2>2 DEF TypeOK, Session
    <2>4. QED
      BY <2>1, <2>2, <2>3 DEF FirstReadsOf, At
  <1>5. CASE RequireCafe(w)
    <2>1. /\ Select(w, seen[w], IF req[w].op = "create_employee"
                                  THEN "pick_id" ELSE "current")
          /\ req[w].op \in {"create_employee", "update_employee"}
          /\ pc[w] = "require_cafe"
      BY <1>5, RejectEnds DEF RequireCafe, At
    <2>2. /\ req' = req /\ seen'[w] = seen[w] /\ interfered' = interfered
          /\ Active(req[w].employee)' = Active(req[w].employee)
          /\ pc'[w] = IF req[w].op = "create_employee" THEN "pick_id" ELSE "current"
      BY <2>1, SelectKeeps DEF tables, Active, Rows
    <2>3. QED
      BY <1>0, <2>1, <2>2 DEF FirstReadsOf, At
  <1>6. CASE FetchCurrent(w)
    <2>1. /\ Select(w, [seen[w] EXCEPT !.current = Active(req[w].employee)], "commit")
          /\ req[w].op = "update_employee" /\ pc[w] = "current"
      BY <1>6 DEF FetchCurrent, At
    <2>2. /\ req' = req /\ seen'[w].previous = seen[w].previous
          /\ interfered' = interfered
          /\ Active(req[w].employee)' = Active(req[w].employee)
      BY <2>1, SelectKeeps DEF tables, TypeOK, Session, Active, Rows
    <2>3. QED
      BY <1>0, <2>1, <2>2 DEF FirstReadsOf, At
  <1>7. CASE CreateUniqueEmployeeId(w)
    <2>1. req[w] \in InProgress /\ req[w].op = "create_employee"
      BY <1>7 DEF CreateUniqueEmployeeId, At, RequestInv
    <2>2. req'[w].op = "create_employee"
      BY <1>7, <2>1, RejectEnds DEF CreateUniqueEmployeeId, TypeOK, InProgress
    <2>3. QED
      BY <2>2 DEF FirstReadsOf, At
  <1>8. CASE FetchStaff(w)
    <2>1. /\ Select(w, [seen[w] EXCEPT !.staff = Staff(req[w].cafe)],
                    IF req[w].op = "update_cafe" THEN "commit" ELSE "delete_staff")
          /\ req[w].op \in {"update_cafe", "delete_cafe"}
      BY <1>8 DEF FetchStaff, At
    <2>2. /\ req' = req /\ seen'[w].staff = Staff(req[w].cafe)
          /\ Staff(req[w].cafe)' = Staff(req[w].cafe)
          /\ pc'[w] = IF req[w].op = "update_cafe" THEN "commit" ELSE "delete_staff"
      BY <2>1, SelectKeeps DEF tables, TypeOK, Session, Staff, Active, Rows
    <2>3. QED
      BY <2>1, <2>2 DEF FirstReadsOf, At
  <1>9. CASE DeleteEmployees(w)
    <2>1. /\ req' = req /\ seen' = seen /\ interfered' = interfered
          /\ req[w].op = "delete_cafe" /\ pc[w] = "delete_staff"
          /\ doomed'[w] \subseteq seen[w].staff
          /\ Staff(req[w].cafe)' = Staff(req[w].cafe)
      BY <1>9 DEF DeleteEmployees, At, tables, TypeOK, Staff, Active, Rows
    <2>2. QED
      BY <1>0, <2>1 DEF FirstReadsOf, At
  <1>10. CASE Writes(w)
    <2>1. \/ \E s : Reject(w, s)
          \/ \E next \in {"refresh", "finish"} : Committed(w, next)
      BY <1>10 DEF Writes, CommitCreateEmployee, CommitUpdateEmployee,
           CommitDeleteEmployee, CommitCreateCafe, CommitUpdateCafe,
           CommitDeleteCafe
    <2>2. pc'[w] \in {"refresh", "finish"}
      BY <2>1, RejectEnds, CommittedGoesOn
    <2>3. QED
      BY <2>2 DEF FirstReadsOf, At
  <1>11. CASE Refresh(w) \/ Finish(w) \/ DeadlockVictim(w) \/ DatabaseFails(w)
    BY <1>11, RejectEnds, SelectKeeps
       DEF Refresh, Finish, DeadlockVictim, DatabaseFails, FirstReadsOf, At
  <1>12. QED
    BY <1>2, <1>3, <1>4, <1>5, <1>6, <1>7, <1>8, <1>9, <1>10, <1>11
       DEF Step, Writes

LEMMA FirstReadsInvariant == Spec => []FirstReads
  <1>1. Init => FirstReads
    BY DEF Init, FirstReads
  <1>2. TypeOK /\ RequestInv /\ FirstReads /\ [Next]_vars => FirstReads'
    <2>1. ASSUME TypeOK, RequestInv, FirstReads, NEW v \in Workers,
                 Begin(v) \/ Step(v), NEW w \in Workers, pc'[w] # "idle"
          PROVE  FirstReadsOf(w)'
      BY <2>1, OwnFirstReads, OthersLeaveFirstReads, OthersGoOn
    <2>2. ASSUME FirstReads, UNCHANGED vars
          PROVE  FirstReads'
      BY <2>2 DEF vars, tables, FirstReads, FirstReadsOf, At, Staff, Active, Rows
    <2>3. QED
      BY <2>1, <2>2 DEF Next, FirstReads
  <1>3. QED
    BY <1>1, <1>2, TypeCorrect, PTL DEF Spec

-------------------------------------------------------------------------------
\* What the services keep true, together.
ServiceInv ==
  TypeOK /\ RequestInv /\ Integrity /\ SeenRows /\ ReadsHold /\ FirstReads

LEMMA ServiceInvariant == Spec => []ServiceInv
  BY TypeCorrect, IntegrityHolds, SeenRowsInvariant, ReadsInvariant,
     FirstReadsInvariant, PTL DEF ServiceInv

\* A view is changed by the rows it shows.
LEMMA SameEmployeeItem ==
  ASSUME NEW e \in Employees, employee'[e] = employee[e], Rows(e)' = Rows(e),
         \A a \in Active(e) : cafe'[a.cafe] = cafe[a.cafe]
  PROVE  EmployeeItem(e)' = EmployeeItem(e)
  <1>1. Active(e)' = Active(e)
    BY DEF Active
  <1>2. {cafe'[a.cafe] : a \in Active(e)} = {cafe[a.cafe] : a \in Active(e)}
    OBVIOUS
  <1>3. QED
    BY <1>1, <1>2 DEF EmployeeItem

LEMMA SameCafeItem ==
  ASSUME NEW c \in Cafes, cafe'[c] = cafe[c], Staff(c)' = Staff(c)
  PROVE  CafeItem(c)' = CafeItem(c)
  BY DEF CafeItem

LEMMA UnchangedViews == ASSUME UNCHANGED tables PROVE ChangedViews = {}
  BY DEF tables, ChangedViews, CafeItem, EmployeeItem, Staff, Active, Rows

\* A write about one employee changes no view but the lists and its detail, and
\* the cafe list only when the employee changes cafe.
LEMMA OneEmployee ==
  ASSUME NEW e \in Employees, cafe' = cafe,
         \A f \in Employees \ {e} : employee'[f] = employee[f] /\ Rows(f)' = Rows(f)
  PROVE  /\ \A v \in ChangedViews :
              \/ v = e /\ employee[e] # NoRow
              \/ v = "employees"
              \/ v = "cafes" /\ \E c \in Cafes : ~(e \in Staff(c) <=> e \in Staff(c)')
         /\ \A c \in Cafes, f \in Employees \ {e} : f \in Staff(c) <=> f \in Staff(c)'
  <1>1. \A f \in Employees \ {e} : EmployeeItem(f)' = EmployeeItem(f)
    BY SameEmployeeItem
  <1>2. \A f \in Employees \ {e} : Active(f)' = Active(f)
    BY DEF Active
  <1>3. \A c \in Cafes, f \in Employees \ {e} : f \in Staff(c) <=> f \in Staff(c)'
    BY <1>2 DEF Staff
  <1>4. ASSUME NEW c \in Cafes, CafeItem(c)' # CafeItem(c)
        PROVE  ~(e \in Staff(c) <=> e \in Staff(c)')
    <2>1. Staff(c)' # Staff(c)
      BY <1>4, SameCafeItem
    <2>2. Staff(c) \subseteq Employees /\ Staff(c)' \subseteq Employees
      BY DEF Staff
    <2>3. QED
      BY <1>3, <2>1, <2>2
  <1>5. QED
    BY <1>1, <1>3, <1>4 DEF ChangedViews

\* The bumps of a refreshed cafe come when the refresh succeeds, which is certain
\* while the cafe is there; what they are for are the cafe and its staff of now.
Promised(w, v) ==
  LET c == req[w].cafe IN
  /\ At(w, {"create_cafe", "update_cafe"}, "refresh") /\ cafe[c] # NoRow
  /\ v \in BumpSet(w)
  /\ \/ v \in {"cafes", c}
     \/ v \in Staff(c)
     \/ v = "employees" /\ Staff(c) # {}

\* What the COMMIT of w owes: a bump for every view it changes, now or once the
\* refresh is through, unless there was a race; a bump for whoever leaves a
\* cafe that stays, and for what was promised about a cafe that goes.
Answerable(w) ==
  /\ pc'[w] = "finish"
       => \A v \in ChangedViews : v \in Raced(w) \cup BumpSet(w)
  /\ pc'[w] = "refresh"
       => \A v \in ChangedViews : v \in Raced(w) \/ Promised(w, v)'
  /\ \A c \in Cafes : \A e \in Staff(c) : cafe'[c] # NoRow /\ e \notin Staff(c)'
       => pc'[w] = "finish" /\ {e, "employees"} \subseteq BumpSet(w)
  /\ \A c \in Cafes : cafe[c] # NoRow /\ cafe'[c] = NoRow
       => /\ pc'[w] = "finish" /\ {"cafes", c} \subseteq BumpSet(w)
          /\ \A e \in Staff(c) :
               \/ {e, "employees"} \subseteq BumpSet(w)
               \/ {e, "employees"} \subseteq ChangedViews \cap Raced(w)

LEMMA CreateEmployeeAnswers ==
  ASSUME ServiceInv, NEW w \in Workers, CommitCreateEmployee(w), Committed(w, "finish")
  PROVE  Answerable(w) \/ pc'[w] = "idle"
  <1> DEFINE e == req[w].employee
             c == req[w].cafe
  <1> USE WriteConstants DEF ServiceInv
  <1>1. CASE UNCHANGED tables
    BY <1>1, UnchangedViews, CommittedGoesOn
       DEF Answerable, Staff, Active, Rows, tables
  <1>2. CASE /\ employee[e] = NoRow /\ cafe' = cafe
             /\ SetEmployee(e, Written(w))
             /\ assignments' = assignments \cup {NewRow(e, c)}
    <2>1. req[w].op = "create_employee" /\ e \in Employees
      BY DEF CommitCreateEmployee, At, RequestInv
    <2>2. \A f \in Employees \ {e} : employee'[f] = employee[f] /\ Rows(f)' = Rows(f)
      BY <1>2, <2>1 DEF SetEmployee, TypeOK, Rows, NewRow
    <2>3. \A d \in Cafes : Staff(d) \subseteq Staff(d)'
      BY <1>2 DEF Staff, Active, Rows
    <2>4. \A v \in ChangedViews : v \in {"employees", "cafes"}
      BY <1>2, <2>1, <2>2, OneEmployee
    <2>5. BumpSet(w) = {"employees", "cafes"}
      BY <2>1 DEF BumpSet
    <2>6. pc'[w] \in {"finish", "idle"}
      BY CommittedGoesOn
    <2>7. QED
      BY <1>2, <2>3, <2>4, <2>5, <2>6 DEF Answerable
  <1>3. QED
    BY <1>1, <1>2 DEF CommitCreateEmployee, Reject

LEMMA UpdateEmployeeAnswers ==
  ASSUME ServiceInv, NEW w \in Workers, CommitUpdateEmployee(w), Committed(w, "finish")
  PROVE  Answerable(w) \/ pc'[w] = "idle"
  <1> DEFINE e == req[w].employee
             c == req[w].cafe
             S == seen[w].current
  <1> USE WriteConstants DEF ServiceInv
  <1>1. CASE UNCHANGED tables
    BY <1>1, UnchangedViews, CommittedGoesOn
       DEF Answerable, Staff, Active, Rows, tables
  <1>2. CASE /\ cafe' = cafe
             /\ SetEmployee(e, Written(w)) \/ UNCHANGED employee
             /\ \/ ~Moves(w) /\ assignments' = assignments
                \/ Moves(w) /\ assignments' \in {CloseRows(S), CloseRows(S) \cup {NewRow(e, c)}}
    <2>1. /\ req[w].op = "update_employee" /\ e \in Employees
          /\ At(w, {"update_employee"}, "commit")
      BY DEF CommitUpdateEmployee, At, RequestInv
    <2>2. ASSUME NEW f \in Employees \ {e}
          PROVE  employee'[f] = employee[f] /\ Rows(f)' = Rows(f)
      <3>1. employee'[f] = employee[f]
        BY <1>2, <2>1 DEF SetEmployee, TypeOK
      <3>2. \A b \in S : b.employee = e
        BY <2>1 DEF SeenRows
      <3>3. {b \in CloseRows(S) : b.employee = f} = Rows(f)
        <4>1. \A a \in assignments : a.employee = f => ~\E b \in S : SameRow(a, b)
          BY <3>2 DEF SameRow
        <4>2. Rows(f) \subseteq CloseRows(S)
          BY <4>1 DEF CloseRows, Rows
        <4>3. \A b \in CloseRows(S) : b.employee = f => b \in assignments
          BY <4>1, CloseRowsKeeps DEF TypeOK, SameRow
        <4>4. QED
          BY <4>2, <4>3 DEF Rows
      <3>4. NewRow(e, c).employee # f
        BY DEF NewRow
      <3>5. QED
        BY <1>2, <3>1, <3>3, <3>4 DEF Rows
    <2>3. ASSUME NEW d \in Cafes, ~(e \in Staff(d) <=> e \in Staff(d)')
          PROVE  "cafes" \in Raced(w) \cup BumpSet(w)
      <3>1. CASE e \in interfered[w]
        BY <3>1 DEF Raced
      <3>2. CASE e \notin interfered[w]
        <4>1. S = Active(e) /\ seen[w].previous = CafeOf(Active(e))
          BY <2>1, <3>2 DEF ReadsHold, ReadsHoldOf, FirstReads, FirstReadsOf, At
        <4>2. Moves(w)
          BY <1>2, <2>3 DEF Staff, Active, Rows
        <4>3. seen[w].previous # c
          BY <4>1, <4>2 DEF Moves
        <4>4. QED
          BY <2>1, <4>3 DEF BumpSet
      <3>3. QED
        BY <3>1, <3>2
    <2>4. {e, "employees"} \subseteq BumpSet(w)
      BY <2>1 DEF BumpSet
    <2>5. pc'[w] \in {"finish", "idle"}
      BY CommittedGoesOn
    <2>6. \A v \in ChangedViews : v \in Raced(w) \cup BumpSet(w)
      BY <1>2, <2>1, <2>2, <2>3, <2>4, OneEmployee
    <2>7. \A d \in Cafes : \A f \in Staff(d) : f \in Staff(d)' \/ f = e
      BY <1>2, <2>1, <2>2, OneEmployee DEF Staff
    <2>8. QED
      BY <1>2, <2>4, <2>5, <2>6, <2>7 DEF Answerable
  <1>3. QED
    BY <1>1, <1>2 DEF CommitUpdateEmployee, Reject

LEMMA DeleteEmployeeAnswers ==
  ASSUME ServiceInv, NEW w \in Workers, CommitDeleteEmployee(w)
  PROVE  Answerable(w) \/ pc'[w] = "idle"
  <1> DEFINE e == req[w].employee
  <1> USE WriteConstants DEF ServiceInv
  <1>1. /\ req[w].op = "delete_employee" /\ e \in Employees /\ pc[w] = "commit"
        /\ cafe' = cafe /\ assignments' = assignments \ Rows(e)
        /\ employee' = [employee EXCEPT ![e] = NoRow]
        /\ Committed(w, "finish")
    BY DEF CommitDeleteEmployee, At, RequestInv, SetEmployee
  <1>2. \A f \in Employees \ {e} : employee'[f] = employee[f] /\ Rows(f)' = Rows(f)
    BY <1>1 DEF TypeOK, Rows
  <1>3. \A d \in Cafes : e \notin Staff(d)'
    BY <1>1 DEF Staff, Active, Rows
  <1>4. ASSUME NEW d \in Cafes, e \in Staff(d)
        PROVE  "cafes" \in Raced(w) \cup BumpSet(w)
    <2>1. CASE e \in interfered[w]
      BY <2>1 DEF Raced
    <2>2. CASE e \notin interfered[w]
      <3>1. seen[w].previous = CafeOf(Active(e))
        BY <1>1, <2>2 DEF FirstReads, FirstReadsOf
      <3>2. Active(e) # {} /\ \A a \in Active(e) : a.cafe \in Cafes
        BY <1>4 DEF Staff, Active, Rows, TypeOK, Assignment
      <3>3. seen[w].previous # NoCafe
        BY <3>1, <3>2 DEF CafeOf
      <3>4. QED
        BY <1>1, <3>3 DEF BumpSet
    <2>3. QED
      BY <2>1, <2>2
  <1>5. {e, "employees"} \subseteq BumpSet(w)
    BY <1>1 DEF BumpSet
  <1>6. pc'[w] \in {"finish", "idle"}
    BY <1>1, CommittedGoesOn
  <1>7. \A v \in ChangedViews : v \in Raced(w) \cup BumpSet(w)
    BY <1>1, <1>2, <1>3, <1>4, <1>5, OneEmployee
  <1>8. \A d \in Cafes : \A f \in Staff(d) : f \in Staff(d)' \/ f = e
    BY <1>1, <1>2, OneEmployee DEF Staff
  <1>9. QED
    BY <1>1, <1>5, <1>6, <1>7, <1>8 DEF Answerable

\* A write about one cafe row changes that cafe, the list and its staff.
LEMMA OneCafe ==
  ASSUME TypeOK, NEW c \in Cafes, employee' = employee, assignments' = assignments,
         \A d \in Cafes \ {c} : cafe'[d] = cafe[d]
  PROVE  /\ \A v \in ChangedViews :
              \/ v = c /\ cafe[c] # NoRow
              \/ v = "cafes"
              \/ v \in Staff(c)
              \/ v = "employees" /\ Staff(c) # {}
         /\ \A d \in Cafes : Staff(d)' = Staff(d)
  <1>1. \A d \in Cafes : Staff(d)' = Staff(d)
    BY DEF Staff, Active, Rows
  <1>2. ASSUME NEW e \in Employees \ Staff(c)
        PROVE  EmployeeItem(e)' = EmployeeItem(e)
    <2>1. \A a \in Active(e) : a.cafe \in Cafes \ {c}
      BY <1>2 DEF Staff, Active, Rows, TypeOK, Assignment
    <2>2. Rows(e)' = Rows(e)
      BY DEF Rows
    <2>3. QED
      BY <2>1, <2>2, SameEmployeeItem
  <1>3. QED
    BY <1>1, <1>2 DEF ChangedViews

LEMMA CreateCafeAnswers ==
  ASSUME ServiceInv, NEW w \in Workers, CommitCreateCafe(w)
  PROVE  Answerable(w) \/ pc'[w] = "idle"
  <1> DEFINE c == req[w].cafe
  <1> USE WriteConstants DEF ServiceInv
  <1>1. /\ At(w, {"create_cafe"}, "commit") /\ c \in Cafes /\ req[w].name # NoRow
        /\ cafe' = [cafe EXCEPT ![c] = req[w].name]
        /\ employee' = employee /\ assignments' = assignments
        /\ Committed(w, "refresh")
    BY DEF CommitCreateCafe, At, RequestInv, SetCafe
  <1>2. cafe[c] = NoRow
    BY <1>1 DEF FirstReads, FirstReadsOf, At
  <1>3. Staff(c) = {}
    BY <1>2 DEF Staff, Active, Rows, Integrity
  <1>4. /\ \A d \in Cafes \ {c} : cafe'[d] = cafe[d]
        /\ cafe'[c] # NoRow
    BY <1>1 DEF TypeOK
  <1>5. /\ \A v \in ChangedViews : v = "cafes"
        /\ \A d \in Cafes : Staff(d)' = Staff(d)
    <2>1. \A v \in ChangedViews : \/ v = c /\ cafe[c] # NoRow
                                  \/ v = "cafes"
                                  \/ v \in Staff(c)
                                  \/ v = "employees" /\ Staff(c) # {}
      BY <1>1, <1>4, OneCafe
    <2>2. \A d \in Cafes : Staff(d)' = Staff(d)
      BY <1>1, <1>4, OneCafe
    <2>3. QED
      BY <1>2, <1>3, <2>1, <2>2
  <1>6. pc'[w] = "idle" \/ (pc'[w] = "refresh" /\ req' = req)
    BY <1>1, CommittedGoesOn
  <1>7. pc'[w] = "refresh" => Promised(w, "cafes")'
    BY <1>1, <1>4, <1>6 DEF Promised, BumpSet, At
  <1>8. QED
    BY <1>2, <1>4, <1>5, <1>6, <1>7 DEF Answerable

LEMMA UpdateCafeAnswers ==
  ASSUME ServiceInv, NEW w \in Workers, CommitUpdateCafe(w), Committed(w, "refresh")
  PROVE  Answerable(w) \/ pc'[w] = "idle"
  <1> DEFINE c == req[w].cafe
  <1> USE WriteConstants DEF ServiceInv
  <1>1. CASE UNCHANGED tables
    BY <1>1, UnchangedViews, CommittedGoesOn
       DEF Answerable, Staff, Active, Rows, tables
  <1>2. CASE /\ cafe' = [cafe EXCEPT ![c] = req[w].name] /\ cafe[c] # NoRow
             /\ employee' = employee /\ assignments' = assignments
    <2>1. /\ req[w].op = "update_cafe" /\ pc[w] = "commit" /\ c \in Cafes
          /\ req[w].name # NoRow
      BY DEF CommitUpdateCafe, At, RequestInv
    <2>2. /\ \A d \in Cafes \ {c} : cafe'[d] = cafe[d]
          /\ cafe'[c] # NoRow
      BY <1>2, <2>1 DEF TypeOK
    <2>3. /\ \A v \in ChangedViews :
               v \in {c, "cafes"} \cup Staff(c) \/ (v = "employees" /\ Staff(c) # {})
          /\ \A d \in Cafes : Staff(d)' = Staff(d)
      BY <1>2, <2>1, <2>2, OneCafe
    <2>4. \A f \in Staff(c) : f \in Employees
                             /\ (f \in interfered[w] \/ f \in seen[w].staff)
      BY <2>1 DEF FirstReads, FirstReadsOf, Staff
    <2>5. CASE pc'[w] = "idle"
      BY <2>5
    <2>6. CASE pc'[w] = "refresh" /\ req' = req /\ seen' = seen
      <3>1. BumpSet(w)' = {"cafes", c} \cup
              (IF seen[w].staff # {} THEN {"employees"} \cup seen[w].staff ELSE {})
        BY <2>1, <2>6 DEF BumpSet
      <3>2. ASSUME NEW v \in ChangedViews, v \notin Raced(w)
            PROVE  v \in BumpSet(w)'
        BY <2>3, <2>4, <3>1, <3>2 DEF Raced
      <3>3. ASSUME NEW v \in ChangedViews, v \notin Raced(w)
            PROVE  Promised(w, v)'
        BY <2>1, <2>2, <2>3, <2>6, <3>2, <3>3 DEF Promised, At
      <3>4. QED
        BY <2>2, <2>3, <2>6, <3>3 DEF Answerable
    <2>7. QED
      BY <2>5, <2>6, CommittedGoesOn
  <1>3. QED
    BY <1>1, <1>2 DEF CommitUpdateCafe, SetCafe, Reject, tables

LEMMA DeleteCafeAnswers ==
  ASSUME ServiceInv, NEW w \in Workers, CommitDeleteCafe(w)
  PROVE  Answerable(w) \/ pc'[w] = "idle"
  <1> DEFINE c == req[w].cafe
             known == seen[w].staff
  <1> USE WriteConstants DEF ServiceInv
  <1>1. /\ At(w, {"delete_cafe"}, "commit") /\ c \in Cafes
        /\ employee' = [e \in Employees |->
                          IF e \in doomed[w] THEN NoRow ELSE employee[e]]
        /\ assignments' = {a \in assignments :
                             a.employee \notin doomed[w] /\ a.cafe # c}
        /\ cafe' = [cafe EXCEPT ![c] = NoRow]
        /\ Committed(w, "finish")
    BY DEF CommitDeleteCafe, At, RequestInv, SetCafe
  <1>2. doomed[w] \subseteq known /\ known \subseteq Employees
    BY <1>1 DEF FirstReads, FirstReadsOf, At, TypeOK, Session
  <1>3. \A f \in Staff(c) : f \in Employees
                           /\ (f \in interfered[w] \/ f \in known)
    BY <1>1 DEF FirstReads, FirstReadsOf, Staff, At
  <1>4. BumpSet(w) = {"cafes", c} \cup
                       (IF known # {} THEN {"employees"} \cup known ELSE {})
    BY <1>1 DEF BumpSet, At
  <1>5. ASSUME NEW e \in Employees, e \notin doomed[w], e \notin Staff(c)
        PROVE  EmployeeItem(e)' = EmployeeItem(e)
    <2>1. employee'[e] = employee[e] /\ Active(e)' = Active(e)
      BY <1>1, <1>5 DEF Active, Rows, Staff
    <2>2. \A a \in Active(e) : cafe'[a.cafe] = cafe[a.cafe]
      BY <1>1, <1>5 DEF Staff, Active, Rows, TypeOK, Assignment
    <2>3. {cafe'[a.cafe] : a \in Active(e)} = {cafe[a.cafe] : a \in Active(e)}
      BY <2>2
    <2>4. QED
      BY <2>1, <2>3 DEF EmployeeItem
  <1>6. ASSUME NEW e \in Employees, EmployeeItem(e)' # EmployeeItem(e)
        PROVE  /\ e \in Raced(w) \cup BumpSet(w)
               /\ "employees" \in Raced(w) \cup BumpSet(w)
    BY <1>2, <1>3, <1>4, <1>5, <1>6 DEF Raced
  <1>7. \A v \in ChangedViews : v \in Raced(w) \cup BumpSet(w)
    BY <1>1, <1>4, <1>6 DEF ChangedViews, TypeOK
  <1>8. ASSUME NEW d \in Cafes, NEW e \in Staff(d), cafe'[d] # NoRow,
               e \notin Staff(d)'
        PROVE  {e, "employees"} \subseteq BumpSet(w)
    <2>1. d # c
      BY <1>1, <1>8 DEF TypeOK
    <2>2. e \in doomed[w]
      BY <1>1, <1>8, <2>1 DEF Staff, Active, Rows
    <2>3. QED
      BY <1>2, <1>4, <2>2
  <1>9. ASSUME NEW e \in Staff(c)
        PROVE  \/ {e, "employees"} \subseteq BumpSet(w)
               \/ {e, "employees"} \subseteq ChangedViews \cap Raced(w)
    <2>1. CASE e \in known
      BY <1>4, <2>1
    <2>2. CASE e \in interfered[w]
      <3>1. PICK a \in Active(e) : a.cafe = c
        BY DEF Staff
      <3>2. /\ e \in Employees /\ employee[e] # NoRow /\ a \notin Active(e)'
            /\ a \in Active(e)
        BY <1>1, <1>3, <3>1 DEF Active, Rows, Integrity
      <3>3. Active(e)' # Active(e)
        BY <3>2
      <3>4. EmployeeItem(e)' # EmployeeItem(e)
        <4> DEFINE row == <<e, employee[e], Active(e), {cafe[b.cafe] : b \in Active(e)}>>
        <4>1. EmployeeItem(e) = {row} /\ row[3] = Active(e)
          BY <3>2 DEF EmployeeItem
        <4>2. EmployeeItem(e)' \in {{}, {row'}} /\ row'[3] = Active(e)'
          BY DEF EmployeeItem
        <4>3. row # row'
          BY <3>3, <4>1, <4>2
        <4>4. QED
          BY <4>1, <4>2, <4>3
      <3>5. QED
        BY <2>2, <3>2, <3>4 DEF ChangedViews, Raced
    <2>3. QED
      BY <1>3, <2>1, <2>2
  <1>10. \A d \in Cafes : cafe[d] # NoRow /\ cafe'[d] = NoRow => d = c
    BY <1>1 DEF TypeOK
  <1>11. pc'[w] \in {"finish", "idle"}
    BY <1>1, CommittedGoesOn
  <1>12. QED
    BY <1>4, <1>7, <1>8, <1>9, <1>10, <1>11 DEF Answerable

-------------------------------------------------------------------------------
LEMMA ReadersChangeNothing ==
  ASSUME NEW w \in Workers, Begin(w) \/ Step(w), pc[w] # "commit"
  PROVE  UNCHANGED tables
  BY DEF Begin, Step, FetchEmployee, FetchCafe, FetchPrevious, RequireCafe,
         FetchCurrent, CreateUniqueEmployeeId, FetchStaff, DeleteEmployees,
         CommitCreateEmployee, CommitUpdateEmployee, CommitDeleteEmployee,
         CommitCreateCafe, CommitUpdateCafe, CommitDeleteCafe, Refresh, Finish,
         DeadlockVictim, DatabaseFails, Select, Reject, At, tables

\* While no answer of a COMMIT is lost, every commit is answerable.
LEMMA CommitsAreAnswerable ==
  ASSUME DatabaseMayFail = FALSE, ServiceInv, NEW w \in Workers,
         Begin(w) \/ Step(w), pc[w] = "commit"
  PROVE  \/ UNCHANGED tables /\ pc'[w] = "idle"
         \/ Answerable(w) /\ pc'[w] \in {"finish", "refresh"}
  <1>1. ASSUME NEW next \in {"finish", "refresh"}, Committed(w, next)
        PROVE  pc'[w] = next
    BY <1>1 DEF Committed, Goto, ServiceInv, TypeOK
  <1>2. ASSUME NEW s, Reject(w, s)
        PROVE  UNCHANGED tables /\ pc'[w] = "idle"
    BY <1>2, RejectEnds DEF ServiceInv
  <1>3. Writes(w) \/ DeadlockVictim(w)
    BY DEF Begin, Step, FetchEmployee, FetchCafe, FetchPrevious, RequireCafe,
           FetchCurrent, CreateUniqueEmployeeId, FetchStaff, DeleteEmployees,
           Refresh, Finish, DatabaseFails, Writes, At
  <1>4. CASE CommitCreateEmployee(w)
    BY <1>1, <1>2, <1>4, CreateEmployeeAnswers DEF CommitCreateEmployee
  <1>5. CASE CommitUpdateEmployee(w)
    BY <1>1, <1>2, <1>5, UpdateEmployeeAnswers DEF CommitUpdateEmployee
  <1>6. CASE CommitDeleteEmployee(w)
    BY <1>1, <1>6, DeleteEmployeeAnswers DEF CommitDeleteEmployee
  <1>7. CASE CommitCreateCafe(w)
    BY <1>1, <1>7, CreateCafeAnswers DEF CommitCreateCafe
  <1>8. CASE CommitUpdateCafe(w)
    BY <1>1, <1>2, <1>8, UpdateCafeAnswers DEF CommitUpdateCafe
  <1>9. CASE CommitDeleteCafe(w)
    BY <1>1, <1>9, DeleteCafeAnswers DEF CommitDeleteCafe
  <1>10. CASE DeadlockVictim(w)
    BY <1>2, <1>10 DEF DeadlockVictim
  <1>11. QED
    BY <1>3, <1>4, <1>5, <1>6, <1>7, <1>8, <1>9, <1>10 DEF Writes

-------------------------------------------------------------------------------
\* The services run as they do alone.
LEMMA ServicesRun == CacheSpec => Spec
  <1>1. CacheInit => Init
    BY DEF CacheInit
  <1>2. [CacheNext]_allVars => [Next]_vars
    BY DEF CacheNext, Serve, Bump, Next, allVars
  <1>3. QED
    BY <1>1, <1>2, PTL DEF CacheSpec, Spec

\* Bumps are the last thing a request does before it answers.
BumpsComeLast == \A w \in Workers : todo[w] # <<>> => pc[w] = "finish"

LEMMA BumpsStep ==
  ASSUME TypeOK, RequestInv, CacheTypeOK, BumpsComeLast, [CacheNext]_allVars
  PROVE  CacheTypeOK' /\ BumpsComeLast'
  <1> USE DEF CacheTypeOK
  <1>1. ASSUME NEW w \in Workers, Serve(w)
        PROVE  CacheTypeOK' /\ BumpsComeLast'
    <2>1. ChangedViews \subseteq Views
      BY DEF ChangedViews, Views
    <2>2. owed' \subseteq Views /\ raced' \subseteq owed'
      BY <1>1, <2>1 DEF Serve
    <2>3. \A v \in Workers \ {w} : pc'[v] = pc[v] /\ todo'[v] = todo[v]
      BY <1>1, OthersGoOn DEF Serve
    <2>4. CASE pc[w] # "finish" /\ pc'[w] = "finish"
      <3>1. pc[w] # "idle"
        BY <1>1, <2>4 DEF Serve, Begin, Step, FetchEmployee, FetchCafe,
           FetchPrevious, RequireCafe, FetchCurrent, CreateUniqueEmployeeId,
           FetchStaff, DeleteEmployees, CommitCreateEmployee,
           CommitUpdateEmployee, CommitDeleteEmployee, CommitCreateCafe,
           CommitUpdateCafe, CommitDeleteCafe, Refresh, Finish, DeadlockVictim,
           DatabaseFails, At, Reject, Answer, Goto, FirstStep, TypeOK
      <3>2. todo' = [todo EXCEPT ![w] = Bumps(w)] /\ Bumps(w) \in Seq(Views)
        BY <1>1, <2>4, <3>1, BumpsAreBumpSet DEF Serve
      <3>3. QED
        BY <2>2, <2>3, <2>4, <3>2 DEF BumpsComeLast
    <2>5. CASE ~(pc[w] # "finish" /\ pc'[w] = "finish")
      BY <1>1, <2>2, <2>3, <2>5 DEF Serve, BumpsComeLast
    <2>6. QED
      BY <2>4, <2>5
  <1>2. ASSUME NEW w \in Workers, Bump(w)
        PROVE  CacheTypeOK' /\ BumpsComeLast'
    <2>1. Tail(todo[w]) \in Seq(Views)
      BY <1>2, HeadAndTail DEF Bump
    <2>2. QED
      BY <1>2, <2>1 DEF Bump, BumpsComeLast, vars
  <1>3. CASE UNCHANGED allVars
    BY <1>3 DEF allVars, vars, BumpsComeLast
  <1>4. QED
    BY <1>1, <1>2, <1>3 DEF CacheNext

\* The variables that Invalidation adds keep their types: a race is recorded only
\* of a view that is owed, and what is to be bumped is a view.
THEOREM CacheTypeCorrect == CacheSpec => []CacheTypeOK
  <1>1. CacheInit => CacheTypeOK /\ BumpsComeLast
    BY DEF CacheInit, CacheTypeOK, BumpsComeLast
  <1>2. TypeOK /\ RequestInv /\ CacheTypeOK /\ BumpsComeLast /\ [CacheNext]_allVars
        => CacheTypeOK' /\ BumpsComeLast'
    BY BumpsStep
  <1>3. QED
    BY <1>1, <1>2, ServicesRun, TypeCorrect, PTL DEF CacheSpec

\* Some request is sure to bump the counter of every view that is owed one.
Sure(w, v) == v \in ToSet(todo[w]) \/ Promised(w, v)
OwedArePromised == \A v \in owed \ raced : \E w \in Workers : Sure(w, v)

LEMMA ServeKeepsPromises ==
  ASSUME DatabaseMayFail = FALSE, ServiceInv, CacheTypeOK, OwedArePromised,
         NEW w \in Workers, Serve(w)
  PROVE  OwedArePromised'
  <1> USE DEF CacheTypeOK
  <1>1. ASSUME NEW u \in Workers \ {w}
        PROVE  /\ pc'[u] = pc[u] /\ req'[u] = req[u] /\ seen'[u] = seen[u]
               /\ todo'[u] = todo[u] /\ BumpSet(u)' = BumpSet(u)
    BY OthersGoOn DEF Serve, ServiceInv, BumpSet
  <1>2. ~(\E v : v \in ToSet(todo[w]))
    BY DEF Serve, ToSet
  <1>3. ASSUME UNCHANGED tables, NEW u \in Workers \ {w}, NEW v, Sure(u, v)
        PROVE  Sure(u, v)'
    BY <1>1, <1>3 DEF Sure, Promised, At, tables, Staff, Active, Rows
  <1>4. ASSUME pc'[w] = "finish", pc[w] \in {"commit", "refresh"},
               NEW v \in BumpSet(w)
        PROVE  Sure(w, v)'
    BY <1>4, BumpsAreBumpSet DEF Serve, Sure, ServiceInv
  <1>5. ASSUME UNCHANGED tables
        PROVE  OwedArePromised'
    <2>1. owed' = owed /\ raced' = raced
      BY <1>5, UnchangedViews DEF Serve
    <2>2. ASSUME NEW v, Sure(w, v)
          PROVE  Sure(w, v)'
      <3>1. Promised(w, v)
        BY <1>2, <2>2 DEF Sure
      <3>2. Refresh(w) /\ cafe[req[w].cafe] # NoRow
        BY <3>1 DEF Promised, At, Serve, Begin, Step, FetchEmployee, FetchCafe,
           FetchPrevious, RequireCafe, FetchCurrent, CreateUniqueEmployeeId,
           FetchStaff, DeleteEmployees, CommitCreateEmployee,
           CommitUpdateEmployee, CommitDeleteEmployee, CommitCreateCafe,
           CommitUpdateCafe, CommitDeleteCafe, Finish, DeadlockVictim,
           DatabaseFails, Deadlocked, Footprint
      <3>3. pc'[w] = "finish"
        BY <3>2, SelectKeeps DEF Refresh, ServiceInv
      <3>4. QED
        BY <1>4, <3>1, <3>3 DEF Promised, At
    <2>3. ASSUME NEW v \in owed' \ raced'
          PROVE  \E u \in Workers : Sure(u, v)'
      <3>1. PICK u \in Workers : Sure(u, v)
        BY <2>1, <2>3 DEF OwedArePromised
      <3>2. CASE u = w
        BY <2>2, <3>1, <3>2
      <3>3. CASE u # w
        BY <1>3, <1>5, <3>1, <3>3
      <3>4. QED
        BY <3>2, <3>3
    <2>4. QED
      BY <2>3 DEF OwedArePromised
  <1>6. ASSUME Answerable(w), pc[w] = "commit", pc'[w] \in {"finish", "refresh"}
        PROVE  OwedArePromised'
    <2> SUFFICES ASSUME NEW v \in owed', v \notin raced'
                 PROVE  \E u \in Workers : Sure(u, v)'
      BY DEF OwedArePromised
    <2>1. v \notin ChangedViews \cap Raced(w) /\ v \notin raced
      BY <1>6 DEF Serve
    <2>2. CASE v \in ChangedViews
      <3>1. (v \in BumpSet(w) /\ pc'[w] = "finish") \/ Promised(w, v)'
        BY <1>6, <2>1, <2>2 DEF Answerable
      <3>2. QED
        BY <1>4, <1>6, <3>1 DEF Sure
    <2>3. CASE v \notin ChangedViews
      <3>1. PICK u \in Workers : Sure(u, v)
        BY <2>1, <2>3 DEF Serve, OwedArePromised
      <3>2. u # w
        BY <1>2, <1>6, <3>1 DEF Sure, Promised, At
      <3>3. CASE v \in ToSet(todo[u])
        BY <1>1, <3>2, <3>3 DEF Sure
      <3>4. CASE Promised(u, v)
        <4>1. PICK c \in Cafes : c = req[u].cafe /\ cafe[c] # NoRow
          BY <3>4 DEF Promised, At, ServiceInv, RequestInv
        <4>2. CASE cafe'[c] = NoRow
          <5>1. /\ pc'[w] = "finish" /\ {"cafes", c} \subseteq BumpSet(w)
                /\ \A e \in Staff(c) :
                     \/ {e, "employees"} \subseteq BumpSet(w)
                     \/ {e, "employees"} \subseteq ChangedViews \cap Raced(w)
            BY <1>6, <4>1, <4>2 DEF Answerable
          <5>2. v \in BumpSet(w)
            BY <2>1, <3>4, <4>1, <5>1 DEF Promised
          <5>3. QED
            BY <1>4, <1>6, <5>1, <5>2
        <4>3. CASE cafe'[c] # NoRow
          <5>1. CASE \E e \in Staff(c) \ Staff(c)' : v \in {e, "employees"}
            <6>1. PICK e \in Staff(c) : e \notin Staff(c)' /\ v \in {e, "employees"}
              BY <5>1
            <6>2. pc'[w] = "finish" /\ {e, "employees"} \subseteq BumpSet(w)
              BY <1>6, <4>1, <4>3, <6>1 DEF Answerable
            <6>3. v \in BumpSet(w)
              BY <6>1, <6>2
            <6>4. QED
              BY <1>4, <1>6, <6>2, <6>3
          <5>2. CASE ~\E e \in Staff(c) \ Staff(c)' : v \in {e, "employees"}
            <6>1. \/ v \in {"cafes", c}
                  \/ v \in Staff(c)'
                  \/ v = "employees" /\ Staff(c)' # {}
              BY <3>4, <4>1, <5>2 DEF Promised
            <6>2. Promised(u, v)'
              BY <1>1, <3>2, <3>4, <4>1, <4>3, <6>1 DEF Promised, At, Staff, Active, Rows
            <6>3. QED
              BY <6>2 DEF Sure
          <5>3. QED
            BY <5>1, <5>2
        <4>4. QED
          BY <4>2, <4>3
      <3>5. QED
        BY <3>1, <3>3, <3>4 DEF Sure
    <2>4. QED
      BY <2>2, <2>3
  <1>7. QED
    BY <1>5, <1>6, CommitsAreAnswerable, ReadersChangeNothing DEF Serve

LEMMA BumpKeepsPromises ==
  ASSUME CacheTypeOK, BumpsComeLast, OwedArePromised, NEW w \in Workers, Bump(w)
  PROVE  OwedArePromised'
  <1>1. /\ todo[w] \in Seq(Views) /\ todo[w] # <<>> /\ pc[w] = "finish"
        /\ owed' \ raced' = (owed \ raced) \ {Head(todo[w])}
    BY DEF CacheTypeOK, BumpsComeLast, Bump
  <1>2. ASSUME NEW u \in Workers, NEW v, Sure(u, v), v # Head(todo[w])
        PROVE  Sure(u, v)'
    <2>1. CASE v \in ToSet(todo[u])
      <3>1. v \in ToSet(todo'[u])
        BY <1>1, <1>2, <2>1, HeadAndTail DEF Bump, CacheTypeOK
      <3>2. QED
        BY <3>1 DEF Sure, ToSet
    <2>2. CASE Promised(u, v)
      BY <2>2 DEF Sure, Promised, BumpSet, At, Bump, vars, tables, Staff, Active, Rows
    <2>3. QED
      BY <1>2, <2>1, <2>2 DEF Sure
  <1>3. QED
    BY <1>1, <1>2 DEF OwedArePromised

\* As long as no connection is lost, only a race leaves a cached view behind:
\* whatever view a commit changed, a request on its way is about to bump its
\* counter, or the write raced with another about the same employees.
THEOREM MissedBumpsNeedARace ==
  ASSUME DatabaseMayFail = FALSE
  PROVE  CacheSpec => []OnlyRacesMissBumps
  <1>1. CacheInit => OwedArePromised /\ BumpsComeLast /\ CacheTypeOK
    BY DEF CacheInit, OwedArePromised, BumpsComeLast, CacheTypeOK
  <1>2. /\ ServiceInv /\ CacheTypeOK /\ BumpsComeLast /\ OwedArePromised
        /\ [CacheNext]_allVars
        => OwedArePromised'
    <2>1. ASSUME OwedArePromised, UNCHANGED allVars
          PROVE  OwedArePromised'
      BY <2>1 DEF OwedArePromised, Sure, Promised, BumpSet, At, allVars, vars,
           tables, Staff, Active, Rows
    <2>2. QED
      BY <2>1, ServeKeepsPromises, BumpKeepsPromises DEF CacheNext
  <1>3. /\ TypeOK /\ RequestInv /\ CacheTypeOK /\ BumpsComeLast
        /\ [CacheNext]_allVars
        => CacheTypeOK' /\ BumpsComeLast'
    BY BumpsStep
  <1>4. ServiceInv /\ BumpsComeLast /\ OwedArePromised => OnlyRacesMissBumps
    <2> SUFFICES ASSUME ServiceInv, BumpsComeLast, NEW v, NEW w \in Workers, Sure(w, v)
                 PROVE  v \in Scheduled(w)
      BY DEF OwedArePromised, OnlyRacesMissBumps, Covered
    <2>1. CASE v \in ToSet(todo[w])
      <3>1. todo[w] # <<>>
        BY <2>1 DEF ToSet
      <3>2. QED
        BY <2>1, <3>1 DEF BumpsComeLast, Scheduled
    <2>2. CASE Promised(w, v)
      BY <2>2, BumpsAreBumpSet DEF Promised, At, Scheduled, ServiceInv
    <2>3. QED
      BY <2>1, <2>2 DEF Sure
  <1>5. QED
    BY <1>1, <1>2, <1>3, <1>4, ServicesRun, ServiceInvariant, TypeCorrect, PTL
       DEF CacheSpec
===============================================================================
