----------------------------- MODULE Invalidation -----------------------------
(***************************************************************************)
(* WriteServices composed with the cache invalidation that follows each    *)
(* commit: which version counters a write bumps, in which order, and       *)
(* whether they cover every cached view whose content the commit changed.  *)
(*                                                                         *)
(* VersionedCache shows that a view stays fresh if every commit that       *)
(* changes it is followed by a bump of its counter.  Here is where that    *)
(* premise is checked: the services decide what to bump from rows they     *)
(* read before the commit.                                                 *)
(***************************************************************************)
EXTENDS WriteServices, SequencesExt

VARIABLES
  owed,  \* views whose content changed since the last bump of their counter
  raced, \* those changed by a write that raced with another (history)
  todo   \* [Workers -> Seq(Views)]: the bumps a write still has to make

\* An identifier is "UI" and seven characters.
ASSUME FiniteEmployees == IsFiniteSet(Employees)

allVars == <<vars, owed, raced, todo>>

\* The two list namespaces, and the detail record of each cafe and employee.
Views == {"cafes", "employees"} \cup Cafes \cup Employees

\* What fetch_cafe_list, fetch_employee_list and fetch_employee_detail select.
CafeItem(c) == IF cafe[c] = NoRow THEN {}
               ELSE {<<c, cafe[c], Cardinality(Staff(c))>>}

EmployeeItem(e) == IF employee[e] = NoRow THEN {}
                   ELSE {<<e, employee[e], Active(e), {cafe[a.cafe] : a \in Active(e)}>>}

\* The views whose content differs between this state and the next.  A detail
\* view of a row that did not exist has nothing cached: a 404 is never stored.
ChangedViews ==
  {c \in Cafes : cafe[c] # NoRow /\ cafe'[c] # cafe[c]} \cup
  {e \in Employees : /\ employee[e] # NoRow
                     /\ EmployeeItem(e)' # EmployeeItem(e)} \cup
  {v \in {"cafes"} : \E c \in Cafes : CafeItem(c)' # CafeItem(c)} \cup
  {v \in {"employees"} : \E e \in Employees : EmployeeItem(e)' # EmployeeItem(e)}

When(condition, bumps) == IF condition THEN bumps ELSE <<>>

\* _invalidate_employee_views: nothing at all when no employee was read.
EmployeeViewBumps(w) ==
  When(seen[w].staff # {}, <<"employees">> \o SetToSeq(seen[w].staff))

\* Mutant: an employee that moves nowhere keeps its cached detail.
Bumps_MovesOnly(w) ==
  LET r == req[w] IN
  CASE r.op = "create_employee" -> <<"employees", "cafes">>
    [] r.op = "update_employee" ->
         <<"employees">> \o When(seen[w].previous # r.cafe, <<r.employee, "cafes">>)
    [] r.op = "delete_employee" ->
         <<"employees", r.employee>> \o When(seen[w].previous # NoCafe, <<"cafes">>)
    [] r.op = "create_cafe" -> <<"cafes">>
    [] OTHER -> <<"cafes", r.cafe>> \o EmployeeViewBumps(w)

\* Mutant: the detail of a cafe is bumped under its name.
Bumps_ByName(w) ==
  LET r == req[w] IN
  CASE r.op = "create_employee" -> <<"employees", "cafes">>
    [] r.op = "update_employee" ->
         <<"employees", r.employee>> \o When(seen[w].previous # r.cafe, <<"cafes">>)
    [] r.op = "delete_employee" ->
         <<"employees", r.employee>> \o When(seen[w].previous # NoCafe, <<"cafes">>)
    [] r.op = "create_cafe" -> <<"cafes">>
    [] OTHER -> <<"cafes", r.name>> \o EmployeeViewBumps(w)

\* The _invalidate_* calls of each operation, in their order.
Bumps(w) ==
  LET r == req[w] IN
  CASE r.op = "create_employee" -> <<"employees", "cafes">>
    [] r.op = "update_employee" ->
         <<"employees", r.employee>> \o When(seen[w].previous # r.cafe, <<"cafes">>)
    [] r.op = "delete_employee" ->
         <<"employees", r.employee>> \o When(seen[w].previous # NoCafe, <<"cafes">>)
    [] r.op = "create_cafe" -> <<"cafes">>
    [] OTHER -> <<"cafes", r.cafe>> \o EmployeeViewBumps(w)

CacheInit ==
  /\ Init
  /\ owed = {}
  /\ raced = {}
  /\ todo = [w \in Workers |-> <<>>]

\* The views about rows that another request changed since w began: whoever w
\* wrote about was hired, moved or deleted while w was on its way.
Raced(w) ==
  {e \in Employees : e \in interfered[w]} \cup
  {v \in {"employees"} : interfered[w] \cap Employees # {}} \cup
  {v \in {"cafes"} : req[w].employee \in interfered[w]}

\* A step of the write service; it answers only when its bumps are made.
Serve(w) ==
  /\ Begin(w) \/ Step(w)
  /\ todo[w] = <<>>
  /\ owed' = owed \cup ChangedViews
  /\ raced' = raced \cup (IF pc[w] = "commit" THEN ChangedViews \cap Raced(w)
                                              ELSE {})
  /\ todo' = IF pc[w] # "finish" /\ pc'[w] = "finish"
               THEN [todo EXCEPT ![w] = Bumps(w)]
               ELSE todo

Bump(w) ==
  /\ todo[w] # <<>>
  /\ owed' = owed \ {Head(todo[w])}
  /\ raced' = raced \ {Head(todo[w])}
  /\ todo' = [todo EXCEPT ![w] = Tail(@)]
  /\ UNCHANGED vars

CacheNext == \E w \in Workers : Serve(w) \/ Bump(w)

CacheSpec == CacheInit /\ [][CacheNext]_allVars

-------------------------------------------------------------------------------
(* Properties.                                                              *)

\* Types of the variables this module adds.
CacheTypeOK ==
  /\ owed \subseteq Views /\ raced \subseteq owed
  /\ todo \in [Workers -> Seq(Views)]

\* The bumps still to come: those of a refreshed cafe are certain only when the
\* refresh succeeds, but if it does not, a deletion bumps the same views.
Scheduled(w) ==
  ToSet(IF pc[w] = "refresh" THEN Bumps(w) ELSE todo[w])

Covered(v) == \E w \in Workers : v \in Scheduled(w)

\* Only a race leaves a cached view behind: whatever write changed a view, some
\* request is about to bump its counter, unless another request changed the
\* employees that the write is about between its first read and its COMMIT.
OnlyRacesMissBumps == \A v \in owed \ raced : Covered(v)
===============================================================================
