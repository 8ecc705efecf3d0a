----------------------------- MODULE SeedingProofs -----------------------------
(***************************************************************************)
(* Proofs about Seeding: whatever users wrote between any number of        *)
(* starts, what a seeding leaves in the tables, what it leaves alone, and  *)
(* why it fails.                                                           *)
(***************************************************************************)
EXTENDS Seeding, TLAPS, FiniteSetTheorems

-----------------------------------------------------------------------------
(* Rows                                                                    *)

LEMMA PutRows ==
  ASSUME NEW S, NEW row
  PROVE  /\ row \in Put(S, row)
         /\ \A r : r \in Put(S, row) <=> r = row \/ (r \in S /\ r.id # row.id)
         /\ Ids(Put(S, row)) = Ids(S) \cup {row.id}
         /\ Keyed(S) => Keyed(Put(S, row))
         /\ Keyed(S) /\ row \in S => Put(S, row) = S
  <1>1. \A r : r \in Put(S, row) <=> r = row \/ (r \in S /\ r.id # row.id)
    BY DEF Put
  <1>2. Ids(Put(S, row)) = Ids(S) \cup {row.id}
    <2>1. \A i \in Ids(Put(S, row)) : i \in Ids(S) \cup {row.id}
      BY <1>1 DEF Ids
    <2>2. row.id \in Ids(Put(S, row))
      BY <1>1 DEF Ids
    <2>3. ASSUME NEW r \in S PROVE r.id \in Ids(Put(S, row))
      <3>1. r.id = row.id \/ r \in Put(S, row)
        BY <1>1
      <3>2. QED
        BY <2>2, <3>1 DEF Ids
    <2>4. QED
      BY <2>1, <2>2, <2>3 DEF Ids
  <1>3. QED
    BY <1>1, <1>2 DEF Keyed

\* A generated key is new.
LEMMA NewKeys ==
  ASSUME NEW S, NEW ids, NEW i \in NewId(S, ids)
  PROVE  i \in ids /\ i \notin Ids(S)
  BY DEF NewId

LEMMA Lookups ==
  ASSUME NEW T, SchemaHolds(T)
  PROVE  /\ \A e \in T.employees : EmailOf(T, e.id) = e.email
         /\ \A c \in T.cafes : NameOf(T, c.id) = c.name
  <1>1. ASSUME NEW e \in T.employees PROVE EmailOf(T, e.id) = e.email
    <2>1. PICK r : r = CHOOSE x \in T.employees : x.id = e.id
      OBVIOUS
    <2>2. r \in T.employees /\ r.id = e.id
      BY <2>1
    <2>3. r = e
      BY <2>2 DEF SchemaHolds, Keyed
    <2>4. QED
      BY <2>1, <2>3 DEF EmailOf
  <1>2. ASSUME NEW c \in T.cafes PROVE NameOf(T, c.id) = c.name
    <2>1. PICK r : r = CHOOSE x \in T.cafes : x.id = c.id
      OBVIOUS
    <2>2. r \in T.cafes /\ r.id = c.id
      BY <2>1
    <2>3. r = c
      BY <2>2 DEF SchemaHolds, Keyed
    <2>4. QED
      BY <2>1, <2>3 DEF NameOf
  <1>3. QED
    BY <1>1, <1>2

\* An assignment has the key of a seed through the rows it refers to.
Has(T, j, s) ==
  /\ j \in T.jobs /\ j.start = s.start
  /\ \E e \in T.employees : e.id = j.employee /\ e.email = s.email
  /\ \E c \in T.cafes : c.id = j.cafe /\ c.name = s.cafe

LEMMA KeysOfJobs ==
  ASSUME NEW T, SchemaHolds(T), NEW s
  PROVE  \A j : j \in JobsOf(T, s) <=> Has(T, j, s)
  <1>1. ASSUME NEW j \in T.jobs
        PROVE  /\ \E e \in T.employees : e.id = j.employee /\ EmailOf(T, j.employee) = e.email
               /\ \E c \in T.cafes : c.id = j.cafe /\ NameOf(T, j.cafe) = c.name
    <2>1. PICK e \in T.employees : e.id = j.employee
      BY DEF SchemaHolds, Ids
    <2>2. PICK c \in T.cafes : c.id = j.cafe
      BY DEF SchemaHolds, Ids
    <2>3. QED
      BY <2>1, <2>2, Lookups
  <1>2. ASSUME NEW j \in JobsOf(T, s) PROVE Has(T, j, s)
    <2>1. /\ j \in T.jobs /\ EmailOf(T, j.employee) = s.email
          /\ NameOf(T, j.cafe) = s.cafe /\ j.start = s.start
      BY DEF JobsOf
    <2>2. QED
      BY <1>1, <2>1 DEF Has
  <1>3. ASSUME NEW j, Has(T, j, s) PROVE j \in JobsOf(T, s)
    <2>1. PICK e \in T.employees, c \in T.cafes :
            e.id = j.employee /\ e.email = s.email /\ c.id = j.cafe /\ c.name = s.cafe
      BY <1>3 DEF Has
    <2>2. QED
      BY <1>3, <2>1, Lookups DEF Has, JobsOf
  <1>4. QED
    BY <1>2, <1>3

-----------------------------------------------------------------------------
(* What the steps do                                                       *)

Going == phase \in {"cafes", "employees", "assignments", "commit"}

\* Every phase has its seeds pending, and the cafes it needs.
Typed ==
  /\ TypeOK
  /\ phase \in {"employees", "assignments", "commit"} =>
       picked \in [CafeSeeds -> CafeIds]
  /\ phase = "employees" => pending \subseteq DOMAIN EmployeeSeeds
  /\ phase = "assignments" => pending \subseteq AssignmentSeeds
  /\ phase = "commit" => pending = {}

CafeRow(n, id) == [id |-> id, name |-> n, profile |-> "seed"]

EmployeeRow(m, id) ==
  [id |-> id, email |-> m, phone |-> EmployeeSeeds[m], profile |-> "seed"]

JobRow(s, id, e) ==
  [id |-> id, employee |-> e, cafe |-> picked[s.cafe], start |-> s.start, end |-> s.end]

LEMMA SeedRowFields ==
  ASSUME NEW m, NEW s, NEW id, NEW e
  PROVE  /\ EmployeeRow(m, id).id = id /\ EmployeeRow(m, id).email = m
         /\ EmployeeRow(m, id).phone = EmployeeSeeds[m]
         /\ EmployeeRow(m, id).profile = "seed"
         /\ JobRow(s, id, e).id = id /\ JobRow(s, id, e).employee = e
         /\ JobRow(s, id, e).cafe = picked[s.cafe]
         /\ JobRow(s, id, e).start = s.start /\ JobRow(s, id, e).end = s.end
  BY DEF EmployeeRow, JobRow

\* The seed writes over a row it has found, or inserts one.
IsTarget(id, found, rows) ==
  IF found # {} THEN \E r \in found : r.id = id ELSE id \notin Ids(rows)

SeedsAsPicked(pick) ==
  {c \in draft.cafes : \A n \in CafeSeeds : c.id # pick[n]}
    \cup {CafeRow(n, pick[n]) : n \in CafeSeeds}

LEMMA AbandonsAs ==
  ASSUME NEW end, Abandon(end)
  PROVE  /\ phase' = end /\ draft' = NoRows /\ picked' = <<>> /\ pending' = {}
         /\ UNCHANGED <<tables, untouched, writes>>
  BY DEF Abandon

LEMMA CafesAs ==
  ASSUME Typed, UpsertCafes
  PROVE  \E pick \in [CafeSeeds -> CafeIds] :
           /\ \A n \in CafeSeeds : IsTarget(pick[n], Named(n), draft.cafes)
           /\ \A n, m \in CafeSeeds : pick[n] = pick[m] => n = m
           /\ draft' \in Rows /\ draft'.cafes = SeedsAsPicked(pick)
           /\ draft'.employees = draft.employees /\ draft'.jobs = draft.jobs
           /\ picked' = pick
           /\ phase = "cafes" /\ phase' = "employees" /\ pending' = DOMAIN EmployeeSeeds
           /\ UNCHANGED <<tables, untouched, writes>>
  <1>1. PICK pick \in [CafeSeeds -> CafeIds] :
          /\ \A n \in CafeSeeds :
               IF Named(n) # {} THEN pick[n] \in Ids(Named(n))
                                ELSE pick[n] \notin Ids(draft.cafes)
          /\ \A n, m \in CafeSeeds : pick[n] = pick[m] => n = m
          /\ draft' = [draft EXCEPT !.cafes = SeedsAsPicked(pick)]
          /\ picked' = pick
    BY DEF UpsertCafes, SeedsAsPicked, CafeRow
  <1>2. \A n \in CafeSeeds : IsTarget(pick[n], Named(n), draft.cafes)
    BY <1>1 DEF IsTarget, Ids
  <1>3. draft \in Rows
    BY DEF Typed, TypeOK
  <1>4. SeedsAsPicked(pick) \in SUBSET Cafe
    <2>1. \A n \in CafeSeeds : CafeRow(n, pick[n]) \in Cafe
      BY SeedConstants DEF CafeRow, Cafe
    <2>2. draft.cafes \subseteq Cafe
      BY <1>3 DEF Rows
    <2>3. QED
      BY <2>1, <2>2 DEF SeedsAsPicked
  <1>5. /\ draft' \in Rows /\ draft'.cafes = SeedsAsPicked(pick)
        /\ draft'.employees = draft.employees /\ draft'.jobs = draft.jobs
    BY <1>1, <1>3, <1>4 DEF Rows
  <1>6. QED
    BY <1>1, <1>2, <1>5 DEF UpsertCafes

\* A step of an employee's or assignment's flush.
Flushed(seed, next, remaining) ==
  /\ \/ pending # {seed} /\ pending' = pending \ {seed} /\ UNCHANGED phase
     \/ pending = {seed} /\ pending' = remaining /\ phase' = next
  /\ UNCHANGED <<tables, picked, untouched, writes>>

PhoneTaken(m, id) == \E e \in draft.employees : e.id # id /\ e.phone = EmployeeSeeds[m]

LEMMA EmployeeAs ==
  ASSUME Typed, NEW m \in DOMAIN EmployeeSeeds, UpsertEmployee(m)
  PROVE  /\ phase = "employees" /\ m \in pending
         /\ \E id \in EmployeeIds :
              /\ IsTarget(id, Addressed(m), draft.employees)
              /\ EmployeeRow(m, id) \in Employee
              /\ \/ PhoneTaken(m, id) /\ Abandon("failed")
                 \/ /\ ~PhoneTaken(m, id)
                    /\ draft' \in Rows /\ draft'.cafes = draft.cafes
                    /\ draft'.employees = Put(draft.employees, EmployeeRow(m, id))
                    /\ draft'.jobs = draft.jobs
                    /\ Flushed(m, "assignments", AssignmentSeeds)
  <1>1. draft \in Rows
    BY DEF Typed, TypeOK
  <1>2. PICK id \in Target(Addressed(m), draft.employees, EmployeeIds) :
          \/ PhoneTaken(m, id) /\ Abandon("failed")
          \/ /\ ~PhoneTaken(m, id)
             /\ Wrote(m, [draft EXCEPT !.employees = Put(@, EmployeeRow(m, id))],
                      "assignments", AssignmentSeeds)
    BY DEF UpsertEmployee, PhoneTaken, EmployeeRow
  <1>3. /\ id \in EmployeeIds
        /\ IsTarget(id, Addressed(m), draft.employees)
    <2>1. CASE Addressed(m) # {}
      <3>1. \E r \in Addressed(m) : r.id = id
        BY <1>2, <2>1 DEF Target, Ids
      <3>2. \A r \in Addressed(m) : r.id \in EmployeeIds
        BY <1>1 DEF Addressed, Rows, Employee
      <3>3. QED
        BY <2>1, <3>1, <3>2 DEF IsTarget
    <2>2. CASE Addressed(m) = {}
      <3>1. id \in NewId(draft.employees, EmployeeIds)
        BY <1>2, <2>2 DEF Target
      <3>2. QED
        BY <2>2, <3>1, NewKeys DEF IsTarget
    <2>3. QED
      BY <2>1, <2>2
  <1>4. EmployeeRow(m, id) \in Employee
    BY <1>3, SeedConstants DEF EmployeeRow, Employee
  <1>5. Put(draft.employees, EmployeeRow(m, id)) \in SUBSET Employee
    <2>1. draft.employees \subseteq Employee
      BY <1>1 DEF Rows
    <2>2. QED
      BY <1>4, <2>1, PutRows
  <1>6. ASSUME Wrote(m, [draft EXCEPT !.employees = Put(@, EmployeeRow(m, id))],
                     "assignments", AssignmentSeeds)
        PROVE  /\ draft' \in Rows /\ draft'.cafes = draft.cafes
               /\ draft'.employees = Put(draft.employees, EmployeeRow(m, id))
               /\ draft'.jobs = draft.jobs
               /\ Flushed(m, "assignments", AssignmentSeeds)
    <2>1. draft' = [draft EXCEPT !.employees = Put(draft.employees, EmployeeRow(m, id))]
      BY <1>6 DEF Wrote
    <2>2. Flushed(m, "assignments", AssignmentSeeds)
      BY <1>6 DEF Wrote, Flushed
    <2>3. QED
      BY <1>1, <1>5, <2>1, <2>2 DEF Rows
  <1>7. QED
    BY <1>2, <1>3, <1>4, <1>6 DEF UpsertEmployee

JobTaken(s, id, e) == s.end = NoDate /\ Ids(OpenJobs(draft, e)) \ {id} # {}

LEMMA AssignmentAs ==
  ASSUME Typed, NEW s \in AssignmentSeeds, UpsertAssignment(s)
  PROVE  /\ phase = "assignments" /\ s \in pending
         /\ \E id \in JobIds, e \in EmployeeIds :
              /\ IsTarget(id, Matching(s), draft.jobs)
              /\ \E r \in draft.employees : r.id = e /\ r.email = s.email
              /\ JobRow(s, id, e) \in Job
              /\ \/ JobTaken(s, id, e) /\ Abandon("failed")
                 \/ /\ ~JobTaken(s, id, e)
                    /\ draft' \in Rows /\ draft'.cafes = draft.cafes
                    /\ draft'.employees = draft.employees
                    /\ draft'.jobs = Put(draft.jobs, JobRow(s, id, e))
                    /\ Flushed(s, "commit", {})
  <1>1. draft \in Rows
    BY DEF Typed, TypeOK
  <1>2. PICK id \in Target(Matching(s), draft.jobs, JobIds), e \in Ids(Addressed(s.email)) :
          \/ JobTaken(s, id, e) /\ Abandon("failed")
          \/ /\ ~JobTaken(s, id, e)
             /\ Wrote(s, [draft EXCEPT !.jobs = Put(@, JobRow(s, id, e))], "commit", {})
    BY DEF UpsertAssignment, JobTaken, JobRow
  <1>3. id \in JobIds /\ IsTarget(id, Matching(s), draft.jobs)
    <2>1. CASE Matching(s) # {}
      <3>1. \E r \in Matching(s) : r.id = id
        BY <1>2, <2>1 DEF Target, Ids
      <3>2. \A r \in Matching(s) : r.id \in JobIds
        BY <1>1 DEF Matching, JobsOf, Rows, Job
      <3>3. QED
        BY <2>1, <3>1, <3>2 DEF IsTarget
    <2>2. CASE Matching(s) = {}
      <3>1. id \in NewId(draft.jobs, JobIds)
        BY <1>2, <2>2 DEF Target
      <3>2. QED
        BY <2>2, <3>1, NewKeys DEF IsTarget
    <2>3. QED
      BY <2>1, <2>2
  <1>4. PICK r \in draft.employees : r.id = e /\ r.email = s.email
    BY <1>2 DEF Ids, Addressed
  <1>5. e \in EmployeeIds
    BY <1>1, <1>4 DEF Rows, Employee
  <1>6. JobRow(s, id, e) \in Job
    <2>1. s.cafe \in CafeSeeds /\ s.start \in Dates /\ s.end \in Dates \cup {NoDate}
      BY SeedConstants
    <2>2. picked[s.cafe] \in CafeIds
      BY <2>1 DEF Typed, UpsertAssignment
    <2>3. QED
      BY <1>3, <1>5, <2>1, <2>2 DEF JobRow, Job
  <1>7. Put(draft.jobs, JobRow(s, id, e)) \in SUBSET Job
    <2>1. draft.jobs \subseteq Job
      BY <1>1 DEF Rows
    <2>2. QED
      BY <1>6, <2>1, PutRows
  <1>8. ASSUME Wrote(s, [draft EXCEPT !.jobs = Put(@, JobRow(s, id, e))], "commit", {})
        PROVE  /\ draft' \in Rows /\ draft'.cafes = draft.cafes
               /\ draft'.employees = draft.employees
               /\ draft'.jobs = Put(draft.jobs, JobRow(s, id, e))
               /\ Flushed(s, "commit", {})
    <2>1. draft' = [draft EXCEPT !.jobs = Put(draft.jobs, JobRow(s, id, e))]
      BY <1>8 DEF Wrote
    <2>2. Flushed(s, "commit", {})
      BY <1>8 DEF Wrote, Flushed
    <2>3. QED
      BY <1>1, <1>7, <2>1, <2>2 DEF Rows
  <1>9. QED
    BY <1>2, <1>3, <1>4, <1>5, <1>6, <1>8 DEF UpsertAssignment

-----------------------------------------------------------------------------
(* Writes of users keep what the schema promises.                          *)

\* An assignment after its employee was sent elsewhere.
Ended(j, e) == IF j \in OpenJobs(tables, e) THEN [j EXCEPT !.end = Today] ELSE j

LEMMA EndedJobs ==
  ASSUME tables \in Rows, NEW e, NEW j \in tables.jobs
  PROVE  /\ Ended(j, e) \in Job /\ Ended(j, e).id = j.id
         /\ Ended(j, e).employee = j.employee /\ Ended(j, e).cafe = j.cafe
         /\ Ended(j, e).end = NoDate => j.end = NoDate /\ j.employee # e
  <1>1. j \in Job
    BY DEF Rows
  <1>2. CASE j \in OpenJobs(tables, e)
    <2>1. Ended(j, e) = [j EXCEPT !.end = Today]
      BY <1>2 DEF Ended
    <2>2. QED
      BY <1>1, <2>1, SeedConstants DEF Job
  <1>3. CASE j \notin OpenJobs(tables, e)
    <2>1. Ended(j, e) = j
      BY <1>3 DEF Ended
    <2>2. QED
      BY <1>1, <1>3, <2>1 DEF OpenJobs
  <1>4. QED
    BY <1>2, <1>3

LEMMA SentJobs ==
  ASSUME tables \in Rows, SchemaHolds(tables), NEW e \in EmployeeIds,
         NEW S \in {{}} \cup {{c} : c \in Ids(tables.cafes)}, NEW jobs \in Sent(e, S)
  PROVE  /\ jobs \in SUBSET Job /\ Keyed(jobs)
         /\ \A a, b \in jobs :
              a.employee = b.employee /\ a.end = NoDate /\ b.end = NoDate => a = b
         /\ \A j \in jobs : /\ j.employee \in Ids(tables.employees) \cup {e}
                            /\ j.cafe \in Ids(tables.cafes)
  <1>1. tables.jobs \in SUBSET Job /\ tables.cafes \in SUBSET Cafe
    BY DEF Rows
  <1>2. /\ Keyed(tables.jobs)
        /\ \A a, b \in tables.jobs :
             a.employee = b.employee /\ a.end = NoDate /\ b.end = NoDate => a = b
        /\ \A j \in tables.jobs : /\ j.employee \in Ids(tables.employees)
                                  /\ j.cafe \in Ids(tables.cafes)
    BY DEF SchemaHolds
  <1>3. PICK closed : closed = {Ended(j, e) : j \in tables.jobs}
    OBVIOUS
  <1>4. \A k \in closed : \E j \in tables.jobs :
          /\ k = Ended(j, e) /\ k \in Job /\ k.id = j.id
          /\ k.employee = j.employee /\ k.cafe = j.cafe
          /\ k.end = NoDate => j.end = NoDate /\ j.employee # e
    BY <1>3, EndedJobs
  <1>5. Keyed(closed)
    BY <1>2, <1>4 DEF Keyed
  <1>6. \A a, b \in closed :
          a.employee = b.employee /\ a.end = NoDate /\ b.end = NoDate => a = b
    <2> SUFFICES ASSUME NEW a \in closed, NEW b \in closed, a.employee = b.employee,
                        a.end = NoDate, b.end = NoDate
                 PROVE  a = b
      OBVIOUS
    <2>1. PICK i \in tables.jobs :
            a = Ended(i, e) /\ a.employee = i.employee /\ i.end = NoDate
      BY <1>4
    <2>2. PICK j \in tables.jobs :
            b = Ended(j, e) /\ b.employee = j.employee /\ j.end = NoDate
      BY <1>4
    <2>3. i = j
      BY <1>2, <2>1, <2>2
    <2>4. QED
      BY <2>1, <2>2, <2>3
  <1>7. \/ jobs = tables.jobs
        \/ jobs = closed
        \/ \E id \in NewId(tables.jobs, JobIds), c \in S :
             jobs = closed \cup {[id |-> id, employee |-> e, cafe |-> c,
                                  start |-> Today, end |-> NoDate]}
    BY <1>3 DEF Sent, Ended
  <1>8. CASE jobs = tables.jobs
    BY <1>1, <1>2, <1>8
  <1>9. CASE jobs = closed
    BY <1>2, <1>4, <1>5, <1>6, <1>9
  <1>10. ASSUME NEW id \in NewId(tables.jobs, JobIds), NEW c \in S,
                jobs = closed \cup {[id |-> id, employee |-> e, cafe |-> c,
                                     start |-> Today, end |-> NoDate]}
         PROVE  /\ jobs \in SUBSET Job /\ Keyed(jobs)
                /\ \A a, b \in jobs :
                     a.employee = b.employee /\ a.end = NoDate /\ b.end = NoDate => a = b
                /\ \A j \in jobs : /\ j.employee \in Ids(tables.employees) \cup {e}
                                   /\ j.cafe \in Ids(tables.cafes)
    <2>1. PICK n : n = [id |-> id, employee |-> e, cafe |-> c,
                        start |-> Today, end |-> NoDate]
      OBVIOUS
    <2>2. c \in Ids(tables.cafes) /\ c \in CafeIds
      BY <1>1 DEF Ids, Cafe
    <2>3. id \in JobIds /\ id \notin Ids(tables.jobs)
      BY NewKeys
    <2>4. n \in Job /\ n.id = id /\ n.employee = e /\ n.cafe = c /\ n.end = NoDate
      BY <2>1, <2>2, <2>3, SeedConstants DEF Job
    <2>5. jobs = closed \cup {n}
      BY <1>10, <2>1
    <2>6. \A k \in closed : k.id # id /\ ~(k.employee = e /\ k.end = NoDate)
      BY <1>4, <2>3 DEF Ids
    <2>7. Keyed(jobs)
      BY <1>5, <2>4, <2>5, <2>6 DEF Keyed
    <2>8. \A a, b \in jobs :
            a.employee = b.employee /\ a.end = NoDate /\ b.end = NoDate => a = b
      BY <1>6, <2>4, <2>5, <2>6
    <2>9. jobs \in SUBSET Job
      BY <1>4, <2>4, <2>5
    <2>10. \A j \in jobs : /\ j.employee \in Ids(tables.employees) \cup {e}
                           /\ j.cafe \in Ids(tables.cafes)
      BY <1>2, <1>4, <2>2, <2>4, <2>5
    <2>11. QED
      BY <2>7, <2>8, <2>9, <2>10
  <1>11. QED
    BY <1>7, <1>8, <1>9, <1>10

UserWrote ==
  /\ phase = "serving" /\ untouched' = FALSE /\ writes' \in 0 .. MaxWrites
  /\ tables' \in Rows /\ SchemaHolds(tables')
  /\ UNCHANGED <<draft, phase, picked, pending>>

LEMMA UserWritesAs ==
  ASSUME Typed, NEW T \in Rows, SchemaHolds(T), UserWrites(T)
  PROVE  UserWrote
  <1>1. writes \in 0 .. MaxWrites /\ MaxWrites \in Nat
    BY SeedConstants DEF Typed, TypeOK
  <1>2. writes + 1 \in 0 .. MaxWrites
    BY <1>1 DEF UserWrites
  <1>3. QED
    BY <1>2 DEF UserWrites, UserWrote

LEMMA UsersWrite ==
  ASSUME Typed, SchemaHolds(tables),
         PutCafe \/ DeleteCafe \/ PutEmployee \/ DeleteEmployee
  PROVE  UserWrote
  <1>1. /\ tables \in Rows /\ tables.cafes \subseteq Cafe
        /\ tables.employees \subseteq Employee /\ tables.jobs \subseteq Job
    BY DEF Typed, TypeOK, Rows
  <1>2. CASE PutCafe
    <2>1. PICK id \in CafeIds, n \in Names :
            UserWrites([tables EXCEPT !.cafes =
                          Put(@, [id |-> id, name |-> n, profile |-> "user"])])
      BY <1>2 DEF PutCafe
    <2>2. PICK row : row = [id |-> id, name |-> n, profile |-> "user"]
      OBVIOUS
    <2>3. row \in Cafe
      BY <2>2 DEF Cafe
    <2>4. PICK T : T = [tables EXCEPT !.cafes = Put(tables.cafes, row)]
      OBVIOUS
    <2>5. Put(tables.cafes, row) \subseteq Cafe
      BY <1>1, <2>3, PutRows
    <2>6. /\ T \in Rows /\ T.cafes = Put(tables.cafes, row)
          /\ T.employees = tables.employees /\ T.jobs = tables.jobs
      BY <1>1, <2>4, <2>5 DEF Rows
    <2>7. Ids(tables.cafes) \subseteq Ids(T.cafes) /\ Keyed(T.cafes)
      BY <2>6, PutRows DEF SchemaHolds
    <2>8. SchemaHolds(T)
      BY <2>6, <2>7 DEF SchemaHolds
    <2>9. QED
      BY <2>1, <2>2, <2>4, <2>6, <2>8, UserWritesAs
  <1>3. CASE DeleteCafe
    <2>0. PICK c \in Ids(tables.cafes) :
            LET staff == {j.employee : j \in {k \in tables.jobs :
                                                k.cafe = c /\ k.end = NoDate}}
            IN UserWrites(
                 [cafes     |-> {r \in tables.cafes : r.id # c},
                  employees |-> {r \in tables.employees : r.id \notin staff},
                  jobs      |-> {j \in tables.jobs :
                                   j.cafe # c /\ j.employee \notin staff}])
      BY <1>3 DEF DeleteCafe
    <2>1. PICK staff :
            UserWrites([cafes     |-> {r \in tables.cafes : r.id # c},
                        employees |-> {r \in tables.employees : r.id \notin staff},
                        jobs      |-> {j \in tables.jobs :
                                         j.cafe # c /\ j.employee \notin staff}])
      BY <2>0
    <2>2. PICK T :
            T = [cafes     |-> {r \in tables.cafes : r.id # c},
                 employees |-> {r \in tables.employees : r.id \notin staff},
                 jobs      |-> {j \in tables.jobs : j.cafe # c /\ j.employee \notin staff}]
      OBVIOUS
    <2>3. /\ T.cafes = {r \in tables.cafes : r.id # c}
          /\ T.employees = {r \in tables.employees : r.id \notin staff}
          /\ T.jobs = {j \in tables.jobs : j.cafe # c /\ j.employee \notin staff}
      BY <2>2
    <2>4. T \in Rows
      BY <1>1, <2>2 DEF Rows
    <2>5. \A j \in T.jobs : j.employee \in Ids(T.employees) /\ j.cafe \in Ids(T.cafes)
      BY <2>3 DEF SchemaHolds, Ids
    <2>6. SchemaHolds(T)
      BY <2>3, <2>5 DEF SchemaHolds, Keyed
    <2>7. QED
      BY <2>1, <2>2, <2>4, <2>6, UserWritesAs
  <1>4. CASE PutEmployee
    <2>1. PICK id \in Ids(tables.employees) \cup NewId(tables.employees, EmployeeIds),
               m \in Emails, f \in Phones,
               S \in {{}} \cup {{c} : c \in Ids(tables.cafes)} :
            /\ \A e \in tables.employees : e.id # id => e.email # m /\ e.phone # f
            /\ \E jobs \in Sent(id, S) :
                 UserWrites([tables EXCEPT
                   !.employees = Put(@, [id |-> id, email |-> m, phone |-> f,
                                         profile |-> "user"]),
                   !.jobs = jobs])
      BY <1>4 DEF PutEmployee
    <2>2. PICK row : row = [id |-> id, email |-> m, phone |-> f, profile |-> "user"]
      OBVIOUS
    <2>3. id \in EmployeeIds
      BY <1>1, NewKeys DEF Ids, Employee
    <2>4. row \in Employee /\ row.id = id /\ row.email = m /\ row.phone = f
      BY <2>2, <2>3 DEF Employee
    <2>0. PICK jobs \in Sent(id, S) :
            UserWrites([tables EXCEPT !.employees = Put(tables.employees, row),
                                      !.jobs = jobs])
      BY <2>1, <2>2
    <2>5. PICK U, T :
            /\ U = [tables EXCEPT !.employees = Put(tables.employees, row)]
            /\ T = [U EXCEPT !.jobs = jobs]
            /\ UserWrites(T)
      BY <2>0
    <2>6. Put(tables.employees, row) \subseteq Employee
      BY <1>1, <2>4, PutRows
    <2>7. /\ jobs \in SUBSET Job /\ Keyed(jobs)
          /\ \A a, b \in jobs :
               a.employee = b.employee /\ a.end = NoDate /\ b.end = NoDate => a = b
          /\ \A j \in jobs : /\ j.employee \in Ids(tables.employees) \cup {id}
                             /\ j.cafe \in Ids(tables.cafes)
      BY <1>1, <2>3, SentJobs
    <2>8. /\ U \in Rows /\ U.employees = Put(tables.employees, row)
          /\ U.cafes = tables.cafes
      BY <1>1, <2>5, <2>6 DEF Rows
    <2>9. /\ T \in Rows /\ T.employees = Put(tables.employees, row)
          /\ T.cafes = tables.cafes /\ T.jobs = jobs
      BY <2>5, <2>7, <2>8 DEF Rows
    <2>10. Ids(T.employees) = Ids(tables.employees) \cup {id} /\ Keyed(T.employees)
      BY <2>4, <2>9, PutRows DEF SchemaHolds
    <2>11. \A a, b \in T.employees : a.email = b.email \/ a.phone = b.phone => a = b
      BY <2>1, <2>4, <2>9, PutRows DEF SchemaHolds
    <2>12. SchemaHolds(T)
      BY <2>7, <2>9, <2>10, <2>11 DEF SchemaHolds
    <2>13. QED
      BY <2>5, <2>9, <2>12, UserWritesAs
  <1>5. CASE DeleteEmployee
    <2>1. PICK e \in Ids(tables.employees) :
            UserWrites([tables EXCEPT !.employees = {r \in @ : r.id # e},
                                      !.jobs = {j \in @ : j.employee # e}])
      BY <1>5 DEF DeleteEmployee
    <2>2. PICK U, T :
            /\ U = [tables EXCEPT !.employees = {r \in tables.employees : r.id # e}]
            /\ T = [U EXCEPT !.jobs = {j \in tables.jobs : j.employee # e}]
            /\ UserWrites(T)
      BY <1>1, <2>1 DEF Rows
    <2>3. /\ U \in Rows /\ U.employees = {r \in tables.employees : r.id # e}
          /\ U.cafes = tables.cafes
      BY <1>1, <2>2 DEF Rows
    <2>4. /\ T \in Rows /\ T.employees = {r \in tables.employees : r.id # e}
          /\ T.cafes = tables.cafes /\ T.jobs = {j \in tables.jobs : j.employee # e}
      BY <1>1, <2>2, <2>3 DEF Rows
    <2>5. \A j \in T.jobs : j.employee \in Ids(T.employees) /\ j.cafe \in Ids(T.cafes)
      BY <2>4 DEF SchemaHolds, Ids
    <2>6. SchemaHolds(T)
      BY <2>4, <2>5 DEF SchemaHolds, Keyed
    <2>7. QED
      BY <2>2, <2>4, <2>6, UserWritesAs
  <1>6. QED
    BY <1>2, <1>3, <1>4, <1>5

-----------------------------------------------------------------------------
(* A seeding on its way                                                    *)

WrittenEmployees ==
  IF phase = "cafes" THEN {}
  ELSE IF phase = "employees" THEN DOMAIN EmployeeSeeds \ pending
  ELSE DOMAIN EmployeeSeeds

WrittenJobs ==
  IF phase \in {"assignments", "commit"} THEN AssignmentSeeds \ pending ELSE {}

\* Rows of the tables are still there, and as they were if no seed names them.
KeepsTables ==
  /\ \A c \in tables.cafes : \E d \in draft.cafes :
       /\ d.id = c.id /\ d.name = c.name
       /\ d = c \/ c.name \in CafeSeeds
  /\ \A e \in tables.employees : \E d \in draft.employees :
       /\ d.id = e.id /\ d.email = e.email
       /\ d = e \/ e.email \in DOMAIN EmployeeSeeds
  /\ \A j \in tables.jobs : \E k \in draft.jobs :
       /\ k.id = j.id /\ k.employee = j.employee /\ k.start = j.start
       /\ k = j \/ \E t \in AssignmentSeeds : Has(tables, j, t)

\* Rows that are not of the tables are those of seeds.
Origins ==
  /\ \A d \in draft.employees :
       \/ d \in tables.employees
       \/ d.email \in DOMAIN EmployeeSeeds /\ d.phone = EmployeeSeeds[d.email]
  /\ \A k \in draft.jobs :
       \/ k \in tables.jobs
       \/ \E t \in WrittenJobs : Has(draft, k, t) /\ k.end = t.end

\* Seeds that are not pending are in place.
Progress ==
  /\ phase # "cafes" => \A n \in CafeSeeds : CafeRow(n, picked[n]) \in draft.cafes
  /\ \A m \in WrittenEmployees : \E e \in draft.employees :
       e.email = m /\ e.phone = EmployeeSeeds[m] /\ e.profile = "seed"
  /\ \A s \in WrittenJobs : \E j : Has(draft, j, s) /\ j.end = s.end

DraftOK == Going => SchemaHolds(draft) /\ KeepsTables /\ Origins /\ Progress

\* Until it is written over, a row has the same seed in the tables and the draft.
LEMMA SameKey ==
  ASSUME SchemaHolds(tables), SchemaHolds(draft), KeepsTables,
         NEW k \in tables.jobs, NEW s
  PROVE  Has(draft, k, s) <=> k \in draft.jobs /\ Has(tables, k, s)
  <1>1. PICK x \in tables.employees, c \in tables.cafes : x.id = k.employee /\ c.id = k.cafe
    BY DEF SchemaHolds, Ids
  <1>2. PICK d \in draft.employees : d.id = x.id /\ d.email = x.email
    BY DEF KeepsTables
  <1>3. PICK b \in draft.cafes : b.id = c.id /\ b.name = c.name
    BY DEF KeepsTables
  <1>4. /\ \A r \in tables.employees : r.id = k.employee => r = x
        /\ \A r \in tables.cafes : r.id = k.cafe => r = c
        /\ \A r \in draft.employees : r.id = k.employee => r = d
        /\ \A r \in draft.cafes : r.id = k.cafe => r = b
    BY <1>1, <1>2, <1>3 DEF SchemaHolds, Keyed
  <1>5. Has(draft, k, s) <=>
          k \in draft.jobs /\ k.start = s.start /\ d.email = s.email /\ b.name = s.cafe
    BY <1>1, <1>2, <1>3, <1>4 DEF Has
  <1>6. Has(tables, k, s) <=> k.start = s.start /\ x.email = s.email /\ c.name = s.cafe
    BY <1>1, <1>4 DEF Has
  <1>7. QED
    BY <1>2, <1>3, <1>5, <1>6

\* The row a seed writes over is the one it has found.
LEMMA OverFound ==
  ASSUME NEW id, NEW found, NEW S, found \subseteq S, Keyed(S),
         IsTarget(id, found, S), NEW r \in S, r.id = id
  PROVE  r \in found
  BY DEF IsTarget, Keyed, Ids

LEMMA CafesKeepDraft ==
  ASSUME Typed, SchemaHolds(tables), DraftOK, UpsertCafes
  PROVE  DraftOK'
  <1>1. PICK pick \in [CafeSeeds -> CafeIds] :
          /\ \A n \in CafeSeeds : IsTarget(pick[n], Named(n), draft.cafes)
          /\ \A n, m \in CafeSeeds : pick[n] = pick[m] => n = m
          /\ draft'.cafes = SeedsAsPicked(pick)
          /\ draft'.employees = draft.employees /\ draft'.jobs = draft.jobs
          /\ picked' = pick
          /\ phase = "cafes" /\ phase' = "employees" /\ pending' = DOMAIN EmployeeSeeds
          /\ tables' = tables
    BY CafesAs
  <1>2. SchemaHolds(draft) /\ KeepsTables /\ Origins
    BY <1>1 DEF DraftOK, Going
  <1>3. \A n \in CafeSeeds : /\ CafeRow(n, pick[n]) \in draft'.cafes
                             /\ CafeRow(n, pick[n]).id = pick[n]
                             /\ CafeRow(n, pick[n]).name = n
    BY <1>1 DEF SeedsAsPicked, CafeRow
  <1>4. \A c \in draft'.cafes : \/ c \in draft.cafes /\ \A n \in CafeSeeds : c.id # pick[n]
                                \/ \E n \in CafeSeeds : c = CafeRow(n, pick[n])
    BY <1>1 DEF SeedsAsPicked
  <1>5. ASSUME NEW d \in draft.cafes
        PROVE  \E c \in draft'.cafes :
                 /\ c.id = d.id /\ c.name = d.name
                 /\ c = d \/ d.name \in CafeSeeds
    <2>1. CASE \A n \in CafeSeeds : d.id # pick[n]
      BY <1>1, <2>1 DEF SeedsAsPicked
    <2>2. ASSUME NEW n \in CafeSeeds, d.id = pick[n]
          PROVE  \E c \in draft'.cafes :
                   /\ c.id = d.id /\ c.name = d.name
                   /\ c = d \/ d.name \in CafeSeeds
      <3>1. Keyed(draft.cafes) /\ Named(n) \subseteq draft.cafes
        BY <1>2 DEF SchemaHolds, Named
      <3>2. d \in Named(n)
        BY <1>1, <2>2, <3>1, OverFound
      <3>3. QED
        BY <1>3, <2>2, <3>2 DEF Named
    <2>3. QED
      BY <2>1, <2>2
  <1>6. SchemaHolds(draft)'
    <2>1. Keyed(draft'.cafes)
      BY <1>1, <1>2, <1>3, <1>4 DEF SchemaHolds, Keyed
    <2>2. Ids(draft.cafes) \subseteq Ids(draft'.cafes)
      BY <1>5 DEF Ids
    <2>3. QED
      BY <1>1, <1>2, <2>1, <2>2 DEF SchemaHolds
  <1>7. KeepsTables'
    <2>1. ASSUME NEW c \in tables.cafes
          PROVE  \E d \in draft'.cafes :
                   /\ d.id = c.id /\ d.name = c.name
                   /\ d = c \/ c.name \in CafeSeeds
      <3>1. PICK d \in draft.cafes : /\ d.id = c.id /\ d.name = c.name
                                     /\ d = c \/ c.name \in CafeSeeds
        BY <1>2 DEF KeepsTables
      <3>2. QED
        BY <1>5, <3>1
    <2>2. QED
      BY <1>1, <1>2, <2>1 DEF KeepsTables
  <1>8. Origins'
    BY <1>1, <1>2 DEF Origins, WrittenJobs
  <1>9. Progress'
    <2>1. WrittenEmployees' = {} /\ WrittenJobs' = {}
      BY <1>1 DEF WrittenEmployees, WrittenJobs
    <2>2. QED
      BY <1>1, <1>3, <2>1 DEF Progress
  <1>10. QED
    BY <1>6, <1>7, <1>8, <1>9 DEF DraftOK

LEMMA EmployeesKeepDraft ==
  ASSUME Typed, SchemaHolds(tables), DraftOK,
         NEW m \in DOMAIN EmployeeSeeds, UpsertEmployee(m)
  PROVE  DraftOK'
  <1>1. CASE phase' = "failed"
    BY <1>1 DEF DraftOK, Going
  <1>2. CASE phase' # "failed"
    <2>1. PICK id \in EmployeeIds :
            /\ phase = "employees" /\ m \in pending
            /\ IsTarget(id, Addressed(m), draft.employees)
            /\ ~PhoneTaken(m, id)
            /\ draft'.cafes = draft.cafes
            /\ draft'.employees = Put(draft.employees, EmployeeRow(m, id))
            /\ draft'.jobs = draft.jobs
            /\ Flushed(m, "assignments", AssignmentSeeds)
      BY <1>2, EmployeeAs, AbandonsAs
    <2>2. PICK row : /\ row = EmployeeRow(m, id)
                     /\ row.id = id /\ row.email = m /\ row.phone = EmployeeSeeds[m]
                     /\ row.profile = "seed"
      BY SeedRowFields
    <2>3. SchemaHolds(draft) /\ KeepsTables /\ Origins /\ Progress
      BY <2>1 DEF DraftOK, Going
    <2>4. /\ draft'.employees = Put(draft.employees, row) /\ row \in draft'.employees
          /\ \A r : r \in draft'.employees <=>
               r = row \/ (r \in draft.employees /\ r.id # id)
          /\ Ids(draft'.employees) = Ids(draft.employees) \cup {id}
          /\ Keyed(draft'.employees)
      BY <2>1, <2>2, <2>3, PutRows DEF SchemaHolds
    <2>5. \A r \in draft.employees : r.id = id => r.email = m
      <3>1. Keyed(draft.employees) /\ Addressed(m) \subseteq draft.employees
        BY <2>3 DEF SchemaHolds, Addressed
      <3>2. \A r \in draft.employees : r.id = id => r \in Addressed(m)
        BY <2>1, <3>1, OverFound
      <3>3. QED
        BY <3>2 DEF Addressed
    <2>6. \A r \in draft.employees : r.email = m => r.id = id
      <3> SUFFICES ASSUME NEW r \in draft.employees, r.email = m PROVE r.id = id
        OBVIOUS
      <3>1. r \in Addressed(m)
        BY DEF Addressed
      <3>2. PICK q \in Addressed(m) : q.id = id
        BY <2>1, <3>1 DEF IsTarget
      <3>3. q = r
        BY <2>3, <3>2 DEF SchemaHolds, Addressed
      <3>4. QED
        BY <3>2, <3>3
    <2>7. \A r \in draft.employees : r.id # id => r.phone # EmployeeSeeds[m]
      BY <2>1 DEF PhoneTaken
    <2>8. SchemaHolds(draft)'
      <3>1. \A a, b \in draft'.employees : a.email = b.email \/ a.phone = b.phone => a = b
        BY <2>2, <2>3, <2>4, <2>6, <2>7 DEF SchemaHolds
      <3>2. QED
        BY <2>1, <2>3, <2>4, <3>1 DEF SchemaHolds
    <2>9. KeepsTables'
      <3>1. ASSUME NEW e \in tables.employees
            PROVE  \E d \in draft'.employees :
                     /\ d.id = e.id /\ d.email = e.email
                     /\ d = e \/ e.email \in DOMAIN EmployeeSeeds
        <4>1. PICK d \in draft.employees : /\ d.id = e.id /\ d.email = e.email
                                           /\ d = e \/ e.email \in DOMAIN EmployeeSeeds
          BY <2>3 DEF KeepsTables
        <4>2. QED
          BY <2>2, <2>4, <2>5, <4>1
      <3>2. tables' = tables
        BY <2>1 DEF Flushed
      <3>3. QED
        BY <2>1, <2>3, <3>1, <3>2 DEF KeepsTables
    <2>10. /\ phase' \in {"employees", "assignments"} /\ tables' = tables
           /\ picked' = picked /\ WrittenJobs = {} /\ WrittenJobs' = {}
           /\ WrittenEmployees' \subseteq WrittenEmployees \cup {m}
      BY <2>1 DEF Typed, Flushed, WrittenJobs, WrittenEmployees
    <2>11. Origins'
      BY <2>1, <2>2, <2>3, <2>4, <2>10 DEF Origins
    <2>12. Progress'
      <3>1. ASSUME NEW l \in WrittenEmployees \cup {m}
            PROVE  \E e \in draft'.employees :
                     e.email = l /\ e.phone = EmployeeSeeds[l] /\ e.profile = "seed"
        <4>1. CASE l = m
          BY <2>2, <2>4, <4>1
        <4>2. CASE l # m
          <5>1. PICK e \in draft.employees :
                  e.email = l /\ e.phone = EmployeeSeeds[l] /\ e.profile = "seed"
            BY <2>3, <3>1, <4>2 DEF Progress
          <5>2. e.id # id
            BY <2>5, <4>2, <5>1
          <5>3. QED
            BY <2>4, <5>1, <5>2
        <4>3. QED
          BY <4>1, <4>2
      <3>2. \A n \in CafeSeeds : CafeRow(n, picked'[n]) \in draft'.cafes
        BY <2>1, <2>3, <2>10 DEF Progress
      <3>3. QED
        BY <2>10, <3>1, <3>2 DEF Progress
    <2>13. QED
      BY <2>8, <2>9, <2>11, <2>12 DEF DraftOK
  <1>3. QED
    BY <1>1, <1>2

LEMMA AssignmentsKeepDraft ==
  ASSUME Typed, SchemaHolds(tables), DraftOK,
         NEW s \in AssignmentSeeds, UpsertAssignment(s)
  PROVE  DraftOK'
  <1>1. CASE phase' = "failed"
    BY <1>1 DEF DraftOK, Going
  <1>2. CASE phase' # "failed"
    <2>1. PICK id \in JobIds, e \in EmployeeIds :
            /\ phase = "assignments" /\ s \in pending
            /\ IsTarget(id, Matching(s), draft.jobs)
            /\ \E r \in draft.employees : r.id = e /\ r.email = s.email
            /\ ~JobTaken(s, id, e)
            /\ draft'.cafes = draft.cafes /\ draft'.employees = draft.employees
            /\ draft'.jobs = Put(draft.jobs, JobRow(s, id, e))
            /\ Flushed(s, "commit", {})
      BY <1>2, AssignmentAs, AbandonsAs
    <2>2. PICK row : /\ row = JobRow(s, id, e)
                     /\ row.id = id /\ row.employee = e /\ row.cafe = picked[s.cafe]
                     /\ row.start = s.start /\ row.end = s.end
      BY SeedRowFields
    <2>3. SchemaHolds(draft) /\ KeepsTables /\ Origins /\ Progress
      BY <2>1 DEF DraftOK, Going
    <2>4. /\ draft'.jobs = Put(draft.jobs, row) /\ row \in draft'.jobs
          /\ \A j : j \in draft'.jobs <=> j = row \/ (j \in draft.jobs /\ j.id # id)
          /\ Keyed(draft'.jobs)
      BY <2>1, <2>2, <2>3, PutRows DEF SchemaHolds
    <2>5. /\ s.email \in DOMAIN EmployeeSeeds /\ s.cafe \in CafeSeeds
          /\ s.start # Today
      BY SeedConstants
    <2>6. PICK worker \in draft.employees : worker.id = e /\ worker.email = s.email
      BY <2>1
    <2>7. PICK place \in draft.cafes : place.id = picked[s.cafe] /\ place.name = s.cafe
      BY <2>1, <2>3, <2>5 DEF Progress, CafeRow
    <2>8. \A r \in draft.employees : r.email = s.email \/ r.id = e => r = worker
      BY <2>3, <2>6 DEF SchemaHolds, Keyed
    <2>9. \A j \in draft.jobs : j.id = id => Has(draft, j, s)
      <3>1. Keyed(draft.jobs) /\ Matching(s) \subseteq draft.jobs
        BY <2>3 DEF SchemaHolds, Matching, JobsOf
      <3>2. \A j \in draft.jobs : j.id = id => j \in Matching(s)
        BY <2>1, <3>1, OverFound
      <3>3. QED
        BY <2>3, <3>2, KeysOfJobs DEF Matching
    <2>10. \A t, j : j # row /\ j.id # id /\ Has(draft, j, t) => Has(draft', j, t)
      BY <2>1, <2>4 DEF Has
    <2>11. Has(draft', row, s)
      BY <2>1, <2>2, <2>4, <2>6, <2>7 DEF Has
    <2>12. SchemaHolds(draft)'
      <3>1. \A j \in draft.jobs :
              j.id # id /\ j.employee = e /\ j.end = NoDate => s.end # NoDate
        BY <2>1 DEF JobTaken, OpenJobs, Ids
      <3>2. \A a, b \in draft'.jobs :
              a.employee = b.employee /\ a.end = NoDate /\ b.end = NoDate => a = b
        BY <2>2, <2>3, <2>4, <3>1 DEF SchemaHolds
      <3>3. \A j \in draft'.jobs : /\ j.employee \in Ids(draft.employees)
                                   /\ j.cafe \in Ids(draft.cafes)
        BY <2>2, <2>3, <2>4, <2>6, <2>7 DEF SchemaHolds, Ids
      <3>4. QED
        BY <2>1, <2>3, <2>4, <3>2, <3>3 DEF SchemaHolds
    <2>13. KeepsTables'
      <3>1. ASSUME NEW j \in tables.jobs
            PROVE  \E k \in draft'.jobs :
                     /\ k.id = j.id /\ k.employee = j.employee /\ k.start = j.start
                     /\ k = j \/ \E t \in AssignmentSeeds : Has(tables, j, t)
        <4>1. PICK k \in draft.jobs :
                /\ k.id = j.id /\ k.employee = j.employee /\ k.start = j.start
                /\ k = j \/ \E t \in AssignmentSeeds : Has(tables, j, t)
          BY <2>3 DEF KeepsTables
        <4>2. CASE k.id # id
          BY <2>4, <4>1, <4>2
        <4>3. CASE k.id = id
          <5>1. Has(draft, k, s)
            BY <2>9, <4>3
          <5>2. k.employee = e /\ k.start = s.start
            BY <2>6, <2>8, <5>1 DEF Has
          <5>3. k = j => Has(tables, j, s)
            BY <2>3, <5>1, SameKey
          <5>4. QED
            BY <2>2, <2>4, <4>1, <4>3, <5>2, <5>3
        <4>4. QED
          BY <4>2, <4>3
      <3>2. tables' = tables
        BY <2>1 DEF Flushed
      <3>3. QED
        BY <2>1, <2>3, <3>1, <3>2 DEF KeepsTables
    <2>14. /\ phase' \in {"assignments", "commit"} /\ tables' = tables
           /\ picked' = picked /\ WrittenJobs' = WrittenJobs \cup {s}
           /\ s \notin WrittenJobs /\ WrittenJobs \subseteq AssignmentSeeds
           /\ WrittenEmployees = DOMAIN EmployeeSeeds
           /\ WrittenEmployees' = DOMAIN EmployeeSeeds
      <3>1. /\ phase' \in {"assignments", "commit"} /\ tables' = tables
            /\ picked' = picked /\ AssignmentSeeds \ pending' =
                 (AssignmentSeeds \ pending) \cup {s}
        BY <2>1 DEF Flushed
      <3>2. QED
        BY <2>1, <3>1 DEF WrittenJobs, WrittenEmployees
    <2>15. Origins'
      <3>1. ASSUME NEW k \in draft'.jobs
            PROVE  \/ k \in tables.jobs
                   \/ \E t \in WrittenJobs \cup {s} : Has(draft', k, t) /\ k.end = t.end
        <4>1. CASE k = row
          BY <2>2, <2>11, <4>1
        <4>2. CASE k # row
          <5>1. k \in draft.jobs /\ k.id # id
            BY <2>4, <4>2
          <5>2. QED
            BY <2>3, <2>10, <4>2, <5>1 DEF Origins
        <4>3. QED
          BY <4>1, <4>2
      <3>2. QED
        BY <2>1, <2>3, <2>14, <3>1 DEF Origins
    <2>16. Progress'
      <3>1. ASSUME NEW t \in WrittenJobs
            PROVE  \E j : Has(draft', j, t) /\ j.end = t.end
        <4>1. PICK j : Has(draft, j, t) /\ j.end = t.end
          BY <2>3 DEF Progress
        <4>2. j.id # id
          <5> SUFFICES ASSUME j.id = id PROVE FALSE
            OBVIOUS
          <5>1. Has(draft, j, s)
            BY <2>9, <4>1 DEF Has
          <5>2. s.email = t.email /\ s.start = t.start
            BY <2>3, <4>1, <5>1 DEF Has, SchemaHolds, Keyed
          <5>3. s = t
            BY <2>14, <5>2, SeedConstants
          <5>4. QED
            BY <2>14, <5>3
        <4>3. QED
          BY <2>2, <2>10, <4>1, <4>2
      <3>2. \A m \in DOMAIN EmployeeSeeds : \E r \in draft'.employees :
              r.email = m /\ r.phone = EmployeeSeeds[m] /\ r.profile = "seed"
        BY <2>1, <2>3, <2>14 DEF Progress
      <3>3. \A n \in CafeSeeds : CafeRow(n, picked'[n]) \in draft'.cafes
        BY <2>1, <2>3, <2>14 DEF Progress
      <3>4. \A t \in WrittenJobs' : \E j : Has(draft', j, t) /\ j.end = t.end
        BY <2>2, <2>11, <2>14, <3>1
      <3>5. QED
        BY <2>14, <3>2, <3>3, <3>4 DEF Progress
    <2>17. QED
      BY <2>12, <2>13, <2>15, <2>16 DEF DraftOK
  <1>3. QED
    BY <1>1, <1>2

-----------------------------------------------------------------------------
(* The invariant                                                           *)

SeedsIn(T) ==
  /\ \A n \in CafeSeeds : \E c \in T.cafes : c.name = n /\ c.profile = "seed"
  /\ \A m \in DOMAIN EmployeeSeeds : \E e \in T.employees :
       e.email = m /\ e.phone = EmployeeSeeds[m] /\ e.profile = "seed"
  /\ \A s \in AssignmentSeeds : \E j \in JobsOf(T, s) : j.end = s.end

SeedInv ==
  /\ Typed /\ SchemaHolds(tables) /\ DraftOK
  /\ untouched => SeedsIn(tables)

LEMMA NoRowsOK == NoRows \in Rows /\ SchemaHolds(NoRows)
  <1>1. /\ NoRows.cafes = {} /\ NoRows.employees = {} /\ NoRows.jobs = {}
        /\ NoRows \in Rows
    BY DEF NoRows, Rows
  <1>2. QED
    BY <1>1 DEF SchemaHolds, Keyed

LEMMA SeedAtFirst == Init => SeedInv
  <1> SUFFICES ASSUME Init PROVE SeedInv
    OBVIOUS
  <1>1. /\ tables = NoRows /\ draft = NoRows /\ phase = "stopped" /\ picked = <<>>
        /\ pending = {} /\ untouched = FALSE /\ writes = 0
    BY DEF Init
  <1>2. 0 \in 0 .. MaxWrites
    BY SeedConstants
  <1>3. tables \in Rows /\ draft \in Rows
    BY <1>1, NoRowsOK
  <1>4. TypeOK
    BY <1>1, <1>2, <1>3 DEF TypeOK, Phases
  <1>5. Typed
    BY <1>1, <1>4 DEF Typed
  <1>6. QED
    BY <1>1, <1>5, NoRowsOK DEF SeedInv, DraftOK, Going

\* A committed seeding has every seed in its rows.
LEMMA SeedingEnds ==
  ASSUME SeedInv, Commit
  PROVE  /\ SchemaHolds(draft) /\ KeepsTables /\ SeedsIn(draft) /\ tables' = draft
         /\ draft \in Rows
  <1>1. phase = "commit" /\ tables' = draft
    BY DEF Commit
  <1>2. SchemaHolds(draft) /\ KeepsTables /\ Progress
    BY <1>1 DEF SeedInv, DraftOK, Going
  <1>3. WrittenEmployees = DOMAIN EmployeeSeeds /\ WrittenJobs = AssignmentSeeds
    BY <1>1 DEF SeedInv, Typed, WrittenEmployees, WrittenJobs
  <1>4. \A n \in CafeSeeds : \E c \in draft.cafes : c.name = n /\ c.profile = "seed"
    BY <1>1, <1>2 DEF Progress, CafeRow
  <1>5. \A s \in AssignmentSeeds : \E j \in JobsOf(draft, s) : j.end = s.end
    BY <1>2, <1>3, KeysOfJobs DEF Progress
  <1>6. SeedsIn(draft)
    BY <1>2, <1>3, <1>4, <1>5 DEF SeedsIn, Progress
  <1>7. QED
    BY <1>1, <1>2, <1>6 DEF SeedInv, Typed, TypeOK

LEMMA TypedStep == SeedInv /\ [Next]_vars => Typed'
  <1> SUFFICES ASSUME SeedInv, [Next]_vars PROVE Typed'
    OBVIOUS
  <1>1. Typed /\ TypeOK
    BY DEF SeedInv, Typed
  <1>2. CASE Start
    BY <1>1, <1>2 DEF Start, Typed, TypeOK, Phases
  <1>3. CASE Migrate
    BY <1>1, <1>3 DEF Migrate, Typed, TypeOK, Phases
  <1>4. ASSUME NEW end \in {"stopped", "failed"}, Abandon(end)
        PROVE  Typed'
    BY <1>1, <1>4, AbandonsAs, NoRowsOK DEF Typed, TypeOK, Phases
  <1>5. CASE UpsertCafes
    BY <1>1, <1>5, CafesAs DEF Typed, TypeOK, Phases
  <1>6. ASSUME NEW m \in DOMAIN EmployeeSeeds, UpsertEmployee(m), ~Abandon("failed")
        PROVE  Typed'
    <2>1. /\ phase = "employees" /\ m \in pending /\ draft' \in Rows
          /\ Flushed(m, "assignments", AssignmentSeeds)
      BY <1>1, <1>6, EmployeeAs
    <2>2. picked \in [CafeSeeds -> CafeIds] /\ pending \subseteq DOMAIN EmployeeSeeds
      BY <1>1, <2>1 DEF Typed
    <2>3. QED
      BY <1>1, <2>1, <2>2 DEF Flushed, Typed, TypeOK, Phases
  <1>7. ASSUME NEW s \in AssignmentSeeds, UpsertAssignment(s), ~Abandon("failed")
        PROVE  Typed'
    <2>1. /\ phase = "assignments" /\ s \in pending /\ draft' \in Rows
          /\ Flushed(s, "commit", {})
      BY <1>1, <1>7, AssignmentAs
    <2>2. picked \in [CafeSeeds -> CafeIds] /\ pending \subseteq AssignmentSeeds
      BY <1>1, <2>1 DEF Typed
    <2>3. QED
      BY <1>1, <2>1, <2>2 DEF Flushed, Typed, TypeOK, Phases
  <1>8. CASE Commit
    BY <1>1, <1>8, NoRowsOK DEF Commit, Typed, TypeOK, Phases
  <1>9. CASE PutCafe \/ DeleteCafe \/ PutEmployee \/ DeleteEmployee
    <2>1. UserWrote
      BY <1>9, UsersWrite DEF SeedInv
    <2>2. QED
      BY <1>1, <2>1 DEF UserWrote, Typed, TypeOK
  <1>10. CASE UNCHANGED vars
    BY <1>1, <1>10 DEF vars, Typed, TypeOK
  <1>11. QED
    BY <1>2, <1>3, <1>4, <1>5, <1>6, <1>7, <1>8, <1>9, <1>10 DEF Next, Seed, Stop

LEMMA SeedStep == SeedInv /\ [Next]_vars => SeedInv'
  <1> SUFFICES ASSUME SeedInv, [Next]_vars PROVE SeedInv'
    OBVIOUS
  <1>1. Typed'
    BY TypedStep
  <1>2. Typed /\ SchemaHolds(tables) /\ DraftOK /\ (untouched => SeedsIn(tables))
    BY DEF SeedInv
  <1>3. SUFFICES SchemaHolds(tables)' /\ DraftOK' /\ (untouched => SeedsIn(tables))'
    BY <1>1 DEF SeedInv
  <1>4. ASSUME UNCHANGED <<tables, untouched>>, DraftOK'
        PROVE  SchemaHolds(tables)' /\ DraftOK' /\ (untouched => SeedsIn(tables))'
    BY <1>2, <1>4
  <1>5. CASE Start
    BY <1>4, <1>5 DEF Start, DraftOK, Going
  <1>6. CASE Migrate
    <2>1. /\ phase' = "cafes" /\ draft' = tables
          /\ UNCHANGED <<tables, picked, pending, untouched, writes>>
      BY <1>6 DEF Migrate
    <2>2. SchemaHolds(draft)' /\ KeepsTables' /\ Origins' /\ Progress'
      BY <1>2, <2>1 DEF KeepsTables, Origins, Progress, WrittenEmployees, WrittenJobs
    <2>3. QED
      BY <1>4, <2>1, <2>2 DEF DraftOK
  <1>7. CASE Stop
    BY <1>4, <1>7, AbandonsAs DEF Stop, DraftOK, Going
  <1>8. CASE UpsertCafes
    BY <1>2, <1>4, <1>8, CafesKeepDraft DEF UpsertCafes
  <1>9. ASSUME NEW m \in DOMAIN EmployeeSeeds, UpsertEmployee(m)
        PROVE  UNCHANGED <<tables, untouched>> /\ DraftOK'
    BY <1>2, <1>9, EmployeesKeepDraft, EmployeeAs, AbandonsAs DEF Flushed
  <1>10. ASSUME NEW s \in AssignmentSeeds, UpsertAssignment(s)
         PROVE  UNCHANGED <<tables, untouched>> /\ DraftOK'
    BY <1>2, <1>10, AssignmentsKeepDraft, AssignmentAs, AbandonsAs DEF Flushed
  <1>11. CASE Commit
    BY <1>11, SeedingEnds DEF Commit, DraftOK, Going
  <1>12. CASE PutCafe \/ DeleteCafe \/ PutEmployee \/ DeleteEmployee
    BY <1>2, <1>12, UsersWrite DEF UserWrote, DraftOK, Going
  <1>13. CASE UNCHANGED vars
    <2>1. DraftOK'
      BY <1>2, <1>13 DEF vars, DraftOK, Going, KeepsTables, Origins, Progress,
                         WrittenEmployees, WrittenJobs
    <2>2. QED
      BY <1>4, <1>13, <2>1 DEF vars
  <1>14. QED
    BY <1>4, <1>5, <1>6, <1>7, <1>8, <1>9, <1>10, <1>11, <1>12, <1>13 DEF Next, Seed

LEMMA SeedInvariant == Spec => []SeedInv
  BY SeedAtFirst, SeedStep, PTL DEF Spec

-----------------------------------------------------------------------------
(* Why a seeding fails                                                     *)

LEMMA TwoRows ==
  ASSUME Typed, SchemaHolds(tables), NEW s,
         NEW j \in JobsOf(tables, s), NEW k \in JobsOf(tables, s), j # k
  PROVE  Cardinality(JobsOf(tables, s)) > 1
  <1> DEFINE S == JobsOf(tables, s)
             f == [r \in S |-> r.id]
  <1>1. \A r \in S : r.id \in JobIds
    BY DEF JobsOf, Typed, TypeOK, Rows, Job
  <1>2. f \in Injection(S, JobIds)
    BY <1>1 DEF JobsOf, SchemaHolds, Keyed, Injection, IsInjective
  <1>3. IsFiniteSet(S)
    BY <1>2, FS_Injection, SeedConstants
  <1>4. Cardinality(S) \in Nat /\ Cardinality(S) # 0 /\ Cardinality(S) # 1
    BY <1>3, FS_CardinalityType, FS_EmptySet, FS_Singleton
  <1>5. QED
    BY <1>4

\* Nobody but a row of the tables can hold the phone number of a pending seed.
LEMMA WhyEmployeesFail ==
  ASSUME SeedInv, NEW m \in DOMAIN EmployeeSeeds, UpsertEmployee(m), phase' = "failed"
  PROVE  \E e \in tables.employees : e.phone = EmployeeSeeds[m] /\ e.email # m
  <1>1. PICK id \in EmployeeIds : /\ phase = "employees"
                                  /\ IsTarget(id, Addressed(m), draft.employees)
                                  /\ PhoneTaken(m, id)
    BY EmployeeAs DEF SeedInv, Flushed
  <1>2. SchemaHolds(draft) /\ Origins
    BY <1>1 DEF SeedInv, DraftOK, Going
  <1>3. PICK d \in draft.employees : d.id # id /\ d.phone = EmployeeSeeds[m]
    BY <1>1 DEF PhoneTaken
  <1>4. d.email # m
    <2> SUFFICES ASSUME d.email = m PROVE FALSE
      OBVIOUS
    <2>1. d \in Addressed(m)
      BY DEF Addressed
    <2>2. PICK q \in Addressed(m) : q.id = id
      BY <1>1, <2>1 DEF IsTarget
    <2>3. QED
      BY <1>2, <1>3, <2>2 DEF Addressed, SchemaHolds
  <1>5. d \in tables.employees
    BY <1>2, <1>3, <1>4, SeedConstants DEF Origins
  <1>6. QED
    BY <1>3, <1>4, <1>5

LEMMA WhyAssignmentsFail ==
  ASSUME SeedInv, NEW s \in AssignmentSeeds, UpsertAssignment(s), phase' = "failed"
  PROVE  \/ \E j \in tables.jobs :
              /\ s.end = NoDate /\ j.end = NoDate
              /\ EmailOf(tables, j.employee) = s.email
              /\ j \notin JobsOf(tables, s)
         \/ Cardinality(JobsOf(tables, s)) > 1
  <1>1. PICK id \in JobIds, e \in EmployeeIds :
          /\ phase = "assignments" /\ s \in pending
          /\ IsTarget(id, Matching(s), draft.jobs)
          /\ \E r \in draft.employees : r.id = e /\ r.email = s.email
          /\ JobTaken(s, id, e)
    BY AssignmentAs DEF SeedInv, Flushed
  <1>2. /\ Typed /\ SchemaHolds(tables)
        /\ SchemaHolds(draft) /\ KeepsTables /\ Origins
    BY <1>1 DEF SeedInv, DraftOK, Going
  <1>3. PICK worker \in draft.employees : worker.id = e /\ worker.email = s.email
    BY <1>1
  <1>4. PICK k \in draft.jobs : k.employee = e /\ k.end = NoDate /\ k.id # id
    BY <1>1 DEF JobTaken, OpenJobs, Ids
  <1>5. s.end = NoDate /\ s \notin WrittenJobs /\ WrittenJobs \subseteq AssignmentSeeds
    BY <1>1 DEF JobTaken, WrittenJobs
  <1>6. \A t \in WrittenJobs : t.email = s.email => t.end # NoDate /\ t.start # s.start
    BY <1>5, SeedConstants
  <1>7. \A r \in draft.employees : r.id = e => r = worker
    BY <1>2, <1>3 DEF SchemaHolds, Keyed
  <1>8. k \in tables.jobs
    BY <1>2, <1>3, <1>4, <1>6, <1>7 DEF Origins, Has
  <1>9. EmailOf(tables, k.employee) = s.email
    <2>1. PICK x \in tables.employees : x.id = k.employee
      BY <1>2, <1>8 DEF SchemaHolds, Ids
    <2>2. PICK d \in draft.employees : d.id = x.id /\ d.email = x.email
      BY <1>2 DEF KeepsTables
    <2>3. x.email = s.email
      BY <1>3, <1>4, <1>7, <2>1, <2>2
    <2>4. QED
      BY <1>2, <2>1, <2>3, Lookups
  <1>10. CASE k \notin JobsOf(tables, s)
    BY <1>4, <1>5, <1>8, <1>9, <1>10
  <1>11. CASE k \in JobsOf(tables, s)
    <2>1. k \in Matching(s)
      BY <1>2, <1>4, <1>8, <1>11, KeysOfJobs, SameKey DEF Matching
    <2>2. PICK l \in Matching(s) : l.id = id
      BY <1>1, <2>1 DEF IsTarget
    <2>3. Has(draft, l, s) /\ l \in draft.jobs
      BY <1>2, <2>2, KeysOfJobs DEF Matching, Has
    <2>4. l \in tables.jobs
      <3>1. ASSUME NEW t \in WrittenJobs, Has(draft, l, t) PROVE FALSE
        <4>1. t.email = s.email /\ t.start = s.start
          BY <1>2, <2>3, <3>1 DEF Has, SchemaHolds, Keyed
        <4>2. QED
          BY <1>6, <4>1
      <3>2. QED
        BY <1>2, <2>3, <3>1 DEF Origins
    <2>5. l \in JobsOf(tables, s)
      BY <1>2, <2>3, <2>4, KeysOfJobs, SameKey
    <2>6. QED
      BY <1>2, <1>4, <1>11, <2>2, <2>5, TwoRows
  <1>12. QED
    BY <1>10, <1>11

-----------------------------------------------------------------------------
(* A seeding with nothing to do                                            *)

\* A seeding of rows nobody has changed writes the same rows.
Again == untouched /\ SeedRowsAreUnique /\ Going => draft = tables

LEMMA SameRows ==
  ASSUME NEW S \in Rows, NEW T \in Rows,
         S.cafes = T.cafes, S.employees = T.employees, S.jobs = T.jobs
  PROVE  S = T
  BY DEF Rows

LEMMA CafesAgain ==
  ASSUME SeedInv, untouched, SeedRowsAreUnique, draft = tables, UpsertCafes
  PROVE  draft' = tables
  <1>1. PICK pick \in [CafeSeeds -> CafeIds] :
          /\ \A n \in CafeSeeds : IsTarget(pick[n], Named(n), draft.cafes)
          /\ draft' \in Rows /\ draft'.cafes = SeedsAsPicked(pick)
          /\ draft'.employees = draft.employees /\ draft'.jobs = draft.jobs
    BY CafesAs DEF SeedInv
  <1>2. tables \in Rows /\ tables.cafes \subseteq Cafe /\ SeedsIn(tables)
    BY DEF SeedInv, Typed, TypeOK, Rows
  <1>3. ASSUME NEW n \in CafeSeeds
        PROVE  CafeRow(n, pick[n]) \in tables.cafes
    <2>1. PICK c \in tables.cafes : c.name = n /\ c.profile = "seed"
      BY <1>2 DEF SeedsIn
    <2>2. c \in Named(n)
      BY <2>1 DEF Named
    <2>3. PICK r \in Named(n) : r.id = pick[n]
      BY <1>1, <2>2 DEF IsTarget
    <2>4. r = c
      BY <2>1, <2>3 DEF Named, SeedRowsAreUnique
    <2>5. c = CafeRow(n, pick[n])
      BY <1>2, <2>1, <2>3, <2>4 DEF Cafe, CafeRow
    <2>6. QED
      BY <2>5
  <1>4. ASSUME NEW c \in tables.cafes, NEW n \in CafeSeeds, c.id = pick[n]
        PROVE  c = CafeRow(n, pick[n])
    BY <1>3, <1>4 DEF SeedInv, SchemaHolds, Keyed, CafeRow
  <1>5. SeedsAsPicked(pick) = tables.cafes
    BY <1>3, <1>4 DEF SeedsAsPicked
  <1>6. QED
    BY <1>1, <1>2, <1>5, SameRows

LEMMA EmployeesAgain ==
  ASSUME SeedInv, untouched, SeedRowsAreUnique, draft = tables,
         NEW m \in DOMAIN EmployeeSeeds, UpsertEmployee(m)
  PROVE  draft' = tables /\ phase' # "failed"
  <1>1. PICK id \in EmployeeIds :
          /\ IsTarget(id, Addressed(m), draft.employees)
          /\ \/ PhoneTaken(m, id)
             \/ /\ draft' \in Rows /\ draft'.cafes = draft.cafes
                /\ draft'.employees = Put(draft.employees, EmployeeRow(m, id))
                /\ draft'.jobs = draft.jobs
                /\ phase' # "failed"
    BY EmployeeAs DEF SeedInv, Flushed
  <1>2. /\ tables \in Rows /\ tables.employees \subseteq Employee
        /\ SchemaHolds(tables) /\ SeedsIn(tables)
    BY DEF SeedInv, Typed, TypeOK, Rows
  <1>3. PICK e \in tables.employees :
          e.email = m /\ e.phone = EmployeeSeeds[m] /\ e.profile = "seed"
    BY <1>2 DEF SeedsIn
  <1>4. e \in Addressed(m)
    BY <1>3 DEF Addressed
  <1>5. PICK r \in Addressed(m) : r.id = id
    BY <1>1, <1>4 DEF IsTarget
  <1>6. r = e
    BY <1>2, <1>3, <1>5 DEF Addressed, SchemaHolds
  <1>7. e = EmployeeRow(m, id)
    BY <1>2, <1>3, <1>5, <1>6 DEF Employee, EmployeeRow
  <1>8. ~PhoneTaken(m, id)
    BY <1>2, <1>3, <1>5, <1>6 DEF PhoneTaken, SchemaHolds
  <1>9. Put(draft.employees, EmployeeRow(m, id)) = tables.employees
    BY <1>2, <1>7, PutRows DEF SchemaHolds
  <1>10. QED
    BY <1>1, <1>2, <1>8, <1>9, SameRows

LEMMA AssignmentsAgain ==
  ASSUME SeedInv, untouched, SeedRowsAreUnique, draft = tables,
         NEW s \in AssignmentSeeds, UpsertAssignment(s)
  PROVE  draft' = tables /\ phase' # "failed"
  <1>1. PICK id \in JobIds, e \in EmployeeIds :
          /\ phase = "assignments"
          /\ IsTarget(id, Matching(s), draft.jobs)
          /\ \E r \in draft.employees : r.id = e /\ r.email = s.email
          /\ \/ JobTaken(s, id, e)
             \/ /\ draft' \in Rows /\ draft'.cafes = draft.cafes
                /\ draft'.employees = draft.employees
                /\ draft'.jobs = Put(draft.jobs, JobRow(s, id, e))
                /\ phase' # "failed"
    BY AssignmentAs DEF SeedInv, Flushed
  <1>2. /\ tables \in Rows /\ tables.jobs \subseteq Job
        /\ SchemaHolds(tables) /\ SeedsIn(tables) /\ Progress
    BY <1>1 DEF SeedInv, DraftOK, Going, Typed, TypeOK, Rows
  <1>3. PICK j \in JobsOf(tables, s) : j.end = s.end
    BY <1>2 DEF SeedsIn
  <1>4. Has(tables, j, s)
    BY <1>2, KeysOfJobs
  <1>5. PICK l \in Matching(s) : l.id = id
    BY <1>1, <1>3 DEF IsTarget, Matching
  <1>6. l = j
    BY <1>5 DEF Matching, SeedRowsAreUnique
  <1>7. j.employee = e
    BY <1>1, <1>2, <1>4 DEF Has, SchemaHolds
  <1>8. j.cafe = picked[s.cafe]
    <2>1. s.cafe \in CafeSeeds
      BY SeedConstants
    <2>2. PICK c \in tables.cafes : c.id = j.cafe /\ c.name = s.cafe
      BY <1>4 DEF Has
    <2>3. CafeRow(s.cafe, picked[s.cafe]) \in tables.cafes
      BY <1>1, <1>2, <2>1 DEF Progress
    <2>4. c = CafeRow(s.cafe, picked[s.cafe])
      BY <2>1, <2>2, <2>3 DEF SeedRowsAreUnique, CafeRow
    <2>5. QED
      BY <2>2, <2>4 DEF CafeRow
  <1>9. j = JobRow(s, id, e)
    <2>1. j \in Job /\ j.start = s.start
      BY <1>2, <1>4 DEF Has
    <2>2. QED
      BY <1>3, <1>5, <1>6, <1>7, <1>8, <2>1 DEF Job, JobRow
  <1>10. ~JobTaken(s, id, e)
    <2>1. \A k \in tables.jobs : k.employee = e /\ k.end = NoDate /\ s.end = NoDate => k = j
      BY <1>2, <1>3, <1>4, <1>7 DEF Has, SchemaHolds
    <2>2. QED
      BY <1>5, <1>6, <2>1 DEF JobTaken, OpenJobs, Ids
  <1>11. Put(draft.jobs, JobRow(s, id, e)) = tables.jobs
    BY <1>2, <1>4, <1>9, PutRows DEF Has, SchemaHolds
  <1>12. QED
    BY <1>1, <1>2, <1>10, <1>11, SameRows

LEMMA AgainInvariant == Spec => []Again
  <1>1. Init => Again
    BY DEF Init, Again
  <1>2. SeedInv /\ Again /\ [Next]_vars => Again'
    <2> SUFFICES ASSUME SeedInv, Again, [Next]_vars, untouched', SeedRowsAreUnique', Going'
                 PROVE  draft' = tables'
      BY DEF Again
    <2>1. CASE Migrate
      BY <2>1 DEF Migrate
    <2>2. CASE UpsertCafes
      <3>1. UNCHANGED <<tables, untouched>> /\ Going
        BY <2>2 DEF UpsertCafes, Going
      <3>2. QED
        BY <2>2, <3>1, CafesAgain DEF Again, SeedRowsAreUnique
    <2>3. ASSUME NEW m \in DOMAIN EmployeeSeeds, UpsertEmployee(m)
          PROVE  draft' = tables'
      <3>1. UNCHANGED <<tables, untouched>> /\ Going
        BY <2>3, EmployeeAs, AbandonsAs DEF SeedInv, Going, Flushed
      <3>2. QED
        BY <2>3, <3>1, EmployeesAgain DEF Again, SeedRowsAreUnique
    <2>4. ASSUME NEW s \in AssignmentSeeds, UpsertAssignment(s)
          PROVE  draft' = tables'
      <3>1. UNCHANGED <<tables, untouched>> /\ Going
        BY <2>4, AssignmentAs, AbandonsAs DEF SeedInv, Going, Flushed
      <3>2. QED
        BY <2>4, <3>1, AssignmentsAgain DEF Again, SeedRowsAreUnique
    <2>5. ~(Start \/ Commit)
      BY DEF Start, Commit, Going
    <2>6. ~Stop
      BY DEF Stop, Abandon, Going
    <2>7. ~(PutCafe \/ DeleteCafe \/ PutEmployee \/ DeleteEmployee)
      BY UsersWrite DEF SeedInv, UserWrote
    <2>8. CASE UNCHANGED vars
      BY <2>8 DEF vars, Again, SeedRowsAreUnique, Going, JobsOf, EmailOf, NameOf
    <2>9. QED
      BY <2>1, <2>2, <2>3, <2>4, <2>5, <2>6, <2>7, <2>8 DEF Next, Seed
  <1>3. QED
    BY <1>1, <1>2, SeedInvariant, PTL DEF Spec

-----------------------------------------------------------------------------
(* Theorems                                                                *)

\* Every variable keeps its type, whatever users write and whenever a container
\* is stopped.
THEOREM TypeCorrect == Spec => []TypeOK
  <1>1. SeedInv => TypeOK
    BY DEF SeedInv, Typed
  <1>2. QED
    BY <1>1, SeedInvariant, PTL

\* The schema's promises are kept at all times, and a container that serves has
\* every seed in its tables until a user writes, from whatever rows users left
\* behind its seeding started.
THEOREM ServedSeedsArePresent == Spec => []SeedsArePresent
  <1>1. SeedInv => SeedsArePresent
    BY DEF SeedInv, SeedsIn, SeedsArePresent
  <1>2. QED
    BY <1>1, SeedInvariant, PTL

\* A seeding loses no row, and changes none that no seed names.
THEOREM UserRowsSurvive == Spec => SeedingKeepsUserRows
  <1> DEFINE Kept ==
        phase = "commit" /\ phase' = "serving" =>
          /\ \A c \in tables.cafes :
               c \in tables'.cafes
                 \/ (c.name \in CafeSeeds /\ c.id \in Ids(tables'.cafes))
          /\ \A e \in tables.employees :
               e \in tables'.employees
                 \/ (e.email \in DOMAIN EmployeeSeeds /\ e.id \in Ids(tables'.employees))
          /\ \A j \in tables.jobs :
               j \in tables'.jobs
                 \/ (/\ \E s \in AssignmentSeeds : j \in JobsOf(tables, s)
                     /\ j.id \in Ids(tables'.jobs))
  <1>1. SeedInv /\ [Next]_vars => Kept
    <2> SUFFICES ASSUME SeedInv, [Next]_vars, phase = "commit", phase' = "serving"
                 PROVE  Kept
      OBVIOUS
    <2>1. Commit
      BY AbandonsAs DEF Next, Seed, Start, Migrate, Stop, UpsertCafes, UpsertEmployee,
         UpsertAssignment, PutCafe, DeleteCafe, PutEmployee, DeleteEmployee, UserWrites, vars
    <2>2. KeepsTables /\ tables' = draft
      BY <2>1, SeedingEnds
    <2>3. \A j, s : Has(tables, j, s) => j \in JobsOf(tables, s)
      BY KeysOfJobs DEF SeedInv
    <2>4. QED
      BY <2>2, <2>3 DEF KeepsTables, Ids
  <1>2. QED
    BY <1>1, SeedInvariant, PTL DEF Spec, SeedingKeepsUserRows

\* Whatever users wrote before it, a start fails for no reason but the three that
\* StartsFailForAReason names.
THEOREM FailuresHaveAReason == Spec => StartsFailForAReason
  <1> DEFINE Reason ==
        \/ \E e \in tables.employees, m \in DOMAIN EmployeeSeeds :
             e.phone = EmployeeSeeds[m] /\ e.email # m
        \/ \E s \in AssignmentSeeds, j \in tables.jobs :
             /\ s.end = NoDate /\ j.end = NoDate
             /\ EmailOf(tables, j.employee) = s.email
             /\ j \notin JobsOf(tables, s)
        \/ \E s \in AssignmentSeeds : Cardinality(JobsOf(tables, s)) > 1
  <1>1. SeedInv /\ [Next]_vars => (phase # "failed" /\ phase' = "failed" => Reason)
    <2> SUFFICES ASSUME SeedInv, [Next]_vars, phase # "failed", phase' = "failed"
                 PROVE  Reason
      OBVIOUS
    <2>1. \/ \E m \in DOMAIN EmployeeSeeds : UpsertEmployee(m)
          \/ \E s \in AssignmentSeeds : UpsertAssignment(s)
      <3>1. ~(PutCafe \/ DeleteCafe \/ PutEmployee \/ DeleteEmployee)
        BY UsersWrite DEF SeedInv, UserWrote
      <3>2. ~(Start \/ Migrate \/ UpsertCafes \/ Commit)
        BY DEF Start, Migrate, UpsertCafes, Commit
      <3>3. ~Stop
        BY AbandonsAs DEF Stop
      <3>4. QED
        BY <3>1, <3>2, <3>3 DEF Next, Seed, vars
    <2>2. ASSUME NEW m \in DOMAIN EmployeeSeeds, UpsertEmployee(m) PROVE Reason
      BY <2>2, WhyEmployeesFail
    <2>3. ASSUME NEW s \in AssignmentSeeds, UpsertAssignment(s) PROVE Reason
      BY <2>3, WhyAssignmentsFail
    <2>4. QED
      BY <2>1, <2>2, <2>3
  <1>2. QED
    BY <1>1, SeedInvariant, PTL DEF Spec, StartsFailForAReason

\* A container started again before any user wrote serves the rows the last one
\* served, however often a start was killed on its way.
THEOREM RowsStayWhenSeededAgain == Spec => SeedingAgainChangesNothing
  <1> DEFINE Same == untouched /\ phase # "serving" /\ SeedRowsAreUnique
                       => phase' # "failed" /\ tables' = tables
  <1>1. SeedInv /\ Again /\ [Next]_vars => Same \/ UNCHANGED vars
    <2> SUFFICES ASSUME SeedInv, Again, Next, untouched, phase # "serving",
                        SeedRowsAreUnique
                 PROVE  phase' # "failed" /\ tables' = tables
      OBVIOUS
    <2>1. CASE Start \/ Migrate \/ UpsertCafes
      BY <2>1 DEF Start, Migrate, UpsertCafes
    <2>2. CASE Stop
      BY <2>2 DEF Stop, Abandon
    <2>3. ASSUME NEW m \in DOMAIN EmployeeSeeds, UpsertEmployee(m)
          PROVE  phase' # "failed" /\ tables' = tables
      <3>1. tables' = tables /\ Going
        BY <2>3, EmployeeAs, AbandonsAs DEF SeedInv, Going, Flushed
      <3>2. QED
        BY <2>3, <3>1, EmployeesAgain DEF Again
    <2>4. ASSUME NEW s \in AssignmentSeeds, UpsertAssignment(s)
          PROVE  phase' # "failed" /\ tables' = tables
      <3>1. tables' = tables /\ Going
        BY <2>4, AssignmentAs, AbandonsAs DEF SeedInv, Going, Flushed
      <3>2. QED
        BY <2>4, <3>1, AssignmentsAgain DEF Again
    <2>5. CASE Commit
      BY <2>5 DEF Commit, Again, Going
    <2>6. ~(PutCafe \/ DeleteCafe \/ PutEmployee \/ DeleteEmployee)
      BY UsersWrite DEF SeedInv, UserWrote
    <2>7. QED
      BY <2>1, <2>2, <2>3, <2>4, <2>5, <2>6 DEF Next, Seed
  <1>2. QED
    BY <1>1, SeedInvariant, AgainInvariant, PTL DEF Spec, SeedingAgainChangesNothing
===============================================================================
