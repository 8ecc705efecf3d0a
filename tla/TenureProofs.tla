------------------------------ MODULE TenureProofs ------------------------------
(***************************************************************************)
(* Proofs about Tenure: for any number of workers, readers, employees and  *)
(* cafes, and any length of the day, no update is rejected for its dates,  *)
(* tenures do not overlap and a served list is at most a day old, as long  *)
(* as the clock of the backend does not step back.                         *)
(***************************************************************************)
EXTENDS Tenure, TLAPS, FiniteSetTheorems

-----------------------------------------------------------------------------
(* Days                                                                    *)

LEMMA Days ==
  ASSUME NEW a \in Nat, NEW b \in Nat, NEW d \in Nat \ {0}
  PROVE  /\ a \div d \in Nat
         /\ b =< a => b \div d =< a \div d
         /\ b =< a /\ a =< b + d => b \div d \in {a \div d - 1, a \div d}
  <1>1. a \div d \in Nat /\ b \div d \in Nat
    OBVIOUS
  <1>2. b =< a => b \div d =< a \div d
    OBVIOUS
  <1>3. a =< b + d => a \div d =< b \div d + 1
    <2>1. (b + d) \div d = b \div d + 1
      OBVIOUS
    <2>2. a =< b + d => a \div d =< (b + d) \div d
      OBVIOUS
    <2>3. QED
      BY <2>1, <2>2
  <1>4. QED
    BY <1>1, <1>2, <1>3

LEMMA DaysWorkedNat ==
  ASSUME NEW start \in Nat \cup {Null}, NEW day \in Nat
  PROVE  DaysWorked(start, day) \in Nat
  BY DEF DaysWorked

-----------------------------------------------------------------------------
(* The clock                                                               *)

ClockOK ==
  /\ now \in Nat /\ 2 * DayLength - 1 =< now
  /\ back \in {0, DayLength}

LEMMA TodayIsADay ==
  ASSUME ClockOK
  PROVE  /\ now - back \in Nat /\ Today \in Nat
         /\ back = 0 => now - back = now /\ Today = now \div DayLength
  <1>1. now - back \in Nat
    BY TenureConstants DEF ClockOK
  <1>2. back = 0 => now - back = now
    BY DEF ClockOK
  <1>3. QED
    BY <1>1, <1>2, Days, TenureConstants DEF Today

LEMMA ClockAtFirst == Init => ClockOK
  BY TenureConstants DEF Init, ClockOK

LEMMA ClockStep == ClockOK /\ [Next]_vars => ClockOK'
  <1> SUFFICES ASSUME ClockOK, [Next]_vars PROVE ClockOK'
    OBVIOUS
  <1>1. CASE Tick
    BY <1>1, TenureConstants DEF ClockOK, Tick
  <1>2. CASE StepBack
    BY <1>2 DEF ClockOK, StepBack
  <1>3. CASE UNCHANGED <<now, back>>
    BY <1>3 DEF ClockOK
  <1>4. UNCHANGED <<now, back>> \/ Tick \/ StepBack
    BY DEF Next, vars
  <1>5. QED
    BY <1>1, <1>2, <1>3, <1>4

\* Until it steps back, the date only moves forward.
LEMMA TodayGrows ==
  ASSUME ClockOK, ClockOK', [Next]_vars, back' = 0
  PROVE  back = 0 /\ now =< now' /\ Today =< Today'
  <1>1. back = 0 /\ now =< now'
    <2>1. CASE Tick
      BY <2>1 DEF ClockOK, Tick
    <2>2. CASE StepBack
      BY <2>2, TenureConstants DEF StepBack
    <2>3. CASE UNCHANGED <<now, back>>
      BY <2>3 DEF ClockOK
    <2>4. UNCHANGED <<now, back>> \/ Tick \/ StepBack
      BY DEF Next, vars
    <2>5. QED
      BY <2>1, <2>2, <2>3, <2>4
  <1>2. now \in Nat /\ now' \in Nat /\ DayLength \in Nat \ {0}
    BY TenureConstants DEF ClockOK
  <1>3. PICK n \in Nat, m \in Nat, d \in Nat \ {0} : n = now /\ m = now' /\ d = DayLength
    BY <1>2
  <1>4. n =< m
    BY <1>1, <1>3
  <1>5. n \div d =< m \div d
    BY <1>4, Days
  <1>6. Today = n \div d
    BY <1>1, <1>3 DEF Today
  <1>7. Today' = m \div d
    BY <1>3 DEF Today
  <1>8. QED
    BY <1>1, <1>5, <1>6, <1>7

-----------------------------------------------------------------------------
(* Types of the updates                                                    *)

Move ==
  [step: DOMAIN Steps, employee: Employees, cafe: Cafes \cup {NoCafe},
   seen: SUBSET Row, date: Nat \cup {Null}]

WritesTyped ==
  /\ moves \in Nat /\ rejected \in Nat
  /\ rows \in SUBSET Row
  /\ overtaken \in SUBSET Employees
  /\ move \in [Workers -> {NoMove} \cup Move]

\* The current rows have been fetched; so has the date been taken.
Fetched(w) == move[w] # NoMove /\ move[w].step >= 2
IsDated(w) == move[w] # NoMove /\ move[w].step = 3

LEMMA StepNames ==
  /\ DOMAIN Steps = {1, 2, 3}
  /\ Steps[1] = "fetch" /\ Steps[2] = "date" /\ Steps[3] = "commit"
  BY DEF Steps

LEMMA WhereItIs ==
  ASSUME WritesTyped, NEW w \in Workers
  PROVE  /\ At(w, "fetch") => move[w] \in Move /\ move[w] # NoMove /\ move[w].step = 1
         /\ At(w, "date") => move[w] \in Move /\ move[w] # NoMove /\ move[w].step = 2
         /\ At(w, "commit") => move[w] \in Move /\ move[w] # NoMove /\ move[w].step = 3
  <1>1. \A s \in {"fetch", "date", "commit"} :
          At(w, s) => move[w].step \in {1, 2, 3}
    BY StepNames DEF At
  <1>2. NoMove.step = 0
    BY DEF NoMove
  <1>3. move[w] \in {NoMove} \cup Move
    BY DEF WritesTyped
  <1>4. \A s \in {"fetch", "date", "commit"} :
          At(w, s) => move[w] \in Move /\ move[w] # NoMove
    BY <1>1, <1>2, <1>3
  <1>5. QED
    BY <1>1, <1>4, StepNames DEF At

\* How an update looks that has begun.
LEMMA BeginsWith ==
  ASSUME WritesTyped, NEW w \in Workers, Begin(w)
  PROVE  /\ move' \in [Workers -> {NoMove} \cup Move]
         /\ move'[w] # NoMove /\ move'[w].step = 1
         /\ \A v \in Workers \ {w} : move'[v] = move[v]
         /\ moves' \in Nat /\ UNCHANGED <<rows, overtaken, rejected>>
  <1>1. PICK e \in Employees, c \in Cafes \cup {NoCafe} :
          move' = [move EXCEPT ![w] = [step |-> 1, employee |-> e, cafe |-> c,
                                       seen |-> {}, date |-> Null]]
    BY DEF Begin
  <1>3. [step |-> 1, employee |-> e, cafe |-> c, seen |-> {}, date |-> Null] \in Move
    BY StepNames DEF Move
  <1>4. [step |-> 1, employee |-> e, cafe |-> c, seen |-> {}, date |-> Null] # NoMove
    BY DEF NoMove
  <1>5. PICK m \in Move : m # NoMove /\ m.step = 1 /\ move' = [move EXCEPT ![w] = m]
    BY <1>1, <1>3, <1>4
  <1>6. QED
    BY <1>5 DEF Begin, WritesTyped

LEMMA FetchesAs ==
  ASSUME WritesTyped, NEW w \in Workers, FetchCurrent(w)
  PROVE  /\ move' \in [Workers -> {NoMove} \cup Move]
         /\ move'[w] # NoMove /\ move'[w].step = 2
         /\ move'[w].employee = move[w].employee
         /\ move'[w].seen = Of(move[w].employee)
         /\ \A v \in Workers \ {w} : move'[v] = move[v]
         /\ UNCHANGED <<rows, moves, overtaken, rejected>>
  <1>1. move[w] \in Move /\ move[w].step = 1
    BY WhereItIs DEF FetchCurrent
  <1>2. Of(move[w].employee) \in SUBSET Row
    BY DEF Of, WritesTyped
  <1>3. PICK l, m : /\ l = [move[w] EXCEPT !.seen = Of(move[w].employee)]
                    /\ m = [l EXCEPT !.step = @ + 1]
                    /\ move' = [move EXCEPT ![w] = m]
    BY DEF FetchCurrent, Proceed
  <1>4. m \in Move /\ m.step = 2 /\ m.employee = move[w].employee
        /\ m.seen = Of(move[w].employee)
    <2>1. l \in Move /\ l.step = 1 /\ l.employee = move[w].employee
          /\ l.seen = Of(move[w].employee)
      BY <1>1, <1>2, <1>3 DEF Move
    <2>2. m = [l EXCEPT !.step = l.step + 1]
      BY <1>3
    <2>3. QED
      BY <2>1, <2>2, StepNames DEF Move
  <1>5. m # NoMove
    BY <1>4 DEF NoMove
  <1>6. QED
    BY <1>3, <1>4, <1>5 DEF FetchCurrent, Proceed, WritesTyped

LEMMA DatesAs ==
  ASSUME WritesTyped, ClockOK, NEW w \in Workers, TakeDate(w)
  PROVE  /\ move' \in [Workers -> {NoMove} \cup Move]
         /\ Fetched(w)
         /\ move'[w] # NoMove /\ move'[w].step = 3
         /\ move'[w].employee = move[w].employee
         /\ move'[w].seen = move[w].seen /\ move'[w].date = Today
         /\ \A v \in Workers \ {w} : move'[v] = move[v]
         /\ UNCHANGED <<rows, moves, overtaken, rejected>>
  <1>1. move[w] \in Move /\ move[w] # NoMove /\ move[w].step = 2
    BY WhereItIs DEF TakeDate
  <1>2. Today \in Nat
    BY TodayIsADay
  <1>3. PICK l, m : /\ l = [move[w] EXCEPT !.date = Today]
                    /\ m = [l EXCEPT !.step = @ + 1]
                    /\ move' = [move EXCEPT ![w] = m]
    BY DEF TakeDate, Proceed
  <1>4. m \in Move /\ m.step = 3 /\ m.employee = move[w].employee
        /\ m.seen = move[w].seen /\ m.date = Today
    <2>1. l \in Move /\ l.step = 2 /\ l.employee = move[w].employee
          /\ l.seen = move[w].seen /\ l.date = Today
      BY <1>1, <1>2, <1>3 DEF Move
    <2>2. m = [l EXCEPT !.step = l.step + 1]
      BY <1>3
    <2>3. QED
      BY <2>1, <2>2, StepNames DEF Move
  <1>5. m # NoMove
    BY <1>4 DEF NoMove
  <1>6. QED
    BY <1>1, <1>3, <1>4, <1>5 DEF TakeDate, Proceed, WritesTyped, Fetched

-----------------------------------------------------------------------------
(* Rows                                                                    *)

\* The table has keys, and one current row of an employee.
RowsAreKeyed ==
  /\ IsFiniteSet(rows)
  /\ \A a, b \in rows : a.id = b.id => a = b
  /\ \A a \in rows : a.id < Cardinality(rows) + Cardinality(Employees)
  /\ \A a, b \in rows :
       a.employee = b.employee /\ a.end = Null /\ b.end = Null => a = b

\* What a request has fetched is in the table, but for the ends of the rows; and its
\* date has been taken.
SeenIsOld(w) ==
  Fetched(w) =>
    /\ \A s \in move[w].seen :
         /\ s.employee = move[w].employee
         /\ \E r \in rows : r.id = s.id
         /\ \A r \in rows : s.id = r.id => s.start = r.start /\ s.employee = r.employee
    /\ \A s, t \in move[w].seen : s.id = t.id => s = t
    /\ \A s, t \in move[w].seen : s.end = Null /\ t.end = Null => s = t
    /\ IsDated(w) => move[w].date \in Nat

Kept == WritesTyped /\ RowsAreKeyed /\ \A w \in Workers : SeenIsOld(w)

\* The row that a commit closes is the one that was current when it was fetched.
LEMMA HeldRows ==
  ASSUME Kept, NEW w \in Workers, At(w, "commit")
  PROVE  /\ Held(w) = {} \/ \E h \in rows : Held(w) = {h}
         /\ Held(w) = {} => Current(w) = {}
         /\ \A h \in Held(w) :
              /\ h \in rows /\ h.employee = move[w].employee
              /\ \E s \in move[w].seen : s.id = h.id /\ s.start = h.start /\ s.end = Null
         /\ Fetched(w) /\ IsDated(w) /\ move[w] \in Move /\ move[w].date \in Nat
  <1>1. move[w] \in Move /\ Fetched(w) /\ IsDated(w)
    BY WhereItIs DEF Kept, Fetched, IsDated
  <1>2. /\ \A s \in move[w].seen :
             /\ s.employee = move[w].employee
             /\ \E r \in rows : r.id = s.id
             /\ \A r \in rows : s.id = r.id => s.start = r.start /\ s.employee = r.employee
        /\ \A s, t \in move[w].seen : s.end = Null /\ t.end = Null => s = t
        /\ move[w].date \in Nat
    BY <1>1 DEF Kept, SeenIsOld
  <1>3. \A s, t \in Current(w) : s = t
    BY <1>2 DEF Current, Open
  <1>4. \A h \in Held(w) : h \in rows /\ \E s \in Current(w) : s.id = h.id
    BY DEF Held
  <1>5. \A g, h \in Held(w) : g = h
    BY <1>3, <1>4 DEF Kept, RowsAreKeyed
  <1>6. Current(w) # {} => Held(w) # {}
    BY <1>2 DEF Held, Current, Open
  <1>7. \A s \in Current(w) : s \in move[w].seen /\ s.end = Null
    BY DEF Current, Open
  <1>8. \A h \in Held(w) :
          /\ h.employee = move[w].employee
          /\ \E s \in move[w].seen : s.id = h.id /\ s.start = h.start /\ s.end = Null
    BY <1>2, <1>4, <1>7
  <1>9. QED
    BY <1>1, <1>2, <1>4, <1>5, <1>6, <1>8

LEMMA NewRow ==
  ASSUME Kept, NEW w \in Workers, At(w, "commit")
  PROVE  /\ Cardinality(rows) \in Nat /\ Cardinality(Employees) \in Nat
         /\ \/ NewRows(w) = {}
            \/ \E n \in Row : /\ NewRows(w) = {n}
                              /\ n.id = Cardinality(rows) + Cardinality(Employees)
                              /\ n.employee = move[w].employee
                              /\ n.start = move[w].date /\ n.end = Null
         /\ move[w].cafe # NoCafe <=> NewRows(w) # {}
  <1>1. move[w] \in Move /\ move[w].date \in Nat
    BY HeldRows
  <1>2. Cardinality(rows) \in Nat /\ Cardinality(Employees) \in Nat
    BY FS_CardinalityType, TenureConstants DEF Kept, RowsAreKeyed
  <1>3. CASE move[w].cafe = NoCafe
    BY <1>2, <1>3 DEF NewRows
  <1>4. CASE move[w].cafe # NoCafe
    <2> DEFINE n == [id |-> Cardinality(rows) + Cardinality(Employees),
                     employee |-> move[w].employee, cafe |-> move[w].cafe,
                     start |-> move[w].date, end |-> Null]
    <2>1. NewRows(w) = {n}
      BY <1>4 DEF NewRows
    <2>2. n \in Row
      BY <1>1, <1>2, <1>4 DEF Move, Row
    <2>3. QED
      BY <1>2, <1>4, <2>1, <2>2
  <1>5. QED
    BY <1>3, <1>4

\* The table without the row that a commit opens.
Closed(w) == {[r EXCEPT !.end = move[w].date] : r \in Held(w)}
Remaining(w) == (rows \ Held(w)) \cup Closed(w)

LEMMA RemainingRows ==
  ASSUME Kept, NEW w \in Workers, At(w, "commit")
  PROVE  /\ Remaining(w) \in SUBSET Row /\ IsFiniteSet(Remaining(w))
         /\ Cardinality(Remaining(w)) = Cardinality(rows)
         /\ \A a, b \in Remaining(w) : a.id = b.id => a = b
         /\ \A r \in Remaining(w) : \E o \in rows :
              /\ r.id = o.id /\ r.start = o.start /\ r.employee = o.employee
              /\ \/ r = o /\ o \notin Held(w)
                 \/ o \in Held(w) /\ r.end = move[w].date
         /\ \A o \in rows : \E r \in Remaining(w) : r.id = o.id
  <1>1. move[w].date \in Nat /\ rows \in SUBSET Row /\ IsFiniteSet(rows)
        /\ \A a, b \in rows : a.id = b.id => a = b
    BY HeldRows DEF Kept, WritesTyped, RowsAreKeyed
  <1>2. CASE Held(w) = {}
    <2>1. Remaining(w) = rows
      BY <1>2 DEF Remaining, Closed
    <2>2. QED
      BY <1>1, <1>2, <2>1
  <1>3. ASSUME NEW h \in rows, Held(w) = {h}
        PROVE  /\ Remaining(w) \in SUBSET Row /\ IsFiniteSet(Remaining(w))
               /\ Cardinality(Remaining(w)) = Cardinality(rows)
               /\ \A a, b \in Remaining(w) : a.id = b.id => a = b
               /\ \A r \in Remaining(w) : \E o \in rows :
                    /\ r.id = o.id /\ r.start = o.start /\ r.employee = o.employee
                    /\ \/ r = o /\ o \notin Held(w)
                       \/ o \in Held(w) /\ r.end = move[w].date
               /\ \A o \in rows : \E r \in Remaining(w) : r.id = o.id
    <2>1. PICK c : c = [h EXCEPT !.end = move[w].date]
      OBVIOUS
    <2>2. c \in Row /\ c.id = h.id /\ c.start = h.start /\ c.employee = h.employee
          /\ c.end = move[w].date
      BY <1>1, <2>1 DEF Row
    <2>3. Remaining(w) = (rows \ {h}) \cup {c}
      BY <1>3, <2>1 DEF Remaining, Closed
    <2>4. c \notin rows \ {h}
      BY <1>1, <2>2
    <2>5. /\ IsFiniteSet(rows \ {h}) /\ Cardinality(rows \ {h}) = Cardinality(rows) - 1
          /\ Cardinality(rows) \in Nat /\ Cardinality(rows \ {h}) \in Nat
      BY <1>1, FS_RemoveElement, FS_CardinalityType
    <2>6. /\ IsFiniteSet((rows \ {h}) \cup {c})
          /\ Cardinality((rows \ {h}) \cup {c}) = Cardinality(rows \ {h}) + 1
      BY <2>4, <2>5, FS_AddElement
    <2>7. Cardinality(Remaining(w)) = Cardinality(rows) /\ IsFiniteSet(Remaining(w))
      BY <2>3, <2>5, <2>6
    <2>8. Remaining(w) \in SUBSET Row
      BY <1>1, <2>2, <2>3
    <2>9. \A a, b \in Remaining(w) : a.id = b.id => a = b
      BY <1>1, <2>2, <2>3
    <2>10. \A r \in Remaining(w) : \E o \in rows :
             /\ r.id = o.id /\ r.start = o.start /\ r.employee = o.employee
             /\ \/ r = o /\ o \notin Held(w)
                \/ o \in Held(w) /\ r.end = move[w].date
      <3> SUFFICES ASSUME NEW r \in Remaining(w)
                   PROVE  \E o \in rows :
                            /\ r.id = o.id /\ r.start = o.start
                            /\ r.employee = o.employee
                            /\ \/ r = o /\ o \notin Held(w)
                               \/ o \in Held(w) /\ r.end = move[w].date
        OBVIOUS
      <3>1. CASE r = c
        BY <1>3, <2>2, <3>1
      <3>2. CASE r \in rows \ {h}
        BY <1>3, <3>2
      <3>3. QED
        BY <2>3, <3>1, <3>2
    <2>11. \A o \in rows : \E r \in Remaining(w) : r.id = o.id
      BY <2>2, <2>3
    <2>12. QED
      BY <2>7, <2>8, <2>9, <2>10, <2>11
  <1>4. QED
    BY <1>2, <1>3, HeldRows

\* A commit that is not rejected.
Commits(w) ==
  /\ At(w, "commit") /\ ~ChecksFail(w) /\ ~AlreadyActive(w)
  /\ rows' = Remaining(w) \cup NewRows(w)

LEMMA CommitKeepsKeys ==
  ASSUME Kept, NEW w \in Workers, Commits(w)
  PROVE  rows' \in SUBSET Row /\ RowsAreKeyed'
  <1>1. At(w, "commit") /\ move[w].date \in Nat /\ move[w].date # Null
    BY HeldRows, TenureConstants DEF Commits
  <1>2. /\ Remaining(w) \in SUBSET Row /\ IsFiniteSet(Remaining(w))
        /\ Cardinality(Remaining(w)) = Cardinality(rows)
        /\ \A a, b \in Remaining(w) : a.id = b.id => a = b
        /\ \A r \in Remaining(w) : \E o \in rows :
             /\ r.id = o.id /\ r.start = o.start /\ r.employee = o.employee
             /\ \/ r = o /\ o \notin Held(w)
                \/ o \in Held(w) /\ r.end = move[w].date
    BY <1>1, RemainingRows
  <1>3. Cardinality(rows) \in Nat /\ Cardinality(Employees) \in Nat
    BY <1>1, NewRow
  <1>4. \A a \in Remaining(w) : /\ a.id \in Nat
                                /\ a.id < Cardinality(rows) + Cardinality(Employees)
    BY <1>2 DEF Kept, RowsAreKeyed, Row
  <1>5. \A a \in Remaining(w) : a.end = Null => a \in rows \ Held(w)
    BY <1>1, <1>2
  <1>6. \A a, b \in Remaining(w) :
          a.employee = b.employee /\ a.end = Null /\ b.end = Null => a = b
    BY <1>5 DEF Kept, RowsAreKeyed
  <1>7. CASE NewRows(w) = {}
    <2>1. rows' = Remaining(w)
      BY <1>7 DEF Commits
    <2>2. QED
      BY <1>2, <1>4, <1>6, <2>1 DEF RowsAreKeyed
  <1>8. ASSUME NEW n \in Row, NewRows(w) = {n},
               n.id = Cardinality(rows) + Cardinality(Employees),
               n.employee = move[w].employee
        PROVE  rows' \in SUBSET Row /\ RowsAreKeyed'
    <2>1. rows' = Remaining(w) \cup {n}
      BY <1>8 DEF Commits
    <2>2. \A a \in Remaining(w) : a.id # n.id
      BY <1>3, <1>4, <1>8
    <2>3. n \notin Remaining(w)
      BY <2>2
    <2>4. IsFiniteSet(rows') /\ Cardinality(rows') = Cardinality(rows) + 1
      BY <1>2, <2>1, <2>3, FS_AddElement
    <2>5. \A a \in rows' : a.id < Cardinality(rows') + Cardinality(Employees)
      <3> SUFFICES ASSUME NEW a \in rows'
                   PROVE  a.id < Cardinality(rows') + Cardinality(Employees)
        OBVIOUS
      <3>1. a.id \in Nat /\ a.id =< Cardinality(rows) + Cardinality(Employees)
        BY <1>3, <1>4, <1>8, <2>1
      <3>2. QED
        BY <1>3, <2>4, <3>1
    <2>6. \A a, b \in rows' : a.id = b.id => a = b
      BY <1>2, <2>1, <2>2
    <2>7. \A a \in Remaining(w) : ~(a.employee = n.employee /\ a.end = Null)
      <3> SUFFICES ASSUME NEW a \in Remaining(w), a.employee = n.employee, a.end = Null
                   PROVE  FALSE
        OBVIOUS
      <3>1. a \in Open(Of(move[w].employee) \ Held(w))
        BY <1>5, <1>8 DEF Open, Of
      <3>2. QED
        BY <1>8, <3>1 DEF Commits, AlreadyActive
    <2>8. \A a, b \in rows' :
            a.employee = b.employee /\ a.end = Null /\ b.end = Null => a = b
      BY <1>6, <2>1, <2>7
    <2>9. rows' \in SUBSET Row
      BY <1>2, <2>1
    <2>10. QED
      BY <2>4, <2>5, <2>6, <2>8, <2>9 DEF RowsAreKeyed
  <1>9. QED
    BY <1>1, <1>7, <1>8, NewRow

-----------------------------------------------------------------------------
(* Updates                                                                 *)

\* What happens to the updates in a step.
LEMMA WriteSteps ==
  ASSUME [Next]_vars
  PROVE  UNCHANGED writing \/ \E w \in Workers : Write(w) /\ UNCHANGED <<now, back>>
  BY DEF Next, vars, Tick, StepBack

LEMMA CommitsAs ==
  ASSUME WritesTyped, NEW w \in Workers, Commit(w)
  PROVE  /\ At(w, "commit")
         /\ move'[w] = NoMove /\ \A v \in Workers \ {w} : move'[v] = move[v]
         /\ move' \in [Workers -> {NoMove} \cup Move] /\ UNCHANGED moves
         /\ \/ UNCHANGED <<rows, overtaken, rejected>>
            \/ /\ UNCHANGED <<rows, overtaken>>
               /\ rejected' = IF ChecksFail(w) THEN rejected + 1 ELSE rejected
            \/ /\ Commits(w) /\ UNCHANGED rejected
               /\ overtaken' = IF DatesSince(w) \subseteq {move[w].date}
                               THEN overtaken ELSE overtaken \cup {move[w].employee}
  <1>1. At(w, "commit") /\ Finish(w)
    BY DEF Commit
  <1>2. /\ move'[w] = NoMove /\ \A v \in Workers \ {w} : move'[v] = move[v]
        /\ move' \in [Workers -> {NoMove} \cup Move] /\ UNCHANGED moves
    BY <1>1 DEF Finish, WritesTyped
  <1>3. \/ UNCHANGED <<rows, overtaken, rejected>>
        \/ /\ UNCHANGED <<rows, overtaken>>
           /\ rejected' = IF ChecksFail(w) THEN rejected + 1 ELSE rejected
        \/ /\ Commits(w) /\ UNCHANGED rejected
           /\ overtaken' = IF DatesSince(w) \subseteq {move[w].date}
                           THEN overtaken ELSE overtaken \cup {move[w].employee}
    BY <1>1 DEF Commit, Commits, Remaining, Closed
  <1>4. QED
    BY <1>1, <1>2, <1>3

\* The updates of the others, which a step of one leaves alone.
LEMMA TypedStep ==
  ASSUME Kept, ClockOK, NEW w \in Workers, Write(w)
  PROVE  WritesTyped' /\ RowsAreKeyed' /\ \A v \in Workers \ {w} : move'[v] = move[v]
  <1>0. WritesTyped /\ RowsAreKeyed
    BY DEF Kept
  <1>1. CASE Begin(w)
    <2>1. RowsAreKeyed'
      BY <1>0, <1>1, BeginsWith DEF RowsAreKeyed
    <2>2. QED
      BY <1>0, <1>1, <2>1, BeginsWith DEF WritesTyped
  <1>2. CASE FetchCurrent(w)
    <2>1. RowsAreKeyed'
      BY <1>0, <1>2, FetchesAs DEF RowsAreKeyed
    <2>2. QED
      BY <1>0, <1>2, <2>1, FetchesAs DEF WritesTyped
  <1>3. CASE TakeDate(w)
    <2>1. RowsAreKeyed'
      BY <1>0, <1>3, DatesAs DEF RowsAreKeyed
    <2>2. QED
      BY <1>0, <1>3, <2>1, DatesAs DEF WritesTyped
  <1>4. CASE Commit(w)
    <2>1. CASE UNCHANGED rows
      <3>1. RowsAreKeyed'
        BY <1>0, <2>1 DEF RowsAreKeyed
      <3>2. rejected' \in Nat /\ overtaken' \in SUBSET Employees
        <4>1. move[w].employee \in Employees
          BY <1>0, <1>4, CommitsAs, WhereItIs DEF Move
        <4>2. QED
          BY <1>0, <1>4, <4>1, CommitsAs DEF WritesTyped
      <3>3. QED
        BY <1>0, <1>4, <2>1, <3>1, <3>2, CommitsAs DEF WritesTyped
    <2>2. CASE Commits(w)
      <3>1. rows' \in SUBSET Row /\ RowsAreKeyed'
        BY <2>2, CommitKeepsKeys
      <3>2. rejected' \in Nat /\ overtaken' \in SUBSET Employees
        <4>1. move[w].employee \in Employees
          BY <1>0, <1>4, CommitsAs, WhereItIs DEF Move
        <4>2. QED
          BY <1>0, <1>4, <4>1, CommitsAs DEF WritesTyped
      <3>3. QED
        BY <1>0, <1>4, <3>1, <3>2, CommitsAs DEF WritesTyped
    <2>3. QED
      BY <1>0, <1>4, <2>1, <2>2, CommitsAs
  <1>5. QED
    BY <1>1, <1>2, <1>3, <1>4 DEF Write

\* Nobody's fetched rows are touched but in their ends.
LEMMA SeenStaysOld ==
  ASSUME Kept, NEW w \in Workers, NEW v \in Workers, SeenIsOld(v), move'[v] = move[v],
         UNCHANGED rows \/ Commits(w)
  PROVE  SeenIsOld(v)'
  <1>1. Fetched(v)' = Fetched(v) /\ IsDated(v)' = IsDated(v)
    BY DEF Fetched, IsDated
  <1>2. CASE UNCHANGED rows
    BY <1>1, <1>2 DEF SeenIsOld
  <1>3. CASE Commits(w)
    <2> SUFFICES ASSUME Fetched(v)
                 PROVE  \A s \in move[v].seen :
                          /\ \E r \in rows' : r.id = s.id
                          /\ \A r \in rows' : s.id = r.id =>
                               s.start = r.start /\ s.employee = r.employee
      BY <1>1 DEF SeenIsOld
    <2>1. ASSUME NEW s \in move[v].seen
          PROVE  /\ \E r \in rows' : r.id = s.id
                 /\ \A r \in rows' : s.id = r.id =>
                      s.start = r.start /\ s.employee = r.employee
      <3>1. PICK o \in rows : o.id = s.id
        BY DEF SeenIsOld
      <3>2. \A r \in rows : s.id = r.id => s.start = r.start /\ s.employee = r.employee
        BY DEF SeenIsOld
      <3>3. /\ At(w, "commit") /\ rows' = Remaining(w) \cup NewRows(w)
        BY <1>3 DEF Commits
      <3>4. \E r \in rows' : r.id = s.id
        BY <3>1, <3>3, RemainingRows
      <3>5. ASSUME NEW r \in rows', s.id = r.id
            PROVE  s.start = r.start /\ s.employee = r.employee
        <4>1. r \in Remaining(w)
          <5>1. /\ o.id < Cardinality(rows) + Cardinality(Employees) /\ o.id \in Nat
                /\ Cardinality(rows) \in Nat /\ Cardinality(Employees) \in Nat
            BY <3>3, NewRow DEF Kept, RowsAreKeyed, WritesTyped, Row
          <5>2. \A n \in NewRows(w) : n.id # o.id
            BY <3>3, <5>1, NewRow
          <5>3. QED
            BY <3>1, <3>3, <3>5, <5>2
        <4>2. PICK q \in rows : r.id = q.id /\ r.start = q.start
                                /\ r.employee = q.employee
          BY <3>3, <4>1, RemainingRows
        <4>3. QED
          BY <3>2, <3>5, <4>2
      <3>6. QED
        BY <3>4, <3>5
    <2>2. QED
      BY <2>1
  <1>4. QED
    BY <1>2, <1>3

LEMMA KeptStep == Kept /\ ClockOK /\ [Next]_vars => Kept'
  <1> SUFFICES ASSUME Kept, ClockOK, [Next]_vars PROVE Kept'
    OBVIOUS
  <1>1. CASE UNCHANGED writing
    <2>1. WritesTyped' /\ RowsAreKeyed'
      BY <1>1 DEF Kept, WritesTyped, RowsAreKeyed, writing
    <2>2. \A v \in Workers : SeenIsOld(v)'
      BY <1>1 DEF Kept, SeenIsOld, Fetched, IsDated, writing
    <2>3. QED
      BY <2>1, <2>2 DEF Kept
  <1>2. ASSUME NEW w \in Workers, Write(w)
        PROVE  Kept'
    <2>1. WritesTyped' /\ RowsAreKeyed' /\ \A v \in Workers \ {w} : move'[v] = move[v]
      BY <1>2, TypedStep
    <2>2. UNCHANGED rows \/ Commits(w)
      BY <1>2, CommitsAs, BeginsWith, FetchesAs, DatesAs DEF Kept, Write
    <2>3. \A v \in Workers \ {w} : SeenIsOld(v)'
      BY <2>1, <2>2, SeenStaysOld DEF Kept
    <2>4. SeenIsOld(w)'
      <3>1. CASE Begin(w) \/ Commit(w)
        <4>1. ~Fetched(w)'
          BY <3>1, BeginsWith, CommitsAs DEF Kept, Fetched
        <4>2. QED
          BY <4>1 DEF SeenIsOld
      <3>2. CASE FetchCurrent(w)
        <4>1. /\ move'[w].seen = Of(move[w].employee) /\ move'[w].step = 2
              /\ move'[w].employee = move[w].employee /\ rows' = rows
          BY <3>2, FetchesAs DEF Kept
        <4>2. \A s \in move'[w].seen : s \in rows /\ s.employee = move'[w].employee
          BY <4>1 DEF Of
        <4>3. ~IsDated(w)'
          BY <4>1 DEF IsDated
        <4>4. QED
          BY <4>1, <4>2, <4>3 DEF Kept, RowsAreKeyed, SeenIsOld
      <3>3. CASE TakeDate(w)
        <4>1. /\ Fetched(w) /\ move'[w].seen = move[w].seen
              /\ move'[w].employee = move[w].employee /\ rows' = rows
              /\ move'[w].date = Today
          BY <3>3, DatesAs DEF Kept
        <4>2. Today \in Nat
          BY TodayIsADay
        <4>3. QED
          BY <4>1, <4>2 DEF Kept, SeenIsOld
      <3>4. QED
        BY <1>2, <3>1, <3>2, <3>3 DEF Write
    <2>5. QED
      BY <2>1, <2>3, <2>4 DEF Kept
  <1>3. QED
    BY <1>1, <1>2, WriteSteps

LEMMA KeptAtFirst == Init => Kept
  <1> SUFFICES ASSUME Init PROVE Kept
    OBVIOUS
  <1>1. PICK start \in [Employees -> {0, 1, Null}], cafe \in [Employees -> Cafes],
             id \in [Employees -> 1 .. Cardinality(Employees)] :
          /\ \A e, g \in Employees : id[e] = id[g] => e = g
          /\ rows = {[id |-> id[e], employee |-> e, cafe |-> cafe[e],
                      start |-> start[e], end |-> Null] :
                        e \in {g \in Employees : start[g] # Null}}
    BY DEF Init
  <1> DEFINE E == {g \in Employees : start[g] # Null}
             row(e) == [id |-> id[e], employee |-> e, cafe |-> cafe[e],
                        start |-> start[e], end |-> Null]
  <1>2. Cardinality(Employees) \in Nat
    BY TenureConstants, FS_CardinalityType
  <1>3. \A e \in E : row(e) \in Row
    BY <1>2 DEF Row
  <1>4. IsFiniteSet(E)
    BY TenureConstants, FS_Subset
  <1>5. rows = {row(e) : e \in E}
    BY <1>1
  <1>6. IsFiniteSet(rows)
    <2> DEFINE f == [e \in E |-> row(e)]
    <2>1. f \in Surjection(E, rows)
      <3>1. f \in [E -> rows]
        BY <1>5
      <3>2. \A r \in rows : \E e \in E : f[e] = r
        BY <1>5
      <3>3. QED
        BY <3>1, <3>2 DEF Surjection
    <2> HIDE DEF E, f
    <2>2. QED
      BY <1>4, <2>1, FS_Surjection
  <1>7. \A a \in rows : a.id < Cardinality(rows) + Cardinality(Employees)
    <2> SUFFICES ASSUME NEW a \in rows
                 PROVE  a.id < Cardinality(rows) + Cardinality(Employees)
      OBVIOUS
    <2>1. a.id \in 1 .. Cardinality(Employees)
      BY <1>5
    <2>2. Cardinality(rows) \in Nat /\ Cardinality(rows) # 0
      BY <1>6, FS_CardinalityType, FS_EmptySet
    <2>3. QED
      BY <1>2, <2>1, <2>2
  <1>8. \A a, b \in rows : a.id = b.id => a = b
    BY <1>1, <1>5
  <1>9. \A a, b \in rows : a.employee = b.employee => a = b
    BY <1>5
  <1>10. rows \in SUBSET Row
    BY <1>3, <1>5
  <1>11. \A w \in Workers : move[w] = NoMove
    BY DEF Init
  <1>12. \A w \in Workers : ~Fetched(w)
    BY <1>11 DEF Fetched
  <1>13. WritesTyped
    BY <1>10 DEF Init, WritesTyped
  <1>14. RowsAreKeyed
    BY <1>6, <1>7, <1>8, <1>9 DEF RowsAreKeyed
  <1>15. QED
    BY <1>12, <1>13, <1>14 DEF Kept, SeenIsOld

-----------------------------------------------------------------------------
(* Dates                                                                   *)

\* The dates of a row are not later than the day.
By(r, day) == r.start =< day /\ (r.end # Null => r.end =< day)

\* While the clock has not been set back: no row is of the future, and none that a
\* request has fetched is later than the date it has taken.
DatesArePast ==
  back = 0 =>
    /\ rejected = 0
    /\ \A r \in rows : By(r, Today)
    /\ \A w \in Workers :
         /\ Fetched(w) => \A s \in move[w].seen : By(s, Today)
         /\ IsDated(w) => /\ move[w].date =< Today
                          /\ \A s \in move[w].seen : By(s, move[w].date)

LEMMA Later ==
  ASSUME NEW r \in Row, NEW day \in Nat, NEW next \in Nat, day =< next, By(r, day)
  PROVE  By(r, next)
  BY TenureConstants DEF By, Row

Dated == Kept /\ ClockOK /\ DatesArePast

LEMMA DatedAtFirst == Init => Dated
  <1> SUFFICES ASSUME Init PROVE Dated
    OBVIOUS
  <1>1. Kept /\ ClockOK
    BY KeptAtFirst, ClockAtFirst
  <1>2. Today \in Nat /\ Today >= 1
    <2>1. back = 0 /\ now = 2 * DayLength - 1 /\ DayLength \in Nat \ {0}
      BY TenureConstants DEF Init
    <2>2. PICK d \in Nat \ {0} : d = DayLength
      BY <2>1
    <2>3. (2 * d - 1) \div d >= 1
      OBVIOUS
    <2>4. Today = (2 * d - 1) \div d
      BY <2>1, <2>2 DEF Today
    <2>5. QED
      BY <1>1, <2>3, <2>4, TodayIsADay
  <1>3. \A r \in rows : r.start \in {0, 1} /\ r.end = Null
    BY DEF Init
  <1>4. \A r \in rows : By(r, Today)
    BY <1>2, <1>3 DEF By
  <1>5. \A w \in Workers : ~Fetched(w) /\ ~IsDated(w)
    BY DEF Init, Fetched, IsDated
  <1>6. rejected = 0
    BY DEF Init
  <1>7. QED
    BY <1>1, <1>4, <1>5, <1>6 DEF Dated, DatesArePast

\* A commit writes the date that was taken, which is no later than today.
LEMMA CommitWritesPast ==
  ASSUME Dated, back = 0, NEW w \in Workers, Commits(w)
  PROVE  \A r \in rows' : By(r, Today)
  <1>1. /\ At(w, "commit") /\ rows' = Remaining(w) \cup NewRows(w)
    BY DEF Commits
  <1>2. /\ move[w].date \in Nat /\ move[w].date =< Today
    BY <1>1, HeldRows DEF Dated, DatesArePast
  <1>3. ASSUME NEW r \in Remaining(w)
        PROVE  By(r, Today)
    <2>1. PICK o \in rows :
            /\ r.start = o.start
            /\ \/ r = o
               \/ r.end = move[w].date
      BY <1>1, RemainingRows DEF Dated
    <2>2. By(o, Today)
      BY DEF Dated, DatesArePast
    <2>3. QED
      BY <1>2, <2>1, <2>2 DEF By
  <1>4. ASSUME NEW n \in NewRows(w)
        PROVE  By(n, Today)
    <2>1. n.start = move[w].date /\ n.end = Null
      BY <1>1, NewRow DEF Dated
    <2>2. QED
      BY <1>2, <2>1 DEF By
  <1>5. QED
    BY <1>1, <1>3, <1>4

\* No row that is closed begins after the date at which it is.
LEMMA NoCheckFails ==
  ASSUME Dated, back = 0, NEW w \in Workers, At(w, "commit")
  PROVE  ~ChecksFail(w)
  <1> SUFFICES ASSUME NEW h \in Held(w), move[w].date < h.start PROVE FALSE
    BY DEF ChecksFail
  <1>1. IsDated(w) /\ move[w].date \in Nat /\ move[w] \in Move
    BY HeldRows DEF Dated
  <1>2. PICK s \in move[w].seen : s.start = h.start
    BY HeldRows DEF Dated
  <1>3. By(s, move[w].date) /\ s \in Row
    BY <1>1 DEF Dated, DatesArePast, Move
  <1>4. QED
    BY <1>1, <1>2, <1>3 DEF By, Row

LEMMA DatedStep == Dated /\ [Next]_vars => Dated'
  <1> SUFFICES ASSUME Dated, [Next]_vars PROVE Dated'
    OBVIOUS
  <1>1. Kept /\ ClockOK /\ Kept' /\ ClockOK'
    BY ClockStep, KeptStep DEF Dated
  <1>2. SUFFICES ASSUME back' = 0
                 PROVE  /\ rejected' = 0
                        /\ \A r \in rows' : By(r, Today')
                        /\ \A w \in Workers :
                             /\ Fetched(w)' => \A s \in move'[w].seen : By(s, Today')
                             /\ IsDated(w)' =>
                                  /\ move'[w].date =< Today'
                                  /\ \A s \in move'[w].seen : By(s, move'[w].date)
    BY <1>1 DEF Dated, DatesArePast
  <1>3. /\ back = 0 /\ Today \in Nat /\ Today' \in Nat /\ Today =< Today'
    <2>1. Today' \in Nat
      <3>1. now' \in Nat /\ DayLength \in Nat \ {0}
        BY <1>1, TenureConstants DEF ClockOK
      <3>2. PICK n \in Nat, d \in Nat \ {0} : n = now' /\ d = DayLength
        BY <3>1
      <3>3. n \div d \in Nat /\ n - 0 = n
        BY Days
      <3>4. Today' = (n - 0) \div d
        BY <1>2, <3>2 DEF Today
      <3>5. QED
        BY <3>3, <3>4
    <2>2. QED
      BY <1>1, <1>2, <2>1, TodayGrows, TodayIsADay
  <1>4. /\ rejected = 0 /\ rows \subseteq Row /\ \A r \in rows : By(r, Today)
        /\ \A w \in Workers : Fetched(w) => move[w] \in Move
        /\ \A w \in Workers :
             /\ Fetched(w) => \A s \in move[w].seen : By(s, Today)
             /\ IsDated(w) => /\ move[w].date =< Today
                              /\ \A s \in move[w].seen : By(s, move[w].date)
    BY <1>1, <1>3 DEF Dated, DatesArePast, Kept, WritesTyped, Fetched
  <1>5. CASE UNCHANGED writing
    <2>1. rows' = rows /\ move' = move /\ rejected' = rejected
      BY <1>5 DEF writing
    <2>2. \A r \in rows : By(r, Today')
      BY <1>3, <1>4, Later
    <2>3. ASSUME NEW w \in Workers
          PROVE  /\ Fetched(w) => \A s \in move[w].seen : By(s, Today')
                 /\ IsDated(w) => /\ move[w].date =< Today'
                                  /\ \A s \in move[w].seen : By(s, move[w].date)
      <3>1. ASSUME Fetched(w), NEW s \in move[w].seen
            PROVE  By(s, Today')
        <4>1. s \in Row /\ By(s, Today)
          BY <1>4, <3>1 DEF Move
        <4>2. QED
          BY <1>3, <4>1, Later
      <3>2. ASSUME IsDated(w)
            PROVE  move[w].date =< Today'
        <4>1. move[w].date \in Nat
          BY <1>1, <3>2 DEF Kept, SeenIsOld, Fetched, IsDated
        <4>2. QED
          BY <1>3, <1>4, <3>2, <4>1
      <3>3. QED
        BY <1>4, <3>1, <3>2
    <2>4. QED
      BY <1>4, <2>1, <2>2, <2>3 DEF Fetched, IsDated
  <1>6. ASSUME NEW w \in Workers, Write(w), UNCHANGED <<now, back>>
        PROVE  /\ rejected' = 0
               /\ \A r \in rows' : By(r, Today')
               /\ \A v \in Workers :
                    /\ Fetched(v)' => \A s \in move'[v].seen : By(s, Today')
                    /\ IsDated(v)' =>
                         /\ move'[v].date =< Today'
                         /\ \A s \in move'[v].seen : By(s, move'[v].date)
    <2>1. Today' = Today
      BY <1>6 DEF Today
    <2>2. /\ \A v \in Workers \ {w} : move'[v] = move[v]
          /\ WritesTyped
      BY <1>1, <1>6, TypedStep DEF Kept
    <2>3. \A v \in Workers \ {w} :
            /\ Fetched(v)' => \A s \in move'[v].seen : By(s, Today')
            /\ IsDated(v)' => /\ move'[v].date =< Today'
                              /\ \A s \in move'[v].seen : By(s, move'[v].date)
      BY <1>4, <2>1, <2>2 DEF Fetched, IsDated
    <2>4. rejected' = 0 /\ \A r \in rows' : By(r, Today')
      <3>1. CASE Commit(w)
        <4>1. ~ChecksFail(w)
          BY <1>3, <2>2, <3>1, CommitsAs, NoCheckFails
        <4>2. rejected' = 0
          BY <1>4, <2>2, <3>1, <4>1, CommitsAs
        <4>3. UNCHANGED rows \/ Commits(w)
          BY <2>2, <3>1, CommitsAs
        <4>4. QED
          BY <1>3, <1>4, <2>1, <4>2, <4>3, CommitWritesPast
      <3>2. CASE ~Commit(w)
        <4>1. UNCHANGED <<rows, rejected>>
          BY <1>1, <1>6, <2>2, <3>2, BeginsWith, FetchesAs, DatesAs DEF Write
        <4>2. QED
          BY <1>4, <2>1, <4>1
      <3>3. QED
        BY <3>1, <3>2
    <2>5. /\ Fetched(w)' => \A s \in move'[w].seen : By(s, Today')
          /\ IsDated(w)' => /\ move'[w].date =< Today'
                            /\ \A s \in move'[w].seen : By(s, move'[w].date)
      <3>1. CASE Begin(w) \/ Commit(w)
        <4>1. ~Fetched(w)' /\ ~IsDated(w)'
          BY <2>2, <3>1, BeginsWith, CommitsAs DEF Fetched, IsDated
        <4>2. QED
          BY <4>1
      <3>2. CASE FetchCurrent(w)
        <4>1. ~IsDated(w)' /\ move'[w].seen \subseteq rows
          BY <2>2, <3>2, FetchesAs DEF IsDated, Of
        <4>2. QED
          BY <1>4, <2>1, <4>1
      <3>3. CASE TakeDate(w)
        <4>1. Fetched(w) /\ move'[w].seen = move[w].seen /\ move'[w].date = Today
          BY <1>1, <2>2, <3>3, DatesAs
        <4>2. QED
          BY <1>3, <1>4, <2>1, <4>1
      <3>4. QED
        BY <1>6, <3>1, <3>2, <3>3 DEF Write
    <2>6. QED
      BY <2>3, <2>4, <2>5
  <1>7. QED
    BY <1>5, <1>6, WriteSteps

LEMMA DatedInvariant == Spec => []Dated
  BY DatedAtFirst, DatedStep, PTL DEF Spec

\* No update is answered with a conflict for its dates unless the clock of the
\* backend was set back, however updates and midnight interleave.
THEOREM NoConflictOfDates == Spec => []ChecksFailOnlyAfterStepBack
  <1>1. Dated => ChecksFailOnlyAfterStepBack
    BY TenureConstants
       DEF Dated, DatesArePast, Kept, WritesTyped, ClockOK, ChecksFailOnlyAfterStepBack
  <1>2. QED
    BY <1>1, DatedInvariant, PTL

-----------------------------------------------------------------------------
(* Tenures                                                                 *)

Apart(a, b) ==
  \/ a.end # Null /\ a.end =< b.start
  \/ b.end # Null /\ b.end =< a.start

\* What a commit finds of an employee whose updates of this day only overtook it: no
\* end later than its date, and the row it closes is open or ends on that date.
LEMMA FoundOnTheDay ==
  ASSUME Dated, back = 0, NEW w \in Workers, At(w, "commit"),
         DatesSince(w) \subseteq {move[w].date}
  PROVE  /\ \A r \in Of(move[w].employee) : r.end # Null => r.end =< move[w].date
         /\ \A h \in Held(w) : h.end # Null => h.end = move[w].date
  <1>1. /\ Fetched(w) /\ IsDated(w) /\ move[w].date \in Nat
        /\ \A s \in move[w].seen : By(s, move[w].date)
        /\ \A s, t \in move[w].seen : s.id = t.id => s = t
    BY HeldRows DEF Dated, DatesArePast, Kept, SeenIsOld
  <1>2. ASSUME NEW r \in Of(move[w].employee), r \notin move[w].seen, r.end # Null
        PROVE  r.end = move[w].date
    <2>1. r.end \in DatesSince(w)
      BY <1>2 DEF DatesSince, Open
    <2>2. QED
      BY <2>1
  <1>3. ASSUME NEW r \in Of(move[w].employee), r.end # Null
        PROVE  r.end =< move[w].date
    <2>1. CASE r \in move[w].seen
      BY <1>1, <1>3, <2>1 DEF By
    <2>2. CASE r \notin move[w].seen
      BY <1>1, <1>2, <1>3, <2>2
    <2>3. QED
      BY <2>1, <2>2
  <1>4. ASSUME NEW h \in Held(w), h.end # Null
        PROVE  h.end = move[w].date
    <2>1. h \in Of(move[w].employee)
      BY HeldRows DEF Dated, Of
    <2>2. PICK s \in move[w].seen : s.id = h.id /\ s.end = Null
      BY HeldRows DEF Dated
    <2>3. h \notin move[w].seen
      BY <1>1, <1>4, <2>2
    <2>4. QED
      BY <1>2, <1>4, <2>1, <2>3
  <1>5. QED
    BY <1>3, <1>4

\* A commit that is overtaken by updates of its own day only, or by none, keeps the
\* tenures of its employee apart.
LEMMA CommitKeepsApart ==
  ASSUME Dated, TenuresAreDisjoint, back = 0, NEW w \in Workers, Commits(w),
         overtaken' = IF DatesSince(w) \subseteq {move[w].date}
                      THEN overtaken ELSE overtaken \cup {move[w].employee},
         NEW a \in rows', NEW b \in rows', a.employee = b.employee, a # b,
         a.employee \notin overtaken'
  PROVE  Apart(a, b)
  <1> DEFINE date == move[w].date
  <1>1. /\ At(w, "commit") /\ ~AlreadyActive(w)
        /\ rows' = Remaining(w) \cup NewRows(w)
    BY DEF Commits
  <1>2. Kept /\ date \in Nat /\ date # Null
    BY <1>1, HeldRows, TenureConstants DEF Dated
  <1>3. a.employee \notin overtaken
    OBVIOUS
  <1>4. ASSUME NEW p \in rows, NEW q \in rows, p # q,
               p.employee = a.employee, q.employee = a.employee
        PROVE  Apart(p, q)
    BY <1>3, <1>4 DEF TenuresAreDisjoint, Apart
  <1>5. \A r \in Remaining(w) : \E o \in rows :
          /\ r.id = o.id /\ r.start = o.start /\ r.employee = o.employee
          /\ \/ r = o /\ o \notin Held(w)
             \/ o \in Held(w) /\ r.end = date
    BY <1>1, <1>2, RemainingRows
  <1>6. \A h \in Held(w) : h \in rows /\ h.employee = move[w].employee
    BY <1>1, <1>2, HeldRows
  <1>7. \A n \in NewRows(w) : n.employee = move[w].employee /\ n.start = date
    BY <1>1, <1>2, NewRow
  <1>8. CASE a.employee # move[w].employee
    <2>1. a \in Remaining(w) /\ b \in Remaining(w)
      BY <1>1, <1>7, <1>8
    <2>2. a \in rows /\ b \in rows
      BY <1>5, <1>6, <1>8, <2>1
    <2>3. QED
      BY <1>4, <2>2
  <1>9. CASE a.employee = move[w].employee
    <2>1. DatesSince(w) \subseteq {date}
      BY <1>9
    <2>2. /\ \A r \in Of(move[w].employee) : r.end # Null => r.end =< date
          /\ \A h \in Held(w) : h.end # Null => h.end = date
      BY <1>1, <2>1, FoundOnTheDay
    <2>3. \A r \in rows : r.start \in Nat /\ r.end \in Nat \cup {Null}
      BY <1>2 DEF Kept, WritesTyped, Row
    <2>4. \A g, h \in Held(w) : g = h
      BY <1>1, <1>2, HeldRows
    \* A row as it was, and the row that is closed.
    <2>5. ASSUME NEW h \in Held(w), NEW o \in rows \ Held(w),
                 o.employee = a.employee
          PROVE  \/ date =< o.start
                 \/ o.end # Null /\ o.end =< h.start
      <3>1. Apart(h, o)
        BY <1>4, <1>6, <1>9, <2>5
      <3>2. QED
        BY <2>2, <3>1 DEF Apart
    \* A row as it was, and the row that is opened.
    <2>6. ASSUME NEW r \in Remaining(w), NewRows(w) # {}, r.employee = a.employee
          PROVE  r.end # Null /\ r.end =< date
      <3>1. PICK o \in rows :
              /\ r.employee = o.employee
              /\ \/ r = o /\ o \notin Held(w)
                 \/ o \in Held(w) /\ r.end = date
        BY <1>5
      <3>2. CASE r = o /\ o \notin Held(w)
        <4>1. r \in Of(move[w].employee) \ Held(w)
          BY <1>9, <2>6, <3>2 DEF Of
        <4>2. r.end # Null
          BY <1>1, <2>6, <4>1 DEF AlreadyActive, Open
        <4>3. QED
          BY <2>2, <4>1, <4>2
      <3>3. CASE r.end = date
        BY <1>2, <3>3
      <3>4. QED
        BY <3>1, <3>2, <3>3
    <2>7. CASE a \in Remaining(w) /\ b \in Remaining(w)
      <3>1. PICK o \in rows :
              /\ a.id = o.id /\ a.start = o.start /\ a.employee = o.employee
              /\ \/ a = o /\ o \notin Held(w)
                 \/ o \in Held(w) /\ a.end = date
        BY <1>5, <2>7
      <3>2. PICK p \in rows :
              /\ b.id = p.id /\ b.start = p.start /\ b.employee = p.employee
              /\ \/ b = p /\ p \notin Held(w)
                 \/ p \in Held(w) /\ b.end = date
        BY <1>5, <2>7
      <3>3. CASE o \notin Held(w) /\ p \notin Held(w)
        BY <1>4, <3>1, <3>2, <3>3
      <3>4. CASE o \in Held(w) /\ p \notin Held(w)
        <4>1. b = p /\ a.end = date
          BY <3>1, <3>2, <3>4
        <4>2. \/ date =< p.start
              \/ p.end # Null /\ p.end =< o.start
          BY <2>5, <3>2, <3>4
        <4>3. QED
          BY <1>2, <3>1, <4>1, <4>2 DEF Apart
      <3>5. CASE o \notin Held(w) /\ p \in Held(w)
        <4>1. a = o /\ b.end = date
          BY <3>1, <3>2, <3>5
        <4>2. \/ date =< o.start
              \/ o.end # Null /\ o.end =< p.start
          BY <2>5, <3>1, <3>5
        <4>3. QED
          BY <1>2, <3>2, <4>1, <4>2 DEF Apart
      <3>6. CASE o \in Held(w) /\ p \in Held(w)
        <4>1. a.id = b.id
          BY <2>4, <3>1, <3>2, <3>6
        <4>2. QED
          BY <1>1, <1>2, <2>7, <4>1, RemainingRows
      <3>7. QED
        BY <3>3, <3>4, <3>5, <3>6
    <2>8. CASE a \in Remaining(w) /\ b \in NewRows(w)
      BY <1>7, <2>6, <2>8 DEF Apart
    <2>9. CASE a \in NewRows(w) /\ b \in Remaining(w)
      BY <1>7, <2>6, <2>9 DEF Apart
    <2>10. CASE a \in NewRows(w) /\ b \in NewRows(w)
      BY <1>1, <1>2, <2>10, NewRow
    <2>11. QED
      BY <1>1, <2>7, <2>8, <2>9, <2>10
  <1>10. QED
    BY <1>8, <1>9

LEMMA ApartStep ==
  Dated /\ TenuresAreDisjoint /\ [Next]_vars => TenuresAreDisjoint'
  <1> SUFFICES ASSUME Dated, TenuresAreDisjoint, [Next]_vars, back' = 0,
                      NEW a \in rows', NEW b \in rows',
                      a.employee = b.employee, a # b, a.employee \notin overtaken'
               PROVE  Apart(a, b)
    BY DEF TenuresAreDisjoint, Apart
  <1>1. back = 0
    BY ClockStep, TodayGrows DEF Dated
  <1>2. CASE UNCHANGED <<rows, overtaken>>
    BY <1>1, <1>2 DEF TenuresAreDisjoint, Apart
  <1>3. ASSUME NEW w \in Workers, Commits(w),
               overtaken' = IF DatesSince(w) \subseteq {move[w].date}
                            THEN overtaken ELSE overtaken \cup {move[w].employee}
        PROVE  Apart(a, b)
    BY <1>1, <1>3, CommitKeepsApart
  <1>4. ASSUME NEW w \in Workers, Write(w)
        PROVE  \/ UNCHANGED <<rows, overtaken>>
               \/ /\ Commits(w)
                  /\ overtaken' = IF DatesSince(w) \subseteq {move[w].date}
                                  THEN overtaken ELSE overtaken \cup {move[w].employee}
    <2>1. WritesTyped /\ ClockOK
      BY DEF Dated, Kept
    <2>2. CASE Commit(w)
      BY <2>1, <2>2, CommitsAs
    <2>3. CASE Begin(w) \/ FetchCurrent(w) \/ TakeDate(w)
      BY <2>1, <2>3, BeginsWith, FetchesAs, DatesAs
    <2>4. QED
      BY <1>4, <2>2, <2>3 DEF Write
  <1>5. QED
    BY <1>2, <1>3, <1>4, WriteSteps DEF writing

\* The tenures of an employee follow each other, touching at most in the day of a
\* move, whatever the interleaving of the updates: but for the employees one of whose
\* updates was overtaken by an update of another day, and while the clock of the
\* backend is not set back.
THEOREM TenuresFollowEachOther == Spec => []TenuresAreDisjoint
  <1>1. Init => TenuresAreDisjoint
    <2> SUFFICES ASSUME Init PROVE TenuresAreDisjoint
      OBVIOUS
    <2>1. \A a, b \in rows : a.employee = b.employee => a = b
      BY DEF Init
    <2>2. QED
      BY <2>1 DEF TenuresAreDisjoint
  <1>2. QED
    BY <1>1, ApartStep, DatedInvariant, PTL DEF Spec

-----------------------------------------------------------------------------
(* The employee list                                                       *)

Starts == [Employees -> Nat \cup {Null}]

Reading ==
  [step: {"idle", "select", "compute", "respond"}, since: Nat,
   starts: {<<>>} \cup Starts, days: UNION {[E -> Nat] : E \in SUBSET Employees}]

Payload == [starts: Starts, days: [Employees -> Nat], expires: Nat]

\* What a row of a list says was so at a tick.
Worked(l, e, t) == l.days[e] = DaysWorked(l.starts[e], t \div DayLength)

\* A read is short.  What it has computed it has computed itself; what it answers may
\* be that or the payload, whose age is bounded.
ReadOK(l) ==
  /\ l \in Reading
  /\ l.step = "select" => DOMAIN l.days = {}
  /\ l.step \in {"compute", "respond"} => l.starts \in Starts
  /\ l.step = "respond" => DOMAIN l.days = Employees
  /\ l.step # "idle" => l.since =< now /\ now =< l.since + ReadTime
  /\ back = 0 /\ l.step = "compute" =>
       \A e \in DOMAIN l.days : \E t \in Nat :
         t =< now /\ l.since =< t /\ Worked(l, e, t)
  /\ back = 0 /\ l.step = "respond" =>
       \A e \in Employees : \E t \in Nat :
         t =< now /\ l.since =< t + Ttl + ReadTime /\ Worked(l, e, t)

\* A payload has not expired, and was computed by one read before it was stored.
PayloadOK ==
  entry # Null =>
    /\ entry \in Payload
    /\ now =< entry.expires
    /\ back = 0 =>
         \A e \in Employees : \E t \in Nat :
           t =< now /\ entry.expires =< t + Ttl + ReadTime /\ Worked(entry, e, t)

Recent ==
  /\ Kept /\ ClockOK /\ PayloadOK
  /\ list \in [Readers -> Reading]
  /\ \A r \in Readers : ReadOK(list[r])

LEMMA EmptyList == NoList \in Reading /\ NoList.step = "idle"
  <1>1. <<>> \in [{} -> Nat]
    OBVIOUS
  <1>2. QED
    BY <1>1 DEF NoList, Reading

LEMMA IdleIsOK ==
  ReadOK(NoList)
  BY EmptyList DEF ReadOK

\* The rows that a read selects have start dates.
LEMMA SelectedStarts ==
  ASSUME Kept
  PROVE  [e \in Employees |-> IF Open(Of(e)) = {} THEN Null
                              ELSE (CHOOSE a \in Open(Of(e)) : TRUE).start] \in Starts
  <1>1. \A e \in Employees : \A a \in Open(Of(e)) : a.start \in Nat
    BY DEF Kept, WritesTyped, Open, Of, Row
  <1>2. \A e \in Employees :
          Open(Of(e)) # {} => (CHOOSE a \in Open(Of(e)) : TRUE) \in Open(Of(e))
    OBVIOUS
  <1>3. QED
    BY <1>1, <1>2 DEF Starts

LEMMA ServedAs ==
  ASSUME Recent, NEW r \in Readers, Read(r)
  PROVE  \E l : ReadOK(l) /\ list' = [list EXCEPT ![r] = l]
  <1>1. /\ list[r] \in Reading /\ ReadOK(list[r]) /\ now \in Nat
        /\ Ttl \in Nat /\ ReadTime \in Nat /\ Today \in Nat
        /\ back = 0 => Today = now \div DayLength
    BY TodayIsADay, TenureConstants DEF Recent, ClockOK
  <1>2. CASE Hit(r)
    <2>1. PICK l : /\ l = [step |-> "respond", since |-> now, starts |-> entry.starts,
                           days |-> entry.days]
                   /\ list' = [list EXCEPT ![r] = l]
      BY <1>2 DEF Hit, Serve
    <2>2. entry \in Payload /\ now =< entry.expires
      BY <1>2 DEF Recent, PayloadOK, Hit
    <2>3. l \in Reading /\ l.starts \in Starts /\ DOMAIN l.days = Employees
      BY <1>1, <2>1, <2>2 DEF Payload, Reading
    <2>4. ASSUME back = 0, NEW e \in Employees
          PROVE  \E t \in Nat :
                   t =< now /\ l.since =< t + Ttl + ReadTime /\ Worked(l, e, t)
      <3>1. PICK t \in Nat :
              t =< now /\ entry.expires =< t + Ttl + ReadTime /\ Worked(entry, e, t)
        BY <1>2, <2>4 DEF Recent, PayloadOK, Hit
      <3>2. Worked(l, e, t)
        BY <2>1, <3>1 DEF Worked
      <3>3. now =< t + Ttl + ReadTime
        <4>1. entry.expires \in Nat
          BY <2>2 DEF Payload
        <4>2. QED
          BY <1>1, <2>2, <3>1, <4>1
      <3>4. QED
        BY <2>1, <3>1, <3>2, <3>3
    <2>5. l.step = "respond" /\ l.since = now
      BY <2>1
    <2>6. now =< now /\ now =< now + ReadTime
      BY <1>1
    <2>7. ReadOK(l)
      BY <2>3, <2>4, <2>5, <2>6 DEF ReadOK
    <2>8. QED
      BY <2>1, <2>7
  <1>3. CASE Miss(r)
    <2>1. PICK l : /\ l = [NoList EXCEPT !.step = "select", !.since = now]
                   /\ list' = [list EXCEPT ![r] = l]
      BY <1>3 DEF Miss, Serve
    <2>2. l = [step |-> "select", since |-> now, starts |-> <<>>, days |-> <<>>]
      BY <2>1 DEF NoList
    <2>3. <<>> \in [{} -> Nat]
      OBVIOUS
    <2>4. l \in Reading /\ DOMAIN l.days = {}
      BY <1>1, <2>2, <2>3, ZenonT(40) DEF Reading
    <2>5. now =< now /\ now =< now + ReadTime
      BY <1>1
    <2>6. ReadOK(l)
      BY <2>2, <2>4, <2>5 DEF ReadOK
    <2>7. QED
      BY <2>1, <2>6
  <1>4. CASE Select(r)
    <2>1. PICK s : s = [e \in Employees |->
                          IF Open(Of(e)) = {} THEN Null
                          ELSE (CHOOSE a \in Open(Of(e)) : TRUE).start]
      OBVIOUS
    <2>2. s \in Starts
      BY <2>1, SelectedStarts DEF Recent
    <2>3. PICK k, l : /\ k = [list[r] EXCEPT !.step = "compute"]
                      /\ l = [k EXCEPT !.starts = s]
                      /\ list' = [list EXCEPT ![r] = l]
      BY <1>4, <2>1 DEF Select, Serve
    <2>4. /\ k \in Reading /\ k.step = "compute" /\ k.since = list[r].since
          /\ k.days = list[r].days
      BY <1>1, <2>3 DEF Reading
    <2>5. /\ l \in Reading /\ l.step = "compute" /\ l.since = list[r].since
          /\ l.days = list[r].days /\ l.starts = s
      BY <2>2, <2>3, <2>4 DEF Reading
    <2>6. /\ list[r].step = "select" /\ DOMAIN l.days = {}
          /\ l.since =< now /\ now =< l.since + ReadTime
      BY <1>1, <1>4, <2>5 DEF Select, ReadOK
    <2>7. ReadOK(l)
      BY <2>2, <2>5, <2>6 DEF ReadOK
    <2>8. QED
      BY <2>3, <2>7
  <1>5. CASE Compute(r)
    <2>1. PICK e \in Employees \ DOMAIN list[r].days :
            list' = [list EXCEPT ![r] = [list[r] EXCEPT !.days =
              [f \in DOMAIN list[r].days \cup {e} |->
                 IF f = e THEN DaysWorked(list[r].starts[e], Today)
                          ELSE list[r].days[f]]]]
      BY <1>5 DEF Compute, Serve
    <2>2. PICK d, l :
            /\ d = [f \in DOMAIN list[r].days \cup {e} |->
                      IF f = e THEN DaysWorked(list[r].starts[e], Today)
                               ELSE list[r].days[f]]
            /\ l = [list[r] EXCEPT !.days = d]
            /\ list' = [list EXCEPT ![r] = l]
      BY <2>1
    <2>3. /\ list[r].step = "compute" /\ list[r].starts \in Starts
          /\ list[r].since =< now /\ now =< list[r].since + ReadTime
      BY <1>1, <1>5 DEF Compute, ReadOK
    <2>4. DOMAIN list[r].days \subseteq Employees
          /\ \A f \in DOMAIN list[r].days : list[r].days[f] \in Nat
      BY <1>1 DEF Reading
    <2>5. DaysWorked(list[r].starts[e], Today) \in Nat
      <3>1. list[r].starts[e] \in Nat \cup {Null}
        BY <2>3 DEF Starts
      <3>2. QED
        BY <1>1, <3>1, DaysWorkedNat
    <2>6. d \in UNION {[E -> Nat] : E \in SUBSET Employees}
      <3>1. PICK E \in SUBSET Employees : E = DOMAIN list[r].days \cup {e}
        BY <2>4
      <3>2. d \in [E -> Nat]
        BY <2>2, <2>4, <2>5, <3>1
      <3>3. QED
        BY <3>2
    <2>7. /\ l \in Reading /\ l.step = "compute" /\ l.since = list[r].since
          /\ l.starts = list[r].starts /\ l.days = d
      <3>1. PICK D : D = UNION {[E -> Nat] : E \in SUBSET Employees}
        OBVIOUS
      <3>2. QED
        BY <1>1, <2>2, <2>3, <2>6, <3>1 DEF Reading
    <2>8. ASSUME back = 0, NEW f \in DOMAIN l.days
          PROVE  \E t \in Nat : t =< now /\ l.since =< t /\ Worked(l, f, t)
      <3>1. CASE f = e
        <4>1. Worked(l, f, now)
          BY <1>1, <2>2, <2>7, <2>8, <3>1 DEF Worked
        <4>2. now =< now
          BY <1>1
        <4>3. QED
          BY <1>1, <2>3, <2>7, <4>1, <4>2
      <3>2. CASE f # e
        <4>1. f \in DOMAIN list[r].days /\ l.days[f] = list[r].days[f]
          BY <2>2, <2>7, <2>8, <3>2
        <4>2. PICK t \in Nat : t =< now /\ list[r].since =< t /\ Worked(list[r], f, t)
          BY <1>1, <2>3, <2>8, <4>1 DEF ReadOK
        <4>3. QED
          BY <2>7, <4>1, <4>2 DEF Worked
      <3>3. QED
        BY <3>1, <3>2
    <2>9. ReadOK(l)
      BY <2>3, <2>7, <2>8 DEF ReadOK
    <2>10. QED
      BY <2>2, <2>9
  <1>6. CASE Store(r)
    <2>1. PICK l : /\ l = [list[r] EXCEPT !.step = "respond"]
                   /\ list' = [list EXCEPT ![r] = l]
      BY <1>6 DEF Store, Serve
    <2>2. /\ l \in Reading /\ l.step = "respond" /\ l.since = list[r].since
          /\ l.starts = list[r].starts /\ l.days = list[r].days
      BY <1>1, <2>1 DEF Reading
    <2>3. /\ list[r].step = "compute" /\ list[r].starts \in Starts
          /\ DOMAIN list[r].days = Employees
          /\ list[r].since =< now /\ now =< list[r].since + ReadTime
      BY <1>1, <1>6 DEF Store, ReadOK
    <2>4. ASSUME back = 0, NEW e \in Employees
          PROVE  \E t \in Nat :
                   t =< now /\ l.since =< t + Ttl + ReadTime /\ Worked(l, e, t)
      <3>1. PICK t \in Nat : t =< now /\ list[r].since =< t /\ Worked(list[r], e, t)
        BY <1>1, <2>3, <2>4 DEF ReadOK
      <3>2. l.since =< t + Ttl + ReadTime
        <4>1. l.since \in Nat /\ l.since =< t
          BY <2>2, <3>1 DEF Reading
        <4>2. QED
          BY <1>1, <4>1
      <3>3. Worked(l, e, t)
        BY <2>2, <3>1 DEF Worked
      <3>4. QED
        BY <3>1, <3>2, <3>3
    <2>5. ReadOK(l)
      BY <2>2, <2>3, <2>4 DEF ReadOK
    <2>6. QED
      BY <2>1, <2>5
  <1>7. CASE Respond(r)
    BY <1>7, IdleIsOK DEF Respond, Serve
  <1>8. QED
    BY <1>2, <1>3, <1>4, <1>5, <1>6, <1>7 DEF Read

\* What a read leaves in the cache.
LEMMA StoredAs ==
  ASSUME Recent, UNCHANGED <<now, back>>,
         Forget \/ \E r \in Readers : Read(r)
  PROVE  PayloadOK'
  <1>1. CASE entry' = Null
    BY <1>1 DEF PayloadOK
  <1>2. CASE UNCHANGED entry
    BY <1>2 DEF Recent, PayloadOK, Worked
  <1>3. ASSUME NEW r \in Readers, Store(r),
               entry' = [starts |-> list[r].starts, days |-> list[r].days,
                         expires |-> now + Ttl]
        PROVE  PayloadOK'
    <2>1. /\ list[r] \in Reading /\ ReadOK(list[r]) /\ now \in Nat
          /\ Ttl \in Nat /\ ReadTime \in Nat
      BY TenureConstants DEF Recent, ClockOK
    <2>2. /\ list[r].step = "compute" /\ list[r].starts \in Starts
          /\ DOMAIN list[r].days = Employees
          /\ list[r].since =< now /\ now =< list[r].since + ReadTime
      BY <1>3, <2>1 DEF Store, ReadOK
    <2>3. list[r].days \in [Employees -> Nat] /\ list[r].since \in Nat
      BY <2>1, <2>2 DEF Reading
    <2>4. PICK p : /\ p = [starts |-> list[r].starts, days |-> list[r].days,
                           expires |-> now + Ttl]
                   /\ entry' = p
      BY <1>3
    <2>5. p \in Payload /\ p.expires = now + Ttl
          /\ p.days = list[r].days /\ p.starts = list[r].starts
      BY <2>1, <2>2, <2>3, <2>4 DEF Payload
    <2>6. ASSUME back = 0, NEW e \in Employees
          PROVE  \E t \in Nat :
                   t =< now /\ p.expires =< t + Ttl + ReadTime /\ Worked(p, e, t)
      <3>1. PICK t \in Nat : t =< now /\ list[r].since =< t /\ Worked(list[r], e, t)
        BY <2>1, <2>2, <2>6 DEF ReadOK
      <3>2. now + Ttl =< t + Ttl + ReadTime
        BY <2>1, <2>2, <2>3, <3>1
      <3>3. Worked(p, e, t)
        BY <2>5, <3>1 DEF Worked
      <3>4. QED
        BY <2>5, <3>1, <3>2, <3>3
    <2>7. now =< p.expires
      BY <2>1, <2>5
    <2>8. entry' = p /\ now' = now /\ back' = back
      BY <2>4
    <2>9. QED
      BY <2>5, <2>6, <2>7, <2>8 DEF PayloadOK, Worked
  <1>4. \/ entry' = Null
        \/ UNCHANGED entry
        \/ \E r \in Readers :
             /\ Store(r)
             /\ entry' = [starts |-> list[r].starts, days |-> list[r].days,
                          expires |-> now + Ttl]
    BY DEF Forget, Read, Hit, Miss, Select, Compute, Store, Respond
  <1>5. QED
    BY <1>1, <1>2, <1>3, <1>4

LEMMA ListsGrowOld ==
  ASSUME Recent, Tick
  PROVE  PayloadOK' /\ \A r \in Readers : ReadOK(list[r])'
  <1>1. /\ now \in Nat /\ now' = now + 1 /\ now' \in Nat /\ back' = back
        /\ list' = list /\ Ttl \in Nat /\ ReadTime \in Nat
    BY TenureConstants DEF Recent, ClockOK, Tick
  <1>2. \A t \in Nat : t =< now => t =< now'
    BY <1>1
  <1>3. PayloadOK'
    <2>1. CASE entry' = Null
      BY <2>1 DEF PayloadOK
    <2>2. CASE entry' # Null
      <3>1. entry' = entry /\ entry # Null /\ ~(entry.expires =< now')
        BY <2>2 DEF Tick
      <3>2. entry \in Payload
        BY <3>1 DEF Recent, PayloadOK
      <3>3. now' =< entry.expires
        <4>1. entry.expires \in Nat
          BY <3>2 DEF Payload
        <4>2. QED
          BY <1>1, <3>1, <4>1
      <3>4. ASSUME back = 0, NEW e \in Employees
            PROVE  \E t \in Nat :
                     t =< now' /\ entry.expires =< t + Ttl + ReadTime
                     /\ Worked(entry, e, t)
        BY <1>2, <3>1, <3>4 DEF Recent, PayloadOK
      <3>5. QED
        BY <1>1, <3>1, <3>2, <3>3, <3>4 DEF PayloadOK, Worked
    <2>3. QED
      BY <2>1, <2>2
  <1>4. ASSUME NEW r \in Readers
        PROVE  ReadOK(list[r])'
    <2>1. PICK l : l = list[r] /\ l \in Reading /\ ReadOK(l)
      BY DEF Recent
    <2>2. l.step # "idle" => l.since =< now' /\ now' =< l.since + ReadTime
      <3> SUFFICES ASSUME l.step # "idle"
                   PROVE  l.since =< now' /\ now' =< l.since + ReadTime
        OBVIOUS
      <3>1. l.since \in Nat /\ l.since =< now
        BY <2>1 DEF ReadOK, Reading
      <3>2. now < l.since + ReadTime
        BY <2>1, EmptyList DEF Tick
      <3>3. QED
        BY <1>1, <3>1, <3>2
    <2>3. back = 0 /\ l.step = "compute" =>
            \A e \in DOMAIN l.days : \E t \in Nat :
              t =< now' /\ l.since =< t /\ Worked(l, e, t)
      BY <1>2, <2>1 DEF ReadOK
    <2>4. back = 0 /\ l.step = "respond" =>
            \A e \in Employees : \E t \in Nat :
              t =< now' /\ l.since =< t + Ttl + ReadTime /\ Worked(l, e, t)
      BY <1>2, <2>1 DEF ReadOK
    <2>5. list'[r] = l
      BY <1>1, <2>1
    <2>6. /\ l.step = "select" => DOMAIN l.days = {}
          /\ l.step \in {"compute", "respond"} => l.starts \in Starts
          /\ l.step = "respond" => DOMAIN l.days = Employees
      BY <2>1 DEF ReadOK
    <2>7. QED
      BY <1>1, <2>1, <2>2, <2>3, <2>4, <2>5, <2>6 DEF ReadOK, Worked
  <1>5. QED
    BY <1>3, <1>4

LEMMA RecentStep == Recent /\ [Next]_vars => Recent'
  <1> SUFFICES ASSUME Recent, [Next]_vars PROVE Recent'
    OBVIOUS
  <1>1. Kept' /\ ClockOK'
    BY KeptStep, ClockStep DEF Recent
  <1>2. ASSUME PayloadOK', \A q \in Readers : ReadOK(list[q])',
               list' = [q \in Readers |-> list'[q]]
        PROVE  Recent'
    <2>1. \A q \in Readers : list'[q] \in Reading
      BY <1>2 DEF ReadOK
    <2>2. list' \in [Readers -> Reading]
      BY <1>2, <2>1
    <2>3. QED
      BY <1>1, <1>2, <2>2 DEF Recent
  <1>3. list \in [Readers -> Reading] /\ PayloadOK /\ \A r \in Readers : ReadOK(list[r])
    BY DEF Recent
  <1>4. CASE Tick
    <2>1. list' = list
      BY <1>4 DEF Tick
    <2>2. QED
      BY <1>2, <1>3, <1>4, <2>1, ListsGrowOld
  <1>5. CASE StepBack
    <2>1. /\ now' = now /\ list' = list /\ entry' = entry /\ back' # 0
      BY <1>5, TenureConstants DEF StepBack, reading
    <2>2. PayloadOK'
      BY <1>3, <2>1 DEF PayloadOK
    <2>3. \A r \in Readers : ReadOK(list[r])'
      BY <1>3, <2>1 DEF ReadOK
    <2>4. QED
      BY <1>2, <1>3, <2>1, <2>2, <2>3
  <1>6. CASE UNCHANGED <<now, back, reading>>
    <2>1. now' = now /\ back' = back /\ list' = list /\ entry' = entry
      BY <1>6 DEF reading
    <2>2. PayloadOK'
      BY <1>3, <2>1 DEF PayloadOK, Worked
    <2>3. \A r \in Readers : ReadOK(list[r])'
      BY <1>3, <2>1 DEF ReadOK, Worked
    <2>4. QED
      BY <1>2, <1>3, <2>1, <2>2, <2>3
  <1>7. CASE UNCHANGED <<now, back>> /\ (Forget \/ \E r \in Readers : Read(r))
    <2>1. PayloadOK'
      BY <1>7, StoredAs
    <2>2. CASE Forget
      <3>1. now' = now /\ back' = back /\ list' = list
        BY <1>7, <2>2 DEF Forget
      <3>2. \A r \in Readers : ReadOK(list[r])'
        BY <1>3, <3>1 DEF ReadOK, Worked
      <3>3. QED
        BY <1>2, <1>3, <2>1, <3>1, <3>2
    <2>3. ASSUME NEW r \in Readers, Read(r)
          PROVE  /\ \A q \in Readers : ReadOK(list[q])'
                 /\ list' = [q \in Readers |-> list'[q]]
      <3>1. PICK l : ReadOK(l) /\ list' = [list EXCEPT ![r] = l]
        BY <2>3, ServedAs
      <3>2. now' = now /\ back' = back
        BY <1>7
      <3>3. /\ list'[r] = l /\ \A q \in Readers \ {r} : list'[q] = list[q]
            /\ list' = [q \in Readers |-> list'[q]]
        BY <1>3, <3>1
      <3>4. \A q \in Readers : ReadOK(list'[q])
        BY <1>3, <3>1, <3>3
      <3>5. \A q \in Readers : ReadOK(list[q])'
        BY <3>2, <3>4 DEF ReadOK, Worked
      <3>6. QED
        BY <3>3, <3>5
    <2>4. QED
      BY <1>2, <1>7, <2>1, <2>2, <2>3
  <1>8. QED
    BY <1>4, <1>5, <1>6, <1>7 DEF Next, vars

LEMMA RecentInvariant == Spec => []Recent
  <1>1. Init => Recent
    <2> SUFFICES ASSUME Init PROVE Recent
      OBVIOUS
    <2>1. Kept /\ ClockOK
      BY KeptAtFirst, ClockAtFirst
    <2>2. /\ list = [r \in Readers |-> NoList] /\ entry = Null
      BY DEF Init
    <2>3. QED
      BY <2>1, <2>2, EmptyList, IdleIsOK DEF Recent, PayloadOK
  <1>2. QED
    BY <1>1, RecentStep, PTL DEF Spec

\* Every variable keeps its type, and days worked are never negative, even after the
\* clock was set back.
THEOREM TypeCorrect == Spec => []TypeOK
  <1>1. ASSUME Recent PROVE TypeOK
    <2>1. \A w \in Workers : move[w] = NoMove \/ move[w] \in Move
      BY <1>1 DEF Recent, Kept, WritesTyped
    <2>2. \A r \in Readers : \A e \in DOMAIN list[r].days : list[r].days[e] \in Nat
      BY <1>1 DEF Recent, Reading
    <2>3. entry # Null => entry.days \in [Employees -> Nat]
      BY <1>1 DEF Recent, PayloadOK, Payload
    <2>4. QED
      BY <1>1, <2>1, <2>2, <2>3 DEF Recent, Kept, WritesTyped, ClockOK, TypeOK, Move
  <1>2. QED
    BY <1>1, RecentInvariant, PTL

\* What a payload and a read add up to is at most a day.
LEMMA AnswersAreYoung ==
  ASSUME Recent, NEW r \in Readers, list[r].step = "respond", back = 0,
         NEW e \in Employees
  PROVE  \E day \in {Today - 1, Today} :
           list[r].days[e] = DaysWorked(list[r].starts[e], day)
  <1>1. ReadOK(list[r]) /\ list[r] \in Reading /\ now \in Nat
        /\ Today = now \div DayLength
    BY TodayIsADay DEF Recent, ClockOK
  <1>2. PICK t \in Nat : /\ t =< now /\ list[r].since =< t + Ttl + ReadTime
                         /\ Worked(list[r], e, t)
    BY <1>1 DEF ReadOK
  <1>3. now =< t + DayLength
    <2>1. list[r].since \in Nat /\ now =< list[r].since + ReadTime
      BY <1>1 DEF ReadOK, Reading
    <2>2. PICK s \in Nat : s = list[r].since
      BY <2>1
    <2>3. now =< s + ReadTime /\ s =< t + Ttl + ReadTime
      BY <1>2, <2>1, <2>2
    <2>4. /\ Ttl \in Nat /\ ReadTime \in Nat /\ DayLength \in Nat
          /\ Ttl + 2 * ReadTime =< DayLength
      BY TenureConstants
    <2>5. QED
      BY <1>1, <2>3, <2>4
  <1>4. t \div DayLength \in {now \div DayLength - 1, now \div DayLength}
    BY <1>1, <1>2, <1>3, Days, TenureConstants
  <1>5. QED
    BY <1>1, <1>2, <1>4 DEF Worked

\* Cached or not, the days worked of a list that is answered are those of today or of
\* yesterday, and so is their order, while the clock of the backend is not set back.
THEOREM ListsAreRecent == Spec => []ListIsRecent
  <1>1. Recent => ListIsRecent
    BY AnswersAreYoung DEF ListIsRecent
  <1>2. QED
    BY <1>1, RecentInvariant, PTL
===============================================================================
