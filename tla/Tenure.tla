--------------------------------- MODULE Tenure ---------------------------------
(***************************************************************************)
(* What depends on the date: the start and end of assignments, which       *)
(* update_employee takes from date.today() in the middle of its request,   *)
(* and days_worked, which the employee list computes row by row and keeps  *)
(* in the cache while days pass.                                           *)
(*                                                                         *)
(* Updates of employees run concurrently, as in WriteServices, of which    *)
(* only the assignment is kept: create_employee opens the first row of an  *)
(* employee as an update of an unassigned one does, and nobody is deleted. *)
(* What makes the cached list unreachable is the matter of VersionedCache: *)
(* here that may happen at any time, and expiry is what counts.            *)
(***************************************************************************)
EXTENDS Integers, FiniteSets

CONSTANTS
  Workers,    \* threads that update employees
  Readers,    \* threads that list them
  Employees,
  Cafes,
  NoCafe,     \* cafe_id = None
  Null,       \* end_date IS NULL; no start date; no cached list
  DayLength,  \* ticks of the clock in a day
  Ttl,        \* ticks a cached payload lives
  ReadTime,   \* ticks a read may take
  MaxTime,    \* bound on the clock
  MaxMoves    \* bound on the updates of a run

ASSUME TenureConstants ==
  /\ DayLength \in Nat \ {0} /\ Ttl \in Nat /\ ReadTime \in Nat
  /\ Ttl + 2 * ReadTime =< DayLength
  /\ NoCafe \notin Cafes
  /\ Null \notin Nat /\ IsFiniteSet(Employees)

VARIABLES
  now,        \* time since the day before the run, in ticks
  back,       \* how far the clock of the backend has been set back
  rows,       \* table employee_assignments
  move,       \* the update each worker serves
  moves,      \* updates begun so far
  overtaken,  \* employees one of whose updates was overtaken by one of another day
  rejected,   \* updates that violated the check constraint (history)
  list,       \* the read each reader serves
  entry       \* the cached list: Null or [starts, days, expires]

writing == <<rows, move, moves, overtaken, rejected>>
reading == <<list, entry>>
vars == <<now, back, writing, reading>>

Row == [id: Nat, employee: Employees, cafe: Cafes, start: Nat, end: Nat \cup {Null}]

Open(S) == {r \in S : r.end = Null}
Of(e) == {r \in rows : r.employee = e}

\* date.today()
Today == (now - back) \div DayLength

\* Mutant: the difference may be negative.
DaysWorked_Signed(start, day) == IF start = Null THEN 0 ELSE day - start

\* calculate_days_worked(start_date) on a day.
DaysWorked(start, day) ==
  IF start = Null \/ start > day THEN 0 ELSE day - start

NoMove == [step |-> 0, employee |-> Null, cafe |-> NoCafe, seen |-> {},
           date |-> Null]
NoList == [step |-> "idle", since |-> 0, starts |-> <<>>, days |-> <<>>]

\* The run starts shortly before midnight, with employees that began at a cafe on
\* that day or the one before, or are unassigned.
Init ==
  /\ now = 2 * DayLength - 1
  /\ back = 0
  /\ \E start \in [Employees -> {0, 1, Null}], cafe \in [Employees -> Cafes],
        id \in {f \in [Employees -> 1..Cardinality(Employees)] :
                  \A e, g \in Employees : f[e] = f[g] => e = g} :
       rows = {[id |-> id[e], employee |-> e, cafe |-> cafe[e],
                start |-> start[e], end |-> Null] :
                 e \in {g \in Employees : start[g] # Null}}
  /\ move = [w \in Workers |-> NoMove]
  /\ moves = 0
  /\ overtaken = {}
  /\ rejected = 0
  /\ list = [r \in Readers |-> NoList]
  /\ entry = Null

-------------------------------------------------------------------------------
(* Updates of employees.                                                    *)

\* Mutant: today's date is read when the request begins.
Steps_DateFirst == <<"date", "fetch", "commit">>

\* What _apply_assignment_transition does, in its order.
Steps == <<"fetch", "date", "commit">>

At(w, step) == move[w].step \in DOMAIN Steps /\ Steps[move[w].step] = step

Proceed(w, m) ==
  /\ move' = [move EXCEPT ![w] = [m EXCEPT !.step = @ + 1]]
  /\ UNCHANGED <<rows, moves, overtaken, rejected>>

Begin(w) ==
  /\ move[w] = NoMove
  /\ moves < MaxMoves
  /\ moves' = moves + 1
  /\ \E e \in Employees, c \in Cafes \cup {NoCafe} :
       move' = [move EXCEPT ![w] = [step |-> 1, employee |-> e, cafe |-> c,
                                    seen |-> {}, date |-> Null]]
  /\ UNCHANGED <<rows, overtaken, rejected>>

\* fetch_active_assignment; the closed rows are kept for the history only.
FetchCurrent(w) ==
  /\ At(w, "fetch")
  /\ Proceed(w, [move[w] EXCEPT !.seen = Of(move[w].employee)])

TakeDate(w) ==
  /\ At(w, "date")
  /\ Proceed(w, [move[w] EXCEPT !.date = Today])

Current(w) == Open(move[w].seen)

\* The row of the table behind the current assignment, whatever it is by now.
Held(w) == {r \in rows : \E c \in Current(w) : c.id = r.id}

Moves(w) ==
  IF Current(w) = {} THEN move[w].cafe # NoCafe
  ELSE \A r \in Current(w) : r.cafe # move[w].cafe

\* Mutant: the new row continues the tenure of the old one.
NewRows_KeepStart(w) ==
  IF move[w].cafe = NoCafe THEN {}
  ELSE {[id |-> Cardinality(rows) + Cardinality(Employees),
         employee |-> move[w].employee, cafe |-> move[w].cafe,
         start |-> IF Held(w) = {} THEN move[w].date
                   ELSE (CHOOSE r \in Held(w) : TRUE).start,
         end |-> Null]}

NewRows(w) ==
  IF move[w].cafe = NoCafe THEN {}
  ELSE {[id |-> Cardinality(rows) + Cardinality(Employees),
         employee |-> move[w].employee, cafe |-> move[w].cafe,
         start |-> move[w].date, end |-> Null]}

\* ck_employee_assignments_end_date_after_start_date
ChecksFail(w) == \E r \in Held(w) : move[w].date < r.start

\* uq_employee_assignments_one_active_per_employee
AlreadyActive(w) ==
  NewRows(w) # {} /\ Open(Of(move[w].employee) \ Held(w)) # {}

\* The dates that other updates of the employee wrote since the fetch.
DatesSince(w) ==
  LET new == Of(move[w].employee) \ move[w].seen IN
  {a.end : a \in new \ Open(new)}
    \cup {a.start : a \in {b \in new : \A c \in move[w].seen : c.id # b.id}}

Finish(w) == move' = [move EXCEPT ![w] = NoMove] /\ UNCHANGED moves

\* COMMIT closes the row that was fetched, also if it has been closed meanwhile, and
\* opens the next; a violated constraint rolls both back.
Commit(w) ==
  LET e == move[w].employee IN
  /\ At(w, "commit")
  /\ Finish(w)
  /\ \/ /\ ~Moves(w)
        /\ UNCHANGED <<rows, overtaken, rejected>>
     \/ /\ Moves(w) /\ (ChecksFail(w) \/ AlreadyActive(w))
        /\ rejected' = IF ChecksFail(w) THEN rejected + 1 ELSE rejected
        /\ UNCHANGED <<rows, overtaken>>
     \/ /\ Moves(w) /\ ~ChecksFail(w) /\ ~AlreadyActive(w)
        /\ rows' = (rows \ Held(w))
                     \cup {[r EXCEPT !.end = move[w].date] : r \in Held(w)}
                     \cup NewRows(w)
        /\ overtaken' = IF DatesSince(w) \subseteq {move[w].date}
                        THEN overtaken ELSE overtaken \cup {e}
        /\ UNCHANGED rejected

-------------------------------------------------------------------------------
(* The employee list.                                                       *)

Serve(r, l) == list' = [list EXCEPT ![r] = l]

\* Mutant: a hit renews the lifetime of the payload.
Hit_Renews(r) ==
  /\ list[r].step = "idle"
  /\ entry # Null
  /\ Serve(r, [step |-> "respond", since |-> now, starts |-> entry.starts,
               days |-> entry.days])
  /\ entry' = [entry EXCEPT !.expires = now + Ttl]

\* get_json finds the payload.
Hit(r) ==
  /\ list[r].step = "idle"
  /\ entry # Null
  /\ Serve(r, [step |-> "respond", since |-> now, starts |-> entry.starts,
               days |-> entry.days])
  /\ UNCHANGED entry

Miss(r) ==
  /\ list[r].step = "idle"
  /\ entry = Null
  /\ Serve(r, [NoList EXCEPT !.step = "select", !.since = now])
  /\ UNCHANGED entry

\* fetch_employee_list: every employee with the start date of its open row.
Select(r) ==
  LET start(e) == IF Open(Of(e)) = {} THEN Null
                  ELSE (CHOOSE a \in Open(Of(e)) : TRUE).start
  IN
  /\ list[r].step = "select"
  /\ Serve(r, [list[r] EXCEPT !.step = "compute",
                              !.starts = [e \in Employees |-> start(e)]])
  /\ UNCHANGED entry

\* One row of the loop, in the order the database returned them.
Compute(r) ==
  /\ list[r].step = "compute"
  /\ \E e \in Employees \ DOMAIN list[r].days :
       Serve(r, [list[r] EXCEPT !.days =
         [f \in DOMAIN list[r].days \cup {e} |->
            IF f = e THEN DaysWorked(list[r].starts[e], Today)
                     ELSE list[r].days[f]]])
  /\ UNCHANGED entry

\* set_json, which may fail silently.
Store(r) ==
  /\ list[r].step = "compute"
  /\ DOMAIN list[r].days = Employees
  /\ Serve(r, [list[r] EXCEPT !.step = "respond"])
  /\ \/ entry' = [starts |-> list[r].starts, days |-> list[r].days,
                  expires |-> now + Ttl]
     \/ UNCHANGED entry

Respond(r) ==
  /\ list[r].step = "respond"
  /\ Serve(r, NoList)
  /\ UNCHANGED entry

\* A bump, or Redis, takes the payload out of reach.
Forget == entry # Null /\ entry' = Null /\ UNCHANGED list

-------------------------------------------------------------------------------
(* Time.                                                                    *)

\* Reads end in time: every statement and every call of Redis has a timeout.
Tick ==
  /\ now < MaxTime
  /\ \A r \in Readers : list[r] # NoList => now < list[r].since + ReadTime
  /\ now' = now + 1
  /\ entry' = IF entry # Null /\ entry.expires =< now' THEN Null ELSE entry
  /\ UNCHANGED <<back, writing, list>>

\* The clock of the backend is set back, once, by a day.
StepBack ==
  /\ back = 0
  /\ back' = DayLength
  /\ UNCHANGED <<now, writing, reading>>

Write(w) == Begin(w) \/ FetchCurrent(w) \/ TakeDate(w) \/ Commit(w)

Read(r) ==
  Hit(r) \/ Miss(r) \/ Select(r) \/ Compute(r) \/ Store(r) \/ Respond(r)

Next ==
  \/ \E w \in Workers : Write(w) /\ UNCHANGED <<now, back, reading>>
  \/ (Forget \/ \E r \in Readers : Read(r)) /\ UNCHANGED <<now, back, writing>>
  \/ Tick \/ StepBack

Spec == Init /\ [][Next]_vars

-------------------------------------------------------------------------------
(* Properties.                                                              *)

\* Every variable keeps its type; days worked are never negative.
TypeOK ==
  /\ now \in Nat /\ back \in {0, DayLength} /\ moves \in Nat /\ rejected \in Nat
  /\ rows \in SUBSET Row
  /\ overtaken \in SUBSET Employees
  /\ \A w \in Workers : move[w] = NoMove \/
       move[w] \in [step: DOMAIN Steps, employee: Employees,
                    cafe: Cafes \cup {NoCafe}, seen: SUBSET Row,
                    date: Nat \cup {Null}]
  /\ \A r \in Readers : \A e \in DOMAIN list[r].days : list[r].days[e] \in Nat
  /\ entry # Null => entry.days \in [Employees -> Nat]

\* However updates interleave with each other and with midnight, none is answered
\* with a conflict because an assignment would end before it starts: the date is
\* taken after the row that it closes was fetched.  Only a clock that steps back
\* breaks this.
ChecksFailOnlyAfterStepBack == rejected > 0 => back > 0

\* The tenures of an employee follow each other, touching at most in the day of a
\* move.  Updates of one employee may overtake each other freely within a day; one
\* that was overtaken by an update of another day may move the end of a row that
\* was closed before, or open a row in the middle of another.
TenuresAreDisjoint ==
  \A a, b \in rows :
    /\ a.employee = b.employee /\ a # b
    /\ a.employee \notin overtaken
    /\ back = 0
    => \/ a.end # Null /\ a.end =< b.start
       \/ b.end # Null /\ b.end =< a.start

\* Cached or not, days worked are those of today or of yesterday, and so is their
\* order: a payload lives, and a read takes, far less than a day.
ListIsRecent ==
  \A r \in Readers : list[r].step = "respond" /\ back = 0 =>
    \A e \in Employees :
      \E day \in {Today - 1, Today} :
        list[r].days[e] = DaysWorked(list[r].starts[e], day)

===============================================================================
