------------------------------ MODULE MCFlushLocks ------------------------------
(* Small instances of FlushLocks for TLC.                                   *)
EXTENDS FlushLocks, TLC

EmployeeOf(email, phone, profile) ==
  [c \in Columns |-> CASE c = "email_address" -> email
                       [] c = "phone_number" -> phone
                       [] c = "profile" -> profile]

Seeded == {EmployeeOf(1, 1, 1), EmployeeOf(2, 2, 2)}

\* One employee of the seed with another profile, the same with another email
\* address, a new employee with that address, the other employee of the seed.
MCSubmitted == {EmployeeOf(1, 1, 2), EmployeeOf(3, 1, 1), EmployeeOf(3, 3, 3),
                EmployeeOf(2, 2, 2)}

\* Identifiers are interchangeable; only used by the run without liveness.
Symmetry == Permutations(Workers) \cup Permutations(InitialEmployees)
              \cup Permutations(Cafes)

SeededInit == LockInit /\ {employee[e] : e \in InitialEmployees} = Seeded

\* The first employee has moved from one cafe to the other; the second one has no
\* assignment, or a job and possibly a closed assignment at the other cafe.
MovedInit ==
  /\ SeededInit
  /\ \A e \in InitialEmployees :
       /\ Rows(e) # {} => Active(e) # {}
       /\ employee[e] = EmployeeOf(1, 1, 1) => Rows(e) # Active(e)
  /\ \A a, b \in assignments :
       a.employee = b.employee /\ a.cafe = b.cafe => a = b

MovedLockSpec == MovedInit /\ [][LockNext]_lockVars

\* An employee of the seed, one who takes the phone number of the other, and one
\* with the email address of that one: these can wait for each other.
Crossing == {EmployeeOf(2, 2, 2), EmployeeOf(3, 1, 1), EmployeeOf(3, 3, 3)}

\* Identifiers do not matter, so the first employee is the first of the seed, and has
\* a job.  The second one has none, or one at the same cafe or at the other; if they
\* work at different ones, each may have a closed assignment at the other's.
NumberedInit ==
  LET first == CHOOSE e \in InitialEmployees : TRUE
      home == CHOOSE c \in Cafes : TRUE
  IN
  /\ SeededInit
  /\ employee[first] = EmployeeOf(1, 1, 1)
  /\ first \in Staff(home)
  /\ \/ \A a \in assignments : a.open
     \/ /\ \A e \in InitialEmployees, c \in Cafes : \E a \in Rows(e) : a.cafe = c
        /\ Staff(home) = {first}
        /\ \A e \in InitialEmployees : Active(e) # {}

FairNumberedSpec == /\ NumberedInit /\ [][LockNext]_lockVars
                    /\ \A w \in Workers : WF_lockVars(LockStep(w))
===============================================================================
