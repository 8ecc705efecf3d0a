---------------------------- MODULE MCInvalidation ----------------------------
(* Small instances of Invalidation for TLC.                                 *)
EXTENDS Invalidation, TLC

EmployeeOf(email, phone, profile) ==
  [c \in Columns |-> CASE c = "email_address" -> email
                       [] c = "phone_number" -> phone
                       [] c = "profile" -> profile]

\* Not the employees: SetToSeq puts them in an order.
Symmetry == Permutations(Workers) \cup Permutations(Cafes) \cup Permutations(Names)

\* Three employees: two with nothing in common, and one with the email address of
\* the second and the phone number of the first.
MCSubmitted == {EmployeeOf(1, 1, 1), EmployeeOf(2, 2, 2), EmployeeOf(2, 1, 1)}

\* The first of them has a job when a run begins.
SeededInit ==
  /\ CacheInit
  /\ \A e \in InitialEmployees : employee[e] = EmployeeOf(1, 1, 1) /\ Active(e) # {}

SeededCacheSpec == SeededInit /\ [][CacheNext]_allVars
===============================================================================
