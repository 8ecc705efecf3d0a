------------------------------- MODULE MCSeeding -------------------------------
(* Small instances of Seeding for TLC.                                      *)
EXTENDS Seeding, TLC

CONSTANTS m1, m2, f1, f2, bugis, orchard, day1, day2

\* One employee at work and one who has left, like alicia.tan and victor.sim.
MCEmployeeSeeds == (m1 :> f1) @@ (m2 :> f2)

MCAssignmentSeeds ==
  {[email |-> m1, cafe |-> bugis, start |-> day1, end |-> NoDate],
   [email |-> m2, cafe |-> orchard, start |-> day1, end |-> day2]}

\* Keys of cafes mean nothing.
Symmetry == Permutations(CafeIds)
===============================================================================
