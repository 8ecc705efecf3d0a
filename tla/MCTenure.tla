-------------------------------- MODULE MCTenure --------------------------------
(* A small instance of Tenure for TLC.                                      *)
EXTENDS Tenure, TLC

Symmetry == Permutations(Workers) \cup Permutations(Employees)
              \cup Permutations(Cafes)
===============================================================================
