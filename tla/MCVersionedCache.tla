--------------------------- MODULE MCVersionedCache ---------------------------
(* Small instances of VersionedCache for TLC.                               *)
EXTENDS VersionedCache, TLC

\* Requests of one kind are interchangeable; only used by runs without liveness.
Symmetry == Permutations(Readers) \cup Permutations(Writers)
===============================================================================
