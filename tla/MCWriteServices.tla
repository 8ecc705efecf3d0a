---------------------------- MODULE MCWriteServices ----------------------------
(* Small instances of WriteServices for TLC.                                *)
EXTENDS WriteServices, TLC

\* Two employees that differ in all columns.
MCSubmitted == {[c \in Columns |-> v] : v \in Values}
===============================================================================
