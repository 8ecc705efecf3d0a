----------------------------- MODULE RegularReads -----------------------------
(***************************************************************************)
(* What a cached view promises its readers, with no cache in sight.        *)
(*                                                                         *)
(* The content of a view (the cafe list, one employee's detail, ...) is    *)
(* identified by the number of commits that changed it.  A write is        *)
(* acknowledged some time after its commit.  A read may return any content *)
(* between the newest one acknowledged before the read began and the       *)
(* newest one committed when it answers: a regular register.  It is not an *)
(* atomic one, two reads in a row may see newer content and then older.    *)
(***************************************************************************)
EXTENDS Naturals

CONSTANT Readers

VARIABLES
  commits,   \* how many commits have changed the view
  acked,     \* the newest of them whose write was acknowledged
  phase,     \* [Readers -> {"idle", "reading", "answered"}]
  floor,     \* [Readers -> Nat]: acked, as it was when the read began
  answer     \* [Readers -> Nat]: the content an answered read returned

vars == <<commits, acked, phase, floor, answer>>

Init ==
  /\ commits = 0
  /\ acked = 0
  /\ phase = [r \in Readers |-> "idle"]
  /\ floor = [r \in Readers |-> 0]
  /\ answer = [r \in Readers |-> 0]

Commit ==
  /\ commits' = commits + 1
  /\ UNCHANGED <<acked, phase, floor, answer>>

Acknowledge ==
  /\ acked' \in acked..commits
  /\ UNCHANGED <<commits, phase, floor, answer>>

Begin(r) ==
  /\ phase[r] = "idle"
  /\ phase' = [phase EXCEPT ![r] = "reading"]
  /\ floor' = [floor EXCEPT ![r] = acked]
  /\ UNCHANGED <<commits, acked, answer>>

Answer(r) ==
  /\ phase[r] = "reading"
  /\ \E content \in floor[r]..commits :
        answer' = [answer EXCEPT ![r] = content]
  /\ phase' = [phase EXCEPT ![r] = "answered"]
  /\ UNCHANGED <<commits, acked, floor>>

\* The reader takes its answer, or its request failed and it has none.
End(r) ==
  /\ phase[r] \in {"reading", "answered"}
  /\ phase' = [phase EXCEPT ![r] = "idle"]
  /\ floor' = [floor EXCEPT ![r] = 0]
  /\ answer' = [answer EXCEPT ![r] = 0]
  /\ UNCHANGED <<commits, acked>>

Next ==
  \/ Commit
  \/ Acknowledge
  \/ \E r \in Readers : Begin(r) \/ Answer(r) \/ End(r)

Spec == Init /\ [][Next]_vars
===============================================================================
