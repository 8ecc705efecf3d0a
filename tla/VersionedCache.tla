---------------------------- MODULE VersionedCache ----------------------------
(***************************************************************************)
(* Read-through caching of one view behind a version counter, as the query *)
(* services and app/core/cache.py do it over Redis.                        *)
(*                                                                         *)
(* A view is one list namespace or one detail record.  Its payloads are    *)
(* stored under keys that contain the counter's value, so a write makes    *)
(* every older payload unreachable by incrementing the counter after its   *)
(* commit.  Each Redis call is a step of its own: calls of many request    *)
(* threads interleave between them.  A payload is abstracted to the number *)
(* of commits it reflects and the filter it was selected for.              *)
(*                                                                         *)
(* Faults names what may go wrong in a run:                                *)
(*   "lookup"     a call of _get_or_init_version fails (after its retries) *)
(*   "get", "set" get_json, set_json fails                                 *)
(*   "bump"       bump_*_version fails; its INCR may have been applied     *)
(*   "lost_reply" SETEX or INCR is applied, its reply is lost and it is    *)
(*                retried                                                  *)
(*   "database"   the SELECT of a miss fails; the request answers 5xx      *)
(*   "crash"      the writer stops between its commit and its bump         *)
(*   "restart"    Redis restarts from its last snapshot                    *)
(***************************************************************************)
EXTENDS Naturals, FiniteSets

CONSTANTS
  Readers,        \* concurrent read requests
  Writers,        \* concurrent write requests
  Filters,        \* location or cafe filters a list is asked for, normalized
  NoFilter,       \* the filter of a request without one
  Blank,          \* the filter that is the empty string once normalized
  AllText,        \* the filter whose text is "all"
  Deletable,      \* TRUE for a detail view, whose row can be deleted
  CacheEnabled,   \* FALSE for NoOpCacheClient, when REDIS_URL is not set
  Ttl,            \* clock ticks a payload lives, cache_ttl_seconds
  MaxAttempts,    \* redis_retry_max_attempts
  MaxCommits,     \* bound on the commits of a run
  Faults

AllFaults == {"lookup", "get", "set", "bump", "lost_reply", "database",
              "crash", "restart"}

ASSUME CacheConstants ==
  /\ Readers \cap Writers = {}
  /\ CacheEnabled \in BOOLEAN
  /\ Deletable \in BOOLEAN
  /\ Ttl \in Nat \ {0}
  /\ MaxAttempts \in Nat
  /\ Faults \subseteq AllFaults

VARIABLES
  commits,     \* commits that changed the view
  present,     \* the row a detail view shows exists
  acked,       \* newest commit whose write was answered 2xx
  counter,     \* the version key in Redis, 0 when absent
  entries,     \* the payload keys in Redis
  saved,       \* the snapshot of <<counter, entries>> a restart restores
  pc,          \* where each request is
  filter,      \* the filter each read was asked for
  version,     \* the version each read works with
  value,       \* the payload each read holds
  floor,       \* acked when each read began (history, for the properties)
  mine,        \* the commit each write made
  tries        \* lost replies of the call each request retries

vars == <<commits, present, acked, counter, entries, saved, pc, filter,
          version, value, floor, mine, tries>>

readerVars == <<filter, version, value, floor>>
redisVars  == <<counter, entries, saved>>

\* The filter's part of a payload key, (normalized_location or 'all'): an empty
\* string is as false as None.
Key(f) == IF f \in {NoFilter, Blank} THEN AllText ELSE f

\* What is stored under cafes:list:v{version}:location:{Key(filter)} and the like:
\* the filter it was selected for, its content and the ticks it has left.
Entry == [version: Nat, filter: Filters, value: Nat, ttl: 1..Ttl]

ReaderPc == {"idle", "lookup", "init", "reload", "get", "read", "set",
             "respond"}
WriterPc == {"idle", "bump"}

Init ==
  /\ commits = 0
  /\ present = TRUE
  /\ acked = 0
  /\ counter = 0
  /\ entries = {}
  /\ saved = [counter |-> 0, entries |-> {}]
  /\ pc = [p \in Readers \cup Writers |-> "idle"]
  /\ filter \in [Readers -> Filters]
  /\ version = [r \in Readers |-> 0]
  /\ value = [r \in Readers |-> 0]
  /\ floor = [r \in Readers |-> 0]
  /\ mine = [w \in Writers |-> 0]
  /\ tries = [p \in Readers \cup Writers |-> 0]

-------------------------------------------------------------------------------
(* Reads: list_cafes, get_cafe_detail, list_employees, get_employee_detail. *)

Goto(p, label) ==
  /\ pc' = [pc EXCEPT ![p] = label]
  /\ tries' = [tries EXCEPT ![p] = 0]

\* _retry: the call was applied, but its reply is lost and it is made again.
Retry(p) ==
  /\ "lost_reply" \in Faults
  /\ tries[p] + 1 < MaxAttempts
  /\ tries' = [tries EXCEPT ![p] = @ + 1]
  /\ UNCHANGED pc

BeginRead(r) ==
  /\ pc[r] = "idle"
  /\ Goto(r, IF CacheEnabled THEN "lookup" ELSE "read")
  /\ \E f \in Filters : filter' = [filter EXCEPT ![r] = f]
  /\ floor' = [floor EXCEPT ![r] = acked]
  /\ UNCHANGED <<commits, present, acked, redisVars, version, value, mine>>

UseVersion(r, v) ==
  /\ version' = [version EXCEPT ![r] = v]
  /\ Goto(r, "get")

\* The first GET of the version key.
LookupVersion(r) ==
  /\ pc[r] = "lookup"
  /\ IF counter = 0
       THEN Goto(r, "init") /\ UNCHANGED version
       ELSE UseVersion(r, counter)
  /\ UNCHANGED <<commits, present, acked, redisVars, filter, value, floor,
                 mine>>

\* SET key "1" NX.
InitVersion(r) ==
  /\ pc[r] = "init"
  /\ counter' = IF counter = 0 THEN 1 ELSE counter
  /\ Goto(r, "reload")
  /\ UNCHANGED <<commits, present, acked, entries, saved, readerVars, mine>>

\* The second GET; a key that vanished meanwhile reads as version 1.
ReloadVersion(r) ==
  /\ pc[r] = "reload"
  /\ UseVersion(r, IF counter = 0 THEN 1 ELSE counter)
  /\ UNCHANGED <<commits, present, acked, redisVars, filter, value, floor,
                 mine>>

\* Any exception of the three calls above: the version is taken to be 1.  The
\* SET whose reply is lost may have been applied.
LookupFails(r) ==
  /\ "lookup" \in Faults
  /\ pc[r] \in {"lookup", "init", "reload"}
  /\ UseVersion(r, 1)
  /\ \/ UNCHANGED counter
     \/ pc[r] = "init" /\ counter = 0 /\ counter' = 1
  /\ UNCHANGED <<commits, present, acked, entries, saved, filter, value,
                 floor, mine>>

\* Mutant: the payload key leaves the version out.
Cached_Unversioned(r) == {x \in entries : Key(x.filter) = Key(filter[r])}

\* The payload a read asks Redis for, as a set of at most one entry.
Cached(r) == {x \in entries : /\ x.version = version[r]
                              /\ Key(x.filter) = Key(filter[r])}

\* Mutant: a hit renews the expiry.
CacheHit_Renews(r) ==
  /\ pc[r] = "get"
  /\ \E x \in Cached(r) :
        /\ value' = [value EXCEPT ![r] = x.value]
        /\ entries' = (entries \ {x}) \cup {[x EXCEPT !.ttl = Ttl]}
  /\ Goto(r, "respond")
  /\ UNCHANGED <<commits, present, acked, counter, saved, filter, version,
                 floor, mine>>

CacheHit(r) ==
  /\ pc[r] = "get"
  /\ \E x \in Cached(r) : value' = [value EXCEPT ![r] = x.value]
  /\ Goto(r, "respond")
  /\ UNCHANGED <<commits, present, acked, redisVars, filter, version, floor,
                 mine>>

CacheMiss(r) ==
  /\ pc[r] = "get"
  /\ Cached(r) = {} \/ "get" \in Faults
  /\ Goto(r, "read")
  /\ UNCHANGED <<commits, present, acked, redisVars, readerVars, mine>>

\* The SELECT, with a WHERE for every filter but NoFilter.  A detail view whose row is gone answers 404 and caches nothing.
ReadDatabase(r) ==
  /\ pc[r] = "read"
  /\ value' = [value EXCEPT ![r] = commits]
  /\ Goto(r, IF CacheEnabled /\ present THEN "set" ELSE "respond")
  /\ UNCHANGED <<commits, present, acked, redisVars, filter, version, floor,
                 mine>>

\* Mutant: the version is looked up again after the SELECT.
SetPayload_LateVersion(r) ==
  /\ pc[r] = "set"
  /\ entries' = {x \in entries : \/ x.version # counter
                                  \/ Key(x.filter) # Key(filter[r])}
                  \cup {[version |-> counter, filter |-> filter[r],
                         value |-> value[r], ttl |-> Ttl]}
  /\ Goto(r, "respond")
  /\ UNCHANGED <<commits, present, acked, counter, saved, readerVars, mine>>

\* SETEX, which also replaces what is stored under the key.
SetPayload(r) ==
  /\ pc[r] = "set"
  /\ entries' = (entries \ Cached(r)) \cup
                  {[version |-> version[r], filter |-> filter[r],
                    value |-> value[r], ttl |-> Ttl]}
  /\ Goto(r, "respond") \/ Retry(r)
  /\ UNCHANGED <<commits, present, acked, counter, saved, readerVars, mine>>

SetFails(r) ==
  /\ "set" \in Faults
  /\ pc[r] = "set"
  /\ Goto(r, "respond")
  /\ UNCHANGED <<commits, present, acked, redisVars, readerVars, mine>>

Forget(r) ==
  /\ Goto(r, "idle")
  /\ version' = [version EXCEPT ![r] = 0]
  /\ value' = [value EXCEPT ![r] = 0]
  /\ floor' = [floor EXCEPT ![r] = 0]
  /\ UNCHANGED <<commits, present, acked, redisVars, filter, mine>>

Respond(r) == pc[r] = "respond" /\ Forget(r)

DatabaseFails(r) == "database" \in Faults /\ pc[r] = "read" /\ Forget(r)

-------------------------------------------------------------------------------
(* Writes: the commit of a command service and the bump that follows it.    *)

Commit(w) ==
  /\ pc[w] = "idle"
  /\ present
  /\ commits < MaxCommits
  /\ commits' = commits + 1
  /\ mine' = [mine EXCEPT ![w] = commits + 1]
  /\ present' \in (IF Deletable THEN BOOLEAN ELSE {TRUE})
  /\ Goto(w, "bump")
  /\ UNCHANGED <<acked, redisVars, readerVars>>

\* The write is answered: every earlier commit is now acknowledged content.
Acknowledge(w) ==
  /\ acked' = IF mine[w] > acked THEN mine[w] ELSE acked
  /\ mine' = [mine EXCEPT ![w] = 0]
  /\ Goto(w, "idle")

\* INCR, which creates an absent key with the value 1; a retry increments again.
\* While cache.enabled is FALSE there is nothing to invalidate.
BumpVersion(w) ==
  /\ pc[w] = "bump"
  /\ counter' = IF CacheEnabled THEN counter + 1 ELSE counter
  /\ \/ Acknowledge(w)
     \/ CacheEnabled /\ Retry(w) /\ UNCHANGED <<acked, mine>>
  /\ UNCHANGED <<commits, present, entries, saved, readerVars>>

\* Logged with fallback_mode="stale_cache_possible"; the write still succeeds.
BumpFails(w) ==
  /\ CacheEnabled
  /\ "bump" \in Faults
  /\ pc[w] = "bump"
  /\ counter' \in {counter, counter + 1}
  /\ Acknowledge(w)
  /\ UNCHANGED <<commits, present, entries, saved, readerVars>>

\* The process dies, or session.refresh raises: no bump, no 2xx answer.
WriterCrashes(w) ==
  /\ "crash" \in Faults
  /\ pc[w] = "bump"
  /\ mine' = [mine EXCEPT ![w] = 0]
  /\ Goto(w, "idle")
  /\ UNCHANGED <<commits, present, acked, redisVars, readerVars>>

-------------------------------------------------------------------------------
(* Redis itself.                                                            *)

\* Mutant: a payload whose time is up is still there.
Aged_KeepsExpired(S) == {[x EXCEPT !.ttl = @ - 1] : x \in S}

Aged(S) == {[x EXCEPT !.ttl = @ - 1] : x \in {y \in S : y.ttl > 1}}

\* Time passes; expiry times are absolute, those in a snapshot run out too.
Tick ==
  /\ entries # {} \/ saved.entries # {}
  /\ entries' = Aged(entries)
  /\ saved' = [saved EXCEPT !.entries = Aged(@)]
  /\ UNCHANGED <<commits, present, acked, counter, pc, tries, readerVars, mine>>

SaveSnapshot ==
  /\ "restart" \in Faults
  /\ saved' = [counter |-> counter, entries |-> entries]
  /\ UNCHANGED <<commits, present, acked, counter, entries, pc, tries, readerVars,
                 mine>>

Restart ==
  /\ "restart" \in Faults
  /\ counter' = saved.counter
  /\ entries' = saved.entries
  /\ UNCHANGED <<commits, present, acked, saved, pc, tries, readerVars, mine>>

-------------------------------------------------------------------------------
Read(r) ==
  \/ BeginRead(r)
  \/ LookupVersion(r) \/ InitVersion(r) \/ ReloadVersion(r) \/ LookupFails(r)
  \/ CacheHit(r) \/ CacheMiss(r)
  \/ ReadDatabase(r) \/ DatabaseFails(r)
  \/ SetPayload(r) \/ SetFails(r)
  \/ Respond(r)

Write(w) ==
  \/ Commit(w)
  \/ BumpVersion(w) \/ BumpFails(w) \/ WriterCrashes(w)

Next ==
  \/ \E r \in Readers : Read(r)
  \/ \E w \in Writers : Write(w)
  \/ Tick \/ SaveSnapshot \/ Restart

Spec == Init /\ [][Next]_vars

\* Request threads run and time passes.  New writes, snapshots and restarts are
\* not forced to happen.
Fairness ==
  /\ \A r \in Readers : WF_vars(Read(r))
  /\ \A w \in Writers : WF_vars(pc[w] # "idle" /\ Write(w))
  /\ WF_vars(Tick)

FairSpec == Spec /\ Fairness

-------------------------------------------------------------------------------
(* Properties.                                                              *)

\* Every variable keeps its type.
TypeOK ==
  /\ commits \in Nat /\ acked \in Nat /\ counter \in Nat
  /\ present \in BOOLEAN
  /\ entries \in SUBSET Entry
  /\ saved \in [counter: Nat, entries: SUBSET Entry]
  /\ pc \in [Readers \cup Writers -> ReaderPc \cup WriterPc]
  /\ \A r \in Readers : pc[r] \in ReaderPc
  /\ \A w \in Writers : pc[w] \in WriterPc
  /\ filter \in [Readers -> Filters]
  /\ version \in [Readers -> Nat]
  /\ value \in [Readers -> Nat]
  /\ floor \in [Readers -> Nat]
  /\ mine \in [Writers -> Nat]
  /\ tries \in [Readers \cup Writers -> Nat]

\* The faults no read can notice: neither a failed payload GET or SETEX, nor a
\* doubled INCR, nor a failed SELECT, nor a writer that dies before its bump.
BenignFaults == {"get", "set", "lost_reply", "database", "crash"}

\* A read answers with content no older than the newest write that had been
\* acknowledged when the read began, and never with content not committed: the
\* versioned keys of the query services together with commit-then-bump in the
\* command services leave no interleaving that serves an outdated payload.
ReadsAreRegular ==
  \A r \in Readers : pc[r] = "respond" => value[r] \in floor[r]..commits

\* Readers that already have a version, and those that hold database content.
Versioned(r) == pc[r] \in {"get", "read", "set"}
Holding(r)   == pc[r] = "set"

\* Why: the payloads under the newest version, and the ones readers are about to
\* put there, reflect every acknowledged write; the ones under the version a
\* reader works with reflect what was acknowledged when it began.
CacheInv ==
  /\ acked <= commits
  /\ \A w \in Writers : mine[w] <= commits
  /\ ~CacheEnabled => entries = {}
  /\ \A r \in Readers : floor[r] <= acked
  /\ \A x \in entries : 1 <= x.version /\ x.version <= counter
                          /\ x.value <= commits
  /\ \A x \in entries : x.version = counter => x.value >= acked
  /\ \A r \in Readers : CacheEnabled /\ Versioned(r)
                            => 1 <= version[r] /\ version[r] <= counter
  /\ \A r \in Readers : Holding(r) =>
        /\ CacheEnabled
        /\ value[r] \in floor[r]..commits
        /\ version[r] = counter => value[r] >= acked
  /\ \A r \in Readers : pc[r] = "reload" => counter > 0
  /\ \A r \in Readers, x \in entries :
        Versioned(r) /\ x.version = version[r] => x.value >= floor[r]
  /\ \A r, q \in Readers :
        Versioned(r) /\ Holding(q) /\ version[q] = version[r]
          => value[q] >= floor[r]
  /\ ReadsAreRegular

\* A payload a read is about to be answered with was selected for the filter the
\* read asks for.  It is what the tests of the location filter expect, and what
\* the key of cafes/query_service.py does not give: no location, a blank one and
\* the text "all" share one key and select different rows.
HitsFitTheFilter ==
  \A r \in Readers : pc[r] = "get" => \A x \in Cached(r) : x.filter = filter[r]

\* The view as its readers see it, without Redis.
Regular == INSTANCE RegularReads WITH
  phase  <- [r \in Readers |-> CASE pc[r] = "idle" -> "idle"
                                 [] pc[r] = "respond" -> "answered"
                                 [] OTHER -> "reading"],
  answer <- [r \in Readers |-> IF pc[r] = "respond" THEN value[r] ELSE 0]

\* The cached view implements the regular register of RegularReads: caching is
\* invisible to a client that compares answers with acknowledged writes.
ImplementsRegularReads == Regular!Spec

\* Once the writes have stopped, every answer eventually is the newest content,
\* whatever Redis does: a payload that a failed lookup, a failed bump or a
\* restored snapshot left reachable is not kept alive by being read, so its
\* SETEX expiry removes it.
EventuallyFresh ==
  <>[](\A r \in Readers : pc[r] = "respond" => value[r] = commits)

===============================================================================
