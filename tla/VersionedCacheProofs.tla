------------------------- MODULE VersionedCacheProofs -------------------------
(***************************************************************************)
(* Theorems about VersionedCache, for every set of readers, writers and    *)
(* filters, every TTL and every bound on the commits.                      *)
(***************************************************************************)
EXTENDS VersionedCache, TLAPS

\* Ageing keeps the types of payload entries: SETEX expiry never leaves an entry
\* with no time left.
LEMMA AgedType == ASSUME NEW S, S \subseteq Entry
                  PROVE  Aged(S) \subseteq Entry
  BY CacheConstants DEF Aged, Entry

\* Ageing only removes payloads, it changes no key and no content.
LEMMA AgedKeeps == ASSUME NEW S, S \subseteq Entry, NEW x \in Aged(S)
                   PROVE  \E y \in S : /\ y.version = x.version
                                       /\ y.filter = x.filter
                                       /\ y.value = x.value
  BY DEF Aged, Entry

\* Every step keeps the types, whatever the faults.
LEMMA TypeStep == ASSUME TypeOK, [Next]_vars
                  PROVE  TypeOK'
  <1> USE CacheConstants DEF TypeOK, ReaderPc, WriterPc, Goto, Retry,
                             readerVars, redisVars
  <1>1. ASSUME NEW r \in Readers, BeginRead(r)
        PROVE  TypeOK'
    BY <1>1 DEF BeginRead
  <1>2. ASSUME NEW r \in Readers, LookupVersion(r)
        PROVE  TypeOK'
    BY <1>2 DEF LookupVersion, UseVersion
  <1>3. ASSUME NEW r \in Readers, InitVersion(r)
        PROVE  TypeOK'
    BY <1>3 DEF InitVersion
  <1>4. ASSUME NEW r \in Readers, ReloadVersion(r)
        PROVE  TypeOK'
    BY <1>4 DEF ReloadVersion, UseVersion
  <1>5. ASSUME NEW r \in Readers, LookupFails(r)
        PROVE  TypeOK'
    BY <1>5 DEF LookupFails, UseVersion
  <1>6. ASSUME NEW r \in Readers, CacheHit(r)
        PROVE  TypeOK'
    BY <1>6 DEF CacheHit, Cached, Entry
  <1>7. ASSUME NEW r \in Readers, CacheMiss(r)
        PROVE  TypeOK'
    BY <1>7 DEF CacheMiss
  <1>8. ASSUME NEW r \in Readers, ReadDatabase(r)
        PROVE  TypeOK'
    BY <1>8 DEF ReadDatabase
  <1>9. ASSUME NEW r \in Readers, SetPayload(r)
        PROVE  TypeOK'
    <2>1. [version |-> version[r], filter |-> filter[r],
           value |-> value[r], ttl |-> Ttl] \in Entry
      BY DEF Entry
    <2>2. entries' \in SUBSET Entry
      BY <1>9, <2>1 DEF SetPayload
    <2>3. QED
      BY <1>9, <2>2 DEF SetPayload
  <1>10. ASSUME NEW r \in Readers, SetFails(r)
         PROVE  TypeOK'
    BY <1>10 DEF SetFails
  <1>11. ASSUME NEW r \in Readers, Respond(r) \/ DatabaseFails(r)
         PROVE  TypeOK'
    BY <1>11 DEF Respond, DatabaseFails, Forget
  <1>12. ASSUME NEW w \in Writers, Commit(w)
         PROVE  TypeOK'
    <2>1. present' \in BOOLEAN
      BY <1>12, Zenon DEF Commit
    <2>2. QED
      BY <1>12, <2>1 DEF Commit
  <1>13. ASSUME NEW w \in Writers,
                BumpVersion(w) \/ BumpFails(w)
         PROVE  TypeOK'
    BY <1>13 DEF BumpVersion, BumpFails, Acknowledge
  <1>14. ASSUME NEW w \in Writers, WriterCrashes(w)
         PROVE  TypeOK'
    BY <1>14 DEF WriterCrashes
  <1>15. CASE Tick
    BY <1>15, AgedType DEF Tick
  <1>16. CASE SaveSnapshot \/ Restart
    BY <1>16 DEF SaveSnapshot, Restart
  <1>17. CASE UNCHANGED vars
    BY <1>17 DEF vars
  <1>18. QED
    BY <1>1, <1>2, <1>3, <1>4, <1>5, <1>6, <1>7, <1>8, <1>9, <1>10, <1>11,
       <1>12, <1>13, <1>14, <1>15, <1>16, <1>17 DEF Next, Read, Write

\* Every reachable state is well typed, under every set of faults.
THEOREM TypeCorrect == Spec => []TypeOK
  <1>1. Init => TypeOK
    BY CacheConstants DEF Init, TypeOK, ReaderPc, WriterPc
  <1>2. TypeOK /\ [Next]_vars => TypeOK'
    BY TypeStep
  <1>3. QED
    BY <1>1, <1>2, PTL DEF Spec

\* While the faults are benign, every step preserves CacheInv.
LEMMA CacheInvPreserved ==
  ASSUME Faults \subseteq BenignFaults, TypeOK, CacheInv, [Next]_vars
  PROVE  CacheInv'
  <1> USE CacheConstants DEF BenignFaults, CacheInv, Versioned, Holding,
                             ReadsAreRegular, Goto, Retry, readerVars,
                             redisVars
  <1>0. TypeOK'
    BY TypeStep
  <1>1. ASSUME NEW r \in Readers, BeginRead(r)
        PROVE  CacheInv'
    BY <1>0, <1>1 DEF BeginRead, TypeOK, Entry
  <1>2. ASSUME NEW r \in Readers, LookupVersion(r)
        PROVE  CacheInv'
    BY <1>0, <1>2 DEF LookupVersion, UseVersion, TypeOK, Entry
  <1>3. ASSUME NEW r \in Readers, InitVersion(r)
        PROVE  CacheInv'
    BY <1>0, <1>3 DEF InitVersion, TypeOK, Entry
  <1>4. ASSUME NEW r \in Readers, ReloadVersion(r)
        PROVE  CacheInv'
    BY <1>0, <1>4 DEF ReloadVersion, UseVersion, TypeOK, Entry
  <1>5. ASSUME NEW r \in Readers, CacheHit(r)
        PROVE  CacheInv'
    BY <1>0, <1>5 DEF CacheHit, Cached, TypeOK, Entry
  <1>6. ASSUME NEW r \in Readers, CacheMiss(r)
        PROVE  CacheInv'
    BY <1>0, <1>6 DEF CacheMiss, Cached, TypeOK, Entry
  <1>7. ASSUME NEW r \in Readers, ReadDatabase(r)
        PROVE  CacheInv'
    BY <1>0, <1>7 DEF ReadDatabase, TypeOK, Entry
  <1>8. ASSUME NEW r \in Readers, SetPayload(r)
        PROVE  CacheInv'
    BY <1>0, <1>8 DEF SetPayload, Cached, TypeOK, Entry
  <1>9. ASSUME NEW r \in Readers, SetFails(r)
        PROVE  CacheInv'
    BY <1>0, <1>9 DEF SetFails, TypeOK, Entry
  <1>10. ASSUME NEW r \in Readers, Respond(r) \/ DatabaseFails(r)
         PROVE  CacheInv'
    BY <1>0, <1>10 DEF Respond, DatabaseFails, Forget, TypeOK, Entry
  <1>11. ASSUME NEW w \in Writers, Commit(w)
         PROVE  CacheInv'
    BY <1>0, <1>11 DEF Commit, TypeOK, Entry
  <1>12. ASSUME NEW w \in Writers, BumpVersion(w)
         PROVE  CacheInv'
    BY <1>0, <1>12 DEF BumpVersion, Acknowledge, TypeOK, Entry
  <1>13. ASSUME NEW w \in Writers, WriterCrashes(w)
         PROVE  CacheInv'
    BY <1>0, <1>13 DEF WriterCrashes, TypeOK, Entry
  <1>14. CASE Tick
    BY <1>0, <1>14, AgedKeeps DEF Tick, TypeOK, Entry
  <1>15. CASE UNCHANGED vars
    BY <1>15 DEF vars
  <1>16. QED
    BY <1>1, <1>2, <1>3, <1>4, <1>5, <1>6, <1>7, <1>8, <1>9, <1>10, <1>11, <1>12, <1>13, <1>14, <1>15
       DEF Next, Read, Write, LookupFails, BumpFails, SaveSnapshot, Restart

LEMMA CacheInvInitial == Init => CacheInv
  BY CacheConstants
     DEF Init, CacheInv, Versioned, Holding, ReadsAreRegular

\* The invariant of the cached view: what is stored, or about to be stored,
\* under the newest version reflects every acknowledged write, as long as version
\* lookups and bumps reach Redis and Redis keeps its state.
THEOREM CacheInvariant ==
  ASSUME Faults \subseteq BenignFaults
  PROVE  Spec => []CacheInv
  <1>1. TypeOK /\ CacheInv /\ [Next]_vars => CacheInv'
    BY CacheInvPreserved
  <1>2. QED
    BY CacheInvInitial, <1>1, TypeCorrect, PTL DEF Spec

\* The freshness of cached reads: no interleaving of reads, fills, commits and
\* bumps answers with content older than what was acknowledged when the read
\* began.
THEOREM Freshness ==
  ASSUME Faults \subseteq BenignFaults
  PROVE  Spec => []ReadsAreRegular
  <1>1. CacheInv => ReadsAreRegular
    BY DEF CacheInv
  <1>2. QED
    BY <1>1, CacheInvariant, PTL

-------------------------------------------------------------------------------
\* A step of the cached view is a step of the regular register, or none.
LEMMA RegularStep ==
  ASSUME Faults \subseteq BenignFaults, TypeOK, CacheInv, [Next]_vars
  PROVE  [Regular!Next]_Regular!vars
  <1> USE CacheConstants DEF Goto, Retry, readerVars, redisVars
  <1>1. ASSUME NEW r \in Readers, BeginRead(r)
        PROVE  Regular!Begin(r)
    BY <1>1 DEF BeginRead, Regular!Begin, TypeOK
  <1>2. ASSUME NEW r \in Readers, Respond(r) \/ DatabaseFails(r)
        PROVE  Regular!End(r)
    BY <1>2 DEF Respond, DatabaseFails, Forget, Regular!End, TypeOK
  <1>3. ASSUME NEW r \in Readers,
               CacheHit(r) \/ SetPayload(r) \/ SetFails(r),
               Goto(r, "respond")
        PROVE  Regular!Answer(r)
    <2>1. value'[r] \in floor[r]..commits /\ pc'[r] = "respond"
      BY <1>3 DEF CacheHit, SetPayload, SetFails, Cached, TypeOK, CacheInv,
                  Versioned, Holding, Entry
    <2>2. UNCHANGED <<commits, acked, floor>>
      BY <1>3 DEF CacheHit, SetPayload, SetFails
    <2>3. pc[r] \in {"get", "set"}
      BY <1>3 DEF CacheHit, SetPayload, SetFails
    <2>4. /\ pc' = [pc EXCEPT ![r] = "respond"]
          /\ \A q \in Readers \ {r} : value'[q] = value[q]
      BY <1>3 DEF CacheHit, SetPayload, SetFails, TypeOK
    <2>5. /\ \A q \in Readers \ {r} : pc'[q] = pc[q]
          /\ pc[r] \notin {"idle", "respond"}
      BY <2>3, <2>4 DEF TypeOK
    <2>6. [q \in Readers |-> IF pc'[q] = "respond" THEN value'[q] ELSE 0]
            = [[q \in Readers |-> IF pc[q] = "respond" THEN value[q] ELSE 0]
                 EXCEPT ![r] = value'[r]]
      BY <2>1, <2>4, <2>5
    <2>7. QED
      BY <2>1, <2>2, <2>3, <2>4, <2>5, <2>6 DEF Regular!Answer, TypeOK
  <1>4. ASSUME NEW r \in Readers, ReadDatabase(r)
        PROVE  Regular!Answer(r) \/ UNCHANGED Regular!vars
    <2>1. /\ value' = [value EXCEPT ![r] = commits]
          /\ UNCHANGED <<commits, acked, floor>>
          /\ pc[r] = "read"
          /\ commits \in floor[r]..commits
      BY <1>4 DEF ReadDatabase, TypeOK, CacheInv
    <2>2. CASE pc' = [pc EXCEPT ![r] = "set"]
      BY <2>1, <2>2 DEF Regular!vars, TypeOK
    <2>3. CASE pc' = [pc EXCEPT ![r] = "respond"]
      <3>1. Regular!Answer(r)
        BY <2>1, <2>3 DEF Regular!Answer, TypeOK
      <3>2. QED
        BY <3>1
    <2>4. QED
      BY <1>4, <2>2, <2>3 DEF ReadDatabase
  <1>5. ASSUME NEW r \in Readers,
               \/ LookupVersion(r) \/ InitVersion(r) \/ ReloadVersion(r)
               \/ CacheMiss(r)
               \/ SetPayload(r) /\ Retry(r)
        PROVE  UNCHANGED Regular!vars
    BY <1>5 DEF LookupVersion, InitVersion, ReloadVersion, UseVersion,
                CacheMiss, SetPayload, Regular!vars, TypeOK
  <1>6. ASSUME NEW w \in Writers, Commit(w)
        PROVE  Regular!Commit
    BY <1>6 DEF Commit, Regular!Commit, TypeOK
  <1>7. ASSUME NEW w \in Writers, BumpVersion(w)
        PROVE  Regular!Acknowledge \/ UNCHANGED Regular!vars
    BY <1>7 DEF BumpVersion, Acknowledge, Regular!Acknowledge,
                Regular!vars, TypeOK, CacheInv
  <1>8. ASSUME NEW w \in Writers, WriterCrashes(w)
        PROVE  UNCHANGED Regular!vars
    BY <1>8 DEF WriterCrashes, Regular!vars, TypeOK
  <1>9. CASE Tick
    BY <1>9 DEF Tick, Regular!vars
  <1>10. CASE UNCHANGED vars
    BY <1>10 DEF vars, Regular!vars
  <1>11. QED
    BY <1>1, <1>2, <1>3, <1>4, <1>5, <1>6, <1>7, <1>8, <1>9, <1>10
       DEF Next, Read, Write, BenignFaults, LookupFails, BumpFails,
           CacheHit, SetPayload, SetFails, SaveSnapshot, Restart, Regular!Next

\* Caching is invisible: under benign faults the cached view implements the
\* regular register its clients are promised.
THEOREM CacheRefinesRegularReads ==
  ASSUME Faults \subseteq BenignFaults
  PROVE  Spec => ImplementsRegularReads
  <1>1. Init => Regular!Init
    BY CacheConstants DEF Init, Regular!Init
  <1>2. TypeOK /\ CacheInv /\ [Next]_vars => [Regular!Next]_Regular!vars
    BY RegularStep
  <1>3. TypeOK /\ CacheInv /\ [Next]_vars => CacheInv'
    BY CacheInvPreserved
  <1>4. QED
    BY CacheInvInitial, <1>1, <1>2, <1>3, TypeCorrect, PTL
       DEF Spec, ImplementsRegularReads, Regular!Spec
===============================================================================
