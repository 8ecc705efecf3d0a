------------------------- MODULE ConnectionPoolProofs -------------------------
(***************************************************************************)
(* Proofs about ConnectionPool: for any number of workers, any pool and    *)
(* any limits, requests are answered and connections come back in time,    *)
(* and failures are answered for what caused them.                         *)
(***************************************************************************)
EXTENDS ConnectionPool, TLAPS, FiniteSetTheorems

Steps == RedisCalls \cup Transactions

\* What a request is made of: a connection that it keeps beyond a statement is
\* kept through calls of Redis only, as many as CallsHolding says, and versions
\* are looked up by the first three steps of a read.
WellFormed(o, p) ==
  /\ p \in Seq(Steps) /\ p # <<>>
  /\ \A i \in 1 .. Len(p) : p[i] \in VersionCalls => o = "read" /\ i <= 3
  /\ \A i \in 1 .. Len(p) : p[i] \in {"select", "refresh"} =>
       /\ Len(p) - i <= CallsHolding(o)
       /\ \A j \in i + 1 .. Len(p) : p[j] \in RedisCalls
  /\ o = "read" => /\ Len(p) = 6 /\ p[4] = "get" /\ p[5] = "select"
                   /\ p[6] = "set"

LEMMA StaffBumpsNat == StaffBumps \in Nat
  BY PoolConstants DEF StaffBumps

\* A few steps, and bumps.
LEMMA ManyBumps ==
  ASSUME NEW n \in Nat, NEW pre \in Seq(Steps)
  PROVE  /\ pre \o Bumps(n) \in Seq(Steps) /\ Len(pre \o Bumps(n)) = Len(pre) + n
         /\ \A i \in 1 .. Len(pre) : (pre \o Bumps(n))[i] = pre[i]
         /\ \A i \in Len(pre) + 1 .. Len(pre) + n : (pre \o Bumps(n))[i] = "bump"
  <1>1. Bumps(n) \in Seq(Steps) /\ Len(Bumps(n)) = n
        /\ \A i \in 1 .. n : Bumps(n)[i] = "bump"
    BY DEF Bumps, Steps, RedisCalls
  <1>2. pre \o Bumps(n) \in Seq(Steps) /\ Len(pre \o Bumps(n)) = Len(pre) + n
    BY <1>1
  <1>3. \A i \in 1 .. Len(pre) : (pre \o Bumps(n))[i] = pre[i]
    BY <1>1
  <1>4. ASSUME NEW i \in Len(pre) + 1 .. Len(pre) + n
        PROVE  (pre \o Bumps(n))[i] = "bump"
    <2>1. i - Len(pre) \in 1 .. n /\ (pre \o Bumps(n))[i] = Bumps(n)[i - Len(pre)]
      BY <1>1
    <2>2. QED
      BY <1>1, <2>1
  <1>5. QED
    BY <1>2, <1>3, <1>4

LEMMA NoEmptyProgram == ASSUME NEW p \in Seq(Steps), Len(p) > 0 PROVE p # <<>>
  OBVIOUS

\* The operations by name.
LEMMA ProgramsOf ==
  /\ Operations = {"read", "ready", "writeEmployee", "moveEmployee", "deleteEmployee",
                   "deleteStaff", "createCafe", "updateCafe", "deleteCafe"}
  /\ Program("read") = ReadProgram
  /\ Program("ready") = ReadyProgram
  /\ Program("createCafe") = <<"transaction", "refresh", "bump">>
  /\ Program("updateCafe") = <<"transaction", "refresh">> \o Bumps(2 + StaffBumps)
  /\ Program("deleteCafe") = <<"transaction">> \o Bumps(2 + StaffBumps)
  /\ Program("writeEmployee") = <<"transaction">> \o Bumps(2) \o <<"select">>
  /\ Program("moveEmployee") = <<"transaction">> \o Bumps(3) \o <<"select">>
  /\ Program("deleteEmployee") = <<"transaction">> \o Bumps(2)
  /\ Program("deleteStaff") = <<"transaction">> \o Bumps(3)
  <1>1. DOMAIN CafePrograms = {"createCafe", "updateCafe", "deleteCafe"}
    BY DEF CafePrograms
  <1>2. DOMAIN EmployeePrograms
          = {"writeEmployee", "moveEmployee", "deleteEmployee", "deleteStaff"}
    BY DEF EmployeePrograms
  <1>3. Program("read") = ReadProgram /\ Program("ready") = ReadyProgram
    BY <1>1, <1>2 DEF Program
  <1>4. \A o \in DOMAIN CafePrograms : Program(o) = CafePrograms[o]
    BY <1>1 DEF Program
  <1>5. \A o \in DOMAIN EmployeePrograms : Program(o) = EmployeePrograms[o]
    BY <1>1, <1>2 DEF Program
  <1>6. QED
    BY <1>1, <1>2, <1>3, <1>4, <1>5 DEF Operations, CafePrograms, EmployeePrograms

LEMMA ProgramsAreWellFormed ==
  ASSUME NEW o \in Operations
  PROVE  WellFormed(o, Program(o))
  <1>1. CASE o = "read"
    <2> DEFINE p == ReadProgram
    <2>1. p \in Seq(Steps) /\ Len(p) = 6
      BY DEF ReadProgram, Steps, RedisCalls, VersionCalls, Transactions
    <2>2. /\ p[1] = "lookup" /\ p[2] = "init" /\ p[3] = "reload" /\ p[4] = "get"
          /\ p[5] = "select" /\ p[6] = "set"
      BY DEF ReadProgram
    <2>3. CallsHolding(o) = 1
      BY <1>1 DEF CallsHolding
    <2> HIDE DEF p
    <2>4. \A i \in 1 .. Len(p) : i \in {1, 2, 3, 4, 5, 6}
      BY <2>1
    <2>5. WellFormed(o, p)
      BY <1>1, <2>1, <2>2, <2>3, <2>4, NoEmptyProgram DEF WellFormed, RedisCalls, VersionCalls
    <2>6. QED
      BY <1>1, <2>5, ProgramsOf DEF p
  <1>2. CASE o = "ready"
    <2> DEFINE p == ReadyProgram
    <2>1. p \in Seq(Steps) /\ Len(p) = 2
      BY DEF ReadyProgram, Steps, RedisCalls, VersionCalls, Transactions
    <2>2. p[1] = "probe" /\ p[2] = "ping"
      BY DEF ReadyProgram
    <2> HIDE DEF p
    <2>3. \A i \in 1 .. Len(p) : i \in {1, 2}
      BY <2>1
    <2>4. WellFormed(o, p)
      BY <1>2, <2>1, <2>2, <2>3 DEF WellFormed, VersionCalls
    <2>5. QED
      BY <1>2, <2>4, ProgramsOf DEF p
  <1>3. CASE o = "createCafe"
    <2> DEFINE p == <<"transaction", "refresh", "bump">>
    <2>1. p \in Seq(Steps) /\ Len(p) = 3
      BY DEF Steps, RedisCalls, VersionCalls, Transactions
    <2>2. p[1] = "transaction" /\ p[2] = "refresh" /\ p[3] = "bump"
      OBVIOUS
    <2>3. CallsHolding(o) = 1
      BY <1>3 DEF CallsHolding
    <2> HIDE DEF p
    <2>4. \A i \in 1 .. Len(p) : i \in {1, 2, 3}
      BY <2>1
    <2>5. WellFormed(o, p)
      BY <1>3, <2>1, <2>2, <2>3, <2>4, NoEmptyProgram DEF WellFormed, RedisCalls, VersionCalls
    <2>6. QED
      BY <1>3, <2>5, ProgramsOf DEF p
  <1>4. ASSUME o # "read", NEW n \in Nat, Program(o) = <<"transaction">> \o Bumps(n)
        PROVE  WellFormed(o, Program(o))
    <2> DEFINE p == Program(o)
               pre == <<"transaction">>
    <2>1. pre \in Seq(Steps) /\ Len(pre) = 1 /\ pre[1] = "transaction"
      BY DEF Steps, Transactions
    <2> HIDE DEF p, pre
    <2>2. p = pre \o Bumps(n)
      BY <1>4 DEF p, pre
    <2>3. p \in Seq(Steps) /\ Len(p) = 1 + n /\ p[1] = "transaction"
          /\ \A i \in 2 .. 1 + n : p[i] = "bump"
      <3>1. /\ p \in Seq(Steps) /\ Len(p) = Len(pre) + n
            /\ \A i \in 1 .. Len(pre) : p[i] = pre[i]
            /\ \A i \in Len(pre) + 1 .. Len(pre) + n : p[i] = "bump"
        BY <1>4, <2>1, <2>2, ManyBumps
      <3>2. QED
        BY <2>1, <3>1
    <2>4. \A i \in 1 .. Len(p) : p[i] \in {"transaction", "bump"}
      BY <2>3
    <2>5. WellFormed(o, p)
      BY <1>4, <2>3, <2>4, NoEmptyProgram DEF WellFormed, VersionCalls
    <2>6. QED
      BY <2>5 DEF p
  <1>5. ASSUME o \in {"writeEmployee", "moveEmployee"}, NEW n \in Nat,
               Program(o) = <<"transaction">> \o Bumps(n) \o <<"select">>
        PROVE  WellFormed(o, Program(o))
    <2> DEFINE p == Program(o)
               pre == <<"transaction">>
               q == pre \o Bumps(n)
    <2>1. pre \in Seq(Steps) /\ Len(pre) = 1 /\ pre[1] = "transaction"
          /\ "select" \in Steps
      BY DEF Steps, Transactions
    <2>2. p = q \o <<"select">>
      BY <1>5
    <2>3. q = pre \o Bumps(n)
      OBVIOUS
    <2> HIDE DEF p, pre, q
    <2>4. q \in Seq(Steps) /\ Len(q) = 1 + n /\ q[1] = "transaction"
          /\ \A i \in 2 .. 1 + n : q[i] = "bump"
      <3>1. /\ q \in Seq(Steps) /\ Len(q) = Len(pre) + n
            /\ \A i \in 1 .. Len(pre) : q[i] = pre[i]
            /\ \A i \in Len(pre) + 1 .. Len(pre) + n : q[i] = "bump"
        BY <1>5, <2>1, <2>3, ManyBumps
      <3>2. QED
        BY <2>1, <3>1
    <2>5. /\ p \in Seq(Steps) /\ Len(p) = 2 + n
          /\ \A i \in 1 .. 1 + n : p[i] = q[i]
          /\ p[2 + n] = "select"
      BY <2>1, <2>2, <2>4
    <2>6. \A i \in 1 .. Len(p) : p[i] \in {"transaction", "bump"} \/ i = Len(p)
      BY <2>4, <2>5
    <2>7. CallsHolding(o) = 0
      BY <1>5 DEF CallsHolding
    <2>8. WellFormed(o, p)
      <3>1. p \in Seq(Steps) /\ p # <<>> /\ o # "read"
        BY <1>5, <2>5, NoEmptyProgram
      <3>2. \A i \in 1 .. Len(p) : p[i] \notin VersionCalls
        BY <2>5, <2>6 DEF VersionCalls
      <3>3. ASSUME NEW i \in 1 .. Len(p), p[i] \in {"select", "refresh"}
            PROVE  /\ Len(p) - i <= CallsHolding(o)
                   /\ \A j \in i + 1 .. Len(p) : p[j] \in RedisCalls
        BY <2>5, <2>6, <2>7, <3>3
      <3>4. QED
        BY <3>1, <3>2, <3>3 DEF WellFormed
    <2>9. QED
      BY <2>8 DEF p
  <1>6. CASE o = "updateCafe"
    <2> DEFINE n == 2 + StaffBumps
               p == Program(o)
               pre == <<"transaction", "refresh">>
    <2>1. pre \in Seq(Steps) /\ Len(pre) = 2
          /\ pre[1] = "transaction" /\ pre[2] = "refresh"
      BY DEF Steps, Transactions
    <2>2. n \in Nat /\ CallsHolding(o) = n
      BY <1>6, StaffBumpsNat DEF CallsHolding
    <2>3. p = pre \o Bumps(n)
      BY <1>6, ProgramsOf
    <2> HIDE DEF p, pre, n
    <2>4. p \in Seq(Steps) /\ Len(p) = 2 + n
          /\ p[1] = "transaction" /\ p[2] = "refresh"
          /\ \A i \in 3 .. 2 + n : p[i] = "bump"
      <3>1. /\ p \in Seq(Steps) /\ Len(p) = Len(pre) + n
            /\ \A i \in 1 .. Len(pre) : p[i] = pre[i]
            /\ \A i \in Len(pre) + 1 .. Len(pre) + n : p[i] = "bump"
        BY <2>1, <2>2, <2>3, ManyBumps
      <3>2. QED
        BY <2>1, <3>1
    <2>5. \A i \in 1 .. Len(p) :
            \/ i = 1 /\ p[i] = "transaction"
            \/ i = 2 /\ p[i] = "refresh"
            \/ i > 2 /\ p[i] = "bump"
      BY <2>2, <2>4
    <2>6. WellFormed(o, p)
      BY <1>6, <2>2, <2>4, <2>5, NoEmptyProgram DEF WellFormed, VersionCalls, RedisCalls
    <2>7. QED
      BY <2>6 DEF p
  <1>7. 2 + StaffBumps \in Nat /\ 2 \in Nat /\ 3 \in Nat
    BY StaffBumpsNat
  <1>8. QED
    BY <1>1, <1>2, <1>3, <1>4, <1>5, <1>6, <1>7, ProgramsOf

-----------------------------------------------------------------------------
(* Sums of times                                                           *)

LEMMA Products ==
  ASSUME NEW a \in Nat, NEW b \in Nat, NEW c \in Nat
  PROVE  a * c \in Nat /\ (a + 1) * c = a * c + c /\ (a <= b => a * c <= b * c)
  <1>1. a * c \in Nat /\ (a + 1) * c = a * c + c
    OBVIOUS
  <1>2. ASSUME a <= b
        PROVE  a * c <= b * c
    <2> DEFINE d == b - a
    <2>1. d \in Nat /\ b = a + d
      BY <1>2
    <2> HIDE DEF d
    <2>2. b * c = a * c + d * c /\ d * c \in Nat /\ a * c \in Nat
      BY <2>1
    <2>3. QED
      BY <2>2
  <1>3. QED
    BY <1>1, <1>2

LEMMA CallTimes ==
  /\ CallTime \in Nat /\ TransactionTime \in Nat
  /\ \A n \in 0 .. MaxAttempts - 1 : /\ n * AttemptTimeout \in Nat
                                     /\ n * AttemptTimeout + AttemptTimeout <= CallTime
  /\ \A n \in Nat : /\ n * CallTime \in Nat
                    /\ (n + 1) * CallTime = n * CallTime + CallTime
  <1>1. MaxAttempts \in Nat /\ AttemptTimeout \in Nat /\ PoolTimeout \in Nat
        /\ TransactionTimeout \in Nat
    BY PoolConstants
  <1>2. CallTime \in Nat /\ TransactionTime \in Nat
    BY <1>1, Products DEF CallTime, TransactionTime
  <1>3. ASSUME NEW n \in 0 .. MaxAttempts - 1
        PROVE  /\ n * AttemptTimeout \in Nat
               /\ n * AttemptTimeout + AttemptTimeout <= CallTime
    <2>1. n \in Nat /\ n + 1 \in Nat /\ n + 1 <= MaxAttempts
      BY <1>1
    <2>2. (n + 1) * AttemptTimeout <= MaxAttempts * AttemptTimeout
      BY <1>1, <2>1, Products
    <2>3. n * AttemptTimeout \in Nat
          /\ (n + 1) * AttemptTimeout = n * AttemptTimeout + AttemptTimeout
      BY <1>1, <2>1, Products
    <2>4. QED
      BY <2>2, <2>3 DEF CallTime
  <1>4. QED
    BY <1>2, <1>3, Products

LEMMA OneMoreStep ==
  ASSUME NEW o, NEW n \in Nat, NEW kinds
  PROVE  /\ StepsAmong(o, n, kinds) \in Nat
         /\ StepsAmong(o, n + 1, kinds)
              = IF Program(o)[n + 1] \in kinds THEN StepsAmong(o, n, kinds) + 1
                                               ELSE StepsAmong(o, n, kinds)
  <1> DEFINE S == {i \in 1 .. n : Program(o)[i] \in kinds}
             T == {i \in 1 .. n + 1 : Program(o)[i] \in kinds}
  <1>1. IsFiniteSet(S) /\ Cardinality(S) \in Nat
    BY FS_Interval, FS_Subset, FS_CardinalityType, 1 \in Int, n \in Int, S \subseteq 1 .. n
  <1>2. T = IF Program(o)[n + 1] \in kinds THEN S \cup {n + 1} ELSE S
    OBVIOUS
  <1>3. n + 1 \notin S
    OBVIOUS
  <1>4. Cardinality(T)
          = IF Program(o)[n + 1] \in kinds THEN Cardinality(S) + 1 ELSE Cardinality(S)
    <2> HIDE DEF S, T
    <2>1. QED
      BY <1>1, <1>2, <1>3, FS_AddElement
  <1>5. QED
    BY <1>1, <1>4 DEF StepsAmong

LEMMA MoreSteps ==
  ASSUME NEW o, NEW m \in Nat, NEW n \in Nat, m <= n, NEW kinds
  PROVE  StepsAmong(o, m, kinds) <= StepsAmong(o, n, kinds)
  <1> DEFINE S == {i \in 1 .. m : Program(o)[i] \in kinds}
             T == {i \in 1 .. n : Program(o)[i] \in kinds}
  <1>1. IsFiniteSet(T)
    BY FS_Interval, FS_Subset, 1 \in Int, n \in Int, T \subseteq 1 .. n
  <1>2. S \subseteq T
    OBVIOUS
  <1>3. Cardinality(S) <= Cardinality(T)
    BY <1>1, <1>2, FS_Subset
  <1>4. QED
    BY <1>3 DEF StepsAmong

\* The time for a request's first steps, the next of which adds its own.
LEMMA TimesAddUp ==
  ASSUME NEW o, NEW n \in Nat
  PROVE  /\ TimeFor(o, n) \in Nat
         /\ Program(o)[n + 1] \in RedisCalls
              => TimeFor(o, n + 1) = TimeFor(o, n) + CallTime
         /\ Program(o)[n + 1] \in Transactions
              => TimeFor(o, n + 1) = TimeFor(o, n) + TransactionTime
         /\ \A m \in Nat : m <= n => TimeFor(o, m) <= TimeFor(o, n)
  <1> DEFINE calls(k) == StepsAmong(o, k, RedisCalls)
             others(k) == StepsAmong(o, k, Transactions)
  <1>1. CallTime \in Nat /\ TransactionTime \in Nat
    BY CallTimes
  <1>2. \A k \in Nat : calls(k) \in Nat /\ others(k) \in Nat
    BY OneMoreStep
  <1>3. \A k \in Nat : TimeFor(o, k) = calls(k) * CallTime + others(k) * TransactionTime
    BY DEF TimeFor
  <1>4. \A s \in RedisCalls : s \notin Transactions
    BY DEF RedisCalls, VersionCalls, Transactions
  <1>5. Program(o)[n + 1] \in RedisCalls => calls(n + 1) = calls(n) + 1 /\ others(n + 1) = others(n)
    BY <1>4, OneMoreStep
  <1>6. Program(o)[n + 1] \in Transactions => calls(n + 1) = calls(n) /\ others(n + 1) = others(n) + 1
    BY <1>4, OneMoreStep
  <1>7. \A m \in Nat : m <= n => calls(m) <= calls(n) /\ others(m) <= others(n)
    BY MoreSteps
  <1> HIDE DEF calls, others
  <1>8. \A k \in Nat : /\ calls(k) * CallTime \in Nat
                       /\ others(k) * TransactionTime \in Nat
    BY <1>1, <1>2, Products
  <1>9. /\ (calls(n) + 1) * CallTime = calls(n) * CallTime + CallTime
        /\ (others(n) + 1) * TransactionTime = others(n) * TransactionTime + TransactionTime
    BY <1>1, <1>2, Products
  <1>10. ASSUME NEW m \in Nat, m <= n
         PROVE  TimeFor(o, m) <= TimeFor(o, n)
    <2>1. /\ calls(m) * CallTime <= calls(n) * CallTime
          /\ others(m) * TransactionTime <= others(n) * TransactionTime
      BY <1>1, <1>2, <1>7, <1>10, Products
    <2>2. QED
      BY <1>3, <1>8, <2>1
  <1>11. TimeFor(o, n) \in Nat
    BY <1>3, <1>8
  <1>12. Program(o)[n + 1] \in RedisCalls => TimeFor(o, n + 1) = TimeFor(o, n) + CallTime
    BY <1>1, <1>3, <1>5, <1>8, <1>9, n + 1 \in Nat
  <1>13. Program(o)[n + 1] \in Transactions
           => TimeFor(o, n + 1) = TimeFor(o, n) + TransactionTime
    BY <1>1, <1>3, <1>6, <1>8, <1>9, n + 1 \in Nat
  <1>14. QED
    BY <1>10, <1>11, <1>12, <1>13

-----------------------------------------------------------------------------
(* What the steps of a worker come to                                      *)

Causes == OutOfReach \cup OtherCauses

Keeps == UNCHANGED <<holds, links, held>>

\* The request goes on with `rest', which is not empty.
MovesTo(w, rest) ==
  /\ rest # <<>>
  /\ todo' = [todo EXCEPT ![w] = rest]
  /\ tries' = [tries EXCEPT ![w] = 0]
  /\ spent' = [spent EXCEPT ![w] = 0]
  /\ UNCHANGED <<op, answer, age, met>>

\* The call of Redis is attempted again.
Retries(w) ==
  /\ Calling(w) /\ tries[w] + 1 < MaxAttempts
  /\ tries' = [tries EXCEPT ![w] = @ + 1]
  /\ spent' = [spent EXCEPT ![w] = 0]
  /\ UNCHANGED <<op, todo, holds, links, answer, age, held, met>>

\* A call of Redis is over and something is left to be done.
CallIsOver(w) ==
  /\ Calling(w) /\ Keeps
  /\ \/ MovesTo(w, Tail(todo[w]))
     \/ Step(w) \in VersionCalls /\ MovesTo(w, AfterLookup)

\* So is a transaction.
TransactionIsOver(w) ==
  /\ InTransaction(w) /\ MovesTo(w, Tail(todo[w]))
  /\ IF Step(w) \in {"select", "refresh"} THEN Keeps ELSE GiveBack(w)

LEMMA CallsEnd ==
  ASSUME NEW w \in Workers, RedisAnswers(w) \/ AttemptFails(w)
  PROVE  CallIsOver(w) \/ Retries(w) \/ Answer(w, "replied", {})
  <1>1. ASSUME NEW rest, GoOn(w, rest, TRUE)
        PROVE  (MovesTo(w, rest) /\ Keeps) \/ Answer(w, "replied", {})
    BY <1>1 DEF GoOn, MovesTo, Keeps
  <1>2. CASE RedisAnswers(w)
    <2>1. CASE GoOn(w, Tail(todo[w]), TRUE)
      BY <1>1, <1>2, <2>1 DEF RedisAnswers, CallIsOver
    <2>2. CASE Step(w) = "lookup" /\ GoOn(w, AfterLookup, TRUE)
      BY <1>1, <1>2, <2>2 DEF RedisAnswers, CallIsOver, VersionCalls
    <2>3. QED
      BY <1>2, <2>1, <2>2 DEF RedisAnswers
  <1>3. CASE AttemptFails(w)
    <2>1. CASE FailOpen(w)
      <3>1. CASE Step(w) \in VersionCalls
        BY <1>1, <1>3, <2>1, <3>1 DEF AttemptFails, FailOpen, CallIsOver
      <3>2. CASE Step(w) \notin VersionCalls
        BY <1>1, <1>3, <2>1, <3>2 DEF AttemptFails, FailOpen, CallIsOver
      <3>3. QED
        BY <3>1, <3>2
    <2>2. QED
      BY <1>3, <2>1 DEF AttemptFails, Retries
  <1>4. QED
    BY <1>2, <1>3

LEMMA TransactionsEnd ==
  ASSUME NEW w \in Workers, StatementsSucceed(w)
  PROVE  TransactionIsOver(w) \/ Answer(w, "replied", {})
  <1>1. CASE Tail(todo[w]) = <<>>
    BY <1>1 DEF StatementsSucceed, GoOn
  <1>2. CASE Tail(todo[w]) # <<>> /\ Step(w) \in {"select", "refresh"}
    BY <1>2 DEF StatementsSucceed, Served, GoOn, MovesTo, TransactionIsOver, Keeps
  <1>3. CASE Tail(todo[w]) # <<>> /\ Step(w) \notin {"select", "refresh"}
    BY <1>3 DEF StatementsSucceed, Served, GoOn, MovesTo, TransactionIsOver, Keeps
  <1>4. QED
    BY <1>1, <1>2, <1>3

\* A failure is answered as one of the database by what `met' then has.
Explains(a, reasons) ==
  /\ a = "unavailable" => reasons \cap OutOfReach # {}
  /\ a = "error" => reasons \cap OtherCauses # {}

\* What has happened to the database while a request runs is known to it.
CausesMet ==
  \A w \in Workers :
    Busy(w) => /\ Trouble \subseteq met[w]
               /\ w \in lost => "outage" \in met[w]

LEMMA HowFailuresAreAnswered ==
  /\ Status("pool") = "unavailable" /\ Status("lost") = "unavailable"
  /\ Status("cancelled") = "unavailable" /\ Status("refused") = "unavailable"
  /\ Status("timeout") = "unavailable" /\ Status("deadlock") = "error"
  /\ Status("closed") = "error" /\ Status("full") = "error"
  <1>1. /\ SqlState("deadlock") = "40P01" /\ SqlState("closed") = "57P03"
        /\ SqlState("full") = "53300"
    BY DEF SqlState
  <1>2. /\ Classified("pool") /\ Classified("lost") /\ Classified("cancelled")
        /\ Classified("refused") /\ Classified("timeout") /\ ~Classified("deadlock")
        /\ ~Classified("closed") /\ ~Classified("full")
    BY <1>1 DEF Classified, Marked
  <1>3. QED
    BY <1>2 DEF Status

\* Whoever ends a request with a failure has a cause for it.
LEMMA FailuresHaveCauses ==
  ASSUME NEW w \in Workers, CausesMet, met[w] \subseteq Causes,
         \/ PoolRefuses(w) \/ RaceIsLost(w)
         \/ StatementFails(w) \/ ConnectionFails(w)
  PROVE  \E a \in Failed : \E reasons \in SUBSET Causes :
           Answer(w, a, reasons) /\ Explains(a, met[w] \cup reasons)
  <1> USE DEF Failed, Causes, OutOfReach, OtherCauses
  <1>1. CASE PoolRefuses(w)
    <2>1. Answer(w, "unavailable", {"pool"})
      BY <1>1, HowFailuresAreAnswered DEF PoolRefuses, FailsWith
    <2>2. Explains("unavailable", met[w] \cup {"pool"})
      BY DEF Explains
    <2>3. QED
      BY <2>1, <2>2
  <1>2. CASE StatementFails(w)
    <2>1. \/ Answer(w, "unavailable", {"failure"})
          \/ Answer(w, "error", {"race"})
      BY <1>2, HowFailuresAreAnswered DEF StatementFails, FailsWith
    <2>2. /\ Explains("unavailable", met[w] \cup {"failure"})
          /\ Explains("error", met[w] \cup {"race"})
      BY DEF Explains
    <2>3. QED
      BY <2>1, <2>2
  <1>3. CASE ConnectionFails(w)
    <2>1. Trouble \subseteq met[w] /\ (w \in lost => "outage" \in met[w])
      BY <1>3 DEF CausesMet, ConnectionFails, InTransaction
    <2>2. CASE w \in lost /\ FailsWith(w, "lost", {})
      <3>1. Answer(w, "unavailable", {})
        BY <2>2, HowFailuresAreAnswered DEF FailsWith
      <3>2. Explains("unavailable", met[w] \cup {})
        BY <2>1, <2>2 DEF Explains
      <3>3. QED
        BY <3>1, <3>2
    <2>3. CASE database = "down" /\ FailsWith(w, "refused", {})
      <3>1. Answer(w, "unavailable", {})
        BY <2>3, HowFailuresAreAnswered DEF FailsWith
      <3>2. "outage" \in met[w]
        BY <2>1, <2>3 DEF Trouble
      <3>3. Explains("unavailable", met[w] \cup {})
        BY <3>2 DEF Explains
      <3>4. QED
        BY <3>1, <3>3
    <2>4. CASE database = "closed" /\ FailsWith(w, "closed", {})
      <3>1. Answer(w, "error", {})
        BY <2>4, HowFailuresAreAnswered DEF FailsWith
      <3>2. "closed" \in met[w]
        BY <2>1, <2>4 DEF Trouble
      <3>3. Explains("error", met[w] \cup {})
        BY <2>4, <3>2 DEF Explains
      <3>4. QED
        BY <3>1, <3>3
    <2>5. CASE \/ FailsWith(w, "full", {"closed"})
               \/ FailsWith(w, "timeout", {"failure"})
      <3>1. Answer(w, "error", {"closed"}) \/ Answer(w, "unavailable", {"failure"})
        BY <2>5, HowFailuresAreAnswered DEF FailsWith
      <3>2. /\ Explains("error", met[w] \cup {"closed"})
            /\ Explains("unavailable", met[w] \cup {"failure"})
        BY DEF Explains
      <3>3. QED
        BY <3>1, <3>2
    <2>6. QED
      BY <1>3, <2>2, <2>3, <2>4, <2>5 DEF ConnectionFails
  <1>4. CASE RaceIsLost(w)
    <2>1. Answer(w, "error", {"race"}) /\ Explains("error", met[w] \cup {"race"})
      BY <1>4 DEF RaceIsLost, Explains
    <2>2. QED
      BY <2>1
  <1>5. QED
    BY <1>1, <1>2, <1>3, <1>4

-----------------------------------------------------------------------------
(* Types                                                                   *)

Answers == {"none", "replied"} \cup Failed

LEMMA TypesAtFirst == Init => TypeOK
  <1> SUFFICES ASSUME Init PROVE TypeOK
    OBVIOUS
  <1>1. 0 \in 0 .. MaxAttempts - 1 /\ Cardinality({}) <= PoolSize
    BY PoolConstants, FS_EmptySet
  <1>2. <<>> \in Seq(RedisCalls \cup Transactions)
    OBVIOUS
  <1>3. tries \in [Workers -> 0 .. MaxAttempts - 1]
    BY <1>1 DEF Init
  <1>4. todo \in [Workers -> Seq(RedisCalls \cup Transactions)]
        /\ \A w \in Workers : (todo[w] = <<>>) = (op[w] = "idle")
    BY <1>2 DEF Init
  <1>5. /\ op \in [Workers -> Operations \cup {"idle"}]
        /\ spent \in [Workers -> Nat] /\ age \in [Workers -> Nat]
        /\ held \in [Workers -> Nat]
        /\ answer \in [Workers -> {"none", "replied"} \cup Failed]
        /\ met \in [Workers -> SUBSET Causes]
    BY DEF Init
  <1>6. QED
    BY <1>1, <1>3, <1>4, <1>5 DEF Init, TypeOK, Causes

LEMMA FewerHolders ==
  ASSUME TypeOK, NEW S, S \subseteq holds
  PROVE  Cardinality(S) <= PoolSize
  <1>1. IsFiniteSet(holds) /\ IsFiniteSet(S)
    BY PoolConstants, FS_Subset DEF TypeOK
  <1>2. Cardinality(S) <= Cardinality(holds)
    BY <1>1, FS_Subset
  <1>3. QED
    BY <1>1, <1>2, FS_CardinalityType, PoolConstants DEF TypeOK

LEMMA RestOfARequest ==
  ASSUME TypeOK, NEW w \in Workers, Busy(w)
  PROVE  /\ op[w] \in Operations /\ todo[w] \in Seq(Steps) /\ todo[w] # <<>>
         /\ Step(w) = todo[w][1] /\ Step(w) \in Steps
         /\ Tail(todo[w]) \in Seq(Steps)
         /\ Len(todo[w]) \in Nat \ {0} /\ Len(Tail(todo[w])) = Len(todo[w]) - 1
         /\ \A i \in 1 .. Len(todo[w]) - 1 : Tail(todo[w])[i] = todo[w][i + 1]
  <1>1. op[w] \in Operations /\ todo[w] \in Seq(Steps) /\ todo[w] # <<>>
    BY DEF TypeOK, Busy, Steps
  <1>2. QED
    BY <1>1 DEF Step

LEMMA AnswerTypes ==
  ASSUME TypeOK, NEW w \in Workers, NEW a \in Answers, NEW reasons \in SUBSET Causes,
         Answer(w, a, reasons)
  PROVE  TypeOK'
  <1>1. /\ op' \in [Workers -> Operations \cup {"idle"}]
        /\ todo' \in [Workers -> Seq(RedisCalls \cup Transactions)]
        /\ \A v \in Workers : (todo'[v] = <<>>) = (op'[v] = "idle")
    BY DEF TypeOK, Answer
  <1>2. /\ tries' \in [Workers -> 0 .. MaxAttempts - 1] /\ spent' \in [Workers -> Nat]
        /\ age' \in [Workers -> Nat] /\ held' \in [Workers -> Nat]
        /\ answer' \in [Workers -> {"none", "replied"} \cup Failed]
    BY PoolConstants DEF TypeOK, Answer, GiveBack, Answers
  <1>3. /\ holds' \subseteq Workers /\ dialing' \subseteq holds' /\ lost' \subseteq holds'
        /\ dialing' \cap lost' = {}
    BY DEF TypeOK, Answer, GiveBack
  <1>4. Cardinality(holds') <= PoolSize
    BY FewerHolders DEF Answer, GiveBack
  <1>5. met' \in [Workers -> SUBSET Causes]
    BY DEF TypeOK, Answer, Causes
  <1>6. database' \in {"up", "down", "closed"} /\ stale' \in BOOLEAN
    BY DEF TypeOK, Answer, GiveBack
  <1>7. QED
    BY <1>1, <1>2, <1>3, <1>4, <1>5, <1>6 DEF TypeOK, Causes

LEMMA MovesTypes ==
  ASSUME TypeOK, NEW w \in Workers, Busy(w), NEW rest \in Seq(Steps), MovesTo(w, rest),
         Keeps \/ GiveBack(w)
  PROVE  TypeOK'
  <1>1. /\ op' \in [Workers -> Operations \cup {"idle"}]
        /\ todo' \in [Workers -> Seq(RedisCalls \cup Transactions)]
        /\ \A v \in Workers : (todo'[v] = <<>>) = (op'[v] = "idle")
    BY DEF TypeOK, MovesTo, Busy, Steps
  <1>2. /\ tries' \in [Workers -> 0 .. MaxAttempts - 1] /\ spent' \in [Workers -> Nat]
        /\ age' \in [Workers -> Nat] /\ held' \in [Workers -> Nat]
        /\ answer' \in [Workers -> {"none", "replied"} \cup Failed]
    <2>1. tries' \in [Workers -> 0 .. MaxAttempts - 1] /\ spent' \in [Workers -> Nat]
      BY PoolConstants DEF TypeOK, MovesTo
    <2>2. held' \in [Workers -> Nat]
      BY DEF TypeOK, GiveBack, Keeps
    <2>3. QED
      BY <2>1, <2>2 DEF TypeOK, MovesTo
  <1>3. /\ holds' \subseteq Workers /\ dialing' \subseteq holds' /\ lost' \subseteq holds'
        /\ dialing' \cap lost' = {}
    BY DEF TypeOK, GiveBack, Keeps, links
  <1>4. Cardinality(holds') <= PoolSize
    BY FewerHolders DEF GiveBack, Keeps
  <1>5. met' \in [Workers -> SUBSET Causes]
    BY DEF TypeOK, MovesTo, Causes
  <1>6. database' \in {"up", "down", "closed"} /\ stale' \in BOOLEAN
    BY DEF TypeOK, GiveBack, Keeps, links
  <1>7. QED
    BY <1>1, <1>2, <1>3, <1>4, <1>5, <1>6 DEF TypeOK, Causes

LEMMA BeginTypes ==
  ASSUME TypeOK, NEW w \in Workers, NEW o \in Operations, Begin(w, o)
  PROVE  TypeOK'
  <1>1. Program(o) \in Seq(Steps) /\ Program(o) # <<>> /\ o # "idle"
    BY ProgramsAreWellFormed, ProgramsOf DEF WellFormed
  <1>2. /\ op' \in [Workers -> Operations \cup {"idle"}]
        /\ todo' \in [Workers -> Seq(RedisCalls \cup Transactions)]
        /\ \A v \in Workers : (todo'[v] = <<>>) = (op'[v] = "idle")
    BY <1>1 DEF TypeOK, Begin, Steps
  <1>3. answer' \in [Workers -> {"none", "replied"} \cup Failed]
    BY DEF TypeOK, Begin
  <1>4. met' \in [Workers -> SUBSET Causes]
    <2>1. Trouble \in SUBSET Causes
      BY DEF Trouble, Causes, OutOfReach, OtherCauses, TypeOK
    <2>2. QED
      BY <2>1 DEF TypeOK, Begin, Causes
  <1>5. UNCHANGED <<tries, spent, holds, links, age, held>>
    BY DEF Begin
  <1>6. QED
    BY <1>2, <1>3, <1>4, <1>5 DEF TypeOK, Causes, links

LEMMA CheckoutTypes ==
  ASSUME TypeOK, NEW w \in Workers, Checkout(w)
  PROVE  TypeOK'
  <1>1. w \notin holds /\ Cardinality(holds) < PoolSize /\ holds' = holds \cup {w}
    BY DEF Checkout, Waiting
  <1>2. Cardinality(holds') <= PoolSize
    <2>1. IsFiniteSet(holds)
      BY PoolConstants, FS_Subset DEF TypeOK
    <2>2. Cardinality(holds') = Cardinality(holds) + 1 /\ Cardinality(holds) \in Nat
      BY <1>1, <2>1, FS_AddElement, FS_CardinalityType
    <2>3. QED
      BY <1>1, <2>2, PoolConstants
  <1>3. /\ holds' \subseteq Workers /\ dialing' \subseteq holds' /\ lost' \subseteq holds'
        /\ dialing' \cap lost' = {}
    <2>1. dialing' \subseteq dialing \cup {w} /\ lost' = lost
      BY DEF Checkout
    <2>2. QED
      BY <1>1, <2>1 DEF TypeOK
  <1>4. spent' \in [Workers -> Nat] /\ stale' \in BOOLEAN
    BY DEF TypeOK, Checkout
  <1>5. UNCHANGED <<op, todo, tries, database, answer, age, held, met>>
    BY DEF Checkout
  <1>6. QED
    BY <1>2, <1>3, <1>4, <1>5 DEF TypeOK

LEMMA TickTypes == TypeOK /\ Tick => TypeOK'
  <1> SUFFICES ASSUME TypeOK, Tick PROVE TypeOK'
    OBVIOUS
  <1>1. /\ spent' \in [Workers -> Nat] /\ age' \in [Workers -> Nat]
        /\ held' \in [Workers -> Nat]
    <2>1. spent' \in [Workers -> Nat]
      BY DEF TypeOK, Tick
    <2>2. age' \in [Workers -> Nat]
      BY DEF TypeOK, Tick
    <2>3. held' \in [Workers -> Nat]
      BY DEF TypeOK, Tick
    <2>4. QED
      BY <2>1, <2>2, <2>3
  <1>2. UNCHANGED <<op, todo, tries, holds, links, answer, met>>
    BY DEF Tick
  <1>3. QED
    BY <1>1, <1>2 DEF TypeOK, links

\* The steps of the database.
DatabaseSteps ==
  DatabaseStops \/ DatabaseIsDown \/ DatabaseStarts \/ DatabaseIsUp

LEMMA DatabaseTypes == TypeOK /\ DatabaseSteps => TypeOK'
  <1> SUFFICES ASSUME TypeOK, DatabaseSteps PROVE TypeOK'
    OBVIOUS
  <1>1. UNCHANGED <<op, todo, tries, spent, holds, dialing, answer, age, held>>
    BY DEF DatabaseSteps, DatabaseStops, DatabaseIsDown, DatabaseStarts,
         DatabaseIsUp
  <1>2. database' \in {"up", "down", "closed"} /\ stale' \in BOOLEAN
        /\ lost' \subseteq holds /\ dialing \cap lost' = {}
    BY DEF TypeOK, DatabaseSteps, DatabaseStops, DatabaseIsDown, DatabaseStarts,
         DatabaseIsUp
  <1>3. met' \in [Workers -> SUBSET Causes]
    <2>1. ASSUME NEW reasons \in SUBSET Causes, Meet(reasons)
          PROVE  met' \in [Workers -> SUBSET Causes]
      <3>1. met \in [Workers -> SUBSET Causes]
        BY DEF TypeOK, Causes
      <3>2. ASSUME NEW w \in Workers
            PROVE  (IF Busy(w) THEN met[w] \cup reasons ELSE met[w]) \in SUBSET Causes
        BY <3>1
      <3>3. QED
        BY <2>1, <3>2 DEF Meet
    <2>2. \/ Meet({"outage"}) \/ Meet({"outage", "closed"}) \/ Meet({"closed"})
          \/ met' = met
      BY DEF DatabaseSteps, DatabaseStops, DatabaseIsDown, DatabaseStarts,
         DatabaseIsUp
    <2>3. QED
      BY <2>1, <2>2 DEF TypeOK, Causes, OutOfReach, OtherCauses
  <1>4. QED
    BY <1>1, <1>2, <1>3 DEF TypeOK, Causes

LEMMA OthersTypes ==
  ASSUME TypeOK,
         UNCHANGED <<op, todo, tries, spent, holds, database, lost, stale, answer, age,
                     held, met>>,
         dialing' \subseteq dialing
  PROVE  TypeOK'
  <1>1. dialing' \subseteq holds' /\ dialing' \cap lost' = {}
    BY DEF TypeOK
  <1>2. QED
    BY <1>1 DEF TypeOK

LEMMA RetryTypes ==
  ASSUME TypeOK, NEW w \in Workers, Retries(w)
  PROVE  TypeOK'
  <1>1. tries' \in [Workers -> 0 .. MaxAttempts - 1] /\ spent' \in [Workers -> Nat]
    BY PoolConstants DEF TypeOK, Retries
  <1>2. UNCHANGED <<op, todo, holds, links, answer, age, held, met>>
    BY DEF Retries
  <1>3. QED
    BY <1>1, <1>2 DEF TypeOK, links

LEMMA CallIsOverTypes ==
  ASSUME TypeOK, NEW w \in Workers, CallIsOver(w)
  PROVE  TypeOK'
  <1>1. Busy(w)
    BY DEF CallIsOver, Calling
  <1>2. Tail(todo[w]) \in Seq(Steps) /\ AfterLookup \in Seq(Steps)
    BY <1>1, RestOfARequest DEF AfterLookup, Steps, RedisCalls, Transactions
  <1>3. QED
    BY <1>1, <1>2, MovesTypes DEF CallIsOver

LEMMA TransactionIsOverTypes ==
  ASSUME TypeOK, NEW w \in Workers, TransactionIsOver(w)
  PROVE  TypeOK'
  <1>1. Busy(w) /\ Tail(todo[w]) \in Seq(Steps)
    BY RestOfARequest DEF TransactionIsOver, InTransaction
  <1>2. QED
    BY <1>1, MovesTypes DEF TransactionIsOver

-----------------------------------------------------------------------------
(* Failures and their causes                                               *)

HoldersAreBusy == \A w \in holds : Busy(w)

Blamed == TypeOK /\ HoldersAreBusy /\ CausesMet /\ AnswersFitTheCause

LEMMA BlamedAtFirst == Init => Blamed
  BY TypesAtFirst DEF Init, Blamed, HoldersAreBusy, CausesMet, AnswersFitTheCause, Busy

LEMMA AnswerIsBlamed ==
  ASSUME Blamed, NEW w \in Workers, NEW a \in {"replied"} \cup Failed,
         NEW reasons \in SUBSET Causes, Answer(w, a, reasons),
         Explains(a, met[w] \cup reasons)
  PROVE  Blamed'
  <1>1. TypeOK'
    BY AnswerTypes DEF Blamed, Answers
  <1>2. op'[w] = "idle" /\ answer'[w] = a
        /\ (a \in Failed => met'[w] = met[w] \cup reasons)
    BY DEF Blamed, TypeOK, Answer
  <1>3. \A v \in Workers \ {w} : /\ op'[v] = op[v] /\ met'[v] = met[v]
                                 /\ answer'[v] = answer[v]
    BY DEF Blamed, TypeOK, Answer
  <1>4. holds' = holds \ {w} /\ lost' = lost \ {w} /\ database' = database
    BY DEF Answer, GiveBack
  <1>5. HoldersAreBusy'
    BY <1>3, <1>4 DEF Blamed, TypeOK, HoldersAreBusy, Busy
  <1>6. CausesMet'
    <2> SUFFICES ASSUME NEW v \in Workers, Busy(v)'
                 PROVE  Trouble' \subseteq met'[v] /\ (v \in lost' => "outage" \in met'[v])
      BY DEF CausesMet
    <2>1. v # w
      BY <1>2 DEF Busy
    <2>2. Busy(v)
      BY <1>3, <2>1 DEF Busy
    <2>3. Trouble' = Trouble
      BY <1>4 DEF Trouble
    <2>4. QED
      BY <1>3, <1>4, <2>1, <2>2, <2>3 DEF Blamed, CausesMet
  <1>7. AnswersFitTheCause'
    <2> SUFFICES ASSUME NEW v \in Workers
                 PROVE  /\ answer'[v] = "unavailable"
                             => met'[v] \cap OutOfReach # {}
                        /\ answer'[v] = "error"
                             => met'[v] \cap OtherCauses # {}
      BY DEF AnswersFitTheCause
    <2>1. CASE v = w
      BY <1>2, <2>1 DEF Explains, Failed
    <2>2. CASE v # w
      BY <1>3, <2>2 DEF Blamed, AnswersFitTheCause
    <2>3. QED
      BY <2>1, <2>2
  <1>8. QED
    BY <1>1, <1>5, <1>6, <1>7 DEF Blamed

\* A step that starts and ends no request and is none of the database.
LEMMA GoingOnIsBlamed ==
  ASSUME Blamed, TypeOK', UNCHANGED <<op, met, answer, database>>,
         \A v \in holds' : v \in holds \/ Busy(v), lost' \subseteq lost
  PROVE  Blamed'
  <1>1. Trouble' = Trouble
    BY DEF Trouble
  <1>2. \A v \in Workers : Busy(v)' = Busy(v)
    BY DEF Busy
  <1>3. holds' \subseteq Workers
    BY DEF TypeOK
  <1>4. HoldersAreBusy'
    BY <1>2, <1>3 DEF Blamed, HoldersAreBusy
  <1>5. CausesMet'
    BY <1>1, <1>2 DEF Blamed, CausesMet
  <1>6. AnswersFitTheCause'
    BY DEF Blamed, AnswersFitTheCause
  <1>7. QED
    BY <1>4, <1>5, <1>6 DEF Blamed

LEMMA BeginIsBlamed ==
  ASSUME Blamed, NEW w \in Workers, NEW o \in Operations, Begin(w, o)
  PROVE  Blamed'
  <1>1. TypeOK'
    BY BeginTypes DEF Blamed
  <1>2. op'[w] # "idle" /\ answer'[w] = "none" /\ met'[w] = Trouble
    BY ProgramsOf DEF Blamed, TypeOK, Begin
  <1>3. \A v \in Workers \ {w} : /\ op'[v] = op[v] /\ met'[v] = met[v]
                                 /\ answer'[v] = answer[v]
    BY DEF Blamed, TypeOK, Begin
  <1>4. holds' = holds /\ lost' = lost /\ database' = database
    BY DEF Begin, links
  <1>5. Trouble' = Trouble
    BY <1>4 DEF Trouble
  <1>6. w \notin lost
    BY DEF Blamed, TypeOK, HoldersAreBusy, Begin
  <1>7. HoldersAreBusy'
    BY <1>2, <1>3, <1>4 DEF Blamed, TypeOK, HoldersAreBusy, Busy
  <1>8. CausesMet'
    <2> SUFFICES ASSUME NEW v \in Workers, Busy(v)'
                 PROVE  Trouble' \subseteq met'[v] /\ (v \in lost' => "outage" \in met'[v])
      BY DEF CausesMet
    <2>1. CASE v = w
      BY <1>2, <1>4, <1>5, <1>6, <2>1
    <2>2. CASE v # w
      BY <1>3, <1>4, <1>5, <2>2 DEF Blamed, CausesMet, Busy
    <2>3. QED
      BY <2>1, <2>2
  <1>9. AnswersFitTheCause'
    <2> SUFFICES ASSUME NEW v \in Workers
                 PROVE  /\ answer'[v] = "unavailable"
                             => met'[v] \cap OutOfReach # {}
                        /\ answer'[v] = "error"
                             => met'[v] \cap OtherCauses # {}
      BY DEF AnswersFitTheCause
    <2>1. CASE v = w
      BY <1>2, <2>1
    <2>2. CASE v # w
      BY <1>3, <2>2 DEF Blamed, AnswersFitTheCause
    <2>3. QED
      BY <2>1, <2>2
  <1>10. QED
    BY <1>1, <1>7, <1>8, <1>9 DEF Blamed

LEMMA DatabaseIsBlamed == Blamed /\ DatabaseSteps => Blamed'
  <1> SUFFICES ASSUME Blamed, DatabaseSteps PROVE Blamed'
    OBVIOUS
  <1>1. TypeOK'
    BY DatabaseTypes DEF Blamed
  <1>2. UNCHANGED <<op, holds, answer>>
    BY DEF DatabaseSteps, DatabaseStops, DatabaseIsDown, DatabaseStarts,
         DatabaseIsUp
  <1>3. \A v \in Workers : met[v] \subseteq met'[v] /\ Busy(v)' = Busy(v)
    <2>1. ASSUME NEW reasons, Meet(reasons)
          PROVE  \A v \in Workers : met[v] \subseteq met'[v]
      BY <2>1 DEF Meet
    <2>2. \/ Meet({"outage"}) \/ Meet({"outage", "closed"}) \/ Meet({"closed"})
          \/ met' = met
      BY DEF DatabaseSteps, DatabaseStops, DatabaseIsDown, DatabaseStarts,
         DatabaseIsUp
    <2>3. QED
      BY <1>2, <2>1, <2>2 DEF Busy
  <1>4. HoldersAreBusy'
    BY <1>2, <1>3 DEF Blamed, TypeOK, HoldersAreBusy
  <1>5. ASSUME NEW v \in Workers, Busy(v)
        PROVE  Trouble' \subseteq met'[v] /\ (v \in lost' => "outage" \in met'[v])
    <2>1. CASE DatabaseStops
      <3>1. CASE database' = "down"
        <4>1. met'[v] = met[v] \cup {"outage"} /\ Trouble' = {"outage"}
          BY <1>5, <2>1, <3>1 DEF DatabaseStops, Meet, Trouble
        <4>2. QED
          BY <4>1
      <3>2. CASE database' = "closed"
        <4>1. met'[v] = met[v] \cup {"outage", "closed"} /\ Trouble' = {"outage", "closed"}
          BY <1>5, <2>1, <3>2 DEF DatabaseStops, Meet, Trouble
        <4>2. QED
          BY <4>1
      <3>3. QED
        BY <2>1, <3>1, <3>2 DEF DatabaseStops
    <2>2. CASE DatabaseStarts
      <3>1. met'[v] = met[v] \cup {"closed"} /\ Trouble' = {"outage", "closed"}
            /\ Trouble = {"outage"} /\ lost' = lost
        BY <1>5, <2>2 DEF DatabaseStarts, Meet, Trouble
      <3>2. QED
        BY <1>5, <3>1 DEF Blamed, CausesMet
    <2>3. CASE DatabaseIsUp
      <3>1. met'[v] = met[v] /\ Trouble' = {} /\ lost' = lost
        BY <2>3 DEF DatabaseIsUp, Trouble
      <3>2. QED
        BY <1>5, <3>1 DEF Blamed, CausesMet
    <2>4. CASE DatabaseIsDown
      <3>1. /\ met'[v] = met[v] /\ Trouble' = {"outage"} /\ lost' = lost
            /\ Trouble = {"outage", "closed"}
        BY <2>4 DEF DatabaseIsDown, Trouble
      <3>2. QED
        BY <1>5, <3>1 DEF Blamed, CausesMet
    <2>5. QED
      BY <2>1, <2>2, <2>3, <2>4 DEF DatabaseSteps
  <1>6. CausesMet'
    BY <1>3, <1>5 DEF CausesMet
  <1>7. AnswersFitTheCause'
    BY <1>2, <1>3 DEF Blamed, AnswersFitTheCause
  <1>8. QED
    BY <1>1, <1>4, <1>6, <1>7 DEF Blamed

\* The steps of one worker that neither begin nor end its request.
WorksOn(w) ==
  CallIsOver(w) \/ TransactionIsOver(w) \/ Retries(w) \/ Checkout(w) \/ Connect(w)

\* All that can happen.
LEMMA NextSteps ==
  ASSUME Blamed, Next
  PROVE  \/ \E w \in Workers :
              \/ \E o \in Operations : Begin(w, o)
              \/ \E a \in {"replied"} \cup Failed : \E reasons \in SUBSET Causes :
                   Answer(w, a, reasons) /\ Explains(a, met[w] \cup reasons)
              \/ WorksOn(w)
         \/ DatabaseSteps
         \/ Tick
  <1>1. \A w \in Workers : Explains("replied", met[w] \cup {})
    BY DEF Explains
  <1>2. CausesMet /\ \A w \in Workers : met[w] \subseteq Causes
    BY DEF Blamed, TypeOK, Causes
  <1>3. ASSUME NEW w \in Workers,
               \/ RedisAnswers(w) \/ AttemptFails(w)
               \/ Checkout(w) \/ Connect(w) \/ PoolRefuses(w)
               \/ StatementsSucceed(w) \/ Rejected(w) \/ RaceIsLost(w)
               \/ StatementFails(w) \/ ConnectionFails(w)
        PROVE  \/ \E a \in {"replied"} \cup Failed : \E reasons \in SUBSET Causes :
                    Answer(w, a, reasons) /\ Explains(a, met[w] \cup reasons)
               \/ WorksOn(w)
    <2>1. CASE RedisAnswers(w) \/ AttemptFails(w)
      BY <1>1, <2>1, CallsEnd DEF WorksOn
    <2>2. CASE StatementsSucceed(w)
      BY <1>1, <2>2, TransactionsEnd DEF WorksOn
    <2>3. CASE Rejected(w)
      BY <1>1, <2>3 DEF Rejected
    <2>4. CASE \/ PoolRefuses(w) \/ RaceIsLost(w)
               \/ StatementFails(w) \/ ConnectionFails(w)
      BY <1>2, <2>4, FailuresHaveCauses
    <2>5. CASE Checkout(w) \/ Connect(w)
      BY <2>5 DEF WorksOn
    <2>6. QED
      BY <1>3, <2>1, <2>2, <2>3, <2>4, <2>5
  <1>4. QED
    BY <1>3 DEF Next, DatabaseSteps

LEMMA WorksOnTypes ==
  ASSUME TypeOK, NEW w \in Workers, WorksOn(w)
  PROVE  TypeOK'
  <1>1. CASE Connect(w)
    <2>1. dialing' \subseteq dialing
      BY <1>1 DEF Connect
    <2>2. QED
      BY <1>1, <2>1, OthersTypes DEF Connect
  <1>2. QED
    BY <1>1, CallIsOverTypes, TransactionIsOverTypes, RetryTypes, CheckoutTypes DEF WorksOn

LEMMA WorksOnIsBlamed ==
  ASSUME Blamed, NEW w \in Workers, WorksOn(w)
  PROVE  Blamed'
  <1>1. TypeOK'
    BY WorksOnTypes DEF Blamed
  <1>2. UNCHANGED <<op, met, answer, database>> /\ lost' \subseteq lost
        /\ \A v \in holds' : v \in holds \/ (v = w /\ Busy(w))
    <2>1. CASE CallIsOver(w)
      BY <2>1 DEF CallIsOver, MovesTo, Keeps, links
    <2>2. CASE TransactionIsOver(w)
      <3>1. UNCHANGED <<op, met, answer>> /\ (Keeps \/ GiveBack(w))
        BY <2>2 DEF TransactionIsOver, MovesTo
      <3>2. CASE Keeps
        BY <3>1, <3>2 DEF Keeps, links
      <3>3. CASE GiveBack(w)
        BY <3>1, <3>3 DEF GiveBack
      <3>4. QED
        BY <3>1, <3>2, <3>3
    <2>3. CASE Retries(w)
      BY <2>3 DEF Retries, links
    <2>4. CASE Checkout(w)
      BY <2>4 DEF Checkout, Waiting
    <2>5. CASE Connect(w)
      BY <2>5 DEF Connect
    <2>6. QED
      BY <2>1, <2>2, <2>3, <2>4, <2>5 DEF WorksOn
  <1>3. QED
    BY <1>1, <1>2, GoingOnIsBlamed

LEMMA BlamedStep == Blamed /\ [Next]_vars => Blamed'
  <1> SUFFICES ASSUME Blamed, [Next]_vars PROVE Blamed'
    OBVIOUS
  <1>1. CASE UNCHANGED vars
    <2>1. TypeOK'
      BY <1>1 DEF Blamed, TypeOK, vars, links
    <2>2. UNCHANGED <<op, met, answer, database, holds, lost>>
      BY <1>1 DEF vars, links
    <2>3. QED
      BY <2>1, <2>2, GoingOnIsBlamed
  <1>2. CASE Next
    <2>1. CASE Tick
      <3>1. TypeOK' /\ UNCHANGED <<op, met, answer, database, holds, lost>>
        BY <2>1, TickTypes DEF Blamed, Tick, links
      <3>2. QED
        BY <3>1, GoingOnIsBlamed
    <2>2. QED
      BY <1>2, <2>1, NextSteps, BeginIsBlamed, AnswerIsBlamed, WorksOnIsBlamed,
         DatabaseIsBlamed
  <1>3. QED
    BY <1>1, <1>2

LEMMA BlamedInvariant == Spec => []Blamed
  BY BlamedAtFirst, BlamedStep, PTL DEF Spec

\* The state keeps its types, and no more sessions have a connection than the pool
\* allows, whatever fails.
THEOREM TypesCorrect == Spec => []TypeOK
  <1>1. Blamed => TypeOK
    BY DEF Blamed
  <1>2. QED
    BY <1>1, BlamedInvariant, PTL

\* What a request is told of a failure is what it met: 503 for a database or a
\* pool that could not be had in time; 500 for a deadlock, a lost race, or a
\* database that stops, starts or has no connection left and says so.
THEOREM FailuresFitTheirCause == Spec => []AnswersFitTheCause
  <1>1. Blamed => AnswersFitTheCause
    BY DEF Blamed
  <1>2. QED
    BY <1>1, BlamedInvariant, PTL

\* No failure of Redis and no stale connection of the pool is ever the reason of a
\* failed request.
THEOREM RedisCostsNoAnswer == Spec => []FailsOpen
  <1>1. Blamed => FailsOpen
    BY DEF Blamed, FailsOpen, AnswersFitTheCause, Failed
  <1>2. QED
    BY <1>1, BlamedInvariant, PTL

-----------------------------------------------------------------------------
(* Time                                                                    *)

\* How far a request has come, and that the rest is that of its program.
At(w) == Len(Program(op[w])) - Len(todo[w])

OnProgram(w) ==
  /\ Len(todo[w]) <= Len(Program(op[w]))
  /\ \A i \in 1 .. Len(todo[w]) : todo[w][i] = Program(op[w])[At(w) + i]

\* What the attempts at the current call of Redis have taken.
CallSoFar(w) == tries[w] * AttemptTimeout + spent[w]

\* What the current step has taken, at most.
StepSoFar(w) ==
  IF Calling(w) THEN CallSoFar(w)
  ELSE IF w \in holds THEN PoolTimeout + spent[w] ELSE spent[w]

\* No step takes longer than it may, and the steps add up.
InPace(w) ==
  /\ spent[w] <= Limit(w)
  /\ Calling(w) \/ tries[w] = 0
  /\ age[w] <= TimeFor(op[w], At(w)) + StepSoFar(w)

\* A connection is kept for a transaction, and then for the calls that follow it.
HoldsInTime(w) ==
  /\ w \notin holds => held[w] = 0
  /\ InTransaction(w) => held[w] = spent[w]
  /\ Calling(w) /\ w \in holds =>
       /\ Len(todo[w]) <= CallsHolding(op[w])
       /\ \A i \in 1 .. Len(todo[w]) : todo[w][i] \in RedisCalls
       /\ held[w] <= TransactionTimeout
                       + (CallsHolding(op[w]) - Len(todo[w])) * CallTime
                       + CallSoFar(w)

AtRest(w) ==
  /\ age[w] = 0 /\ spent[w] = 0 /\ tries[w] = 0 /\ held[w] = 0
  /\ w \notin holds

OnTime(w) ==
  IF Busy(w) THEN OnProgram(w) /\ InPace(w) /\ HoldsInTime(w) ELSE AtRest(w)

Paced == Blamed /\ \A w \in Workers : OnTime(w)

\* The facts about one worker that arithmetic needs.
LEMMA Clocks ==
  ASSUME TypeOK, NEW w \in Workers
  PROVE  /\ spent[w] \in Nat /\ age[w] \in Nat /\ held[w] \in Nat
         /\ tries[w] \in 0 .. MaxAttempts - 1 /\ tries[w] \in Nat
         /\ Limit(w) \in Nat
         /\ PoolTimeout \in Nat /\ TransactionTimeout \in Nat /\ AttemptTimeout \in Nat
         /\ CallSoFar(w) \in Nat /\ StepSoFar(w) \in Nat
  <1>1. /\ spent[w] \in Nat /\ age[w] \in Nat /\ held[w] \in Nat
        /\ tries[w] \in 0 .. MaxAttempts - 1
    BY DEF TypeOK
  <1>2. tries[w] * AttemptTimeout \in Nat
    BY <1>1, CallTimes
  <1>3. QED
    BY <1>1, <1>2, PoolConstants DEF Limit, CallSoFar, StepSoFar

LEMMA ClocksAfter ==
  ASSUME TypeOK', NEW w \in Workers
  PROVE  /\ spent'[w] \in Nat /\ age'[w] \in Nat /\ held'[w] \in Nat
         /\ Limit(w)' \in Nat /\ CallSoFar(w)' \in Nat /\ StepSoFar(w)' \in Nat
  <1>1. /\ spent'[w] \in Nat /\ age'[w] \in Nat /\ held'[w] \in Nat
        /\ tries'[w] \in 0 .. MaxAttempts - 1
    BY DEF TypeOK
  <1>2. tries'[w] * AttemptTimeout \in Nat
    BY <1>1, CallTimes
  <1>3. QED
    BY <1>1, <1>2, PoolConstants DEF Limit, CallSoFar, StepSoFar

LEMMA HoldingNat == \A o \in Operations : CallsHolding(o) \in Nat
  BY StaffBumpsNat DEF CallsHolding

\* The next step of a request, in its program.
LEMMA NextInProgram ==
  ASSUME TypeOK, NEW w \in Workers, Busy(w), OnProgram(w)
  PROVE  /\ op[w] \in Operations /\ WellFormed(op[w], Program(op[w]))
         /\ At(w) \in Nat /\ At(w) + 1 \in 1 .. Len(Program(op[w]))
         /\ Len(todo[w]) = Len(Program(op[w])) - At(w)
         /\ Step(w) = Program(op[w])[At(w) + 1]
  <1>1. op[w] \in Operations /\ Len(todo[w]) \in Nat \ {0} /\ Step(w) = todo[w][1]
    BY RestOfARequest
  <1>2. WellFormed(op[w], Program(op[w])) /\ Len(Program(op[w])) \in Nat
    BY <1>1, ProgramsAreWellFormed, SMTT(30) DEF WellFormed
  <1>3. At(w) \in Nat /\ At(w) + 1 \in 1 .. Len(Program(op[w]))
        /\ Len(todo[w]) = Len(Program(op[w])) - At(w)
    BY <1>1, <1>2 DEF At, OnProgram
  <1>4. Step(w) = Program(op[w])[At(w) + 1]
    BY <1>1 DEF OnProgram
  <1>5. QED
    BY <1>1, <1>2, <1>3, <1>4

\* Nothing that counts changes for a worker.
LEMMA Undisturbed ==
  ASSUME NEW v \in Workers, OnTime(v),
         op'[v] = op[v], todo'[v] = todo[v], tries'[v] = tries[v],
         spent'[v] = spent[v], age'[v] = age[v], held'[v] = held[v],
         (v \in holds') = (v \in holds)
  PROVE  OnTime(v)'
  <1>1. /\ Busy(v)' = Busy(v) /\ Step(v)' = Step(v) /\ At(v)' = At(v)
        /\ CallSoFar(v)' = CallSoFar(v)
    BY DEF Busy, Step, At, CallSoFar
  <1>2. Calling(v)' = Calling(v) /\ InTransaction(v)' = InTransaction(v)
    BY <1>1 DEF Calling, InTransaction
  <1>3. StepSoFar(v)' = StepSoFar(v) /\ Limit(v)' = Limit(v)
    BY <1>1, <1>2 DEF StepSoFar, Limit
  <1>4. OnProgram(v) => OnProgram(v)'
    BY <1>1 DEF OnProgram
  <1>5. InPace(v) => InPace(v)'
    BY <1>1, <1>2, <1>3 DEF InPace
  <1>6. HoldsInTime(v) => HoldsInTime(v)'
    BY <1>1, <1>2 DEF HoldsInTime
  <1>7. AtRest(v) => AtRest(v)'
    BY DEF AtRest
  <1>8. QED
    BY <1>1, <1>4, <1>5, <1>6, <1>7 DEF OnTime

\* A request that has ended a step in time and goes on is on time.
LEMMA MovedOn ==
  ASSUME Blamed, TypeOK', NEW w \in Workers, Busy(w), NEW rest \in Seq(Steps),
         MovesTo(w, rest), OnProgram(w)', age[w] <= TimeFor(op[w], At(w)'),
         w \notin holds' => held'[w] = 0,
         w \in holds' =>
           /\ Len(rest) <= CallsHolding(op[w])
           /\ \A i \in 1 .. Len(rest) : rest[i] \in RedisCalls
           /\ held'[w] <= TransactionTimeout + (CallsHolding(op[w]) - Len(rest)) * CallTime
  PROVE  OnTime(w)'
  <1>1. /\ todo'[w] = rest /\ tries'[w] = 0 /\ spent'[w] = 0
        /\ op'[w] = op[w] /\ age'[w] = age[w] /\ rest # <<>>
    BY DEF MovesTo, Blamed, TypeOK
  <1>2. Busy(w)'
    BY <1>1 DEF Busy
  <1>3. /\ age'[w] \in Nat /\ held'[w] \in Nat /\ Limit(w)' \in Nat
        /\ CallSoFar(w)' \in Nat /\ StepSoFar(w)' \in Nat
        /\ TimeFor(op[w], At(w)') \in Nat
    <2>1. At(w)' \in Nat
      <3>1. op[w] \in Operations
        BY RestOfARequest DEF Blamed
      <3>2. Len(Program(op[w])) \in Nat
        BY <3>1, ProgramsAreWellFormed DEF WellFormed
      <3>3. Len(rest) <= Len(Program(op[w]))
        BY <1>1 DEF OnProgram
      <3>4. QED
        BY <1>1, <3>2, <3>3 DEF At
    <2>2. TimeFor(op[w], At(w)') \in Nat
      BY <2>1, TimesAddUp
    <2>3. QED
      BY <2>2, ClocksAfter
  <1>4. InPace(w)'
    <2>1. spent'[w] <= Limit(w)' /\ tries'[w] = 0
      BY <1>1, <1>3
    <2>2. age'[w] <= TimeFor(op'[w], At(w)') + StepSoFar(w)'
      BY <1>1, <1>3
    <2>3. QED
      BY <2>1, <2>2 DEF InPace
  <1>5. HoldsInTime(w)'
    <2>1. rest[1] = Step(w)'
      BY <1>1 DEF Step
    <2>2. CASE w \in holds'
      <3>1. Step(w)' \in RedisCalls
        BY <1>1, <2>1, <2>2
      <3>2. ~InTransaction(w)'
        BY <3>1 DEF InTransaction, RedisCalls, VersionCalls, Transactions
      <3>3. (CallsHolding(op[w]) - Len(rest)) * CallTime \in Int
        <4>1. CallsHolding(op[w]) - Len(rest) \in Nat
          <5>1. op[w] \in Operations
            BY RestOfARequest DEF Blamed
          <5>2. CallsHolding(op[w]) \in Nat /\ Len(rest) \in Nat
            BY <5>1, HoldingNat
          <5>3. QED
            BY <2>2, <5>2
        <4>2. QED
          BY <4>1, CallTimes
      <3>4. held'[w] <= TransactionTimeout
                          + (CallsHolding(op'[w]) - Len(todo'[w])) * CallTime
                          + CallSoFar(w)'
        BY <1>1, <1>3, <2>2, <3>3, PoolConstants
      <3>5. QED
        BY <1>1, <2>2, <3>2, <3>4 DEF HoldsInTime
    <2>3. CASE w \notin holds'
      BY <2>3 DEF HoldsInTime, InTransaction
    <2>4. QED
      BY <2>2, <2>3
  <1>6. QED
    BY <1>2, <1>4, <1>5 DEF OnTime

LEMMA CallIsOverOnTime ==
  ASSUME Paced, NEW w \in Workers, CallIsOver(w)
  PROVE  OnTime(w)'
  <1>1. /\ Blamed /\ TypeOK /\ TypeOK' /\ Busy(w) /\ Calling(w)
        /\ OnProgram(w) /\ InPace(w) /\ HoldsInTime(w)
    BY CallIsOverTypes DEF Paced, Blamed, CallIsOver, Calling, OnTime
  <1>2. PICK p \in Seq(Steps), k \in Nat, n \in Nat :
          /\ p = Program(op[w]) /\ k = At(w) /\ n = Len(todo[w])
          /\ op[w] \in Operations /\ WellFormed(op[w], p)
          /\ k + 1 \in 1 .. Len(p) /\ n = Len(p) - k /\ n >= 1
          /\ Step(w) = p[k + 1] /\ Step(w) \in RedisCalls /\ Step(w) = todo[w][1]
    <2>1. Program(op[w]) \in Seq(Steps)
      BY <1>1, NextInProgram DEF WellFormed
    <2>2. QED
      BY <1>1, <2>1, NextInProgram, RestOfARequest DEF Calling
  <1>0. Len(p) \in Nat /\ n = Len(p) - k /\ n >= 1
    BY <1>2
  <1>3. op'[w] = op[w] /\ age'[w] = age[w]
        /\ held'[w] = held[w] /\ holds' = holds
    BY DEF CallIsOver, MovesTo, Keeps
  <1>4. /\ age[w] \in Nat /\ held[w] \in Nat /\ CallSoFar(w) \in Nat
        /\ CallSoFar(w) <= CallTime /\ CallTime \in Nat /\ TransactionTimeout \in Nat
    <2>1. /\ spent[w] <= AttemptTimeout /\ tries[w] * AttemptTimeout \in Nat
          /\ tries[w] * AttemptTimeout + AttemptTimeout <= CallTime
      BY <1>1, Clocks, CallTimes DEF InPace, Limit
    <2>2. CallSoFar(w) <= CallTime
      BY <1>1, <2>1, Clocks, CallTimes, SMTT(30) DEF CallSoFar
    <2>3. QED
      BY <1>1, <2>2, Clocks, CallTimes
  <1>5. /\ TimeFor(op[w], k) \in Nat
        /\ TimeFor(op[w], k + 1) = TimeFor(op[w], k) + CallTime
        /\ age[w] <= TimeFor(op[w], k + 1)
    <2>1. age[w] <= TimeFor(op[w], k) + CallSoFar(w)
      BY <1>1, <1>2 DEF InPace, StepSoFar
    <2>2. TimeFor(op[w], k) \in Nat
          /\ TimeFor(op[w], k + 1) = TimeFor(op[w], k) + CallTime
      BY <1>2, TimesAddUp
    <2>3. QED
      BY <1>4, <2>1, <2>2
  <1>6. CASE MovesTo(w, Tail(todo[w]))
    <2>1. PICK rest \in Seq(Steps) :
            /\ rest = Tail(todo[w]) /\ Len(rest) = n - 1
            /\ \A i \in 1 .. n - 1 : rest[i] = todo[w][i + 1]
      BY <1>1, <1>2, RestOfARequest, ZenonT(40)
    <2>0. Len(rest) = n - 1 /\ Len(rest) \in Nat
      BY <1>0, <2>1
    <2>2. todo'[w] = rest
      BY <1>1, <1>6, <2>1 DEF MovesTo, TypeOK
    <2>3. At(w)' = k + 1
      <3>1. Len(p) - Len(rest) = k + 1
        BY <1>0, <2>0
      <3>2. At(w)' = Len(p) - Len(rest)
        BY <1>2, <1>3, <2>2 DEF At
      <3>3. QED
        BY <3>1, <3>2
    <2>4. OnProgram(w)'
      <3>1. Len(rest) <= Len(p)
        BY <1>2, <2>1
      <3>2. ASSUME NEW i \in 1 .. Len(rest)
            PROVE  rest[i] = p[k + 1 + i]
        <4>1. i \in 1 .. n - 1
          BY <2>1
        <4>2. i + 1 \in 1 .. n /\ k + (i + 1) = k + 1 + i
          BY <4>1
        <4>5. rest[i] = todo[w][i + 1]
          BY <2>1, <4>1
        <4>3. todo[w][i + 1] = p[k + (i + 1)]
          BY <1>1, <1>2, <4>2 DEF OnProgram
        <4>4. QED
          BY <4>2, <4>3, <4>5
      <3>3. QED
        BY <1>2, <1>3, <2>2, <2>3, <3>1, <3>2 DEF OnProgram
    <2>5. ASSUME w \in holds'
          PROVE  /\ Len(rest) <= CallsHolding(op[w])
                 /\ \A i \in 1 .. Len(rest) : rest[i] \in RedisCalls
                 /\ held'[w] <= TransactionTimeout
                                  + (CallsHolding(op[w]) - Len(rest)) * CallTime
      <3>1. /\ n <= CallsHolding(op[w]) /\ CallsHolding(op[w]) \in Nat
            /\ \A i \in 1 .. n : todo[w][i] \in RedisCalls
            /\ held[w] <= TransactionTimeout + (CallsHolding(op[w]) - n) * CallTime
                            + CallSoFar(w)
        BY <1>1, <1>2, <1>3, <2>5, HoldingNat DEF HoldsInTime
      <3>2. /\ (CallsHolding(op[w]) - n) * CallTime \in Nat
            /\ (CallsHolding(op[w]) - n + 1) * CallTime
                 = (CallsHolding(op[w]) - n) * CallTime + CallTime
        <4>1. CallsHolding(op[w]) - n \in Nat
          BY <1>2, <3>1
        <4>2. QED
          BY <4>1, CallTimes
      <3>3. CallsHolding(op[w]) - Len(rest) = CallsHolding(op[w]) - n + 1
        <4>1. CallsHolding(op[w]) \in Nat
          BY <3>1
        <4>2. QED
          BY <1>0, <2>0, <4>1
      <3>4. held[w] <= TransactionTimeout + (CallsHolding(op[w]) - n + 1) * CallTime
        <4>1. held[w] <= TransactionTimeout + (CallsHolding(op[w]) - n) * CallTime
                           + CallSoFar(w)
          BY <3>1
        <4>2. PICK m \in Nat : /\ m = (CallsHolding(op[w]) - n) * CallTime
                               /\ m + CallTime = (CallsHolding(op[w]) - n + 1) * CallTime
          BY <3>2
        <4>3. held[w] <= TransactionTimeout + m + CallSoFar(w)
          BY <4>1, <4>2
        <4>4. held[w] <= TransactionTimeout + (m + CallTime)
          BY <1>4, <4>3
        <4>5. QED
          BY <4>2, <4>4
      <3>5. held'[w] <= TransactionTimeout
                          + (CallsHolding(op[w]) - Len(rest)) * CallTime
        BY <1>3, <3>3, <3>4
      <3>6. Len(rest) <= CallsHolding(op[w])
        BY <1>0, <2>0, <3>1
      <3>7. ASSUME NEW i \in 1 .. Len(rest)
            PROVE  rest[i] \in RedisCalls
        <4>1. i \in 1 .. n - 1
          BY <2>1
        <4>2. i + 1 \in 1 .. n /\ rest[i] = todo[w][i + 1]
          BY <1>0, <2>1, <4>1
        <4>3. QED
          BY <3>1, <4>2
      <3>8. QED
        BY <3>5, <3>6, <3>7
    <2>6. w \notin holds' => held'[w] = 0
      BY <1>1, <1>3 DEF HoldsInTime
    <2>7. QED
      BY <1>1, <1>5, <1>6, <2>1, <2>3, <2>4, <2>5, <2>6, MovedOn
  <1>7. CASE Step(w) \in VersionCalls /\ MovesTo(w, AfterLookup)
    <2>1. /\ op[w] = "read" /\ k + 1 <= 3 /\ Len(p) = 6
          /\ p[4] = "get" /\ p[5] = "select" /\ p[6] = "set"
      BY <1>2, <1>7 DEF WellFormed
    <2>2. /\ AfterLookup \in Seq(Steps) /\ Len(AfterLookup) = 3
          /\ AfterLookup[1] = "get" /\ AfterLookup[2] = "select" /\ AfterLookup[3] = "set"
      BY DEF AfterLookup, Steps, RedisCalls, Transactions
    <2>3. todo'[w] = AfterLookup
      BY <1>1, <1>7 DEF MovesTo, TypeOK
    <2>4. At(w)' = 3
      <3>1. At(w)' = Len(p) - Len(AfterLookup)
        BY <1>2, <1>3, <2>3 DEF At
      <3>2. QED
        BY <2>1, <2>2, <3>1
    <2>5. OnProgram(w)'
      <3>1. \A i \in 1 .. 3 : AfterLookup[i] = p[3 + i]
        BY <2>1, <2>2
      <3>2. QED
        <4>1. Len(todo'[w]) <= Len(p)
          <5>1. Len(p) = 6 /\ Len(AfterLookup) = 3
            BY <2>1, <2>2
          <5>2. QED
            BY <2>3, <5>1
        <4>2. \A i \in 1 .. Len(todo'[w]) : todo'[w][i] = p[At(w)' + i]
          BY <2>2, <2>3, <2>4, <3>1
        <4>3. QED
          BY <1>2, <1>3, <4>1, <4>2 DEF OnProgram
    <2>6. TimeFor(op[w], k + 1) <= TimeFor(op[w], 3) /\ TimeFor(op[w], 3) \in Nat
          /\ TimeFor(op[w], k + 1) \in Nat
      BY <1>2, <2>1, TimesAddUp, k + 1 \in Nat
    <2>7. age[w] <= TimeFor(op[w], At(w)')
      BY <1>4, <1>5, <2>4, <2>6
    <2>8. w \notin holds
      <3>1. 5 - k \in 1 .. n /\ k + (5 - k) = 5
        BY <1>2, <2>1
      <3>2. todo[w][5 - k] = "select"
        BY <1>1, <1>2, <2>1, <3>1 DEF OnProgram
      <3>3. "select" \notin RedisCalls
        BY DEF RedisCalls, VersionCalls
      <3>4. QED
        BY <1>1, <1>2, <3>1, <3>2, <3>3 DEF HoldsInTime
    <2>9. held'[w] = 0
      BY <1>1, <1>3, <2>8 DEF HoldsInTime
    <2>10. QED
      BY <1>1, <1>3, <1>7, <2>2, <2>5, <2>7, <2>8, <2>9, MovedOn
  <1>8. QED
    BY <1>6, <1>7 DEF CallIsOver

LEMMA TransactionIsOverOnTime ==
  ASSUME Paced, NEW w \in Workers, TransactionIsOver(w)
  PROVE  OnTime(w)'
  <1>1. /\ Blamed /\ TypeOK /\ TypeOK' /\ Busy(w) /\ w \in holds
        /\ Step(w) \in Transactions
        /\ OnProgram(w) /\ InPace(w) /\ HoldsInTime(w) /\ MovesTo(w, Tail(todo[w]))
    BY TransactionIsOverTypes
       DEF Paced, Blamed, TransactionIsOver, InTransaction, OnTime
  <1>2. Step(w) \notin RedisCalls
    BY <1>1 DEF RedisCalls, VersionCalls, Transactions
  <1>3. PICK p \in Seq(Steps), k \in Nat, n \in Nat :
          /\ p = Program(op[w]) /\ k = At(w) /\ n = Len(todo[w])
          /\ op[w] \in Operations /\ WellFormed(op[w], p)
          /\ k + 1 \in 1 .. Len(p) /\ n = Len(p) - k /\ n >= 1
          /\ Step(w) = p[k + 1] /\ Step(w) = todo[w][1]
    <2>1. Program(op[w]) \in Seq(Steps)
      BY <1>1, NextInProgram DEF WellFormed
    <2>2. QED
      BY <1>1, <2>1, NextInProgram, RestOfARequest
  <1>4. Len(p) \in Nat /\ n = Len(p) - k /\ n >= 1
    BY <1>3
  <1>5. op'[w] = op[w] /\ age'[w] = age[w]
    BY <1>1 DEF MovesTo
  <1>6. /\ age[w] \in Nat /\ held[w] \in Nat /\ spent[w] \in Nat
        /\ PoolTimeout \in Nat /\ TransactionTimeout \in Nat
        /\ TransactionTime = PoolTimeout + TransactionTimeout
        /\ spent[w] <= TransactionTimeout
        /\ age[w] <= TimeFor(op[w], k) + (PoolTimeout + spent[w])
    <2>1. ~Calling(w)
      BY <1>2 DEF Calling
    <2>2. spent[w] <= TransactionTimeout
      BY <1>1, <2>1 DEF InPace, Limit
    <2>3. age[w] <= TimeFor(op[w], k) + (PoolTimeout + spent[w])
      BY <1>1, <1>3, <2>1 DEF InPace, StepSoFar
    <2>4. QED
      BY <1>1, <2>2, <2>3, Clocks DEF TransactionTime
  <1>7. age[w] <= TimeFor(op[w], k + 1)
    <2>1. TimeFor(op[w], k) \in Nat
          /\ TimeFor(op[w], k + 1) = TimeFor(op[w], k) + TransactionTime
      BY <1>1, <1>3, TimesAddUp
    <2>2. QED
      BY <1>6, <2>1
  <1>8. PICK rest \in Seq(Steps) :
          /\ rest = Tail(todo[w]) /\ Len(rest) = n - 1
          /\ \A i \in 1 .. n - 1 : rest[i] = todo[w][i + 1]
    BY <1>1, <1>3, RestOfARequest, ZenonT(40)
  <1>9. Len(rest) = n - 1 /\ Len(rest) \in Nat
    BY <1>4, <1>8
  <1>10. todo'[w] = rest
    BY <1>1, <1>8 DEF MovesTo, TypeOK
  <1>11. At(w)' = k + 1
    <2>1. Len(p) - Len(rest) = k + 1
      BY <1>4, <1>9
    <2>2. At(w)' = Len(p) - Len(rest)
      BY <1>3, <1>5, <1>10 DEF At
    <2>3. QED
      BY <2>1, <2>2
  <1>12. \A i \in 1 .. Len(rest) : rest[i] = p[k + 1 + i]
    <2> SUFFICES ASSUME NEW i \in 1 .. Len(rest) PROVE rest[i] = p[k + 1 + i]
      OBVIOUS
    <2>1. i \in 1 .. n - 1
      BY <1>9
    <2>2. i + 1 \in 1 .. n /\ k + (i + 1) = k + 1 + i
      BY <2>1
    <2>3. rest[i] = todo[w][i + 1]
      BY <1>8, <2>1
    <2>4. todo[w][i + 1] = p[k + (i + 1)]
      BY <1>1, <1>3, <2>2 DEF OnProgram
    <2>5. QED
      BY <2>2, <2>3, <2>4
  <1>13. OnProgram(w)'
    <2>1. Len(rest) <= Len(p)
      BY <1>4, <1>9
    <2>2. QED
      BY <1>3, <1>5, <1>10, <1>11, <1>12, <2>1 DEF OnProgram
  <1>14. CASE Step(w) \in {"select", "refresh"}
    <2>1. Keeps
      BY <1>14 DEF TransactionIsOver
    <2>2. holds' = holds /\ held'[w] = held[w]
      BY <2>1 DEF Keeps
    <2>3. Len(p) - (k + 1) <= CallsHolding(op[w])
          /\ \A j \in k + 1 + 1 .. Len(p) : p[j] \in RedisCalls
      BY <1>3, <1>14 DEF WellFormed
    <2>4. Len(rest) <= CallsHolding(op[w])
      <3>1. Len(rest) = Len(p) - (k + 1)
        BY <1>4, <1>9
      <3>2. QED
        BY <2>3, <3>1
    <2>5. \A i \in 1 .. Len(rest) : rest[i] \in RedisCalls
      <3> SUFFICES ASSUME NEW i \in 1 .. Len(rest) PROVE rest[i] \in RedisCalls
        OBVIOUS
      <3>1. k + 1 + i \in k + 1 + 1 .. Len(p)
        BY <1>4, <1>9
      <3>2. QED
        BY <1>12, <2>3, <3>1
    <2>6. held'[w] <= TransactionTimeout + (CallsHolding(op[w]) - Len(rest)) * CallTime
      <3>1. held[w] = spent[w]
        BY <1>1 DEF HoldsInTime, InTransaction
      <3>2. CallsHolding(op[w]) - Len(rest) \in Nat
        <4>1. CallsHolding(op[w]) \in Nat
          BY <1>3, HoldingNat
        <4>2. QED
          BY <1>9, <2>4, <4>1
      <3>3. PICK m \in Nat : m = (CallsHolding(op[w]) - Len(rest)) * CallTime
        BY <3>2, CallTimes
      <3>4. held'[w] <= TransactionTimeout + m
        BY <1>6, <2>2, <3>1
      <3>5. QED
        BY <3>3, <3>4
    <2>7. MovesTo(w, rest) /\ age[w] <= TimeFor(op[w], At(w)')
      BY <1>1, <1>7, <1>8, <1>11
    <2>8. QED
      BY <1>1, <1>13, <2>2, <2>4, <2>5, <2>6, <2>7, MovedOn
  <1>15. CASE Step(w) \notin {"select", "refresh"}
    <2>1. GiveBack(w)
      BY <1>15 DEF TransactionIsOver
    <2>2. w \notin holds' /\ held'[w] = 0
      BY <1>1, <2>1 DEF GiveBack, TypeOK
    <2>3. MovesTo(w, rest) /\ age[w] <= TimeFor(op[w], At(w)')
      BY <1>1, <1>7, <1>8, <1>11
    <2>4. QED
      BY <1>1, <1>13, <2>2, <2>3, MovedOn
  <1>16. QED
    BY <1>14, <1>15

LEMMA RetryOnTime ==
  ASSUME Paced, NEW w \in Workers, Retries(w)
  PROVE  OnTime(w)'
  <1>1. /\ TypeOK /\ TypeOK' /\ Busy(w) /\ Calling(w)
        /\ OnProgram(w) /\ InPace(w) /\ HoldsInTime(w)
    BY RetryTypes DEF Paced, Blamed, Retries, Calling, OnTime
  <1>2. /\ op'[w] = op[w] /\ todo'[w] = todo[w] /\ age'[w] = age[w]
        /\ held'[w] = held[w] /\ holds' = holds
        /\ tries'[w] = tries[w] + 1 /\ spent'[w] = 0
    BY <1>1 DEF Retries, TypeOK
  <1>3. /\ Busy(w)' /\ Calling(w)' /\ ~InTransaction(w) /\ ~InTransaction(w)'
        /\ At(w)' = At(w)
    BY <1>1, <1>2 DEF Busy, Calling, Step, At, InTransaction, RedisCalls, VersionCalls,
                      Transactions
  <1>4. /\ CallSoFar(w) \in Nat /\ CallSoFar(w)' \in Nat
        /\ CallSoFar(w) <= CallSoFar(w)'
    <2>1. spent[w] \in Nat /\ tries[w] \in Nat /\ AttemptTimeout \in Nat
          /\ spent[w] <= AttemptTimeout
      BY <1>1, Clocks DEF InPace, Limit
    <2>2. tries[w] * AttemptTimeout \in Nat
          /\ (tries[w] + 1) * AttemptTimeout = tries[w] * AttemptTimeout + AttemptTimeout
      BY <2>1, Products
    <2>3. CallSoFar(w)' = (tries[w] + 1) * AttemptTimeout + 0
      BY <1>2 DEF CallSoFar
    <2>4. QED
      BY <2>1, <2>2, <2>3 DEF CallSoFar
  <1>5. OnProgram(w)'
    BY <1>1, <1>2, <1>3 DEF OnProgram
  <1>6. InPace(w)'
    <2>1. spent'[w] <= Limit(w)'
      BY <1>1, <1>2, ClocksAfter
    <2>2. StepSoFar(w) = CallSoFar(w) /\ StepSoFar(w)' = CallSoFar(w)'
      BY <1>1, <1>3 DEF StepSoFar
    <2>3. PICK t \in Nat : t = TimeFor(op[w], At(w))
      BY <1>1, NextInProgram, TimesAddUp
    <2>4. age[w] <= t + CallSoFar(w) /\ age[w] \in Nat
      BY <1>1, <2>2, <2>3, Clocks DEF InPace
    <2>5. age[w] <= t + CallSoFar(w)'
      BY <1>4, <2>4
    <2>6. QED
      BY <1>2, <1>3, <2>1, <2>2, <2>3, <2>5 DEF InPace
  <1>7. HoldsInTime(w)'
    <2>1. CASE w \in holds
      <3>1. /\ Len(todo[w]) <= CallsHolding(op[w])
            /\ \A i \in 1 .. Len(todo[w]) : todo[w][i] \in RedisCalls
            /\ held[w] <= TransactionTimeout
                            + (CallsHolding(op[w]) - Len(todo[w])) * CallTime
                            + CallSoFar(w)
        BY <1>1, <2>1 DEF HoldsInTime
      <3>2. PICK m \in Nat : m = (CallsHolding(op[w]) - Len(todo[w])) * CallTime
        <4>1. CallsHolding(op[w]) \in Nat /\ Len(todo[w]) \in Nat
          BY <1>1, HoldingNat, RestOfARequest
        <4>2. CallsHolding(op[w]) - Len(todo[w]) \in Nat
          BY <3>1, <4>1
        <4>3. QED
          BY <4>2, CallTimes
      <3>3. held[w] <= TransactionTimeout + m + CallSoFar(w)
        BY <3>1, <3>2
      <3>4. held[w] <= TransactionTimeout + m + CallSoFar(w)'
        BY <1>1, <1>4, <3>3, Clocks
      <3>5. held'[w] <= TransactionTimeout
                          + (CallsHolding(op'[w]) - Len(todo'[w])) * CallTime
                          + CallSoFar(w)'
        BY <1>2, <3>2, <3>4
      <3>6. QED
        BY <1>2, <1>3, <2>1, <3>1, <3>5 DEF HoldsInTime
    <2>2. CASE w \notin holds
      BY <1>1, <1>2, <2>2 DEF HoldsInTime, InTransaction
    <2>3. QED
      BY <2>1, <2>2
  <1>8. QED
    BY <1>3, <1>5, <1>6, <1>7 DEF OnTime

LEMMA CheckoutOnTime ==
  ASSUME Paced, NEW w \in Workers, Checkout(w)
  PROVE  OnTime(w)'
  <1>1. /\ TypeOK /\ TypeOK' /\ Busy(w) /\ w \notin holds /\ Step(w) \in Transactions
        /\ OnProgram(w) /\ InPace(w) /\ HoldsInTime(w)
    BY CheckoutTypes DEF Paced, Blamed, Checkout, Waiting, OnTime
  <1>2. /\ op'[w] = op[w] /\ todo'[w] = todo[w] /\ age'[w] = age[w]
        /\ held'[w] = held[w] /\ w \in holds' /\ tries'[w] = tries[w] /\ spent'[w] = 0
    BY <1>1 DEF Checkout, TypeOK
  <1>3. /\ Busy(w)' /\ ~Calling(w) /\ ~Calling(w)' /\ At(w)' = At(w)
    BY <1>1, <1>2 DEF Busy, Calling, Step, At, RedisCalls, VersionCalls, Transactions
  <1>4. OnProgram(w)'
    BY <1>1, <1>2, <1>3 DEF OnProgram
  <1>5. InPace(w)'
    <2>1. spent'[w] <= Limit(w)'
      BY <1>1, <1>2, ClocksAfter
    <2>2. tries'[w] = 0
      BY <1>1, <1>2, <1>3 DEF InPace
    <2>3. PICK t \in Nat : t = TimeFor(op[w], At(w))
      BY <1>1, NextInProgram, TimesAddUp
    <2>4. /\ age[w] <= t + spent[w] /\ spent[w] <= PoolTimeout
          /\ age[w] \in Nat /\ spent[w] \in Nat /\ PoolTimeout \in Nat
      BY <1>1, <1>3, <2>3, Clocks DEF InPace, StepSoFar, Limit
    <2>5. age[w] <= t + (PoolTimeout + 0)
      BY <2>4
    <2>6. StepSoFar(w)' = PoolTimeout + 0
      BY <1>2, <1>3 DEF StepSoFar
    <2>7. QED
      BY <1>2, <1>3, <2>1, <2>2, <2>3, <2>5, <2>6 DEF InPace
  <1>6. HoldsInTime(w)'
    BY <1>1, <1>2, <1>3 DEF HoldsInTime
  <1>7. QED
    BY <1>3, <1>4, <1>5, <1>6 DEF OnTime

LEMMA BeginOnTime ==
  ASSUME Paced, NEW w \in Workers, NEW o \in Operations, Begin(w, o)
  PROVE  OnTime(w)'
  <1>1. TypeOK /\ TypeOK' /\ ~Busy(w) /\ AtRest(w)
    BY BeginTypes DEF Paced, Blamed, Begin, OnTime
  <1>2. /\ op'[w] = o /\ todo'[w] = Program(o) /\ age'[w] = 0 /\ held'[w] = 0
        /\ tries'[w] = 0 /\ spent'[w] = 0 /\ w \notin holds' /\ o # "idle"
    BY <1>1, ProgramsOf DEF Begin, TypeOK, AtRest
  <1>3. Len(Program(o)) \in Nat
    BY ProgramsAreWellFormed DEF WellFormed
  <1>4. Busy(w)' /\ At(w)' = 0
    <2>1. At(w)' = Len(Program(o)) - Len(Program(o))
      BY <1>2 DEF At
    <2>2. QED
      BY <1>2, <1>3, <2>1 DEF Busy
  <1>5. OnProgram(w)'
    <2>1. \A i \in 1 .. Len(Program(o)) : Program(o)[i] = Program(o)[0 + i]
      OBVIOUS
    <2>2. QED
      BY <1>2, <1>3, <1>4, <2>1 DEF OnProgram
  <1>6. InPace(w)'
    <2>1. Limit(w)' \in Nat /\ StepSoFar(w)' \in Nat
      BY <1>1, ClocksAfter
    <2>2. PICK t \in Nat : t = TimeFor(o, 0)
      BY TimesAddUp
    <2>3. 0 <= Limit(w)' /\ 0 <= t + StepSoFar(w)'
      BY <2>1
    <2>4. QED
      BY <1>2, <1>4, <2>2, <2>3 DEF InPace
  <1>7. HoldsInTime(w)'
    BY <1>2 DEF HoldsInTime, InTransaction
  <1>8. QED
    BY <1>4, <1>5, <1>6, <1>7 DEF OnTime

LEMMA AnswerOnTime ==
  ASSUME Paced, NEW w \in Workers, NEW a, NEW reasons, Answer(w, a, reasons)
  PROVE  OnTime(w)'
  <1>1. TypeOK
    BY DEF Paced, Blamed
  <1>2. /\ op'[w] = "idle" /\ age'[w] = 0 /\ spent'[w] = 0 /\ tries'[w] = 0
        /\ held'[w] = 0 /\ w \notin holds'
    BY <1>1 DEF Answer, GiveBack, TypeOK
  <1>3. QED
    BY <1>2 DEF OnTime, Busy, AtRest

LEMMA TickOnTime ==
  ASSUME Paced, Tick, NEW w \in Workers
  PROVE  OnTime(w)'
  <1>1. TypeOK /\ TypeOK' /\ OnTime(w)
    BY TickTypes DEF Paced, Blamed
  <1>2. /\ op' = op /\ todo' = todo /\ tries' = tries /\ holds' = holds
        /\ spent'[w] = (IF Busy(w) THEN spent[w] + 1 ELSE 0)
        /\ age'[w] = (IF Busy(w) THEN age[w] + 1 ELSE 0)
        /\ held'[w] = (IF w \in holds THEN held[w] + 1 ELSE 0)
    BY DEF Tick
  <1>3. /\ Busy(w)' = Busy(w) /\ Step(w)' = Step(w) /\ At(w)' = At(w)
        /\ Calling(w)' = Calling(w) /\ InTransaction(w)' = InTransaction(w)
    BY <1>2 DEF Busy, Step, At, Calling, InTransaction
  <1>4. Limit(w)' = Limit(w)
    BY <1>2, <1>3 DEF Limit
  <1>5. CASE Busy(w)
    <2>1. OnProgram(w) /\ InPace(w) /\ HoldsInTime(w) /\ spent[w] < Limit(w)
      BY <1>1, <1>5 DEF OnTime, Tick
    <2>2. /\ spent[w] \in Nat /\ age[w] \in Nat /\ held[w] \in Nat /\ Limit(w) \in Nat
          /\ CallSoFar(w) \in Nat /\ StepSoFar(w) \in Nat
          /\ PoolTimeout \in Nat /\ TransactionTimeout \in Nat
          /\ tries[w] * AttemptTimeout \in Nat
      BY <1>1, Clocks, CallTimes
    <2>3. spent'[w] = spent[w] + 1 /\ age'[w] = age[w] + 1
      BY <1>2, <1>5
    <2>4. CallSoFar(w)' = CallSoFar(w) + 1
      BY <1>2, <2>2, <2>3 DEF CallSoFar
    <2>5. StepSoFar(w)' = StepSoFar(w) + 1
      BY <1>2, <1>3, <2>2, <2>3, <2>4 DEF StepSoFar
    <2>6. OnProgram(w)'
      BY <1>2, <1>3, <2>1 DEF OnProgram
    <2>7. InPace(w)'
      <3>1. spent'[w] <= Limit(w)'
        BY <1>4, <2>1, <2>2, <2>3
      <3>2. PICK t \in Nat : t = TimeFor(op[w], At(w))
        BY <1>1, <1>5, <2>1, NextInProgram, TimesAddUp
      <3>3. age[w] <= t + StepSoFar(w)
        BY <2>1, <3>2 DEF InPace
      <3>4. age'[w] <= t + StepSoFar(w)'
        BY <2>2, <2>3, <2>5, <3>3
      <3>5. QED
        BY <1>2, <1>3, <2>1, <3>1, <3>2, <3>4 DEF InPace
    <2>8. HoldsInTime(w)'
      <3>1. CASE w \notin holds
        BY <1>2, <3>1 DEF HoldsInTime, InTransaction
      <3>2. CASE w \in holds
        <4>1. held'[w] = held[w] + 1
          BY <1>2, <3>2
        <4>2. InTransaction(w)' => held'[w] = spent'[w]
          BY <1>3, <2>1, <2>3, <4>1 DEF HoldsInTime
        <4>3. ASSUME Calling(w)
              PROVE  /\ Len(todo[w]) <= CallsHolding(op[w])
                     /\ \A i \in 1 .. Len(todo[w]) : todo[w][i] \in RedisCalls
                     /\ held'[w] <= TransactionTimeout
                                      + (CallsHolding(op[w]) - Len(todo[w])) * CallTime
                                      + CallSoFar(w)'
          <5>1. /\ Len(todo[w]) <= CallsHolding(op[w])
                /\ \A i \in 1 .. Len(todo[w]) : todo[w][i] \in RedisCalls
                /\ held[w] <= TransactionTimeout
                                + (CallsHolding(op[w]) - Len(todo[w])) * CallTime
                                + CallSoFar(w)
            BY <2>1, <3>2, <4>3 DEF HoldsInTime
          <5>2. PICK m \in Nat : m = (CallsHolding(op[w]) - Len(todo[w])) * CallTime
            <6>1. CallsHolding(op[w]) \in Nat /\ Len(todo[w]) \in Nat
              BY <1>1, <1>5, HoldingNat, RestOfARequest
            <6>2. CallsHolding(op[w]) - Len(todo[w]) \in Nat
              BY <5>1, <6>1
            <6>3. QED
              BY <6>2, CallTimes
          <5>3. held[w] <= TransactionTimeout + m + CallSoFar(w)
            BY <5>1, <5>2
          <5>4. held'[w] <= TransactionTimeout + m + CallSoFar(w)'
            BY <2>2, <2>4, <4>1, <5>3
          <5>5. QED
            BY <5>1, <5>2, <5>4
        <4>4. QED
          BY <1>2, <1>3, <3>2, <4>2, <4>3 DEF HoldsInTime
      <3>3. QED
        BY <3>1, <3>2
    <2>9. QED
      BY <1>3, <1>5, <2>6, <2>7, <2>8 DEF OnTime
  <1>6. CASE ~Busy(w)
    <2>1. AtRest(w)
      BY <1>1, <1>6 DEF OnTime
    <2>2. AtRest(w)'
      BY <1>2, <1>6, <2>1 DEF AtRest
    <2>3. QED
      BY <1>3, <1>6, <2>2 DEF OnTime
  <1>7. QED
    BY <1>5, <1>6

\* Nothing that counts changes for a worker, and for all but one.
Left(v) ==
  /\ op'[v] = op[v] /\ todo'[v] = todo[v] /\ tries'[v] = tries[v]
  /\ spent'[v] = spent[v] /\ age'[v] = age[v] /\ held'[v] = held[v]
  /\ (v \in holds') = (v \in holds)

LeavesOthers(w) == \A v \in Workers \ {w} : Left(v)

LEMMA LeftOnTime ==
  ASSUME NEW v \in Workers, OnTime(v), Left(v)
  PROVE  OnTime(v)'
  BY Undisturbed DEF Left

LEMMA MovesLeaveOthers ==
  ASSUME TypeOK, NEW w \in Workers, NEW rest, MovesTo(w, rest), Keeps \/ GiveBack(w)
  PROVE  LeavesOthers(w)
  <1> SUFFICES ASSUME NEW v \in Workers \ {w} PROVE Left(v)
    BY DEF LeavesOthers
  <1>1. /\ op'[v] = op[v] /\ todo'[v] = todo[v] /\ tries'[v] = tries[v]
        /\ spent'[v] = spent[v] /\ age'[v] = age[v]
    BY DEF MovesTo, TypeOK
  <1>2. held'[v] = held[v] /\ (v \in holds') = (v \in holds)
    <2>1. CASE Keeps
      BY <2>1 DEF Keeps
    <2>2. CASE GiveBack(w)
      BY <2>2 DEF GiveBack, TypeOK
    <2>3. QED
      BY <2>1, <2>2
  <1>3. QED
    BY <1>1, <1>2 DEF Left

LEMMA WorksOnOnTime ==
  ASSUME Paced, NEW w \in Workers, WorksOn(w)
  PROVE  OnTime(w)' /\ LeavesOthers(w)
  <1>1. TypeOK /\ OnTime(w)
    BY DEF Paced, Blamed
  <1>2. CASE CallIsOver(w)
    <2>1. LeavesOthers(w)
      BY <1>1, <1>2, MovesLeaveOthers DEF CallIsOver
    <2>2. QED
      BY <1>2, <2>1, CallIsOverOnTime
  <1>3. CASE TransactionIsOver(w)
    <2>1. MovesTo(w, Tail(todo[w])) /\ (Keeps \/ GiveBack(w))
      BY <1>3 DEF TransactionIsOver
    <2>2. LeavesOthers(w)
      BY <1>1, <2>1, MovesLeaveOthers
    <2>3. QED
      BY <1>3, <2>2, TransactionIsOverOnTime
  <1>4. CASE Retries(w)
    <2>1. LeavesOthers(w)
      BY <1>1, <1>4 DEF Retries, TypeOK, LeavesOthers, Left
    <2>2. QED
      BY <1>4, <2>1, RetryOnTime
  <1>5. CASE Checkout(w)
    <2>1. LeavesOthers(w)
      BY <1>1, <1>5 DEF Checkout, TypeOK, LeavesOthers, Left
    <2>2. QED
      BY <1>5, <2>1, CheckoutOnTime
  <1>6. CASE Connect(w)
    <2>1. \A v \in Workers : Left(v)
      BY <1>6 DEF Connect, Left
    <2>2. QED
      BY <1>1, <2>1, LeftOnTime DEF LeavesOthers
  <1>7. QED
    BY <1>2, <1>3, <1>4, <1>5, <1>6 DEF WorksOn

LEMMA PacedStep == Paced /\ [Next]_vars => Paced'
  <1> SUFFICES ASSUME Paced, [Next]_vars PROVE Paced'
    OBVIOUS
  <1>1. Blamed /\ TypeOK /\ Blamed'
    BY BlamedStep DEF Paced, Blamed
  <1>2. \A v \in Workers : OnTime(v)
    BY DEF Paced
  <1>3. ASSUME NEW w \in Workers, OnTime(w)', LeavesOthers(w)
        PROVE  Paced'
    <2>1. \A v \in Workers \ {w} : OnTime(v)'
      BY <1>2, <1>3, LeftOnTime DEF LeavesOthers
    <2>2. QED
      BY <1>1, <1>3, <2>1 DEF Paced
  <1>4. ASSUME \A v \in Workers : Left(v)
        PROVE  Paced'
    <2>1. \A v \in Workers : OnTime(v)'
      BY <1>2, <1>4, LeftOnTime
    <2>2. QED
      BY <1>1, <2>1 DEF Paced
  <1>5. CASE UNCHANGED vars
    BY <1>4, <1>5 DEF vars, Left
  <1>6. ASSUME NEW w \in Workers, NEW o \in Operations, Begin(w, o)
        PROVE  Paced'
    <2>1. LeavesOthers(w)
      BY <1>1, <1>6 DEF Begin, TypeOK, LeavesOthers, Left
    <2>2. QED
      BY <1>3, <1>6, <2>1, BeginOnTime
  <1>7. ASSUME NEW w \in Workers, NEW a, NEW reasons, Answer(w, a, reasons)
        PROVE  Paced'
    <2>1. LeavesOthers(w)
      BY <1>1, <1>7 DEF Answer, GiveBack, TypeOK, LeavesOthers, Left
    <2>2. QED
      BY <1>3, <1>7, <2>1, AnswerOnTime
  <1>8. ASSUME NEW w \in Workers, WorksOn(w)
        PROVE  Paced'
    BY <1>3, <1>8, WorksOnOnTime
  <1>9. CASE DatabaseSteps
    <2>1. UNCHANGED <<op, todo, tries, spent, holds, age, held>>
      BY <1>9 DEF DatabaseSteps, DatabaseStops, DatabaseIsDown, DatabaseStarts,
         DatabaseIsUp
    <2>2. QED
      BY <1>4, <2>1 DEF Left
  <1>10. CASE Tick
    BY <1>1, <1>10, TickOnTime DEF Paced
  <1>11. CASE Next
    BY <1>1, <1>6, <1>7, <1>8, <1>9, <1>10, <1>11, NextSteps
  <1>12. QED
    BY <1>5, <1>11

LEMMA PacedInvariant == Spec => []Paced
  <1>1. Init => Paced
    BY BlamedAtFirst DEF Init, Paced, OnTime, Busy, AtRest
  <1>2. QED
    BY <1>1, PacedStep, PTL DEF Spec

\* Bounded retries, bounded waits and bounded statements bound every request, for
\* any pool and any number of requests that compete for it.
THEOREM RequestsAreAnsweredInTime == Spec => []AnsweredInTime
  <1>1. ASSUME Paced, NEW w \in Workers, Busy(w)
        PROVE  age[w] <= Budget(op[w])
    <2>1. TypeOK /\ OnProgram(w) /\ InPace(w) /\ HoldsInTime(w)
      BY <1>1 DEF Paced, Blamed, OnTime
    <2>2. PICK p \in Seq(Steps), k \in Nat :
            /\ p = Program(op[w]) /\ k = At(w) /\ k + 1 \in 1 .. Len(p)
            /\ Step(w) = Program(op[w])[k + 1] /\ Step(w) \in Steps
      <3>1. Program(op[w]) \in Seq(Steps)
        BY <1>1, <2>1, NextInProgram DEF WellFormed
      <3>2. QED
        BY <1>1, <2>1, <3>1, NextInProgram, RestOfARequest
    <2>3. /\ age[w] \in Nat /\ spent[w] \in Nat /\ CallSoFar(w) \in Nat
          /\ PoolTimeout \in Nat /\ TransactionTimeout \in Nat
          /\ CallTime \in Nat /\ TransactionTime = PoolTimeout + TransactionTimeout
          /\ TimeFor(op[w], k) \in Nat
          /\ age[w] <= TimeFor(op[w], k) + StepSoFar(w)
      BY <2>1, <2>2, Clocks, CallTimes, TimesAddUp DEF InPace, TransactionTime
    <2>4. age[w] <= TimeFor(op[w], k + 1)
      <3>1. CASE Step(w) \in RedisCalls
        <4>1. spent[w] <= AttemptTimeout /\ StepSoFar(w) = CallSoFar(w)
          BY <1>1, <2>1, <3>1 DEF Calling, InPace, Limit, StepSoFar
        <4>2. tries[w] * AttemptTimeout \in Nat /\ AttemptTimeout \in Nat
              /\ tries[w] * AttemptTimeout + AttemptTimeout <= CallTime
          BY <2>1, Clocks, CallTimes
        <4>3. CallSoFar(w) <= CallTime
          BY <2>3, <4>1, <4>2 DEF CallSoFar
        <4>4. TimeFor(op[w], k + 1) = TimeFor(op[w], k) + CallTime
          BY <2>2, <3>1, TimesAddUp
        <4>5. QED
          BY <2>3, <4>1, <4>3, <4>4
      <3>2. CASE Step(w) \in Transactions
        <4>1. ~Calling(w)
          BY <3>2 DEF Calling, RedisCalls, VersionCalls, Transactions
        <4>2. \/ StepSoFar(w) = PoolTimeout + spent[w] /\ spent[w] <= TransactionTimeout
              \/ StepSoFar(w) = spent[w] /\ spent[w] <= PoolTimeout
          BY <2>1, <4>1 DEF InPace, Limit, StepSoFar
        <4>3. TimeFor(op[w], k + 1) = TimeFor(op[w], k) + TransactionTime
          BY <2>2, <3>2, TimesAddUp
        <4>4. QED
          BY <2>3, <4>2, <4>3, SMTT(30)
      <3>3. QED
        BY <2>2, <3>1, <3>2 DEF Steps
    <2>5. k + 1 \in Nat /\ Len(p) \in Nat /\ k + 1 <= Len(p)
      BY <2>2
    <2>6. TimeFor(op[w], k + 1) <= TimeFor(op[w], Len(p))
          /\ TimeFor(op[w], k + 1) \in Nat /\ TimeFor(op[w], Len(p)) \in Nat
      BY <2>5, TimesAddUp
    <2>7. Budget(op[w]) = TimeFor(op[w], Len(p))
      BY <2>2 DEF Budget
    <2>8. QED
      BY <2>3, <2>4, <2>6, <2>7
  <1>2. Paced => AnsweredInTime
    BY <1>1 DEF AnsweredInTime
  <1>3. QED
    BY <1>2, PacedInvariant, PTL

\* Whoever has a connection is at work, and gives it back within the limit of a
\* statement and the calls of Redis that its request makes with it.
THEOREM ConnectionsComeBackInTime == Spec => []ConnectionsComeBack
  <1>1. ASSUME Paced, NEW w \in holds
        PROVE  Busy(w) /\ held[w] <= TransactionTimeout + CallsHolding(op[w]) * CallTime
    <2>1. TypeOK /\ w \in Workers /\ Busy(w)
      BY <1>1 DEF Paced, Blamed, HoldersAreBusy, TypeOK
    <2>2. OnProgram(w) /\ InPace(w) /\ HoldsInTime(w)
      BY <1>1, <2>1 DEF Paced, OnTime
    <2>3. /\ op[w] \in Operations /\ Step(w) \in Steps /\ Len(todo[w]) \in Nat \ {0}
          /\ held[w] \in Nat /\ CallSoFar(w) \in Nat /\ TransactionTimeout \in Nat
          /\ CallsHolding(op[w]) \in Nat /\ CallTime \in Nat
      BY <2>1, Clocks, RestOfARequest, HoldingNat, CallTimes
    <2>4. CASE Step(w) \in RedisCalls
      <3>1. Calling(w)
        BY <2>1, <2>4 DEF Calling
      <3>2. /\ Len(todo[w]) <= CallsHolding(op[w])
            /\ held[w] <= TransactionTimeout
                            + (CallsHolding(op[w]) - Len(todo[w])) * CallTime
                            + CallSoFar(w)
        BY <1>1, <2>2, <3>1 DEF HoldsInTime
      <3>3. CallSoFar(w) <= CallTime
        <4>1. spent[w] <= AttemptTimeout
          BY <2>2, <3>1 DEF InPace, Limit
        <4>2. tries[w] * AttemptTimeout \in Nat /\ AttemptTimeout \in Nat
              /\ tries[w] * AttemptTimeout + AttemptTimeout <= CallTime
              /\ spent[w] \in Nat
          BY <2>1, Clocks, CallTimes
        <4>3. QED
          BY <2>3, <4>1, <4>2 DEF CallSoFar
      <3>4. PICK c \in Nat, r \in Nat : /\ c = CallsHolding(op[w])
                                        /\ r = c - Len(todo[w]) /\ r + 1 <= c
        <4>1. /\ CallsHolding(op[w]) - Len(todo[w]) \in Nat
              /\ CallsHolding(op[w]) - Len(todo[w]) + 1 <= CallsHolding(op[w])
          BY <2>3, <3>2
        <4>2. QED
          BY <2>3, <4>1
      <3>5. /\ r * CallTime \in Nat /\ (r + 1) * CallTime = r * CallTime + CallTime
            /\ (r + 1) * CallTime <= c * CallTime /\ c * CallTime \in Nat
        BY <2>3, <3>4, Products, r + 1 \in Nat
      <3>6. PICK m \in Nat, t \in Nat : m = r * CallTime /\ t = c * CallTime
        BY <3>5
      <3>7. held[w] <= TransactionTimeout + m + CallSoFar(w)
        BY <3>2, <3>4, <3>6
      <3>8. m + CallTime <= t
        BY <3>5, <3>6
      <3>9. held[w] <= TransactionTimeout + t
        BY <2>3, <3>3, <3>7, <3>8
      <3>10. QED
        BY <2>1, <3>4, <3>6, <3>9
    <2>5. CASE Step(w) \in Transactions
      <3>1. held[w] = spent[w]
        BY <1>1, <2>1, <2>2, <2>5 DEF HoldsInTime, InTransaction
      <3>2. ~Calling(w)
        BY <2>5 DEF Calling, RedisCalls, VersionCalls, Transactions
      <3>3. spent[w] <= TransactionTimeout
        BY <1>1, <2>2, <3>2 DEF InPace, Limit
      <3>4. PICK t \in Nat : t = CallsHolding(op[w]) * CallTime
        BY <2>3, Products
      <3>5. held[w] <= TransactionTimeout + t
        BY <2>3, <3>1, <3>3
      <3>6. QED
        BY <2>1, <3>4, <3>5
    <2>6. QED
      BY <2>3, <2>4, <2>5 DEF Steps
  <1>2. Paced => ConnectionsComeBack
    BY <1>1 DEF ConnectionsComeBack
  <1>3. QED
    BY <1>2, PacedInvariant, PTL
===============================================================================
