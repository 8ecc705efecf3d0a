----------------------------- MODULE ScreensProofs -----------------------------
(***************************************************************************)
(* Theorems about Screens, for every set of form values, every choice of   *)
(* pages and unreliable queries, and all bounds.                           *)
(***************************************************************************)
EXTENDS Screens, TLAPS

AllPages == {"all", "near", "edit", "create", "away"}

\* What the form of a page can hold.
FormValues(p) == Values \cup {NoForm} \cup (IF p = "create" THEN {Empty} ELSE {})

\* A page mounts known queries.
LEMMA ActiveKeys == ASSUME NEW p \in AllPages
                    PROVE  Active(p) \subseteq Keys
  BY DEF Active, AllPages, Keys

\* What a write invalidates are known queries, among them all it changes.
LEMMA InvalidatesChanges ==
  ASSUME slice \in {"cafe", "employee"}, NEW op
  PROVE  Changes(op) \subseteq Invalidates(op) /\ Invalidates(op) \subseteq Keys
  BY DEF Changes, Invalidates, CafeInvalidates, EmployeeInvalidates, Lists, Keys

\* What every cached position and every position in a save refers to exists,
\* and the cached record is not a deleted one.
WellPlaced ==
  /\ \A k \in Keys : data[k] <= Newest /\ flight[k] <= acked /\ shows[k] <= acked
  /\ save.at <= Newest
  /\ data["detail"] # None => Content(data["detail"]) # Gone

TypeInv == TypeOK /\ WellPlaced

\* Sending fetches keeps the types of what it changes.
LEMMA SendType ==
  ASSUME TypeOK, NEW ks \in SUBSET Keys, NEW a \in Positions, Send(ks, a)
  PROVE  /\ flight' \in [Keys -> {None} \cup Positions]
         /\ tries' \in [Keys -> 0 .. MaxRetries]
         /\ failed' \in [Keys -> BOOLEAN]
  BY ScreenConstants DEF Send, TypeOK

\* The record's newest content is one.
LEMMA ContentType == ASSUME TypeOK
                     PROVE  Content(Newest) \in Values \cup {Gone}
  BY DEF TypeOK, Content, Newest, Positions

\* An append keeps the positions there are and adds one.
LEMMA AppendKeeps ==
  ASSUME TypeOK, NEW c \in Values \cup {Gone}, history' = Append(history, c),
         Newest < MaxCommits
  PROVE  /\ history' \in Seq(Values \cup {Gone})
         /\ Newest' = Newest + 1 /\ Newest' \in Positions
         /\ \A v \in 0 .. Newest : history'[v + 1] = history[v + 1]
  BY ScreenConstants DEF TypeOK, Newest, Positions

Saves == [op: Saving \cup {"none"},
          stage: {"sent", "applied", "refetching"},
          value: Values \cup {Gone}, here: BOOLEAN, at: Positions,
          waits: SUBSET Keys]

\* Dropping a save, leaving its page or settling a refetch keeps its type.
LEMMA SaveTypes ==
  ASSUME TypeOK, WellPlaced
  PROVE  /\ save \in Saves /\ save.at <= Newest
         /\ NoSave \in Saves /\ NoSave.at <= Newest
         /\ [save EXCEPT !.here = FALSE] \in Saves
         /\ [save EXCEPT !.here = FALSE].at <= Newest
         /\ \A k \in Keys : /\ [save EXCEPT !.waits = @ \ {k}] \in Saves
                           /\ [save EXCEPT !.waits = @ \ {k}].at <= Newest
  <1>1. save \in Saves /\ save.at <= Newest /\ Newest \in Nat /\ 0 \in Positions
    BY ScreenConstants DEF TypeOK, WellPlaced, Saves, Positions
  <1>2. NoSave \in Saves /\ NoSave.at <= Newest
    BY <1>1 DEF NoSave, Saves
  <1>3. [save EXCEPT !.here = FALSE] \in Saves
        /\ [save EXCEPT !.here = FALSE].at <= Newest
    BY <1>1 DEF Saves
  <1>4. ASSUME NEW k \in Keys
        PROVE  /\ [save EXCEPT !.waits = @ \ {k}] \in Saves
               /\ [save EXCEPT !.waits = @ \ {k}].at <= Newest
    BY <1>1 DEF Saves
  <1> QED BY <1>1, <1>2, <1>3, <1>4

\* Showing a page keeps the types.
LEMMA ShowType ==
  ASSUME TypeInv, NEW p \in Pages, Show(p), save' \in {save, NoSave}
                                              \cup {[save EXCEPT !.here = FALSE]},
         moves' \in 0 .. MaxMoves, UNCHANGED saves
  PROVE  TypeInv'
  <1>1. acked \in Positions /\ Newest \in Nat
    BY ScreenConstants DEF TypeInv, TypeOK, Positions, Newest
  <1>2. Active(p) \subseteq Keys
    BY ActiveKeys, ScreenConstants DEF AllPages
  <1> DEFINE due == {k \in Active(p) \ Active(page) : flight[k] = None /\ ~fresh[k]}
  <1>3. due \in SUBSET Keys /\ Send(due, acked) /\ late' = late \ due
    BY <1>2 DEF Show
  <1>4. /\ flight' \in [Keys -> {None} \cup Positions]
        /\ tries' \in [Keys -> 0 .. MaxRetries]
        /\ failed' \in [Keys -> BOOLEAN]
    <2> HIDE DEF due
    <2> QED BY <1>1, <1>3, SendType DEF TypeInv
  <1>5. save' \in Saves /\ save'.at <= Newest
    BY SaveTypes DEF TypeInv
  <1>6. form' \in FormValues(p)
    <2>1. CASE p = "edit" /\ data["detail"] # None
      <3>1. data["detail"] \in 0 .. Newest
        BY <2>1, <1>1 DEF TypeInv, TypeOK, WellPlaced, Positions, None, Keys
      <3>2. Content(data["detail"]) \in Values \cup {Gone}
        BY <3>1 DEF TypeInv, TypeOK, Content, Newest
      <3> QED BY <2>1, <3>2 DEF Show, InitialValues, FormValues, TypeInv, WellPlaced
    <2>2. CASE ~(p = "edit" /\ data["detail"] # None)
      BY <2>2 DEF Show, InitialValues, FormValues
    <2> QED BY <2>1, <2>2
  <1>7. TypeOK'
    BY <1>3, <1>4, <1>5, <1>6, ScreenConstants
    DEF TypeInv, TypeOK, Show, Positions, Newest, Saves, FormValues
  <1>8. WellPlaced'
    BY <1>1, <1>3, <1>5 DEF TypeInv, TypeOK, WellPlaced, Show, Send, Newest, Content,
                            Positions, None
  <1> QED BY <1>7, <1>8 DEF TypeInv

\* An answer that is not a 404 keeps the types.
LEMMA DeliverType == ASSUME TypeInv, NEW k \in Keys, Deliver(k)
                     PROVE  TypeInv'
  <1>1. PICK v \in flight[k] .. Newest :
          /\ Ok(k, v)
          /\ data' = [data EXCEPT ![k] = v]
          /\ late' = IF v < shows[k] THEN late ELSE late \ {k}
          /\ IF /\ k = "detail" /\ page = "edit"
                /\ data[k] = None \/ Content(v) # Content(data[k])
               THEN form' = Content(v) /\ allow' = FALSE /\ unsaved' = FALSE
               ELSE UNCHANGED formVars
    BY DEF Deliver
  <1>2. v \in 0 .. Newest /\ v \in Positions
    BY <1>1, ScreenConstants DEF Deliver, TypeInv, TypeOK, Positions, None, Newest
  <1>3. Content(v) \in Values \cup {Gone} /\ (k = "detail" => Content(v) \in Values)
    BY <1>1, <1>2 DEF TypeInv, TypeOK, Content, Newest, Ok
  <1>4. /\ data' \in [Keys -> {None} \cup Positions]
        /\ fresh' \in [Keys -> BOOLEAN] /\ failed' \in [Keys -> BOOLEAN]
        /\ flight' \in [Keys -> {None} \cup Positions]
        /\ tries' \in [Keys -> 0 .. MaxRetries]
    BY <1>1, <1>2, ScreenConstants DEF Deliver, Landed, TypeInv, TypeOK
  <1>5. form' \in FormValues(page) /\ allow' \in BOOLEAN /\ unsaved' \in BOOLEAN
    BY <1>1, <1>3 DEF TypeInv, TypeOK, formVars, FormValues
  <1>6. TypeOK'
    BY <1>1, <1>4, <1>5
    DEF Deliver, Landed, TypeInv, TypeOK, tab, backend, Newest, FormValues
  <1>7. WellPlaced'
    <2>1. Newest' = Newest /\ acked' = acked /\ shows' = shows
          /\ history' = history
      BY DEF Deliver, backend, Newest
    <2>2. acked \in Nat /\ Newest \in Nat
      BY DEF TypeInv, TypeOK, Positions, Newest
    <2>3. \A j \in Keys : data'[j] <= Newest /\ flight'[j] <= acked
      BY <1>1, <1>2, <2>2 DEF Deliver, Landed, TypeInv, TypeOK, WellPlaced, None
    <2>4. save'.at <= Newest
      BY SaveTypes DEF Deliver, Landed, TypeInv
    <2>5. data'["detail"] # None => history[data'["detail"] + 1] # Gone
      BY <1>1, <1>3 DEF TypeInv, TypeOK, WellPlaced, Content, Ok, Keys
    <2> QED BY <2>1, <2>2, <2>3, <2>4, <2>5 DEF WellPlaced, TypeInv, Content
  <1> QED BY <1>6, <1>7 DEF TypeInv

\* Failed answers keep the types, tried again or not.
LEMMA FailType ==
  ASSUME TypeInv, NEW k \in Keys, Fail(k) \/ NotFound(k)
  PROVE  TypeInv'
  <1>1. UNCHANGED <<tab, backend, data, formVars, shows>>
    BY DEF Fail, NotFound
  <1>2. acked \in Positions /\ Newest \in Nat /\ acked >= None
    BY ScreenConstants DEF TypeInv, TypeOK, Positions, Newest, None
  <1>3. CASE GiveUp(k)
    <2>1. save' \in Saves /\ save'.at <= Newest
      BY <1>3, SaveTypes DEF GiveUp, Landed, TypeInv
    <2>2. TypeOK'
      BY <1>1, <1>3, <2>1, ScreenConstants
      DEF GiveUp, Landed, TypeInv, TypeOK, tab, backend, formVars, Saves, Newest
    <2>3. WellPlaced'
      BY <1>1, <1>2, <1>3, <2>1
      DEF GiveUp, Landed, TypeInv, TypeOK, WellPlaced, backend, Newest, Content, None,
          Positions
    <2> QED BY <2>2, <2>3 DEF TypeInv
  <1>4. CASE /\ tries[k] < MaxRetries
             /\ tries' = [tries EXCEPT ![k] = @ + 1]
             /\ flight' = [flight EXCEPT ![k] = acked]
             /\ late' = late \ {k}
             /\ UNCHANGED <<fresh, failed, save>>
    <2>1. tries' \in [Keys -> 0 .. MaxRetries]
      BY <1>4, ScreenConstants DEF TypeInv, TypeOK
    <2>2. TypeOK'
      BY <1>1, <1>2, <1>4, <2>1 DEF TypeInv, TypeOK, tab, backend, formVars, Newest
    <2>3. WellPlaced'
      BY <1>1, <1>2, <1>4
      DEF TypeInv, TypeOK, WellPlaced, backend, Newest, Content, Positions
    <2> QED BY <2>2, <2>3 DEF TypeInv
  <1> QED BY <1>3, <1>4 DEF Fail, NotFound

\* Types are kept by what happens without the backend: ageing, a retry,
\* a full load, typing, submitting and an error.
LEMMA TabType ==
  ASSUME TypeInv,
         \/ \E k \in Keys : Age(k)
         \/ Retry
         \/ \E p \in Pages : Load(p)
         \/ \E v \in Values : Type(v)
         \/ \E op \in Saving : Submit(op)
         \/ Reject
  PROVE  TypeInv'
  <1>1. acked \in Positions /\ Newest \in Nat /\ Newest' = Newest
    <2>1. history' = history
      <3>1. ASSUME NEW op, Submit(op)
            PROVE  history' = history
        BY <3>1 DEF Submit, backend
      <3> QED BY <3>1 DEF Age, Retry, Load, Type, Reject, backend
    <2> QED BY <2>1, ScreenConstants DEF TypeInv, TypeOK, Positions, Newest
  <1>2. CASE \E k \in Keys : Age(k)
    BY <1>2 DEF Age, TypeInv, TypeOK, WellPlaced, tab, backend, formVars, Newest, Content
  <1>3. CASE Retry
    <2>1. Active(page) \in SUBSET Keys
      BY ActiveKeys, ScreenConstants DEF TypeInv, TypeOK, AllPages
    <2>2. /\ flight' \in [Keys -> {None} \cup Positions]
          /\ tries' \in [Keys -> 0 .. MaxRetries]
          /\ failed' \in [Keys -> BOOLEAN]
      BY <1>1, <1>3, <2>1, SendType DEF Retry, TypeInv
    <2>3. TypeOK'
      BY <1>3, <2>1, <2>2 DEF Retry, TypeInv, TypeOK, tab, backend, formVars, Newest
    <2>4. WellPlaced'
      BY <1>1, <1>3, <2>1
      DEF Retry, Send, TypeInv, TypeOK, WellPlaced, backend, Newest, Content, Positions
    <2> QED BY <2>3, <2>4 DEF TypeInv
  <1>4. CASE \E p \in Pages : Load(p)
    <2>1. PICK p \in Pages : Load(p)
      BY <1>4
    <2>2. save' \in Saves /\ save'.at <= Newest
      BY <2>1, SaveTypes DEF Load, TypeInv
    <2>3. /\ data' \in [Keys -> {None} \cup Positions]
          /\ flight' \in [Keys -> {None} \cup Positions]
          /\ fresh' \in [Keys -> BOOLEAN] /\ failed' \in [Keys -> BOOLEAN]
          /\ tries' \in [Keys -> 0 .. MaxRetries]
      BY <1>1, <2>1, ScreenConstants DEF Load
    <2>4. /\ form' \in FormValues(page') /\ allow' = FALSE /\ unsaved' = FALSE /\ late' = {}
          /\ page' \in Pages /\ moves' \in 0 .. MaxMoves
          /\ UNCHANGED <<slice, history, acked, shows, saves>>
      BY <2>1, ScreenConstants DEF Load, TypeInv, TypeOK, FormValues
    <2>5. TypeOK'
      BY <1>1, <2>2, <2>3, <2>4 DEF TypeInv, TypeOK, Saves, FormValues
    <2>6. WellPlaced'
      BY <1>1, <2>1, <2>2, ScreenConstants
      DEF Load, TypeInv, TypeOK, WellPlaced, Newest, Content, None, Positions, Keys
    <2> QED BY <2>5, <2>6 DEF TypeInv
  <1>5. CASE \E v \in Values : Type(v)
    BY <1>5 DEF Type, FormShown, TypeInv, TypeOK, WellPlaced, tab, backend, cacheVars, Newest, Content
  <1>6. CASE \E op \in Saving : Submit(op)
    <2>1. PICK op \in Saving : Submit(op)
      BY <1>6
    <2>2. op = "update" => form \in Values
      BY <2>1 DEF Submit, FormShown, TypeInv, TypeOK
    <2>3. save' \in Saves /\ save'.at <= Newest
      <3>1. save' = [op |-> op, stage |-> "sent",
                     value |-> IF op = "update" THEN form ELSE Gone,
                     here |-> TRUE, at |-> 0, waits |-> {}]
        BY <2>1 DEF Submit, NoSave, Saving
      <3>2. 0 \in Positions
        BY ScreenConstants DEF Positions
      <3> QED BY <1>1, <2>2, <3>1, <3>2 DEF Saves
    <2>6. /\ UNCHANGED <<backend, slice, page, moves, cacheVars, formVars, shows, late>>
          /\ saves < MaxSaves /\ saves' = saves + 1
      BY <2>1 DEF Submit
    <2>4. TypeOK'
      BY <2>3, <2>6, ScreenConstants
      DEF TypeInv, TypeOK, Saves, backend, cacheVars, formVars, Newest
    <2>5. WellPlaced'
      BY <2>3, <2>6 DEF TypeInv, WellPlaced, backend, cacheVars, Newest, Content
    <2> QED BY <2>4, <2>5 DEF TypeInv
  <1>7. CASE Reject
    <2>1. save' \in Saves /\ save'.at <= Newest
      BY <1>7, SaveTypes DEF Reject, TypeInv
    <2>2. TypeOK'
      BY <1>7, <2>1 DEF Reject, TypeInv, TypeOK, Saves, tab, backend, cacheVars, Newest
    <2>3. WellPlaced'
      BY <1>7, <2>1 DEF Reject, TypeInv, WellPlaced, backend, cacheVars, Newest, Content
    <2> QED BY <2>2, <2>3 DEF TypeInv
  <1> QED BY <1>2, <1>3, <1>4, <1>5, <1>6, <1>7

\* Types are kept by moving inside the application.
LEMMA MoveType == ASSUME TypeInv, (\E p \in Pages : Go(p)) \/ Return
                  PROVE  TypeInv'
  <1>1. ASSUME NEW p \in Pages, Go(p)
        PROVE  TypeInv'
    <2>1. moves' \in 0 .. MaxMoves
      BY <1>1, ScreenConstants DEF Go, TypeInv, TypeOK
    <2> QED BY <1>1, <2>1, ShowType DEF Go
  <1>2. CASE Return /\ Show("all") /\ UNCHANGED <<moves, saves>>
    <2>1. "all" \in Pages /\ moves' \in 0 .. MaxMoves /\ save' = NoSave
      BY <1>2, ScreenConstants DEF Return, TypeInv, TypeOK
    <2> QED BY <1>2, <2>1, ShowType
  <1>3. CASE /\ save' = NoSave
             /\ UNCHANGED <<tab, backend, cacheVars, formVars, shows, late>>
    <2>1. save' \in Saves /\ save'.at <= Newest
      BY <1>3, SaveTypes DEF TypeInv
    <2>2. TypeOK'
      BY <1>3, <2>1 DEF TypeInv, TypeOK, Saves, tab, backend, cacheVars, formVars, Newest
    <2>3. WellPlaced'
      BY <1>3, <2>1 DEF TypeInv, WellPlaced, backend, cacheVars, Newest, Content
    <2> QED BY <2>2, <2>3 DEF TypeInv
  <1> QED BY <1>1, <1>2, <1>3 DEF Return

\* Types are kept when the record is written, by this tab or somebody else.
LEMMA WriteType ==
  ASSUME TypeInv, Apply \/ \E c \in Values \cup {Gone} : OtherWrites(c)
  PROVE  TypeInv'
  <1>1. PICK c \in Values \cup {Gone} :
          history' = Append(history, c) /\ Newest < MaxCommits
    BY ContentType DEF Apply, OtherWrites, TypeInv, TypeOK
  <1>2. /\ history' \in Seq(Values \cup {Gone})
        /\ Newest' = Newest + 1 /\ Newest' \in Positions
        /\ \A v \in 0 .. Newest : history'[v + 1] = history[v + 1]
    BY <1>1, AppendKeeps DEF TypeInv
  <1>3. acked' \in 0 .. Newest' /\ acked <= acked' /\ Newest \in Nat
    BY <1>2, ScreenConstants DEF Apply, OtherWrites, TypeInv, TypeOK, Positions
  <1>4. save' \in Saves /\ save'.at <= Newest'
    <2>1. CASE save' = save
      BY <1>2, <1>3, <2>1, SaveTypes DEF TypeInv, Saves, Positions
    <2>2. CASE save' = [save EXCEPT !.stage = "applied", !.value = Gone,
                                    !.at = Newest + 1]
      <3>1. Newest + 1 \in Positions /\ Newest' = Newest + 1
        BY <1>2
      <3>2. save \in Saves
        BY SaveTypes DEF TypeInv
      <3>3. save' \in Saves /\ save'.at = Newest + 1
        BY <2>2, <3>1, <3>2 DEF Saves
      <3> QED BY <1>3, <3>1, <3>3
    <2> QED BY <2>1, <2>2 DEF Apply, OtherWrites
  <1>5. UNCHANGED <<tab, cacheVars, formVars, shows, late>>
    BY DEF Apply, OtherWrites
  <1>6. TypeOK'
    BY <1>2, <1>3, <1>4, <1>5 DEF TypeInv, TypeOK, Saves, tab, cacheVars, formVars, Positions
  <1>7. WellPlaced'
    <2>1. /\ data' = data /\ flight' = flight /\ shows' = shows
          /\ \A k \in Keys : /\ data[k] \in Int /\ flight[k] \in Int /\ shows[k] \in Int
                             /\ data[k] <= Newest /\ flight[k] <= acked
                             /\ shows[k] <= acked
      BY <1>5 DEF TypeInv, TypeOK, WellPlaced, cacheVars, Positions, None
    <2>2. acked \in Int /\ acked' \in Int
      BY <1>3 DEF TypeInv, TypeOK
    <2>3. \A k \in Keys : data'[k] <= Newest' /\ flight'[k] <= acked' /\ shows'[k] <= acked'
      BY <1>2, <1>3, <2>1, <2>2
    <2>4. data'["detail"] # None => history'[data'["detail"] + 1] # Gone
      <3>1. ASSUME data["detail"] # None
            PROVE  data["detail"] \in 0 .. Newest
        BY <3>1, <1>3, <2>1 DEF TypeInv, TypeOK, Positions, None, Keys
      <3> QED BY <1>2, <2>1, <3>1 DEF TypeInv, WellPlaced, Content
    <2> QED BY <1>4, <2>3, <2>4 DEF WellPlaced, Content
  <1> QED BY <1>6, <1>7 DEF TypeInv

\* Types are kept when a save is answered and its invalidations are sent out.
LEMMA SucceedType == ASSUME TypeInv, Succeed
                     PROVE  TypeInv'
  <1> DEFINE stale == Invalidates(save.op)
             seen == stale \cap Active(page)
             again == {k \in seen : flight[k] = None \/ data[k] # None}
             at == IF save.at > acked THEN save.at ELSE acked
  <1>1. stale \subseteq Keys
    BY InvalidatesChanges DEF TypeInv, TypeOK
  <1>2. /\ save \in Saves /\ save.at <= Newest /\ save.at \in Positions
        /\ acked \in Positions /\ Newest \in Nat
    <2>1. save \in Saves /\ save.at <= Newest
      BY SaveTypes DEF TypeInv
    <2>2. save.at \in Positions
      BY <2>1 DEF Saves
    <2>3. acked \in Positions /\ Newest \in Nat
      BY ScreenConstants DEF TypeInv, TypeOK, Positions
    <2> QED BY <2>1, <2>2, <2>3
  <1>3. at \in 0 .. Newest /\ at \in Positions /\ acked <= at /\ save.at <= at
    BY <1>2 DEF TypeInv, TypeOK, Positions
  <1>4. Send(again, at) /\ again \in SUBSET Keys
    BY <1>1 DEF Succeed
  <1>5. /\ flight' \in [Keys -> {None} \cup Positions]
        /\ tries' \in [Keys -> 0 .. MaxRetries]
        /\ failed' \in [Keys -> BOOLEAN]
    <2> HIDE DEF again, at
    <2> QED BY <1>3, <1>4, SendType DEF TypeInv
  <1>6. save' \in Saves /\ save'.at <= Newest
    <2>1. save' = [save EXCEPT !.stage = "refetching", !.at = 0, !.waits = seen]
      BY DEF Succeed
    <2>2. seen \in SUBSET Keys /\ 0 \in Positions
      BY <1>1, ScreenConstants DEF Positions
    <2> HIDE DEF seen
    <2>3. save' \in Saves /\ save'.at = 0
      BY <1>2, <2>1, <2>2 DEF Saves
    <2> QED BY <1>2, <2>3
  <1>7. /\ acked' = at /\ late' \subseteq Keys
        /\ fresh' \in [Keys -> BOOLEAN] /\ shows' \in [Keys -> Positions]
        /\ allow' \in BOOLEAN /\ unsaved' \in BOOLEAN
        /\ UNCHANGED <<history, tab, data, form>>
    BY <1>1, <1>2 DEF Succeed, TypeInv, TypeOK, OpenWay
  <1>8. TypeOK'
    <2> HIDE DEF at
    <2> QED BY <1>3, <1>5, <1>6, <1>7 DEF TypeInv, TypeOK, Saves, tab, Newest
  <1>9. WellPlaced'
    <2>1. ASSUME NEW k \in Keys
          PROVE  flight'[k] <= acked' /\ shows'[k] <= acked'
      <3>1. /\ flight[k] \in Int /\ shows[k] \in Int /\ acked \in Int /\ at \in Int
            /\ flight[k] <= acked /\ shows[k] <= acked /\ save.at \in Int
        BY <1>2, <1>3 DEF TypeInv, TypeOK, WellPlaced, Positions, None
      <3>2. flight'[k] \in {at, flight[k]} /\ shows'[k] \in {save.at, shows[k]}
        BY <1>4 DEF Send, Succeed
      <3> HIDE DEF at
      <3> QED BY <1>3, <1>7, <3>1, <3>2
    <2>2. \A k \in Keys : data'[k] <= Newest'
      BY <1>7 DEF TypeInv, WellPlaced, Newest
    <2> QED BY <1>6, <1>7, <2>1, <2>2 DEF TypeInv, WellPlaced, Newest, Content
  <1> QED BY <1>8, <1>9 DEF TypeInv

\* A tab opens well typed.
LEMMA InitType == Init => TypeInv
  <1> SUFFICES ASSUME Init PROVE TypeInv
    OBVIOUS
  <1>1. Len(history) = 1 /\ history \in Seq(Values \cup {Gone}) /\ Newest = 0
    BY ScreenConstants DEF Init, Newest
  <1>2. NoSave \in Saves /\ NoSave.at = 0 /\ 0 \in Positions
    BY ScreenConstants DEF NoSave, Saves, Positions
  <1>3. TypeOK
    <2>1. /\ data \in [Keys -> {None} \cup Positions]
          /\ flight \in [Keys -> {None} \cup Positions]
      BY <1>2 DEF Init
    <2>2. /\ fresh \in [Keys -> BOOLEAN] /\ failed \in [Keys -> BOOLEAN]
          /\ tries \in [Keys -> 0 .. MaxRetries]
          /\ shows \in [Keys -> Positions] /\ late \subseteq Keys
      BY <1>2, ScreenConstants DEF Init
    <2>3. /\ page \in Pages /\ moves \in 0 .. MaxMoves /\ saves \in 0 .. MaxSaves
          /\ acked \in 0 .. Newest /\ Newest \in Positions
      BY <1>1, ScreenConstants DEF Init, Positions
    <2>4. form \in FormValues(page)
      <3>1. data["detail"] = None
        BY DEF Init, Keys
      <3> QED BY <3>1 DEF Init, InitialValues, FormValues
    <2> QED BY <1>1, <1>2, <2>1, <2>2, <2>3, <2>4 DEF Init, TypeOK, Saves, FormValues
  <1>4. WellPlaced
    BY <1>1, <1>2 DEF Init, WellPlaced, None, Keys
  <1> QED BY <1>3, <1>4 DEF TypeInv

\* Every step keeps the types.
LEMMA TypeStep == ASSUME TypeInv, [Next]_vars
                  PROVE  TypeInv'
  <1>1. CASE UNCHANGED vars
    BY <1>1 DEF vars, TypeInv, TypeOK, WellPlaced, tab, backend, cacheVars, formVars,
                Newest, Content
  <1>2. CASE Next
    BY <1>2, DeliverType, FailType, TabType, MoveType, WriteType, SucceedType DEF Next
  <1> QED BY <1>1, <1>2

\* The tab's state keeps its types: what the form holds is always a record
\* the backend sent or the user typed, and no fetch is retried too often.
THEOREM TypeCorrect == Spec => []TypeOK
  <1>1. TypeInv /\ [Next]_vars => TypeInv'
    BY TypeStep
  <1>2. TypeInv => TypeOK
    BY DEF TypeInv
  <1> QED BY InitType, <1>1, <1>2, PTL DEF Spec

-----------------------------------------------------------------------------
(* OnlyRunningFetchesHideSaves.  A query is always in one of three states:  *)
(* its running fetch was sent after the newest answered save, or what it    *)
(* has and counts as fresh is that new, or it is accounted for in `late'.   *)

Accounted ==
  \A k \in Keys :
    /\ k \in Active(page) /\ flight[k] = None /\ ~failed[k] => fresh[k]
    /\ flight[k] # None => flight[k] >= shows[k] \/ k \in late
    /\ fresh[k] /\ flight[k] = None => data[k] >= shows[k] \/ k \in late

\* The numbers of a query can be compared.
LEMMA KeyNumbers == ASSUME TypeInv, NEW k \in Keys
                    PROVE  /\ data[k] \in Int /\ flight[k] \in Int
                           /\ shows[k] \in Int /\ acked \in Int
                           /\ shows[k] <= acked /\ None \notin Positions
  BY DEF TypeInv, TypeOK, WellPlaced, Positions, None

\* Showing a page asks for everything on it that is not fresh.
LEMMA ShowAccounts == ASSUME TypeInv, Accounted, NEW p \in Pages, Show(p)
                      PROVE  Accounted'
  <1> SUFFICES ASSUME NEW k \in Keys
               PROVE /\ k \in Active(p) /\ flight'[k] = None /\ ~failed'[k] => fresh[k]
                     /\ flight'[k] # None => flight'[k] >= shows[k] \/ k \in late'
                     /\ fresh[k] /\ flight'[k] = None
                          => data[k] >= shows[k] \/ k \in late'
    BY DEF Accounted, Show, Active
  <1> DEFINE due == {q \in Active(p) \ Active(page) : flight[q] = None /\ ~fresh[q]}
  <1>1. /\ late' = late \ due
        /\ flight'[k] = IF k \in due THEN acked ELSE flight[k]
        /\ failed'[k] = (failed[k] /\ (k \in due => data[k] # None))
    BY DEF Show, Send
  <1>2. CASE k \in due
    BY <1>1, <1>2, KeyNumbers DEF None, TypeInv, TypeOK
  <1>3. CASE k \notin due
    BY <1>1, <1>3, KeyNumbers DEF Accounted
  <1> QED BY <1>2, <1>3

\* A fetch that ends with an answer brings one as new as it was sent.
LEMMA DeliverAccounts == ASSUME TypeInv, Accounted, NEW q \in Keys, Deliver(q)
                         PROVE  Accounted'
  <1>1. PICK v \in flight[q] .. Newest :
          /\ data' = [data EXCEPT ![q] = v]
          /\ late' = IF v < shows[q] THEN late ELSE late \ {q}
    BY DEF Deliver
  <1>2. /\ flight[q] # None /\ flight' = [flight EXCEPT ![q] = None]
        /\ fresh' = [fresh EXCEPT ![q] = TRUE]
        /\ failed' = [failed EXCEPT ![q] = FALSE]
        /\ page' = page /\ slice' = slice /\ shows' = shows
    BY DEF Deliver, Landed, tab
  <1>3. /\ DOMAIN flight = Keys /\ DOMAIN fresh = Keys /\ DOMAIN data = Keys
        /\ DOMAIN failed = Keys
    BY DEF TypeInv, TypeOK
  <1> SUFFICES ASSUME NEW k \in Keys
               PROVE /\ k \in Active(page) /\ flight'[k] = None /\ ~failed'[k]
                          => fresh'[k]
                     /\ flight'[k] # None => flight'[k] >= shows[k] \/ k \in late'
                     /\ fresh'[k] /\ flight'[k] = None
                          => data'[k] >= shows[k] \/ k \in late'
    BY <1>2 DEF Accounted, Active
  <1>4. CASE k = q
    <2>1. flight[q] >= shows[q] \/ q \in late
      BY <1>2 DEF Accounted
    <2>2. v >= flight[q] /\ v \in Int /\ shows[q] \in Int /\ flight[q] \in Int
      BY KeyNumbers
    <2> QED BY <1>1, <1>2, <1>3, <1>4, <2>1, <2>2
  <1>5. CASE k # q
    BY <1>1, <1>2, <1>3, <1>5 DEF Accounted
  <1> QED BY <1>4, <1>5

\* A fetch that fails is sent again later, or leaves data that are not fresh.
LEMMA FailAccounts ==
  ASSUME TypeInv, Accounted, NEW q \in Keys, Fail(q) \/ NotFound(q)
  PROVE  Accounted'
  <1>1. /\ page' = page /\ slice' = slice /\ shows' = shows /\ data' = data
        /\ late' = late \ {q}
    BY DEF Fail, NotFound, GiveUp, tab
  <1>2. \/ flight' = [flight EXCEPT ![q] = acked] /\ UNCHANGED <<fresh, failed>>
        \/ /\ flight' = [flight EXCEPT ![q] = None]
           /\ fresh' = [fresh EXCEPT ![q] = FALSE]
           /\ failed' = [failed EXCEPT ![q] = TRUE]
    BY DEF Fail, NotFound, GiveUp, Landed
  <1>3. /\ DOMAIN flight = Keys /\ DOMAIN fresh = Keys /\ DOMAIN failed = Keys
        /\ acked # None
    BY DEF TypeInv, TypeOK, None
  <1> SUFFICES ASSUME NEW k \in Keys
               PROVE /\ k \in Active(page) /\ flight'[k] = None /\ ~failed'[k]
                          => fresh'[k]
                     /\ flight'[k] # None => flight'[k] >= shows[k] \/ k \in late'
                     /\ fresh'[k] /\ flight'[k] = None
                          => data[k] >= shows[k] \/ k \in late'
    BY <1>1 DEF Accounted, Active
  <1>4. CASE k = q
    BY <1>1, <1>2, <1>3, <1>4, KeyNumbers
  <1>5. CASE k # q
    BY <1>1, <1>2, <1>3, <1>5 DEF Accounted
  <1> QED BY <1>4, <1>5

\* A full load asks for everything on the page; Retry for everything on it.
LEMMA AskAccounts ==
  ASSUME TypeInv, Accounted, Retry \/ \E p \in Pages : Load(p)
  PROVE  Accounted'
  <1>1. ASSUME NEW p \in Pages, Load(p)
        PROVE  Accounted'
    <2>1. acked # None /\ acked \in Int
      BY DEF TypeInv, TypeOK, None
    <2>2. ASSUME NEW k \in Keys
          PROVE  /\ flight'[k] = IF k \in Active(p) THEN acked ELSE None
                 /\ shows'[k] <= acked /\ shows'[k] \in Int
                 /\ ~fresh'[k]
      BY <1>1, KeyNumbers DEF Load
    <2>3. page' = p /\ slice' = slice
      BY <1>1 DEF Load
    <2> QED BY <2>1, <2>2, <2>3 DEF Accounted, Active
  <1>2. CASE Retry
    <2>1. /\ page' = page /\ slice' = slice
          /\ fresh' = fresh /\ shows' = shows /\ data' = data
      BY <1>2 DEF Retry, tab
    <2> SUFFICES ASSUME NEW k \in Keys
                 PROVE /\ k \in Active(page) /\ flight'[k] = None /\ ~failed'[k]
                            => fresh[k]
                       /\ flight'[k] # None => flight'[k] >= shows[k] \/ k \in late'
                       /\ fresh[k] /\ flight'[k] = None
                            => data[k] >= shows[k] \/ k \in late'
      BY <2>1 DEF Accounted, Active
    <2>2. /\ late' = late \ Active(page)
          /\ flight'[k] = IF k \in Active(page) THEN acked ELSE flight[k]
      BY <1>2 DEF Retry, Send
    <2>3. CASE k \in Active(page)
      BY <2>2, <2>3, KeyNumbers DEF None, TypeInv, TypeOK
    <2>4. CASE k \notin Active(page)
      BY <2>2, <2>4 DEF Accounted
    <2> QED BY <2>3, <2>4
  <1> QED BY <1>1, <1>2

\* An answered save asks again for what it changed, or notes the fetch that an
\* invalidation leaves running.
LEMMA SucceedAccounts == ASSUME TypeInv, Accounted, Succeed
                         PROVE  Accounted'
  <1> DEFINE stale == Invalidates(save.op)
             seen == stale \cap Active(page)
             again == {k \in seen : flight[k] = None \/ data[k] # None}
             at == IF save.at > acked THEN save.at ELSE acked
  <1>1. save.at \in Positions /\ acked \in Positions /\ save.at \in Int /\ acked \in Int
    BY ScreenConstants DEF TypeInv, TypeOK, Positions
  <1>2. at \in Int /\ at # None /\ at >= save.at /\ at >= acked
    BY <1>1 DEF None, Positions
  <1>3. page' = page /\ slice' = slice /\ data' = data
    BY DEF Succeed, tab
  <1>4. Changes(save.op) \subseteq stale
    BY InvalidatesChanges DEF TypeInv, TypeOK
  <1> SUFFICES ASSUME NEW k \in Keys
               PROVE /\ k \in Active(page) /\ flight'[k] = None /\ ~failed'[k]
                          => fresh'[k]
                     /\ flight'[k] # None => flight'[k] >= shows'[k] \/ k \in late'
                     /\ fresh'[k] /\ flight'[k] = None
                          => data[k] >= shows'[k] \/ k \in late'
    BY <1>3 DEF Accounted, Active
  <1>5. /\ flight'[k] = IF k \in again THEN at ELSE flight[k]
        /\ failed'[k] = (failed[k] /\ (k \in again => data[k] # None))
        /\ fresh'[k] = (fresh[k] /\ k \notin stale)
        /\ shows'[k] = IF k \in Changes(save.op) THEN save.at ELSE shows[k]
        /\ late' = (late \ again) \cup {q \in stale \ again : flight[q] # None}
    BY DEF Succeed, Send
  <1>6. CASE k \in again
    <2>3. flight'[k] = at /\ ~fresh'[k]
      BY <1>5, <1>6
    <2>4. shows'[k] <= at
      <3> HIDE DEF at
      <3> QED BY <1>1, <1>2, <1>5, KeyNumbers
    <2>2. shows'[k] \in Int
      BY <1>1, <1>5, KeyNumbers
    <2> HIDE DEF at
    <2> QED BY <1>2, <2>2, <2>3, <2>4
  <1>7. CASE k \in stale \ again
    BY <1>5, <1>7 DEF Accounted
  <1>8. CASE k \notin stale
    <2>1. flight'[k] = flight[k] /\ shows'[k] = shows[k]
      BY <1>4, <1>5, <1>8
    <2>2. /\ failed'[k] <=> failed[k]
          /\ fresh'[k] <=> fresh[k]
          /\ k \in late => k \in late'
      BY <1>5, <1>8
    <2> QED BY <2>1, <2>2 DEF Accounted
  <1> QED BY <1>6, <1>7, <1>8

\* What neither fetches nor invalidates accounts for nothing new.
LEMMA QuietAccounts ==
  ASSUME TypeInv, Accounted,
         \/ \E k \in Keys : Age(k)
         \/ \E v \in Values : Type(v)
         \/ \E op \in Saving : Submit(op)
         \/ Apply \/ Reject
         \/ \E c \in Values \cup {Gone} : OtherWrites(c)
         \/ UNCHANGED vars
  PROVE  Accounted'
  <1>1. ASSUME NEW q \in Keys, Age(q)
        PROVE  Accounted'
    BY <1>1 DEF Age, Accounted, Active, tab, TypeInv, TypeOK
  <1>2. CASE ~\E q \in Keys : Age(q)
    <2>1. UNCHANGED <<slice, page, cacheVars, shows, late>>
      BY <1>2 DEF Type, Submit, Apply, Reject, OtherWrites, tab, vars
    <2> QED BY <2>1 DEF Accounted, Active, cacheVars
  <1> QED BY <1>1, <1>2

\* The cache starts empty, with a fetch for everything on screen.
LEMMA InitAccounts == Init => Accounted
  BY DEF Init, Accounted, None

\* Every step keeps the queries accounted for.
LEMMA AccountedStep == ASSUME TypeInv, Accounted, [Next]_vars
                       PROVE  Accounted'
  <1>1. ASSUME NEW p \in Pages, Go(p)
        PROVE  Accounted'
    BY <1>1, ShowAccounts DEF Go
  <1>2. CASE Return
    <2>1. CASE Show("all")
      BY <2>1, ShowAccounts, ScreenConstants
    <2>2. CASE UNCHANGED <<tab, backend, cacheVars, formVars, shows, late>>
      BY <2>2 DEF Accounted, Active, cacheVars, tab
    <2> QED BY <1>2, <2>1, <2>2 DEF Return
  <1> QED BY <1>1, <1>2, DeliverAccounts, FailAccounts, AskAccounts, SucceedAccounts,
             QuietAccounts DEF Next

\* A view that hides a save the user was told has succeeded is one whose fetch
\* was running when the answer came and was not restarted, whatever the pages,
\* the failures and the number of saves of this tab and of others.
THEOREM HiddenSavesAreLate == Spec => []OnlyRunningFetchesHideSaves
  <1>1. TypeInv /\ Accounted /\ [Next]_vars => (TypeInv /\ Accounted)'
    BY TypeStep, AccountedStep
  <1>2. TypeInv /\ Accounted => OnlyRunningFetchesHideSaves
    <2> SUFFICES ASSUME TypeInv, Accounted, NEW k \in Keys,
                        TakenForCurrent(k), data[k] < shows[k]
                 PROVE  k \in late
      BY DEF OnlyRunningFetchesHideSaves
    <2>1. flight[k] = None /\ fresh[k]
      BY DEF TakenForCurrent, Accounted
    <2> QED BY <2>1, KeyNumbers DEF Accounted
  <1> QED BY InitType, InitAccounts, <1>1, <1>2, PTL DEF Spec

-----------------------------------------------------------------------------
(* The leave guard.  What was typed closes it; while a save that succeeded  *)
(* waits for its refetches, the form is let go or equals what is cached.    *)

\* The save has succeeded, and its form waits to return to the list.
Returning == /\ save.stage = "refetching" /\ save.here /\ save.op # "listDelete"
             /\ ~unsaved /\ page \in Forms /\ form # NoForm

FormGuard ==
  /\ unsaved => ~allow
  /\ page = "edit" /\ form # NoForm => data["detail"] # None
  /\ Returning => allow \/ form = InitialValues(page)

\* Settling a refetch and leaving the page change nothing else of a save.
LEMMA SaveFields ==
  ASSUME TypeInv
  PROVE  /\ \A k \in Keys : /\ [save EXCEPT !.waits = @ \ {k}].stage = save.stage
                            /\ [save EXCEPT !.waits = @ \ {k}].here = save.here
                            /\ [save EXCEPT !.waits = @ \ {k}].op = save.op
         /\ ~[save EXCEPT !.here = FALSE].here
         /\ ~NoSave.here
  <1>1. save \in Saves
    BY SaveTypes DEF TypeInv
  <1> QED BY <1>1 DEF Saves, NoSave

\* A page that is shown has a form as it is cached, or none.
LEMMA ShowGuards ==
  ASSUME NEW p \in Pages, Show(p), ~save'.here
  PROVE  FormGuard'
  BY DEF Show, InitialValues, FormGuard, Returning

\* A fetch that ends fills the form anew, or finds the content it had.
LEMMA FetchGuards ==
  ASSUME TypeInv, FormGuard, NEW k \in Keys, Deliver(k) \/ Fail(k) \/ NotFound(k)
  PROVE  FormGuard'
  <1>1. CASE Deliver(k)
    <2>1. PICK v \in flight[k] .. Newest :
            /\ data' = [data EXCEPT ![k] = v]
            /\ IF /\ k = "detail" /\ page = "edit"
                  /\ data[k] = None \/ Content(v) # Content(data[k])
                 THEN form' = Content(v) /\ allow' = FALSE /\ unsaved' = FALSE
                 ELSE UNCHANGED formVars
      BY <1>1 DEF Deliver
    <2>2. /\ save' = [save EXCEPT !.waits = @ \ {k}] /\ page' = page
          /\ history' = history
      BY <1>1 DEF Deliver, Landed, tab, backend
    <2>3. v # None /\ data \in [Keys -> {None} \cup Positions] /\ "detail" \in Keys
      <3>1. flight[k] \in Positions
        BY <1>1 DEF Deliver, TypeInv, TypeOK
      <3> QED BY <2>1, <3>1 DEF TypeInv, TypeOK, Positions, None, Keys
    <2>4. CASE /\ k = "detail" /\ page = "edit" => Content(v) = Content(data[k])
               /\ form' = form /\ allow' = allow /\ unsaved' = unsaved
      <3>1. Returning' => Returning
        BY <2>2, <2>4, SaveFields DEF Returning
      <3>2. page = "edit" /\ form # NoForm => data'["detail"] # None
        BY <2>1, <2>3 DEF FormGuard
      <3>3. page = "edit" /\ form # NoForm
            => Content(data'["detail"]) = Content(data["detail"])
        BY <2>1, <2>3, <2>4
      <3>4. Returning => InitialValues(page)' = InitialValues(page)
        <4>1. CASE page = "create"
          BY <2>2, <4>1 DEF InitialValues
        <4>2. CASE page = "edit" /\ form # NoForm
          <5>1. page' = "edit" /\ data'["detail"] # None /\ data["detail"] # None
            BY <2>2, <3>2, <4>2 DEF FormGuard
          <5>2. InitialValues(page) = Content(data["detail"])
            BY <4>2, <5>1 DEF InitialValues
          <5>3. InitialValues(page)' = Content(data'["detail"])
            BY <2>2, <5>1 DEF InitialValues, Content
          <5> QED BY <3>3, <4>2, <5>2, <5>3
        <4> QED BY <4>1, <4>2 DEF Returning, Forms
      <3> QED BY <2>2, <2>4, <3>1, <3>2, <3>4 DEF FormGuard
    <2>5. CASE /\ k = "detail" /\ page = "edit"
               /\ form' = Content(v) /\ ~allow' /\ ~unsaved'
      <3>1. data'["detail"] = v /\ page' = "edit"
        BY <2>1, <2>2, <2>3, <2>5
      <3> QED BY <2>2, <2>3, <2>5, <3>1 DEF FormGuard, Content, InitialValues
    <2> QED BY <2>1, <2>4, <2>5 DEF formVars
  <1>2. CASE Fail(k) \/ NotFound(k)
    <2>1. UNCHANGED <<data, form, allow, unsaved, page, history>>
      BY <1>2 DEF Fail, NotFound, tab, backend, formVars
    <2>2. save' = save \/ save' = [save EXCEPT !.waits = @ \ {k}]
      BY <1>2 DEF Fail, NotFound, GiveUp, Landed
    <2>3. Returning' => Returning
      BY <2>1, <2>2, SaveFields DEF Returning
    <2> QED BY <2>1, <2>3 DEF FormGuard, InitialValues, Content
  <1> QED BY <1>1, <1>2

\* A write to the record leaves what is cached where it was.
LEMMA WriteGuards ==
  ASSUME TypeInv, FormGuard, Apply \/ \E c \in Values \cup {Gone} : OtherWrites(c)
  PROVE  FormGuard'
  <1>1. PICK c \in Values \cup {Gone} :
          history' = Append(history, c) /\ Newest < MaxCommits
    BY ContentType DEF Apply, OtherWrites, TypeInv, TypeOK
  <1>2. UNCHANGED <<data, form, allow, unsaved, page>>
    BY DEF Apply, OtherWrites, tab, cacheVars, formVars
  <1>3. Returning' => Returning
    <2>1. save \in Saves
      BY SaveTypes DEF TypeInv
    <2>2. save' = save \/ save'.stage = "applied"
      BY <2>1 DEF Apply, OtherWrites, Saves
    <2> QED BY <1>2, <2>2 DEF Returning
  <1>4. data["detail"] # None => Content(data["detail"])' = Content(data["detail"])
    <2>1. data["detail"] # None => data["detail"] \in 0 .. Newest
      BY DEF TypeInv, TypeOK, WellPlaced, Positions, None, Keys, Newest
    <2> QED BY <1>1, <1>2, <2>1, AppendKeeps DEF TypeInv, Content
  <1> QED BY <1>2, <1>3, <1>4 DEF FormGuard, InitialValues

\* Every step keeps the leave guard right.
LEMMA GuardStep == ASSUME TypeInv, FormGuard, [Next]_vars
                   PROVE  FormGuard'
  <1>1. ASSUME NEW p \in Pages, Go(p)
        PROVE  FormGuard'
    BY <1>1, ShowGuards, SaveFields DEF Go
  <1>2. ASSUME NEW p \in Pages, Load(p)
        PROVE  FormGuard'
    BY <1>2, SaveFields DEF Load, FormGuard, Returning
  <1>3. CASE Return
    <2>1. save' = NoSave /\ ~save'.here
      BY <1>3, SaveFields DEF Return
    <2>2. CASE Show("all")
      BY <2>1, <2>2, ShowGuards, ScreenConstants
    <2>3. CASE UNCHANGED <<tab, backend, cacheVars, formVars, shows, late>>
      BY <2>1, <2>3 DEF FormGuard, Returning, cacheVars, formVars, tab
    <2> QED BY <1>3, <2>2, <2>3 DEF Return
  <1>4. ASSUME NEW v \in Values, Type(v)
        PROVE  FormGuard'
    BY <1>4 DEF Type, FormGuard, Returning, cacheVars, FormShown, tab, Active
  <1>5. ASSUME NEW op \in Saving, Submit(op)
        PROVE  FormGuard'
    <2>1. save'.stage = "sent"
      BY <1>5 DEF Submit, NoSave
    <2> QED BY <1>5, <2>1 DEF Submit, FormGuard, Returning, cacheVars, formVars
  <1>6. CASE Reject
    <2>1. ~save'.here
      BY <1>6, SaveFields DEF Reject
    <2> QED BY <1>6, <2>1 DEF Reject, FormGuard, Returning, cacheVars, tab
  <1>7. CASE Succeed
    <2>1. /\ data' = data /\ form' = form /\ page' = page /\ history' = history
          /\ IF save.here /\ save.op # "listDelete"
               THEN allow' = TRUE /\ unsaved' = FALSE
               ELSE allow' = allow /\ unsaved' = unsaved
      BY <1>7 DEF Succeed, OpenWay, tab
    <2>2. save \in Saves
      BY SaveTypes DEF TypeInv
    <2>3. save'.here = save.here /\ save'.op = save.op
      BY <1>7, <2>2 DEF Succeed, Saves
    <2>4. allow' \/ ~Returning'
      BY <2>1, <2>3 DEF FormGuard, Returning
    <2> QED BY <2>1, <2>3, <2>4 DEF FormGuard
  <1>8. CASE \/ \E k \in Keys : Age(k)
             \/ Retry
             \/ UNCHANGED vars
    <2>1. UNCHANGED <<data, form, allow, unsaved, page, history, save>>
      BY <1>8 DEF Age, Retry, vars, tab, backend, cacheVars, formVars
    <2> QED BY <2>1 DEF FormGuard, Returning, InitialValues, Content
  <1> QED BY <1>1, <1>2, <1>3, <1>4, <1>5, <1>6, <1>7, <1>8, FetchGuards, WriteGuards
          DEF Next

\* A tab opens without a form.
LEMMA InitGuards == Init => FormGuard
  BY DEF Init, FormGuard, Returning, NoSave, InitialValues, None, Keys

\* What was typed, and not sent, is asked for before the user leaves it.
THEOREM EditsAreGuarded == Spec => []UnsavedEditsAreAskedFor
  <1>1. TypeInv /\ FormGuard /\ [Next]_vars => (TypeInv /\ FormGuard)'
    BY TypeStep, GuardStep
  <1>2. TypeInv /\ FormGuard => UnsavedEditsAreAskedFor
    BY DEF FormGuard, UnsavedEditsAreAskedFor, Blocked
  <1> QED BY InitType, InitGuards, <1>1, <1>2, PTL DEF Spec

\* A form whose save has succeeded goes back to the list without a prompt,
\* whatever the refetches it waits for bring, and whoever writes meanwhile.
THEOREM SavedFormsLeave == Spec => []SavedFormsAreNotHeldBack
  <1>1. TypeInv /\ FormGuard /\ [Next]_vars => (TypeInv /\ FormGuard)'
    BY TypeStep, GuardStep
  <1>2. TypeInv /\ FormGuard => SavedFormsAreNotHeldBack
    BY DEF FormGuard, Returning, SavedFormsAreNotHeldBack, Blocked, Dirty
  <1> QED BY InitType, InitGuards, <1>1, <1>2, PTL DEF Spec
===============================================================================
