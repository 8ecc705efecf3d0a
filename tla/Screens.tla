-------------------------------- MODULE Screens --------------------------------
(***************************************************************************)
(* One browser tab: a list page (with and without a filter), the edit page *)
(* of one record, the create page of others and the query cache they       *)
(* share, in front of a backend other people use too.  `slice' says        *)
(* whether it is the cafe or the employee half of the frontend, which      *)
(* differ in what their pages read and in what a write invalidates.        *)
(*                                                                         *)
(* The backend is the sequence of contents the record has had, the last    *)
(* one repeated when the tab created another record, which lists show too; *)
(* an answer to a read is a position in it, any from the newest            *)
(* acknowledged when the request was sent to the newest (RegularReads).    *)
(* The query cache is TanStack Query as the routes use it: a fetch that    *)
(* nothing waits for still runs to its end and then counts as fresh.       *)
(*                                                                         *)
(* A form is one value.  A save is one at a time, and without a logo file, *)
(* so that building its payload takes no time.                             *)
(***************************************************************************)
EXTENDS Integers, Sequences

CONSTANTS
  Values,       \* what the fields of a form can hold
  Stored,       \* the record when the tab is opened
  Gone,         \* the record is deleted
  NoForm,       \* the form is not filled
  Empty,        \* the form of the create page before anything is typed
  Pages,        \* the pages the user visits
  Unreliable,   \* the queries whose requests may fail
  MaxMoves,     \* bound on the user's moves between pages
  MaxSaves,     \* bound on the saves of this tab
  MaxCommits,   \* bound on the writes to the record
  MaxRetries    \* how often a failed read is tried again: 2 in queryClient.ts

ASSUME ScreenConstants ==
  /\ Stored \in Values
  /\ Gone \notin Values /\ NoForm \notin Values /\ Gone # NoForm
  /\ Empty \notin Values \cup {NoForm}
  /\ Pages \subseteq {"all", "near", "edit", "create", "away"}
  /\ {"all", "edit"} \subseteq Pages
  /\ MaxMoves \in Nat /\ MaxSaves \in Nat
  /\ MaxCommits \in Nat /\ MaxRetries \in Nat

VARIABLES
  slice,     \* "cafe" or "employee"
  history,   \* the contents of the record in the database, oldest first
  acked,     \* position in history acknowledged to its writer
  page,      \* the page on screen
  moves,     \* how often the user went to another
  saves,     \* how many saves were sent
  data,      \* per query: the position its data show, or None
  fresh,     \* per query: not invalidated and younger than staleTime
  failed,    \* per query: status "error"
  flight,    \* per query: `acked' when its running fetch was sent, or None
  tries,     \* per query: failures of the running fetch
  form,      \* the value in the form
  allow,     \* allowNavigationRef.current
  save,      \* the mutation under way
  \* History variables.
  unsaved,   \* the user typed, and no answer or refetch replaced it since
  shows,     \* per query: the newest answered save that changed its content
  late       \* queries whose running or last fetch an invalidation left running

cacheVars == <<data, fresh, failed, flight, tries>>
formVars == <<form, allow, unsaved>>
backend == <<history, acked>>
tab == <<slice, page, moves, saves>>
vars == <<backend, tab, cacheVars, formVars, save, shows, late>>

Keys == {"all", "near", "detail", "options"}

None == -1
NoSave == [op |-> "none", stage |-> "sent", value |-> Gone, here |-> FALSE,
           at |-> 0, waits |-> {}]
Content(v) == history[v + 1]
Newest == Len(history) - 1

-----------------------------------------------------------------------------
(* What the pages read and what writes invalidate                          *)

\* The queries mounted on a page.  "options" is ["cafes", "list", null], which
\* the employee form chooses from and the cafe page lists.
Active(p) ==
  LET options == IF slice = "employee" THEN {"options"} ELSE {}
  IN  CASE p = "edit" -> {"detail"} \cup options
        [] p \in {"away", "create"} -> options
        [] OTHER -> {p}

\* What is written without a detail query of its own.
Lists == {"listDelete", "create"}

CafeInvalidates(op) ==
  {"all", "near"} \cup (IF op \in Lists THEN {} ELSE {"detail"})

\* Mutant: the cafe counts are forgotten.
EmployeeInvalidates_NoCafes(op) ==
  {"all", "near"} \cup (IF op \in Lists THEN {} ELSE {"detail"})

EmployeeInvalidates(op) ==
  {"all", "near", "options"} \cup (IF op \in Lists THEN {} ELSE {"detail"})

Invalidates(op) ==
  IF slice = "cafe" THEN CafeInvalidates(op) ELSE EmployeeInvalidates(op)

Forms == {"edit", "create"}

\* What the form of a page is filled with when the page comes on screen, and
\* what it is compared with while it is there.
InitialValues(p) ==
  CASE p = "create" -> Empty
    [] p = "edit" /\ data["detail"] # None -> Content(data["detail"])
    [] OTHER -> NoForm

\* QueryState shows the fields when every read has data and no error.
FormShown ==
  /\ page \in Forms /\ form # NoForm
  /\ \A k \in Active(page) : data[k] # None /\ ~failed[k]

Dirty == form # NoForm /\ form # InitialValues(page)

\* The leave guard asks before it lets the user go.
Blocked == page \in Forms /\ Dirty /\ ~allow

-----------------------------------------------------------------------------
Init ==
  /\ slice \in {"cafe", "employee"}
  /\ history = <<Stored>>
  /\ acked = 0
  /\ page \in Pages \cap {"all", "edit", "create"}
  /\ moves = 0 /\ saves = 0
  /\ data = [k \in Keys |-> None]
  /\ fresh = [k \in Keys |-> FALSE]
  /\ failed = [k \in Keys |-> FALSE]
  /\ flight = [k \in Keys |-> IF k \in Active(page) THEN 0 ELSE None]
  /\ tries = [k \in Keys |-> 0]
  /\ form = InitialValues(page) /\ allow = FALSE /\ save = NoSave
  /\ unsaved = FALSE
  /\ shows = [k \in Keys |-> 0]
  /\ late = {}

\* Fetches for the queries `ks' are sent, when `a' is acknowledged.
Send(ks, a) ==
  /\ flight' = [k \in Keys |-> IF k \in ks THEN a ELSE flight[k]]
  /\ tries' = [k \in Keys |-> IF k \in ks THEN 0 ELSE tries[k]]
  /\ failed' = [k \in Keys |-> failed[k] /\ (k \in ks => data[k] # None)]

-----------------------------------------------------------------------------
(* The query cache                                                         *)

\* The fetch of k is over.
Landed(k) ==
  /\ flight' = [flight EXCEPT ![k] = None]
  /\ tries' = [tries EXCEPT ![k] = 0]
  /\ save' = [save EXCEPT !.waits = @ \ {k}]

\* Mutant: an error does not settle the refetch the save waits for.
GiveUp_LeavesWaiting(k) ==
  /\ flight' = [flight EXCEPT ![k] = None]
  /\ tries' = [tries EXCEPT ![k] = 0]
  /\ failed' = [failed EXCEPT ![k] = TRUE]
  /\ fresh' = [fresh EXCEPT ![k] = FALSE]
  /\ late' = late \ {k}
  /\ UNCHANGED save

\* It is over with an error, kept beside the data, which are no longer valid.
GiveUp(k) ==
  /\ Landed(k)
  /\ failed' = [failed EXCEPT ![k] = TRUE]
  /\ fresh' = [fresh EXCEPT ![k] = FALSE]
  /\ late' = late \ {k}

\* Mutant: any answer is taken for the record.
Ok_AnyStatus(k, v) == TRUE

\* A record that is gone is answered with 404; the lists never are.
Ok(k, v) == ~(k = "detail" /\ Content(v) = Gone)

\* requestJson: an answer arrives.  Equal data keep their identity, so the
\* hydration effect of the edit page runs only when the content is another.
Deliver(k) ==
  /\ flight[k] # None
  /\ \E v \in flight[k] .. Newest :
       /\ Ok(k, v)
       /\ data' = [data EXCEPT ![k] = v]
       /\ late' = IF v < shows[k] THEN late ELSE late \ {k}
       /\ IF /\ k = "detail" /\ page = "edit"
             /\ data[k] = None \/ Content(v) # Content(data[k])
            THEN form' = Content(v) /\ allow' = FALSE /\ unsaved' = FALSE
            ELSE UNCHANGED formVars
  /\ fresh' = [fresh EXCEPT ![k] = TRUE]
  /\ failed' = [failed EXCEPT ![k] = FALSE]
  /\ Landed(k)
  /\ UNCHANGED <<tab, backend, shows>>

\* A failed GET is tried again as often as queryClient.ts says, while some
\* page waits for it.
Fail(k) ==
  /\ flight[k] # None /\ k \in Unreliable
  /\ IF tries[k] < MaxRetries /\ k \in Active(page)
       THEN /\ tries' = [tries EXCEPT ![k] = @ + 1]
            /\ flight' = [flight EXCEPT ![k] = acked]
            /\ late' = late \ {k}
            /\ UNCHANGED <<fresh, failed, save>>
       ELSE GiveUp(k)
  /\ UNCHANGED <<tab, backend, data, formVars, shows>>

\* A 404 is an ApiError that may not be retried.
NotFound(k) ==
  /\ flight[k] # None
  /\ \E v \in flight[k] .. Newest : ~Ok(k, v)
  /\ GiveUp(k)
  /\ UNCHANGED <<tab, backend, data, formVars, shows>>

\* staleTime is over.  Only a page that comes on screen asks, so it may be over
\* when the query is off screen: there is no interval and no refetch on focus.
Age(k) ==
  /\ fresh[k] /\ k \notin Active(page)
  /\ fresh' = [fresh EXCEPT ![k] = FALSE]
  /\ UNCHANGED <<tab, backend, data, failed, flight, tries,
                 formVars, save, shows, late>>

\* The "Retry request" button refetches every read of the page.
Retry ==
  /\ \E k \in Active(page) : failed[k]
  /\ \A k \in Active(page) : flight[k] = None
  /\ Send(Active(page), acked)
  /\ late' = late \ Active(page)
  /\ UNCHANGED <<tab, backend, data, fresh, formVars, save, shows>>

-----------------------------------------------------------------------------
(* Moving between pages                                                    *)

\* The page p replaces the one on screen: what it reads is fetched unless it
\* is fresh or on its way, and an edit form is filled from what is cached.
Show(p) ==
  LET due == {k \in Active(p) \ Active(page) : flight[k] = None /\ ~fresh[k]}
  IN  /\ page' = p
      /\ Send(due, acked)
      /\ late' = late \ due
      /\ form' = InitialValues(p)
      /\ allow' = FALSE /\ unsaved' = FALSE
      /\ UNCHANGED <<slice, history, acked, data, fresh, shows>>

\* A link inside the application, the filter, or the browser's Back.  Without
\* an answer to the prompt the user stays; with one, they leave.  Back to a
\* create page may happen here although none was left.
Go(p) ==
  /\ moves < MaxMoves /\ moves' = moves + 1 /\ UNCHANGED saves
  /\ p # page
  /\ p = "near" => page = "all"
  /\ p = "edit" => \/ flight["detail"] # None
                   \/ data["detail"] # None \/ failed["detail"]
  /\ Show(p)
  /\ save' = [save EXCEPT !.here = FALSE]

\* A full load, as behind the Edit and Add buttons: the cache starts empty.  A
\* save under way is abandoned, and if it still arrives it is somebody's write.
Load(p) ==
  /\ moves < MaxMoves /\ moves' = moves + 1 /\ UNCHANGED saves
  /\ p \in {"all", "edit", "create"}
  /\ page' = p
  /\ data' = [k \in Keys |-> None]
  /\ fresh' = [k \in Keys |-> FALSE]
  /\ failed' = [k \in Keys |-> FALSE]
  /\ flight' = [k \in Keys |-> IF k \in Active(p) THEN acked ELSE None]
  /\ tries' = [k \in Keys |-> 0]
  /\ form' = (IF p = "create" THEN Empty ELSE NoForm)
  /\ allow' = FALSE /\ save' = NoSave
  /\ unsaved' = FALSE
  /\ late' = {}
  /\ UNCHANGED <<slice, history, acked, shows>>

-----------------------------------------------------------------------------
(* Editing and saving                                                      *)

\* Mutant: onValuesChange leaves the way open.
Type_StaysAllowed(v) ==
  /\ FormShown /\ v # form
  /\ ~(save.op = "delete" /\ save.here)
  /\ form' = v /\ unsaved' = TRUE
  /\ UNCHANGED <<tab, backend, cacheVars, allow, save, shows, late>>

\* onValuesChange.  The confirmation dialog of a delete covers the form.
Type(v) ==
  /\ FormShown /\ v # form
  /\ ~(save.op = "delete" /\ save.here)
  /\ form' = v /\ allow' = FALSE
  /\ unsaved' = TRUE
  /\ UNCHANGED <<tab, backend, cacheVars, save, shows, late>>

Saving == {"update", "delete", "listDelete", "create"}

\* handleFinish of both forms, which requires fields that are not empty,
\* handleDelete and the Delete buttons of a list.
Submit(op) ==
  /\ save = NoSave /\ saves < MaxSaves /\ saves' = saves + 1
  /\ CASE op = "listDelete" ->
              page \in {"all", "near"} /\ data[page] # None /\ ~failed[page]
       [] op = "create" -> page = "create" /\ FormShown /\ form # Empty
       [] OTHER -> page = "edit" /\ FormShown
  /\ save' = [NoSave EXCEPT !.op = op, !.here = TRUE,
                            !.value = IF op = "update" THEN form ELSE Gone]
  /\ UNCHANGED <<backend, slice, page, moves, cacheVars, formVars, shows, late>>

\* The backend commits the save; a new record leaves this one as it is.
Apply ==
  /\ save.op # "none" /\ save.stage = "sent" /\ Newest < MaxCommits
  /\ \/ save.op = "create" /\ history' = Append(history, Content(Newest))
     \/ /\ save.op # "create" /\ Content(Newest) # Gone
        /\ history' = Append(history, save.value)
  /\ save' = [save EXCEPT !.stage = "applied", !.value = Gone,
                            !.at = Newest + 1]
  /\ UNCHANGED <<acked, tab, cacheVars, formVars, shows, late>>

\* onError: the backend rejects the save, or nobody learns what became of it.
\* Mutations are not retried.
Reject ==
  /\ save.op # "none" /\ save.stage \in {"sent", "applied"}
  /\ allow' = (allow /\ ~save.here)
  /\ save' = NoSave
  /\ UNCHANGED <<tab, backend, cacheVars, form, unsaved, shows, late>>

\* What really changes with the record, whatever the routes invalidate.  The
\* list pages leave the detail of what they delete to be found gone.
Changes(op) ==
  (IF slice = "cafe" THEN Keys \ {"options"} ELSE Keys)
    \ (IF op \in Lists THEN {"detail"} ELSE {})

\* Mutant: the guard is not told.
OpenWay_Not == unsaved' = FALSE /\ UNCHANGED allow

\* allowNavigationRef.current = true: the form has been saved.
OpenWay == allow' = TRUE /\ unsaved' = FALSE

\* onSuccess: what the write affects is invalidated, and fetched again where
\* it is on screen.  A running fetch is replaced only if there are data.
Succeed ==
  LET stale == Invalidates(save.op)
      seen == stale \cap Active(page)
      again == {k \in seen : flight[k] = None \/ data[k] # None}
      at == IF save.at > acked THEN save.at ELSE acked
  IN  /\ save.op # "none" /\ save.stage = "applied"
      /\ acked' = at
      /\ fresh' = [k \in Keys |-> fresh[k] /\ k \notin stale]
      /\ Send(again, at)
      /\ late' = (late \ again) \cup {k \in stale \ again : flight[k] # None}
      /\ shows' = [k \in Keys |->
                     IF k \in Changes(save.op) THEN save.at ELSE shows[k]]
      /\ save' = [save EXCEPT !.stage = "refetching", !.at = 0, !.waits = seen]
      /\ IF save.here /\ save.op # "listDelete"
           THEN OpenWay
           ELSE UNCHANGED <<allow, unsaved>>
      /\ UNCHANGED <<history, tab, data, form>>

\* navigate("/cafes") or navigate("/employees") once the refetches are over.
\* It happens on whatever page the user is by then, and asks like any other.
Return ==
  /\ save.op # "none" /\ save.stage = "refetching" /\ save.waits = {}
  /\ save' = NoSave
  /\ \/ /\ save.op # "listDelete" /\ page # "all"
        /\ Show("all") /\ UNCHANGED <<moves, saves>>
     \/ /\ save.op = "listDelete" \/ page = "all" \/ Blocked
        /\ UNCHANGED <<tab, backend, cacheVars, formVars, shows, late>>

\* Somebody else writes the record.  Writes to other records look the same to
\* the lists, and are left out.
OtherWrites(c) ==
  /\ Content(Newest) \notin {Gone, c} /\ Newest < MaxCommits
  /\ history' = Append(history, c)
  /\ acked' = Newest + 1
  /\ UNCHANGED <<tab, cacheVars, formVars, save, shows, late>>

-----------------------------------------------------------------------------
Next ==
  \/ \E k \in Keys : Deliver(k) \/ Fail(k) \/ NotFound(k) \/ Age(k)
  \/ Retry
  \/ \E p \in Pages : Go(p) \/ Load(p)
  \/ \E v \in Values : Type(v)
  \/ \E op \in Saving : Submit(op)
  \/ Apply \/ Reject \/ Succeed \/ Return
  \/ \E c \in Values \cup {Gone} : OtherWrites(c)

Spec == Init /\ [][Next]_vars

\* Requests are answered or time out, and the tab runs what follows an answer.
FairSpec ==
  /\ Spec
  /\ \A k \in Keys : WF_vars(Deliver(k) \/ Fail(k) \/ NotFound(k))
  /\ WF_vars(Apply \/ Reject \/ Succeed \/ Return)

-----------------------------------------------------------------------------
(* Properties                                                              *)

Positions == 0 .. MaxCommits

\* Types of the state.
TypeOK ==
  /\ slice \in {"cafe", "employee"} /\ page \in Pages
  /\ moves \in 0 .. MaxMoves /\ saves \in 0 .. MaxSaves
  /\ history \in Seq(Values \cup {Gone}) /\ Newest \in Positions
  /\ acked \in 0 .. Newest
  /\ data \in [Keys -> {None} \cup Positions]
  /\ flight \in [Keys -> {None} \cup Positions]
  /\ fresh \in [Keys -> BOOLEAN] /\ failed \in [Keys -> BOOLEAN]
  /\ tries \in [Keys -> 0 .. MaxRetries]
  /\ form \in Values \cup {NoForm} \cup (IF page = "create" THEN {Empty} ELSE {})
  /\ allow \in BOOLEAN /\ unsaved \in BOOLEAN
  /\ save \in [op: Saving \cup {"none"},
               stage: {"sent", "applied", "refetching"},
               value: Values \cup {Gone}, here: BOOLEAN, at: Positions,
               waits: SUBSET Keys]
  /\ shows \in [Keys -> Positions]
  /\ late \subseteq Keys

\* What the user takes for the state of the record: data on screen with no
\* fetch running and no error, or data the next page will show without one.
TakenForCurrent(k) ==
  /\ data[k] # None /\ flight[k] = None
  /\ fresh[k] \/ (k \in Active(page) /\ ~failed[k])

\* A view that hides a save the user was told has succeeded is one whose fetch
\* was running when the answer came and was not restarted: off screen, or the
\* first fetch of its query.  (onSuccess of the routes, "invalidated before
\* navigation to avoid stale hosted-latency reads".)
OnlyRunningFetchesHideSaves ==
  \A k \in Keys : TakenForCurrent(k) /\ data[k] < shows[k] => k \in late

\* What was typed and is not what the server sent stays behind the prompt, if
\* it was typed before the save was sent or after it was answered: refetches,
\* failures and the answers to earlier saves do not open the way.
UnsavedEditsAreAskedFor == page \in Forms /\ unsaved /\ Dirty => Blocked

\* Once a save has succeeded the form that sent it returns to the list without
\* a prompt, although the refetches it waits for may change or fail to change
\* the values it is compared with.
SavedFormsAreNotHeldBack ==
  /\ save.stage = "refetching" /\ save.here /\ save.op # "listDelete"
  /\ ~unsaved
  => ~Blocked

\* Every save ends, in a return or an error, although the return waits for
\* refetches that may fail again and again.
SavesEnd == save.op # "none" ~> save.op = "none"
===============================================================================
