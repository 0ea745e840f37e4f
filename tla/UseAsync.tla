------------------------------ MODULE UseAsync ------------------------------
(***************************************************************************)
(* hooks/useAsync.ts: one hook instance and the requests it started.       *)
(*                                                                         *)
(* A request that was superseded (the dependencies changed, the component  *)
(* was unmounted) is aborted, but it may have been settled already: its    *)
(* callbacks then still run, later, and only the `active` flag of its run  *)
(* tells them apart.  An answer is named by the parameters it answers.     *)
(* A render and the effects it triggers are one step.                      *)
(***************************************************************************)
CONSTANTS
  Params,      \* dependency values of the callers
  Nothing      \* enabled = false; no data yet

\* Assumed of the constants by those who instantiate this module.
NothingIsNoParam == Nothing \notin Params

VARIABLE
  hook         \* wanted: parameters of the last run, Nothing when disabled
               \* status, data: ApiResponse (loading and error follow status)
               \* abandoned: parameters of superseded runs still in flight

Statuses == {"idle", "loading", "success", "error"}

Hooks == [wanted : Params \cup {Nothing}, status : Statuses,
          data : Params \cup {Nothing}, abandoned : SUBSET Params]

loading(h) == h.status = "loading"

error(h) == h.status = "error"

\* The request in flight becomes one nobody waits for: active = false, abort().
cleanup(h) == IF loading(h) THEN h.abandoned \cup {h.wanted} ELSE h.abandoned

\* A first render with the dependencies p: nothing is known yet.
mounted(p) ==
  [wanted |-> p, status |-> IF p = Nothing THEN "idle" ELSE "loading",
   data |-> Nothing, abandoned |-> {}]

run_KeepsData(h, p) ==
  [wanted |-> p, status |-> IF p = Nothing THEN "idle" ELSE "loading",
   data |-> h.data, abandoned |-> cleanup(h)]

\* The effect: previous data is kept while loading, a disabled hook forgets it.
run(h, p) ==
  [wanted |-> p, status |-> IF p = Nothing THEN "idle" ELSE "loading",
   data |-> IF p = Nothing THEN Nothing ELSE h.data, abandoned |-> cleanup(h)]

\* A render with the dependencies p runs the effect when they changed.
rendered(h, p) == IF p = h.wanted THEN h ELSE run(h, p)

-----------------------------------------------------------------------------
Init == \E p \in Params \cup {Nothing} : hook = mounted(p)

Rerun(p) == p # hook.wanted /\ hook' = run(hook, p)

\* refetch(): the version changes, the dependencies do not.
Refetch == hook' = run(hook, hook.wanted)

Succeed ==
  /\ loading(hook)
  /\ hook' = [hook EXCEPT !.status = "success", !.data = hook.wanted]

\* Any rejection but an abort, which only reaches runs that are not active.
Fail ==
  /\ loading(hook)
  /\ hook' = [hook EXCEPT !.status = "error"]

\* A superseded request settles (answer, error or abort): not active, ignored.
SettleLate_Applied(p) ==
  /\ p \in hook.abandoned
  /\ hook' = [hook EXCEPT !.abandoned = @ \ {p}, !.status = "success", !.data = p]

SettleLate(p) ==
  /\ p \in hook.abandoned
  /\ hook' = [hook EXCEPT !.abandoned = @ \ {p}]

Settle == Succeed \/ Fail \/ \E p \in Params : SettleLate(p)

Next ==
  \/ \E p \in Params \cup {Nothing} : Rerun(p)
  \/ Refetch
  \/ Settle

Spec == Init /\ [][Next]_hook

-----------------------------------------------------------------------------
\* Every field has its type, and the status says whether a question is open.
UseAsyncTypeOK ==
  /\ hook \in Hooks
  /\ (hook.status = "idle") <=> (hook.wanted = Nothing)
  /\ hook.status = "idle" => hook.data = Nothing

\* What is shown as a success answers the parameters asked for last, although
\* answers of superseded requests arrive in any order.
ShowsTheLatestAnswer == hook.status = "success" => hook.data = hook.wanted

\* The hook implements the promise made to its component.
Promise == INSTANCE LatestAnswer
             WITH wanted <- hook.wanted, status <- hook.status, data <- hook.data

KeepsItsPromise == Promise!Spec
=============================================================================
