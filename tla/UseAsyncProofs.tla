--------------------------- MODULE UseAsyncProofs ---------------------------
(***************************************************************************)
(* The hook, for every set of parameters: its record has its type, a       *)
(* success answers the parameters asked for last, and the hook implements  *)
(* what LatestAnswer promises, whatever the network does with the requests *)
(* it has given up.  The facts about one step are lemmas of their own: the *)
(* pages that use the hook rest on them.                                   *)
(***************************************************************************)
EXTENDS UseAsync, TLAPS

\* Giving up the request in flight leaves a set of abandoned ones.
LEMMA CleanupType ==
  ASSUME UseAsyncTypeOK
  PROVE  cleanup(hook) \in SUBSET Params
BY DEF UseAsyncTypeOK, Hooks, Statuses, cleanup, loading

\* Running the effect with the dependencies p gives a hook of its type.
LEMMA RunType ==
  ASSUME NothingIsNoParam, UseAsyncTypeOK, NEW p \in Params \cup {Nothing},
         hook' = run(hook, p)
  PROVE  UseAsyncTypeOK'
<1>1. cleanup(hook) \in SUBSET Params
  BY CleanupType
<1> QED
  BY <1>1 DEF NothingIsNoParam, UseAsyncTypeOK, Hooks, Statuses, run

\* What a hook keeps.
HookInv == UseAsyncTypeOK /\ ShowsTheLatestAnswer

\* A first render knows nothing yet.
LEMMA MountInv ==
  ASSUME NothingIsNoParam, NEW p \in Params \cup {Nothing}, hook = mounted(p)
  PROVE  HookInv
BY DEF NothingIsNoParam, mounted, HookInv, UseAsyncTypeOK, ShowsTheLatestAnswer, Hooks, Statuses

\* Neither does that of a component that replaces another one.
LEMMA RemountInv ==
  ASSUME NothingIsNoParam, NEW p \in Params \cup {Nothing}, hook' = mounted(p)
  PROVE  HookInv'
BY DEF NothingIsNoParam, mounted, HookInv, UseAsyncTypeOK, ShowsTheLatestAnswer, Hooks, Statuses

\* Every step leaves a hook of its type, whose success answers the question asked
\* last: the answer of a superseded request does not replace it.
LEMMA HookStep ==
  ASSUME NothingIsNoParam, HookInv, [Next]_hook
  PROVE  HookInv'
<1> USE DEF HookInv
<1>1. ASSUME NEW p \in Params \cup {Nothing}, hook' = run(hook, p)  PROVE HookInv'
  <2>1. UseAsyncTypeOK'
    BY <1>1, RunType
  <2>2. ShowsTheLatestAnswer'
    BY <1>1 DEF run, ShowsTheLatestAnswer
  <2> QED
    BY <2>1, <2>2
<1>2. CASE Refetch
  <2>1. hook.wanted \in Params \cup {Nothing} /\ hook' = run(hook, hook.wanted)
    BY <1>2 DEF Refetch, UseAsyncTypeOK, Hooks
  <2> QED
    BY <1>1, <2>1
<1>3. CASE Succeed
  BY <1>3 DEF Succeed, loading, UseAsyncTypeOK, ShowsTheLatestAnswer, Hooks, Statuses
<1>4. CASE Fail
  BY <1>4 DEF Fail, loading, UseAsyncTypeOK, ShowsTheLatestAnswer, Hooks, Statuses
<1>5. ASSUME NEW p \in Params, SettleLate(p)  PROVE HookInv'
  BY <1>5 DEF SettleLate, UseAsyncTypeOK, ShowsTheLatestAnswer, Hooks, Statuses
<1>6. CASE UNCHANGED hook
  BY <1>6 DEF UseAsyncTypeOK, ShowsTheLatestAnswer
<1> QED
  BY <1>1, <1>2, <1>3, <1>4, <1>5, <1>6 DEF Next, Settle, Rerun

\* The hook keeps both.
LEMMA HookInvariant ==
  ASSUME NothingIsNoParam  PROVE Spec => []HookInv
<1>1. Init => HookInv
  BY MountInv DEF Init
<1>2. HookInv /\ [Next]_hook => HookInv'
  BY HookStep
<1> QED
  BY <1>1, <1>2, PTL DEF Spec

\* A mounted hook is of its type, and so is what each step leaves.
THEOREM UseAsyncTypes ==
  ASSUME NothingIsNoParam  PROVE Spec => []UseAsyncTypeOK
<1>1. HookInv => UseAsyncTypeOK
  BY DEF HookInv
<1> QED
  BY <1>1, HookInvariant, PTL

\* The answer of a superseded request, applied in any order or never, does not
\* replace what the component asked for last.
THEOREM LatestAnswerShown ==
  ASSUME NothingIsNoParam  PROVE Spec => []ShowsTheLatestAnswer
<1>1. HookInv => ShowsTheLatestAnswer
  BY DEF HookInv
<1> QED
  BY <1>1, HookInvariant, PTL

\* Running the effect asks the new question, or stops asking.
LEMMA RunAsksOrStops ==
  ASSUME NothingIsNoParam, UseAsyncTypeOK, NEW p \in Params \cup {Nothing},
         hook' = run(hook, p)
  PROVE  Promise!Next
<1>1. CASE p = Nothing
  BY <1>1 DEF run, Promise!Next, Promise!Stop
<1>2. CASE p \in Params
  <2>1. Promise!Ask(p)
    BY <1>2 DEF NothingIsNoParam, run, Promise!Ask
  <2> QED
    BY <1>2, <2>1 DEF Promise!Next
<1> QED
  BY <1>1, <1>2

\* Every step of the hook is a step of the promise, or invisible in it.
LEMMA PromiseStep ==
  ASSUME NothingIsNoParam, HookInv, [Next]_hook
  PROVE  [Promise!Next]_(Promise!vars)
<1> USE DEF HookInv
<1> SUFFICES Promise!Next \/ UNCHANGED Promise!vars
  OBVIOUS
<1>1. ASSUME NEW p \in Params \cup {Nothing}, Rerun(p)  PROVE Promise!Next
  BY <1>1, RunAsksOrStops DEF Rerun
<1>2. CASE Refetch
  <2>1. hook.wanted \in Params \cup {Nothing} /\ hook' = run(hook, hook.wanted)
    BY <1>2 DEF Refetch, UseAsyncTypeOK, Hooks
  <2> QED
    BY <2>1, RunAsksOrStops
<1>3. CASE Succeed
  BY <1>3 DEF Succeed, loading, UseAsyncTypeOK, Hooks, Promise!Next, Promise!Answered
<1>4. CASE Fail
  BY <1>4 DEF Fail, loading, UseAsyncTypeOK, Hooks, Promise!Next, Promise!Refused
<1>5. ASSUME NEW p \in Params, SettleLate(p)  PROVE UNCHANGED Promise!vars
  BY <1>5 DEF SettleLate, UseAsyncTypeOK, Hooks, Promise!vars
<1>6. CASE UNCHANGED hook
  BY <1>6 DEF Promise!vars
<1> QED
  BY <1>1, <1>2, <1>3, <1>4, <1>5, <1>6 DEF Next, Settle

\* A component that replaces another one starts the promise anew.
LEMMA RemountRestarts ==
  ASSUME NEW p \in Params \cup {Nothing}, hook' = mounted(p)
  PROVE  Promise!Next
BY DEF mounted, Promise!Next, Promise!Restart

\* What the first render shows is what the promise starts from.
LEMMA MountPromises ==
  ASSUME NEW p \in Params \cup {Nothing}, hook = mounted(p)
  PROVE  Promise!Init
BY DEF mounted, Promise!Init

\* The hook implements its promise.
THEOREM HookImplementsPromise ==
  ASSUME NothingIsNoParam  PROVE Spec => KeepsItsPromise
<1>1. Init => Promise!Init
  BY MountPromises DEF Init
<1>2. HookInv /\ [Next]_hook => [Promise!Next]_(Promise!vars)
  BY PromiseStep
<1> QED
  BY <1>1, <1>2, HookInvariant, PTL DEF Spec, KeepsItsPromise, Promise!Spec
=============================================================================
