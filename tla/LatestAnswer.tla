---------------------------- MODULE LatestAnswer ----------------------------
(***************************************************************************)
(* What a data-fetching hook promises its component, requests in flight    *)
(* left out: there is one question at a time, and what is shown as its     *)
(* answer is an answer to that question.  An older answer may stay on      *)
(* screen, but only while the current question is open or was refused.     *)
(***************************************************************************)
CONSTANTS
  Params,      \* questions: the dependency values of the hook
  Nothing      \* no question, no data

VARIABLES
  wanted,      \* the question asked last, Nothing when the hook is disabled
  status,      \* ApiResponse.status
  data         \* the question whose answer is shown, or Nothing

vars == <<wanted, status, data>>

Statuses == {"idle", "loading", "success", "error"}

Init ==
  /\ wanted \in Params \cup {Nothing}
  /\ status = IF wanted = Nothing THEN "idle" ELSE "loading"
  /\ data = Nothing

Ask(p) ==
  /\ wanted' = p
  /\ status' = "loading"
  /\ UNCHANGED data

Stop ==
  /\ wanted' = Nothing
  /\ status' = "idle"
  /\ data' = Nothing

Answered ==
  /\ status = "loading"
  /\ status' = "success"
  /\ data' = wanted
  /\ UNCHANGED wanted

Refused ==
  /\ status = "loading"
  /\ status' = "error"
  /\ UNCHANGED <<wanted, data>>

\* The component is replaced by a new one that starts from scratch.
Restart == wanted' \in Params \cup {Nothing} /\ data' = Nothing
           /\ status' = IF wanted' = Nothing THEN "idle" ELSE "loading"

Next ==
  \/ \E p \in Params : Ask(p)
  \/ Stop \/ Answered \/ Refused \/ Restart

Spec == Init /\ [][Next]_vars

AnswersTheQuestion == status = "success" => data = wanted
=============================================================================
