--------------------------- MODULE MCLeaderboard ---------------------------
(***************************************************************************)
(* TLC instances of the leaderboard.  The .cfg files give the constants.   *)
(***************************************************************************)
EXTENDS Leaderboard, TLC

\* Usernames in alphabetical order.
Alphabetical == "ada" :> 1 @@ "bob" :> 2
=============================================================================
