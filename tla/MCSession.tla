----------------------------- MODULE MCSession -----------------------------
(***************************************************************************)
(* TLC instances of the session.  The .cfg files give the constants.       *)
(***************************************************************************)
EXTENDS Session, TLC
=============================================================================
