--------------------------- MODULE MCTradeEngine ---------------------------
(***************************************************************************)
(* TLC instances of the trade engine.  The .cfg files give the constants.  *)
(***************************************************************************)
EXTENDS TradeEngine, TLC

\* The requests are interchangeable: sound for the safety runs.
RequestSymmetry == Permutations(Requests)
=============================================================================
