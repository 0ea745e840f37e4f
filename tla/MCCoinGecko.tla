---------------------------- MODULE MCCoinGecko ----------------------------
(***************************************************************************)
(* The TLC instance of the CoinGecko client: two requests for one key and  *)
(* one for two prices, over a cache of two entries.                        *)
(***************************************************************************)
EXTENDS CoinGecko

CONSTANTS r1, r2, r3

MCWants == [r \in {r1, r2, r3} |->
              IF r = r3 THEN {Coins} ELSE {}]
=============================================================================
