---------------------------- MODULE MCCoinPage ----------------------------
(***************************************************************************)
(* TLC instance of the coin page: two coins, quantities in halves, and two *)
(* cents.  One coin has two prices, half of it costs a cent and a half or  *)
(* more than there is; the other has no quote.                             *)
(***************************************************************************)
EXTENDS CoinPage, TLC

MCQuotes == "btc" :> {3, 6} @@ "eth" :> {None}

\* An empty field and half a coin.
MCTyped == {Empty, [kind |-> "number", value |-> 1, decimals |-> 1]}
=============================================================================
