------------------------------ MODULE MCPages ------------------------------
(***************************************************************************)
(* TLC instance of the list pages.  The market has two pages with the      *)
(* default order, the first one full, and one with the other order.        *)
(***************************************************************************)
EXTENDS Pages, TLC

MCListed ==
  [q \in Questions |->
     CASE q = <<"cap", 1>> -> {"sol", "eth"}
       [] q = <<"cap", 2>> -> {"btc"}
       [] q = <<"vol", 1>> -> {"btc"}
       [] OTHER -> {}]

\* The change of "eth" over a day is unknown, that of "sol" is negative.
MCFigures ==
  "market_cap_rank" :> ("btc" :> 1 @@ "eth" :> 2 @@ "sol" :> 3)
  @@ "price_change_percentage_24h" :> ("btc" :> 4 @@ "eth" :> None @@ "sol" :> -2)

MCPlace == "btc" :> 1 @@ "eth" :> 2 @@ "sol" :> 3

\* "so" finds a coin of the first page, "btc" one of the second.
MCNamed == "" :> {"btc", "eth", "sol"} @@ "btc" :> {"btc"} @@ "so" :> {"sol"}

\* A new player has one snapshot and no trade; one range of the chart is empty.
MCBare == {<<"performance", <<"cap", 1>>>>, <<"latest", <<"cap", 1>>>>,
           <<"chart", <<"vol", 1>>>>}
=============================================================================
