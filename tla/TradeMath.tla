----------------------------- MODULE TradeMath -----------------------------
(***************************************************************************)
(* The pure arithmetic of the trade engine (trade_service.py, "pure        *)
(* helpers").  Decimal columns are integers counted in their last stored   *)
(* decimal:                                                                *)
(*   - money is counted in cents          (Numeric(20, 2)),                *)
(*   - quantities in 1e-8 coin            (Numeric(28, 8)),                *)
(*   - prices in 1e-8 EUR                 (Numeric(20, 8)).                *)
(* A value that arrives from outside, a requested quantity or a quote, is  *)
(* finer than what is stored: it is counted in 1/FineScale of a stored     *)
(* unit.  A quantity that is not finite, and a quote that is missing or    *)
(* not a number, is treated by the code like one that is not positive, and *)
(* is represented by a raw value that is not positive.                     *)
(***************************************************************************)
EXTENDS Integers

CONSTANTS
  CentScale,    \* (quantity unit * price unit) in one cent: 10^14 in the code
  FineScale,    \* raw units in one stored unit
  QuantityMax   \* largest quantity of one trade, in quantity units

ASSUME ScalesAreReal ==
  /\ CentScale \in Nat \ {0}
  /\ FineScale \in Nat \ {0}
  /\ QuantityMax \in Nat

MinTotal == 1   \* MIN_TOTAL, one cent

\* n / d rounded half up, as Decimal.quantize(..., ROUND_HALF_UP) does on n >= 0.
HalfUp(n, d) == (2 * n + d) \div (2 * d)

\* A quantity is accepted when it is positive, bounded, and exact at 8 decimals.
validate_quantity(raw) ==
  /\ raw > 0
  /\ raw <= QuantityMax * FineScale
  /\ raw % FineScale = 0

\* The price stored for a positive quote; a tiny quote may well round to 0.
extract_price(raw) == HalfUp(raw, FineScale)

\* Cash moved by a trade of q units at price p.
compute_total(q, p) == HalfUp(q * p, CentScale)

\* A plausible bug: the position held is not weighted by its average price.
apply_buy_Unweighted(pos, q, p) ==
  [quantity |-> pos.quantity + q,
   avg      |-> HalfUp(pos.avg + q * p, pos.quantity + q)]

\* The position after a purchase: average-cost method.
apply_buy(pos, q, p) ==
  [quantity |-> pos.quantity + q,
   avg      |-> HalfUp(pos.quantity * pos.avg + q * p, pos.quantity + q)]
=============================================================================
