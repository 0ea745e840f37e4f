----------------------------- MODULE TradeForm -----------------------------
(***************************************************************************)
(* utils/validation.ts and utils/format.ts, what the trade form computes.  *)
(*                                                                         *)
(* A typed text is given by what the parser reads in it.  Quantities are   *)
(* integers, Scale to the coin, and money is counted in cents; a total is  *)
(* quantity times price, so it is Scale times the cents it stands for.     *)
(* The rounding of floating-point numbers is left out.                     *)
(***************************************************************************)
EXTENDS Integers

CONSTANTS
  Scale,                  \* 10 ^ QUANTITY_MAX_DECIMALS
  QUANTITY_MAX_DECIMALS,
  PlainFrom,              \* 10 ^ -6 coin: String() writes less with an exponent
  NaN,
  None                    \* no price known, no error

\* What the messages under the field are about.
Errors == {"quantity", "decimals", "price", "minimum", "funds", "holding"}

ASSUME TradeFormAssumption ==
  /\ Scale \in Nat \ {0} /\ QUANTITY_MAX_DECIMALS \in Nat
  /\ PlainFrom \in Nat
  /\ NaN \notin Int /\ None \notin Int /\ None \notin Errors

\* One cent.
MIN_TRADE_TOTAL == Scale

Types == {"BUY", "SELL"}

TextsWith(values, decimals) ==
  [kind : {"empty", "junk", "number"}, value : values, decimals : decimals]

Empty == [kind |-> "empty", value |-> 0, decimals |-> 0]

\* String(quantity) of a quantity rounded down: no more decimals than allowed, but
\* a small one is written 5e-7, which the parser does not read.
Filled(quantity) ==
  [kind |-> IF quantity < PlainFrom THEN "junk" ELSE "number", value |-> quantity,
   decimals |-> QUANTITY_MAX_DECIMALS]

parseQuantity(t) == IF t.kind = "number" THEN t.value ELSE NaN

countDecimals(t) == t.decimals

validateTrade(t, type, price, cash, held) ==
  LET quantity == parseQuantity(t)
      total    == IF price # None /\ quantity # NaN THEN quantity * price ELSE 0
      is(n, m, error) == [quantity |-> n, total |-> m, error |-> error]
  IN IF t.kind = "empty" THEN is(0, 0, None)
     ELSE IF quantity = NaN THEN is(quantity, 0, "quantity")
     ELSE IF quantity <= 0 THEN is(quantity, 0, "quantity")
     ELSE IF countDecimals(t) > QUANTITY_MAX_DECIMALS THEN is(quantity, total, "decimals")
     ELSE IF price = None THEN is(quantity, total, "price")
     ELSE IF total < MIN_TRADE_TOTAL THEN is(quantity, total, "minimum")
     ELSE IF type = "BUY" /\ total > cash * Scale THEN is(quantity, total, "funds")
     ELSE IF type = "SELL" /\ quantity > held THEN is(quantity, total, "holding")
     ELSE is(quantity, total, None)

canSubmit(t, type, price, cash, held) ==
  t.kind # "empty" /\ price # None
  /\ validateTrade(t, type, price, cash, held).error = None

\* The quick buttons: what percentage of the cash buys, or of the holding.
floorQuantity(numerator, denominator) == numerator \div denominator

quickQuantity(percentage, type, price, cash, held) ==
  IF type = "BUY" THEN floorQuantity(cash * percentage * Scale, 100 * price)
  ELSE floorQuantity(held * percentage, 100)

quickEnabled(type, price, cash, held) ==
  price # None /\ (IF type = "BUY" THEN cash > 0 ELSE held > 0)

applyPercentage(t, percentage, type, price, cash, held) ==
  IF price <= 0 THEN t
  ELSE LET quantity == quickQuantity(percentage, type, price, cash, held)
       IN IF quantity > 0 THEN Filled(quantity) ELSE Empty
=============================================================================
