-------------------------------- MODULE Cpmm --------------------------------
(***************************************************************************)
(* The integer arithmetic of the constant-product book of a market.        *)
(*                                                                         *)
(* A book has two reserves whose product is kept near the constant k.  A   *)
(* buyer of a side pays into the other reserve and takes out of its own;   *)
(* a seller returns shares to its own reserve and is paid out of the       *)
(* other.  Buys round the new reserve down and sells round it up.          *)
(***************************************************************************)
EXTENDS Integers

\* A division that rounds up (ceil_div); Rust's unsigned division rounds down.
CeilDiv(num, denom) ==
    IF num % denom = 0 THEN num \div denom ELSE (num \div denom) + 1

\* A pricing slip: the amount is added to the reserve the shares come from.
SharesOut_WrongReserve(k, own, other, amount) == own - (k \div (own + amount))

\* Shares of a side that `amount` buys, `own` being the side's reserve and
\* `other` the opposite one.
SharesOut(k, own, other, amount) == own - (k \div (other + amount))

\* USDC paid for `shares` of a side.  It is negative when rounding up asks for
\* more than the reserve holds, which the code reports as MathOverflow.
UsdcOut(k, own, other, shares) == other - CeilDiv(k, own + shares)
=============================================================================
