------------------------------ MODULE Decimals ------------------------------
(***************************************************************************)
(* fadroma's 256-bit fixed-point arithmetic, as the lending contracts use  *)
(* it: a Decimal256 is an integer counted in units of 1/DecimalOne, and    *)
(* every product and quotient is rounded down.  Amounts stay far below     *)
(* 2^256, so width does not matter; division by zero reverts.              *)
(***************************************************************************)
EXTENDS Integers

CONSTANT DecimalOne   \* 10^18 in the code

ASSUME DecimalAssumption == DecimalOne \in Nat \ {0}

\* Uint256::decimal_mul and Uint256::decimal_div: an amount and a decimal.
Times(amount, d) == (amount * d) \div DecimalOne
Per(amount, d) == (amount * DecimalOne) \div d

\* The product and the quotient of two decimals, and Decimal256::from_ratio.
Product(d, e) == (d * e) \div DecimalOne
Quotient(d, e) == (d * DecimalOne) \div e
Ratio(amount, other) == (amount * DecimalOne) \div other
=============================================================================
