------------------------------- MODULE Pricing -------------------------------
(***************************************************************************)
(* The integer arithmetic of an invoice: decimal strings to micro-USDT     *)
(* (src/src/lib/decimal.ts), fiat to micro-USDT and the tolerance band     *)
(* (src/src/core/pricing.ts).  Every operator is a pure function of its    *)
(* arguments, as in the code.                                              *)
(*                                                                         *)
(* A decimal string "d1...dn.f1...fm" is the pair of the natural number    *)
(* its digits spell and the unit of its last digit, 10^m of which are one  *)
(* whole: nothing here depends on the units being powers of ten.  Signs,   *)
(* blanks and malformed strings, which parseMicro rejects, are left out.   *)
(***************************************************************************)
EXTENDS Integers

CONSTANTS
    Scale,      \* USDT_SCALE: micro-USDT in one USDT
    ToleranceNum, ToleranceDen   \* DEFAULT_TOLERANCE: the +-band as a fraction

ASSUME ScaleAssumption == Scale \in Nat \ {0}

\* Lines 99-101 of pricing.ts refuse any other tolerance; a numerator above
\* the denominator would make the lower bound negative.
ASSUME ToleranceAssumption ==
    /\ ToleranceNum \in Nat
    /\ ToleranceDen \in Nat \ {0}
    /\ ToleranceNum <= ToleranceDen

-----------------------------------------------------------------------------
(* Decimal strings *)

Decimal == [digits : Nat, unit : Nat \ {0}]

\* Slip: the excess digits round up.
SlipRoundUp(d) == (d.digits * Scale + d.unit - 1) \div d.unit

\* parseMicro: pads the fraction to USDT_DECIMALS digits or cuts it there, so
\* an excess digit is dropped, never rounded.
ParseMicro(d) == (d.digits * Scale) \div d.unit

\* formatMicro: the canonical string, always with all fraction digits.
FormatMicro(m) == [digits |-> m, unit |-> Scale]

-----------------------------------------------------------------------------
(* Fiat to micro-USDT, and the tolerance band *)

\* fiatToMicroUsdt: rate is micro-USDT per 1.000000 fiat unit; floor.
FiatToMicroUsdt(fiat, rate) == (ParseMicro(fiat) * rate) \div Scale

\* computeToleranceBand: floor for the lower bound, ceiling for the upper.
ComputeToleranceBand(amount) ==
    [lowerBound |-> (amount * (ToleranceDen - ToleranceNum)) \div ToleranceDen,
     upperBound |-> (amount * (ToleranceDen + ToleranceNum) + ToleranceDen - 1)
                        \div ToleranceDen,
     amount     |-> amount]

\* computePricing: a quote, or the RangeError for an amount that prices to 0.
ComputePricing(fiat, rate) ==
    LET amount == FiatToMicroUsdt(fiat, rate)
    IN  IF amount <= 0
          THEN [ok |-> FALSE]
          ELSE [ok |-> TRUE, amountUsdt |-> FormatMicro(amount),
                amountMicro |-> amount, band |-> ComputeToleranceBand(amount)]
=============================================================================
