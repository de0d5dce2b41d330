------------------------------- MODULE Quotes -------------------------------
(***************************************************************************)
(* Invoices with their quotes: what the string that is stored at creation  *)
(* means to the two that read it later, the payer, who pays what it says,  *)
(* and the watcher, which judges a payment by it (src/src/core/pricing.ts, *)
(* lifecycle.ts).  This is about prices and rates and no state, so it is   *)
(* looked at in the initial states only.                                   *)
(***************************************************************************)
EXTENDS InvoiceCreation, Lifecycle

CONSTANTS
    Prices,     \* of what is sold, in fiat
    Rates       \* micro-USDT per fiat unit

ASSUME QuoteAssumption == Prices \subseteq Decimal /\ Rates \subseteq Nat

Floored(fiat, rate) ==
    LET exact  == fiat.digits * rate    \* in parts of the unit
        amount == FiatToMicroUsdt(fiat, rate)
    IN  /\ amount * fiat.unit <= exact
        /\ Scale % fiat.unit = 0 => exact < (amount + 1) * fiat.unit

Payable(quote) ==
    LET stored == ParseMicro(quote.amountUsdt)
        band   == ComputeToleranceBand(stored)
    IN  /\ band = quote.band
        /\ \A total \in {stored, band.lowerBound, band.upperBound} :
              total > 0 => Decision(total, band) = "paid"
        /\ Decision(band.upperBound + 1, band) = "overpaid"
        /\ band.lowerBound > 1 => Decision(band.lowerBound - 1, band) = "underpaid"

\* A quote never exceeds the exact product of price and rate, and falls short
\* of it by less than one micro-USDT unless the price has digits that cannot
\* be represented (the two truncations of parseMicro and fiatToMicroUsdt do
\* not add up).
QuoteIsFloor == Init => \A fiat \in Prices, rate \in Rates : Floored(fiat, rate)

\* The watcher judges by the string stored at creation: whoever pays what it
\* says, or anything in its band, both bounds included, is decided paid, and
\* one micro-USDT beyond either bound is not.
QuoteIsPayable ==
    Init => \A fiat \in Prices, rate \in Rates :
        ComputePricing(fiat, rate).ok => Payable(ComputePricing(fiat, rate))
=============================================================================
