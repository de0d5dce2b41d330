-------------------------- MODULE MCInvoiceCreation --------------------------
(* Small instances of InvoiceCreation, and every quote it may answer with   *)
(* over small ranges of prices and rates.                                   *)
EXTENDS Quotes, TLC

CONSTANTS r1, r2, r3, r4, form, b1, b2, b3

\* An original and its retry, another body under the same key, a body that
\* is not valid, and the form of the dashboard, which has no key.
AllRequests == {r1, r2, r3, r4, form}
AllBodies   == r1 :> b1 @@ r2 :> b1 @@ r3 :> b2 @@ r4 :> b3 @@ form :> b2

\* The original and its retry are interchangeable.
RetrySymmetry == Permutations({r1, r2})

\* No transfers: quotes only.
NoAmount == [t \in Tx |-> 1]

\* Amounts of no to three digits after the point, of which two can be
\* represented.
SomePrices == [digits : 0 .. 40, unit : {1, 10, 100, 1000}]
=============================================================================
