------------------------------ MODULE Lifecycle ------------------------------
(***************************************************************************)
(* The pure decision function of the system: given an invoice row and all  *)
(* its payment rows, the status the invoice moves to, the amount it counts *)
(* as received and the webhook to send (src/src/core/lifecycle.ts and      *)
(* src/src/core/aggregation.ts).                                           *)
(*                                                                         *)
(* Payments are a function from transfers to rows; a transfer that has no  *)
(* row yet has status "none".  Amounts are micro-USDT naturals, fixed per  *)
(* transfer because upsert never rewrites amountUsdt.                      *)
(*                                                                         *)
(* Here and in the other modules a definition named Slip... is the one     *)
(* after it with a plausible mistake in it, which some property notices.   *)
(***************************************************************************)
EXTENDS Pricing, FiniteSets

CONSTANTS
    Tx,         \* transfers to the deposit address, one per (txHash, logIndex)
    Amount      \* Amount[t]: micro-USDT moved by transfer t

\* Dust and zero-value logs never reach the payments table
\* (parseUsdtReceiptTransfers skips amountMicro <= dustThreshold).
ASSUME TxAssumption == IsFiniteSet(Tx)
ASSUME AmountAssumption == Amount \in [Tx -> Nat \ {0}]

-----------------------------------------------------------------------------
(* Status values *)

\* TERMINAL_STATUSES
Terminal == {"paid", "overpaid", "underpaid", "expired", "canceled", "overdue"}

NonTerminal == {"pending", "payment_detected"}

InvoiceStatus == Terminal \cup NonTerminal

PaymentStatus == {"none", "detected", "confirmed", "orphaned"}

\* WebhookEventType, without the "invoice." prefix.  "none" is the code's null.
Event == {"payment_detected", "paid", "underpaid", "overpaid",
          "expired", "canceled", "late_funds"}

-----------------------------------------------------------------------------
(* Aggregation *)

\* Slip: a transfer counts as soon as it is seen.
SlipCountDetected(payments, solid) ==
    {t \in Tx : payments[t].status \in {"detected", "confirmed"}}

\* filterConfirmedSolid
ConfirmedSolid(payments, solid) ==
    {t \in Tx : /\ payments[t].status = "confirmed"
                /\ payments[t].blockNumber <= solid}

\* The micro-USDT a set of transfers moves, one pair per unit.
Units(txs) == UNION {{t} \X (1 .. Amount[t]) : t \in txs}

\* sumConfirmedSolid, and the reduce inside aggregatePayments.  A sum of
\* naturals is the number of units it counts; written so, its monotonicity
\* follows from the library's theorems on cardinality.
TotalMicro(txs) == Cardinality(Units(txs))

\* Slip: the band is open at its lower end.
SlipOpenBand(total, band) ==
    CASE total = 0              -> "insufficient"
      [] total > band.upperBound -> "overpaid"
      [] total \in band.lowerBound + 1 .. band.upperBound -> "paid"
      [] OTHER                  -> "underpaid"

\* aggregatePayments: the decision.
Decision(total, band) ==
    CASE total = 0              -> "insufficient"
      [] total > band.upperBound -> "overpaid"
      [] total \in band.lowerBound .. band.upperBound -> "paid"
      [] OTHER                  -> "underpaid"

-----------------------------------------------------------------------------
(* The transition *)

\* TransitionResult.  settled is `paidAt !== null` of the result.
Result(status, changed, event, received, settled) ==
    [newStatus |-> status, changed |-> changed, webhookEvent |-> event,
     amountReceived |-> received, settled |-> settled]

NoChange(invoice, received) ==
    Result(invoice.status, FALSE, "none", received, invoice.paid)

\* Slip: only the first late transfer is announced.
SlipAnnounceOnce(invoice, total) ==
    IF total > invoice.amountReceived
      THEN Result("overdue", TRUE,
                  IF invoice.status = "overdue" THEN "none" ELSE "late_funds",
                  total, invoice.paid)
      ELSE NoChange(invoice, invoice.amountReceived)

\* The terminal branch: money that confirms after the invoice closed.
TransitionTerminal(invoice, total) ==
    IF total > invoice.amountReceived
      THEN Result("overdue", TRUE, "late_funds", total, invoice.paid)
      ELSE NoChange(invoice, invoice.amountReceived)

\* Slip: the TTL is looked at before the amount.
SlipExpiryFirst(invoice, total, band, expired) ==
    IF expired
      THEN Result("underpaid", TRUE, "underpaid", total, FALSE)
      ELSE Result(Decision(total, band), TRUE, "paid", total, TRUE)

\* Branch 4a: some payment is confirmed and solid.
TransitionSolid(invoice, total, band, expired) ==
    LET decision == Decision(total, band)
    IN  CASE decision \in {"paid", "overpaid"} ->
                Result(decision, TRUE, decision, total, TRUE)
          [] decision \notin {"paid", "overpaid"} /\ expired ->
                Result("underpaid", TRUE, "underpaid", total, FALSE)
          [] OTHER ->
                Result("payment_detected",
                       invoice.status # "payment_detected",
                       IF invoice.status = "payment_detected"
                         THEN "none" ELSE "payment_detected",
                       total, FALSE)

\* Branches 4b to 4d: nothing solid yet.
TransitionUnsolid(invoice, hasDetected, expired) ==
    CASE expired -> Result("expired", TRUE, "expired", 0, FALSE)
      [] ~expired /\ hasDetected /\ invoice.status = "pending" ->
            Result("payment_detected", TRUE, "payment_detected", 0, FALSE)
      [] OTHER -> NoChange(invoice, 0)

\* transitionInvoice
TransitionInvoice(invoice, payments, solid, band, expired) ==
    LET confirmed   == ConfirmedSolid(payments, solid)
        total       == TotalMicro(confirmed)
        hasDetected == \E t \in Tx : payments[t].status = "detected"
    IN  IF invoice.status \in Terminal
          THEN TransitionTerminal(invoice, total)
          ELSE IF confirmed # {}
                 THEN TransitionSolid(invoice, total, band, expired)
                 ELSE TransitionUnsolid(invoice, hasDetected, expired)

\* cancelInvoice: refused unless the row it was given is pending.
MayCancel(invoice) == invoice.status = "pending"
=============================================================================
