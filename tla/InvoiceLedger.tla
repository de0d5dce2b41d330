----------------------------- MODULE InvoiceLedger -----------------------------
(***************************************************************************)
(* What the watcher promises of an invoice, without chain, providers, ticks *)
(* or rows: money is accepted transfer by transfer and never given back,   *)
(* the amount received is always exactly the money accepted, and the       *)
(* status is the verdict on that amount.  Watcher implements this          *)
(* specification when no provider reports a solid height lower than it did *)
(* before and nobody cancels the invoice.                                  *)
(***************************************************************************)
EXTENDS Lifecycle

CONSTANT Price      \* amountUsdt of the invoice, in micro-USDT

VARIABLES
    windowClosed,   \* the TTL of the invoice has elapsed
    credited,       \* transfers accepted as irreversible
    status,
    received        \* micro-USDT claimed to be received

ledgerVars == <<windowClosed, credited, status, received>>

Enough == ComputeToleranceBand(Price).lowerBound
TooMuch == ComputeToleranceBand(Price).upperBound

LedgerInit ==
    /\ windowClosed = FALSE
    /\ credited = {}
    /\ status = "pending"
    /\ received = 0

CloseWindow ==
    /\ windowClosed' = TRUE
    /\ UNCHANGED <<credited, status, received>>

\* What an open invoice may become when it has received this much.
Verdict(total) ==
    {s \in InvoiceStatus :
        \/ s = "paid" /\ total > 0 /\ total \in Enough .. TooMuch
        \/ s = "overpaid" /\ total > TooMuch
        \/ s = "underpaid" /\ 0 < total /\ total < Enough /\ windowClosed
        \/ s = "payment_detected" /\ (total = 0 \/ total < Enough)
        \/ s = "expired" /\ total = 0 /\ windowClosed}

\* An open invoice accepts transfers and is judged in the same step.
Accept(new) ==
    /\ status \in NonTerminal
    /\ credited' = credited \cup new
    /\ received' = TotalMicro(credited')
    /\ status' \in Verdict(received')
    /\ UNCHANGED windowClosed

\* A closed invoice accepts late money by turning overdue, and in no other
\* way does it change.
AcceptLate(new) ==
    /\ status \in Terminal
    /\ new # {}
    /\ credited' = credited \cup new
    /\ received' = TotalMicro(credited')
    /\ status' = "overdue"
    /\ UNCHANGED windowClosed

LedgerNext ==
    \/ CloseWindow
    \/ \E new \in SUBSET (Tx \ credited) : Accept(new) \/ AcceptLate(new)

LedgerSpec == LedgerInit /\ [][LedgerNext]_ledgerVars
=============================================================================
