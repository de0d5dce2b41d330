--------------------------- MODULE ReceiptAgreement ---------------------------
(***************************************************************************)
(* What the watcher takes for a transfer to a deposit address: pages of    *)
(* the discovery listing (src/src/chain/tron/transferScan.ts) name         *)
(* candidate transactions, a receipt of each is asked of both providers    *)
(* (src/src/chain/tron/receiptScan.ts), and what both receipts show is     *)
(* credited (src/src/workers/watcher.ts).  Pure                            *)
(* operators; Watcher's Discover, FetchPrimary and FetchSecondary are      *)
(* these steps over a chain that changes meanwhile.                        *)
(*                                                                         *)
(* Hex and Base58 are one address; a log entry that fails any check of its *)
(* format is not wellFormed.                                               *)
(***************************************************************************)
EXTENDS Integers, Sequences

CONSTANTS
    Usdt,       \* the pinned contract
    Deposit,    \* the deposit address
    MaxPages,   \* MAX_PAGES
    Dust        \* WATCHER_DUST_THRESHOLD: no more than this is ignored

ASSUME PagesAssumption == MaxPages \in Nat

\* A receipt has a block, 0 while the transaction is in none, a log, and has
\* succeeded if the execution's result says SUCCESS and the transaction's does
\* not say FAILED.

\* Pages are read as long as one has rows and names a next one.
PagesRead(pages) ==
    {k \in DOMAIN pages :
        /\ k <= MaxPages
        /\ \A j \in 1 .. k - 1 : pages[j].more /\ pages[j].rows # {}}

\* Rows of other tokens and other recipients are no candidates.
Candidates(pages) ==
    {row.hash : row \in {row \in UNION {pages[k].rows : k \in PagesRead(pages)} :
                            row.contract = Usdt /\ row.to = Deposit}}

\* fetchTransactionReceipt: an unmined transaction has none.
HasReceipt(receipt) == receipt.block > 0

Creditable(entry) ==
    /\ entry.wellFormed
    /\ entry.contract = Usdt
    /\ entry.event = "Transfer"
    /\ entry.to = Deposit
    /\ entry.amount > Dust

\* parseUsdtReceiptTransfers: entries are known by their place in the log.
Parsed(receipt) ==
    IF receipt.succeeded
    THEN {i \in DOMAIN receipt.log : Creditable(receipt.log[i])}
    ELSE {}

\* Slip: the secondary need only know of the transfer.
SlipAgreed(primary, secondary) ==
    IF ~HasReceipt(primary) \/ ~HasReceipt(secondary) THEN {}
    ELSE {[index |-> i, from |-> primary.log[i].from, amount |-> primary.log[i].amount,
           block |-> primary.block] : i \in Parsed(primary) \cap Parsed(secondary)}

\* Both receipts show the same transfer at the same place; it is as high as
\* the higher of the two.
Agreed(primary, secondary) ==
    IF ~HasReceipt(primary) \/ ~HasReceipt(secondary) THEN {}
    ELSE {[index |-> i, from |-> primary.log[i].from, amount |-> primary.log[i].amount,
           block |-> IF primary.block > secondary.block THEN primary.block
                     ELSE secondary.block] :
             i \in {i \in Parsed(primary) \cap Parsed(secondary) :
                       /\ primary.log[i].from = secondary.log[i].from
                       /\ primary.log[i].amount = secondary.log[i].amount}}

\* What a tick goes on to credit, with the receipts of each provider by hash.
Credits(pages, primary, secondary) ==
    UNION {Agreed(primary[h], secondary[h]) : h \in Candidates(pages)}
=============================================================================
