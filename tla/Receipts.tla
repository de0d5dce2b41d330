------------------------------ MODULE Receipts ------------------------------
(***************************************************************************)
(* The watcher with the receipts and listings its steps stand for: what a  *)
(* transaction moves to the deposit address, by its real receipt, beside   *)
(* what the code makes of the answers of two providers.  This is about     *)
(* answers and no state, so it is looked at in the initial states only.    *)
(***************************************************************************)
EXTENDS Watcher, ReceiptAgreement

CONSTANTS
    Accounts,       \* wallets and contracts
    GivenReceipts,  \* a provider may answer with
    Listings        \* the pages a node may list

Entry == [wellFormed : BOOLEAN, contract : Accounts, event : STRING,
          from : Accounts, to : Accounts, amount : Nat]

Receipt == [block : Nat, succeeded : BOOLEAN, log : Seq(Entry)]

Row == [hash : STRING, contract : Accounts, to : Accounts]

Page == [rows : SUBSET Row, more : BOOLEAN]

ASSUME AnswersAssumption ==
    /\ GivenReceipts \subseteq Receipt
    /\ Listings \subseteq Seq(Page)

Payment(from, amount) ==
    [wellFormed |-> TRUE, contract |-> Usdt, event |-> "Transfer",
     from |-> from, to |-> Deposit, amount |-> amount]

\* What a transaction moves to the deposit address.
Moved(real) ==
    {[index |-> i, from |-> real.log[i].from, amount |-> real.log[i].amount] :
        i \in {i \in DOMAIN real.log :
                  /\ real.block > 0 /\ real.succeeded
                  /\ real.log[i] = Payment(real.log[i].from, real.log[i].amount)
                  /\ real.log[i].amount > Dust}}

\* Beside a receipt that is real nothing else is credited, nor lower.
Guards(real, other) ==
    \A credit \in Agreed(real, other) \cup Agreed(other, real) :
        /\ [index |-> credit.index, from |-> credit.from,
            amount |-> credit.amount] \in Moved(real)
        /\ credit.block >= real.block

\* Pages as a node gives them for rows that fit into MAX_PAGES.
FullListing(pages) ==
    /\ Len(pages) <= MaxPages
    /\ \A k \in DOMAIN pages : pages[k].rows # {} /\ pages[k].more = (k < Len(pages))

\* The transactions it lists as transfers to the deposit address.
Transactions(pages) ==
    {row.hash : row \in {row \in UNION {pages[k].rows : k \in DOMAIN pages} :
                            row.contract = Usdt /\ row.to = Deposit}}

\* What they move is credited where they are.
Completes(pages, receipts) ==
    \A hash \in Transactions(pages) : \A move \in Moved(receipts[hash]) :
        \E credit \in Credits(pages, receipts, receipts) :
            /\ credit.index = move.index /\ credit.from = move.from
            /\ credit.amount = move.amount /\ credit.block = receipts[hash].block

\* Two providers are asked (watcher.ts) to guard against one that errs: beside
\* a receipt that is real, whatever the other says, nothing is credited that
\* the transaction does not move, nor below the block it is in; and if both are
\* real and the listing fits, everything it moves is.
OneRealReceiptSuffices ==
    Init =>
        /\ \A real, other \in GivenReceipts : Guards(real, other)
        /\ \A pages \in {pages \in Listings : FullListing(pages)} :
              \A receipts \in [Transactions(pages) -> GivenReceipts] :
                  Completes(pages, receipts)
=============================================================================
