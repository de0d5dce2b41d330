------------------------------ MODULE MCWatcher ------------------------------
(* Small instances of Watcher: amounts count in units of the smallest part. *)
EXTENDS Receipts, TLC

CONSTANTS t1, t2, e1, e2, OtherToken, OtherWallet

\* Price 4 with a band of a quarter is paid by 3 to 5 units.
OneTx    == {t1}
TwoTx    == {t1, t2}
TwoEndpoints == {e1, e2}

\* The first transfer alone underpays, the second alone pays, and together
\* they overpay; two halves pay together.
Split  == t1 :> 2 @@ t2 :> 4
Whole  == t1 :> 4
Halves == t1 :> 2 @@ t2 :> 2

\* Endpoints are interchangeable, and so are transfers of one amount.
EndpointSymmetry == Permutations({e1, e2})
TxSymmetry == Permutations({t1, t2})

FourAccounts == {Usdt, OtherToken, Deposit, OtherWallet}

\* Two payments, and what differs from one in a single respect.
SomeEntries ==
    LET least == Payment(OtherWallet, Dust + 1)
    IN  {least, Payment(OtherWallet, Dust + 2), Payment(OtherWallet, Dust),
         [least EXCEPT !.contract = OtherToken],
         [least EXCEPT !.event = "Approval"],
         [least EXCEPT !.from = OtherToken],
         [least EXCEPT !.to = OtherWallet],
         [least EXCEPT !.wellFormed = FALSE]}

SomeReceipts ==
    [block : 0 .. 2, succeeded : BOOLEAN,
     log : {<<>>} \cup {<<e>> : e \in SomeEntries}
              \cup {<<d, e>> : d, e \in SomeEntries}]

\* A row for the payment, and one of another token in its stead.
SomeRows == {[hash |-> "h", contract |-> c, to |-> Deposit] : c \in {Usdt, OtherToken}}

SomePages == UNION {[1 .. n -> [rows : SUBSET SomeRows, more : BOOLEAN]] : n \in 1 .. 3}
=============================================================================
