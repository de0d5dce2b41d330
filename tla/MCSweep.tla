------------------------------- MODULE MCSweep -------------------------------
(* Small instances of Sweep, and every item and every transaction that one *)
(* of its runs may be given, over two values of each field.                *)
EXTENDS SweepChecks, TLC

CONSTANTS a1, a2, i1, i2, r1, r2, elsewhere, otherToken, canonical, legacy

TwoAddresses == {a1, a2}
TwoIntents   == {i1, i2}
TwoRuns      == {r1, r2}

\* Addresses, intents and runs are interchangeable.
SweepSymmetry ==
    Permutations(Addresses) \cup Permutations(Intents) \cup Permutations(Runs)

-----------------------------------------------------------------------------
(* What a run may be given *)

SomeAccounts == Addresses \cup {Pin, Usdt, elsewhere, otherToken}

SomeEnvironments == {{}, {canonical}, {legacy}}

SomeCalls == {TransferCall(Pin, 1), TransferCall(Pin, 2), TransferCall(elsewhere, 1),
          [TransferCall(Pin, 1) EXCEPT !.method = "approve"]}

SomeItems ==
    [address : Addresses, from : Addresses, amount : 0 .. 2,
     to : {Pin, elsewhere}, toHex : {Pin, elsewhere}, callData : SomeCalls,
     feeLimit : 0 .. MaxFeeLimit + 1]

Single == [type : {"TriggerSmartContract", "TransferContract"},
           owner : Addresses, contract : {Usdt, otherToken}, data : SomeCalls,
           callValue : {0, 1}]

SomeRawData(item) ==
    LET of(cs) == [contracts |-> cs, feeLimit |-> item.feeLimit]
    IN  {of(<<c>>) : c \in Single}
          \cup {of(<<>>), of(Meant(item).contracts \o Meant(item).contracts)}
          \cup {[Meant(item) EXCEPT !.feeLimit = @ + 1]}
=============================================================================
