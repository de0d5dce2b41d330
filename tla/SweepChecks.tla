----------------------------- MODULE SweepChecks -----------------------------
(***************************************************************************)
(* Sweeps with the checks their runs make of the two that may be wrong,    *)
(* the server and the node: what an item stands for, beside what is signed *)
(* (src/src/cli/commands/sweep.ts, signer/sign.ts).  This is about items   *)
(* and transactions and no state, so it is looked at in the initial states *)
(* only.                                                                   *)
(***************************************************************************)
EXTENDS Sweep, TransferCheck

CONSTANTS
    Accounts,       \* wallets and contracts
    Environments,   \* the variables set for a run
    ServerItems,    \* the server may hand out
    RawData(_)      \* a node may build for an item

Call == [method : STRING, to : Accounts, amount : Nat]

Item == [address : Accounts, from : Accounts, amount : Nat, to : Accounts,
         toHex : Accounts, callData : Call, feeLimit : Nat]

Contract == [type : STRING, owner : Accounts, contract : Accounts, data : Call,
             callValue : Nat]

Raw == [contracts : Seq(Contract), feeLimit : Nat]

ASSUME GivenAssumption ==
    /\ ServerItems \subseteq Item
    /\ \A item \in ServerItems : RawData(item) \subseteq Raw

\* What an item stands for: its amount in USDT from its address to the main
\* wallet, no TRX, and fees within the limit.
Meant(item) ==
    [contracts |-> <<[type |-> "TriggerSmartContract", owner |-> item.address,
                      contract |-> Usdt,
                      data |-> TransferCall(Pin, item.amount),
                      callValue |-> 0]>>,
     feeLimit |-> item.feeLimit]

\* An item as an honest server prepares it.
Prepared(item) ==
    /\ item.to = Pin /\ item.toHex = Pin
    /\ item.callData = TransferCall(Pin, item.amount)
    /\ item.amount > 0 /\ item.feeLimit \in 1 .. MaxFeeLimit

Answer(txID, bytes, raw) ==
    [error |-> FALSE, result |-> TRUE, complete |-> TRUE,
     tx |-> [txID |-> txID, bytes |-> bytes, raw |-> raw]]

\* Whatever the server prepared and the node built, with any JSON next to any
\* bytes: what a run signs and sends moves the amount of the item from its
\* address to the main wallet, and no TRX; and where both are right, it is
\* sent, once a node is configured by either name.
OnlyTheIntentGoes ==
    Init => \A env \in Environments, item \in ServerItems :
        /\ PinChecked(item) =>
              \A txID, raw \in RawData(item) : \A bytes \in {txID, Meant(item)} :
                  Goes(env, item, Answer(txID, bytes, raw)) => txID = Meant(item)
        /\ Prepared(item) /\ (\E name \in LiveNames : name \in env)
              => Goes(env, item, Answer(Meant(item), Meant(item), Meant(item)))
=============================================================================
