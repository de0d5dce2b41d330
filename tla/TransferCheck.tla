---------------------------- MODULE TransferCheck ----------------------------
(***************************************************************************)
(* What `sweep execute` checks before it signs (src/src/cli/commands/      *)
(* sweep.ts, signer/sign.ts): the item the server prepared, against the    *)
(* pinned main wallet, and the transaction a node built for it, against    *)
(* the transfer derived locally.  Either may be wrong.                     *)
(*                                                                         *)
(* The bytes of a transaction are identified with the transaction they     *)
(* encode, and a txID with the bytes it is the SHA-256 of.  What the chain *)
(* executes is what the signed txID stands for, whatever the JSON next to  *)
(* it says.                                                                *)
(***************************************************************************)
EXTENDS Naturals, Sequences

CONSTANTS
    Pin,                \* STABLERAILS_MAIN_WALLET, a valid address
    Usdt,               \* TRON_USDT_CONTRACT
    MaxFeeLimit,        \* MAX_SWEEP_FEE_LIMIT_SUN
    LiveNames           \* the variables that make a run live, if set

ASSUME FeeAssumption == MaxFeeLimit \in Nat

\* callData: the method and its arguments.
TransferCall(to, amount) == [method |-> "transfer", to |-> to, amount |-> amount]

\* buildTransfer, for an amount above zero.
BuildTransfer(from, to, amount, feeLimit) ==
    [from |-> from, contract |-> Usdt, to |-> to,
     callData |-> TransferCall(to, amount), feeLimit |-> feeLimit]

-----------------------------------------------------------------------------
(* The item of the server *)

\* toSignerIntentChecked.  An item that fails stops the whole run.
PinChecked(item) ==
    LET expected == BuildTransfer(item.from, Pin, item.amount, item.feeLimit)
    IN  /\ item.amount > 0
        /\ item.to = Pin
        /\ item.feeLimit \in 1 .. MaxFeeLimit
        /\ item.toHex = expected.to
        /\ item.callData = expected.callData

\* What makeLiveBuildSignableTx asks the node for and compares its answer
\* with: the address, the amount and the fee limit of the item, no more.
Expected(item) == BuildTransfer(item.address, Pin, item.amount, item.feeLimit)

-----------------------------------------------------------------------------
(* The transaction of the node *)

\* A stub has no contract.
IsMock(tx) == tx.raw.contracts = <<>>

Live(env) == env \cap LiveNames # {}

\* assertNotMockTxIdOnLivePath
NotMockWhenLive(env, tx) == Live(env) => ~IsMock(tx)

VerifyTxIdMatchesRawData(tx) == tx.txID = tx.bytes

\* txCheck of tronweb encodes the first contract of the JSON, and throws for
\* want of one.
Encoded(raw) == [raw EXCEPT !.contracts = <<Head(@)>>]

\* Slip: the bytes are held against the txID, the JSON against neither.
SlipUnbound(tx) == tx.raw.contracts # <<>>

VerifyRawDataBindsToTxId(tx) ==
    tx.raw.contracts # <<>> /\ Encoded(tx.raw) = tx.txID

\* verifyNodeTransaction
VerifyNodeTransaction(tx, expected) ==
    /\ VerifyTxIdMatchesRawData(tx)
    /\ VerifyRawDataBindsToTxId(tx)
    /\ Len(tx.raw.contracts) = 1
    /\ LET c == tx.raw.contracts[1]
       IN  /\ c.type = "TriggerSmartContract"
           /\ c.owner = expected.from
           /\ c.contract = expected.contract
           /\ c.data = expected.callData
           /\ c.callValue = 0
    /\ tx.raw.feeLimit = expected.feeLimit

\* executeSweep asks the same of what it is about to sign once more.
SignerTakes(env, tx) ==
    NotMockWhenLive(env, tx) /\ (Live(env) => VerifyTxIdMatchesRawData(tx))

\* triggerSmartContract: a transaction counts if the node says so and all of
\* it is there.
Answered(answer) == ~answer.error /\ answer.result /\ answer.complete

\* Whether the transaction of an answer is signed and broadcast.  A dry run
\* signs its own stub and sends nothing.
Goes(env, item, answer) ==
    /\ Live(env)
    /\ PinChecked(item)
    /\ Answered(answer)
    /\ VerifyNodeTransaction(answer.tx, Expected(item))
    /\ SignerTakes(env, answer.tx)
=============================================================================
