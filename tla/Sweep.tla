-------------------------------- MODULE Sweep --------------------------------
(***************************************************************************)
(* Sweeping an event's deposit addresses: the server prepares an intent    *)
(* and records what was broadcast (src/src/server/routes/sweeps.ts), the   *)
(* operator's CLI fetches it, has a node build every transfer, verifies,   *)
(* signs, broadcasts and reports (cli/commands/sweep.ts, signer/sweep.ts). *)
(* Nothing holds two CLI runs of an intent apart, runs die, answers get    *)
(* lost, and the server's report handler is one read and two writes.       *)
(*                                                                         *)
(* A node's transfer is identified by the run it was built for and its     *)
(* address: the node dates it, so no two runs get the same txID.  Runs     *)
(* that stop at the destination pin, at the operator's confirmation or for *)
(* want of a node (dry runs) change nothing and are no steps.  A node that *)
(* says it took a transfer is believed, as the CLI believes it.            *)
(*                                                                         *)
(* The CLI walks a list and would take one that names an address twice.    *)
(* The server's own, which it is given here, has an item per invoice, and  *)
(* no two invoices have one address: an intent's items are a set.          *)
(***************************************************************************)
EXTENDS Naturals

CONSTANTS
    Addresses,      \* deposit addresses of the event, one invoice each
    Intents,        \* SweepIntent ids
    Runs,           \* invocations of `sweep execute`
    NoHash,         \* the null of item.txHash
    MaxCredits      \* bound: units credited to one address

ASSUME SweepAssumption == NoHash \notin Runs
ASSUME CreditsAssumption == MaxCredits \in Nat

VARIABLES
    \* the chain
    balance,    \* USDT each address holds, in units
    mempool,    \* transfers a node took and no block has decided
    moved,      \* transfers that took effect
    \* the server
    received,   \* amountReceived of the invoice of each address
    intents,    \* SweepIntent rows
    \* the operator's machine, and the server's handler of a run's report
    run,
    \* history
    taken,      \* transfers some node ever took
    contended   \* intents of which two reports were handled at once

sweepVars == <<balance, mempool, moved, received, intents, run, taken, contended>>

Transfers == Runs \X Addresses

Hash == Runs \cup {NoHash}

IntentRow == [status : {"none", "prepared", "partially_broadcast", "broadcast"},
              amount : [Addresses -> Nat],      \* 0: no item of the intent
              hash : [Addresses -> Hash]]

\* remaining: items the current loop has still to visit.  verified: node
\* transactions built and found to be the local ones.  succeeded: results
\* with success.  merged: items the report handler is about to write.
Run == [pc : {"idle", "building", "sending", "reporting", "storing", "marking",
              "done"},
        intent : Intents, remaining : SUBSET Addresses,
        verified : SUBSET Addresses, succeeded : SUBSET Addresses,
        merged : [Addresses -> Hash]]

NoHashes == [a \in Addresses |-> NoHash]

TypeOK ==
    /\ balance \in [Addresses -> Nat] /\ received \in [Addresses -> Nat]
    /\ mempool \subseteq Transfers /\ moved \subseteq Transfers
    /\ intents \in [Intents -> IntentRow]
    /\ run \in [Runs -> Run]
    /\ taken \subseteq Transfers /\ contended \subseteq Intents

Init ==
    /\ balance = [a \in Addresses |-> 0] /\ received = [a \in Addresses |-> 0]
    /\ mempool = {} /\ moved = {}
    /\ intents = [i \in Intents |->
                     [status |-> "none", amount |-> [a \in Addresses |-> 0],
                      hash |-> NoHashes]]
    /\ run \in [Runs -> {[pc |-> "idle", intent |-> i, remaining |-> {},
                          verified |-> {}, succeeded |-> {},
                          merged |-> NoHashes] : i \in Intents}]
    /\ taken = {} /\ contended = {}

Items(i) == {a \in Addresses : intents[i].amount[a] > 0}

Becomes(r, locals) == run' = [run EXCEPT ![r] = locals]

-----------------------------------------------------------------------------
(* The chain *)

\* The watcher credits a payment to an invoice that is closed by it or was
\* closed before: late money comes too.
CreditUnit(a) ==
    /\ received[a] < MaxCredits
    /\ balance' = [balance EXCEPT ![a] = @ + 1]
    /\ received' = [received EXCEPT ![a] = @ + 1]
    /\ UNCHANGED <<mempool, moved, intents, run, taken, contended>>

\* A block takes the transfer in.  One the balance does not cover reverts.
TakeEffect(r, a) ==
    LET amount == intents[run[r].intent].amount[a]
    IN  /\ <<r, a>> \in mempool
        /\ amount <= balance[a]
        /\ mempool' = mempool \ {<<r, a>>}
        /\ moved' = moved \cup {<<r, a>>}
        /\ balance' = [balance EXCEPT ![a] = @ - amount]
        /\ UNCHANGED <<received, intents, run, taken, contended>>

\* It reverts, for want of balance or of energy, or expires.
ComeToNothing(r, a) ==
    /\ <<r, a>> \in mempool
    /\ mempool' = mempool \ {<<r, a>>}
    /\ UNCHANGED <<balance, moved, received, intents, run, taken, contended>>

-----------------------------------------------------------------------------
(* POST /v1/sweeps/prepare *)

\* listSweepableForEvent: closed invoices that received anything.
Sweepable == {a \in Addresses : received[a] > 0}

\* The caller's choice of addresses among them.  The whole amountReceived is
\* asked for, whatever was swept before.
Prepare(i) ==
    /\ intents[i].status = "none"
    /\ \E chosen \in SUBSET Sweepable \ {{}} :
          intents' = [intents EXCEPT ![i] =
             [status |-> "prepared", hash |-> NoHashes,
              amount |-> [a \in Addresses |-> IF a \in chosen THEN received[a]
                                                             ELSE 0]]]
    /\ UNCHANGED <<balance, mempool, moved, received, run, taken, contended>>

-----------------------------------------------------------------------------
(* sweep execute *)

\* The intent is fetched, checked against the pin and confirmed.  Neither
\* its status nor the hashes of its items are looked at.
Begin(r) ==
    /\ run[r].pc = "idle"
    /\ intents[run[r].intent].status # "none"
    /\ Becomes(r, [run[r] EXCEPT !.pc = "building",
                                 !.remaining = Items(run[r].intent)])
    /\ UNCHANGED <<balance, mempool, moved, received, intents, taken, contended>>

\* liveBuild: one node transaction, verified field by field.
Build(r) ==
    /\ run[r].pc = "building"
    /\ \E a \in run[r].remaining :
          Becomes(r, [run[r] EXCEPT !.verified = @ \cup {a},
                                    !.remaining = @ \ {a}])
    /\ UNCHANGED <<balance, mempool, moved, received, intents, taken, contended>>

\* Slip: what is verified so far is signed.
SlipSignVerified(r) ==
    /\ run[r].pc = "building" /\ run[r].verified # {}
    /\ Becomes(r, [run[r] EXCEPT !.pc = "sending",
                                 !.remaining = run[r].verified])
    /\ UNCHANGED <<balance, mempool, moved, received, intents, taken, contended>>

\* The prebuilding loop is through: executeSweep starts.
BuiltAll(r) ==
    /\ run[r].pc = "building" /\ run[r].remaining = {}
    /\ Becomes(r, [run[r] EXCEPT !.pc = "sending",
                                 !.remaining = Items(run[r].intent)])
    /\ UNCHANGED <<balance, mempool, moved, received, intents, taken, contended>>

\* Slip: a result counts whether or not it succeeded.
SlipCountEveryResult(r, a) ==
    /\ run[r].pc = "sending" /\ a \in run[r].remaining
    /\ Becomes(r, [run[r] EXCEPT !.remaining = @ \ {a},
                                 !.succeeded = @ \cup {a}])
    /\ \E took \in BOOLEAN :
          /\ mempool' = IF took THEN mempool \cup {<<r, a>>} ELSE mempool
          /\ taken' = IF took THEN taken \cup {<<r, a>>} ELSE taken
    /\ UNCHANGED <<balance, moved, received, intents, contended>>

\* One item of executeSweep, signed and broadcast: a node takes it or not,
\* and its answer (or, from the other provider, that it is a duplicate)
\* arrives or not.
Send(r, a) ==
    /\ run[r].pc = "sending" /\ a \in run[r].remaining
    /\ \E took, answered \in BOOLEAN :
          /\ mempool' = IF took THEN mempool \cup {<<r, a>>} ELSE mempool
          /\ taken' = IF took THEN taken \cup {<<r, a>>} ELSE taken
          /\ Becomes(r, [run[r] EXCEPT
                !.remaining = @ \ {a},
                !.succeeded = IF took /\ answered THEN @ \cup {a} ELSE @])
    /\ UNCHANGED <<balance, moved, received, intents, contended>>

\* Only successes are reported, and a run without any reports nothing.
SentAll(r) ==
    /\ run[r].pc = "sending" /\ run[r].remaining = {}
    /\ Becomes(r, [run[r] EXCEPT
          !.pc = IF run[r].succeeded = {} THEN "done" ELSE "reporting"])
    /\ UNCHANGED <<balance, mempool, moved, received, intents, taken, contended>>

\* A node transaction that cannot be built or verified ends the run before
\* anything is signed; the process may also die, or the report get lost.
RunDies(r) ==
    /\ run[r].pc \in {"building", "sending", "reporting"}
    /\ Becomes(r, [run[r] EXCEPT !.pc = "done"])
    /\ UNCHANGED <<balance, mempool, moved, received, intents, taken, contended>>

-----------------------------------------------------------------------------
(* POST /v1/sweeps/:id/broadcast-result *)

HandledNow(i) ==
    {r \in Runs : run[r].intent = i /\ run[r].pc \in {"storing", "marking"}}

\* Slip: only what this report names is kept.
SlipKeepNamed(r) ==
    [a \in Addresses |-> IF a \in run[r].succeeded THEN r ELSE NoHash]

Merged(r) ==
    [a \in Addresses |-> IF a \in run[r].succeeded THEN r
                         ELSE intents[run[r].intent].hash[a]]

\* A finished intent is answered 409.
TakesReport(r) == intents[run[r].intent].status # "broadcast"

ReadIntent(r) ==
    /\ run[r].pc = "reporting"
    /\ TakesReport(r)
    /\ Becomes(r, [run[r] EXCEPT !.pc = "storing", !.merged = Merged(r)])
    /\ contended' = IF HandledNow(run[r].intent) # {}
                      THEN contended \cup {run[r].intent} ELSE contended
    /\ UNCHANGED <<balance, mempool, moved, received, intents, taken>>

RefuseReport(r) ==
    /\ run[r].pc = "reporting"
    /\ ~TakesReport(r)
    /\ Becomes(r, [run[r] EXCEPT !.pc = "done"])
    /\ UNCHANGED <<balance, mempool, moved, received, intents, taken, contended>>

UpdateItems(r) ==
    /\ run[r].pc = "storing"
    /\ intents' = [intents EXCEPT ![run[r].intent].hash = run[r].merged]
    /\ Becomes(r, [run[r] EXCEPT !.pc = "marking"])
    /\ UNCHANGED <<balance, mempool, moved, received, taken, contended>>

\* Slip: one success is enough.
SlipAnyBroadcasted(r) ==
    \E a \in Items(run[r].intent) : run[r].merged[a] # NoHash

AllBroadcasted(r) ==
    \A a \in Items(run[r].intent) : run[r].merged[a] # NoHash

UpdateStatus(r) ==
    /\ run[r].pc = "marking"
    /\ intents' = [intents EXCEPT ![run[r].intent].status =
          IF AllBroadcasted(r) THEN "broadcast" ELSE "partially_broadcast"]
    /\ Becomes(r, [run[r] EXCEPT !.pc = "done"])
    /\ UNCHANGED <<balance, mempool, moved, received, taken, contended>>

\* The server process dies, or the query throws, before either write.
HandlerDies(r) ==
    /\ run[r].pc \in {"storing", "marking"}
    /\ Becomes(r, [run[r] EXCEPT !.pc = "done"])
    /\ UNCHANGED <<balance, mempool, moved, received, intents, taken, contended>>

-----------------------------------------------------------------------------

Chain ==
    \/ \E a \in Addresses : CreditUnit(a)
    \/ \E r \in Runs, a \in Addresses : TakeEffect(r, a) \/ ComeToNothing(r, a)

Execute(r) ==
    \/ Begin(r) \/ Build(r) \/ BuiltAll(r) \/ SentAll(r) \/ RunDies(r)
    \/ \E a \in Addresses : Send(r, a)

Report(r) ==
    ReadIntent(r) \/ RefuseReport(r) \/ UpdateItems(r) \/ UpdateStatus(r)
        \/ HandlerDies(r)

Next ==
    \/ Chain
    \/ \E i \in Intents : Prepare(i)
    \/ \E r \in Runs : Execute(r) \/ Report(r)

Spec == Init /\ [][Next]_sweepVars

-----------------------------------------------------------------------------
(* Properties *)

\* The server only ever records a hash that a node confirmed to have taken,
\* for an address of that intent, from a run of that intent: no hash is
\* fabricated, whatever runs race, fail or die.
RecordedWasBroadcast ==
    \A i \in Intents, a \in Addresses :
        LET r == intents[i].hash[a]
        IN  r # NoHash => /\ <<r, a>> \in taken
                          /\ a \in Items(i) /\ run[r].intent = i

\* Nothing of a run is broadcast before every transfer of its intent was
\* built and verified: one answer of a lying node stops all of it.
VerifiedBeforeSent ==
    \A t \in taken : Items(run[t[1]].intent) \subseteq run[t[1]].verified

\* An intent that says broadcast has the hash of every item, unless two
\* reports of it were handled at once, when one may undo the other's.
BroadcastIsComplete ==
    \A i \in Intents \ contended :
        intents[i].status = "broadcast"
            => \A a \in Items(i) : intents[i].hash[a] # NoHash

\* A hash that was recorded is never lost (a later run's may replace it),
\* and a finished intent never changes, with the same exception.
RecordIsKept ==
    [][\A i \in Intents \ contended :
          /\ \A a \in Addresses : intents[i].hash[a] # NoHash
                                      => intents'[i].hash[a] # NoHash
          /\ intents[i].status = "broadcast" => intents'[i] = intents[i]
      ]_sweepVars
=============================================================================
