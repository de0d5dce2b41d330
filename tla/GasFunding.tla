------------------------------ MODULE GasFunding ------------------------------
(***************************************************************************)
(* `stablerails gas fund` (src/src/cli/commands/gas.ts): every deposit     *)
(* address of a sweep intent is topped up to a target of TRX from the gas  *)
(* wallet of the seed.  A run reads the balances one by one, plans, waits  *)
(* for the human, and sends the transfers one by one.  Nothing holds two   *)
(* runs apart, runs die, and what a run sent takes effect some time after  *)
(* it was sent, or after the run that sent it ended, or never.             *)
(*                                                                         *)
(* Runs that stop at the flags, the pin or the operator's confirmation,    *)
(* and dry runs, change nothing and are no steps.  The intent's items are  *)
(* a list, whose order is left open: neither the pin's check nor the caps  *)
(* keep it from naming an address twice, as no list of this server does.   *)
(* A transfer is named by its run and its item.  A block's effect that     *)
(* nodes do not show yet is one that has not happened.                     *)
(***************************************************************************)
EXTENDS Integers, FiniteSets

CONSTANTS
    Addresses,      \* deposit addresses
    GasRuns,        \* invocations of `gas fund`
    Targets,        \* --topup-trx
    Budgets,        \* --max-total-trx
    PerAddressCap,  \* PER_ADDRESS_CAP_SUN
    InitialTrx,     \* what a deposit address may hold at first
    WalletFunds,    \* what the gas wallet holds at first
    Fees,           \* what a transfer may cost its sender beyond the amount:
                    \* bandwidth, and the activation of a fresh address
    MaxItems        \* bound: items of a list

ASSUME FundingAssumption ==
    /\ IsFiniteSet(Addresses)
    /\ Targets \subseteq Nat \ {0} /\ Budgets \subseteq Nat \ {0}
    /\ PerAddressCap \in Nat /\ InitialTrx \subseteq Nat /\ WalletFunds \in Nat
    /\ Fees \subseteq Nat /\ MaxItems \in Nat

VARIABLES
    trx,        \* TRX of each deposit address
    wallet,     \* TRX of the gas wallet
    gasRun,     \* where each run stands
    mempool,    \* transfers a node took and no block has decided
    \* history
    accepted,   \* transfers some node ever took
    contested,  \* addresses two runs were about to fund at once
    crowded,    \* runs whose wallet another run drew on while they sent
    charged     \* what each run's transfers cost beyond their amounts while
                \* it sent others

gasVars == <<trx, wallet, gasRun, mempool, accepted, contested, crowded, charged>>

\* An item is the address it names, and a number among those of its list that do.
Items == Addresses \X (1 .. MaxItems)

AddressOf(i) == i[1]

Lists ==
    {items \in SUBSET Items \ {{}} :
        /\ Cardinality(items) <= MaxItems
        /\ \A i \in items : i[2] > 1 => <<i[1], i[2] - 1>> \in items}

Transfers == GasRuns \X Items

\* left: items still to be read, or still to be sent to.  lack: what the
\* wallet was short of when the node refused a transfer.
GasRun == [pc : {"idle", "reading", "prompting", "checking", "funding",
                 "done", "stopped"},
           items : SUBSET Items, target : Targets, budget : Budgets,
           seen : [Items -> Nat], left : SUBSET Items, lack : Nat]

GasTypeOK ==
    /\ trx \in [Addresses -> Nat]
    /\ wallet \in Nat
    /\ gasRun \in [GasRuns -> GasRun]
    /\ mempool \subseteq Transfers /\ accepted \subseteq Transfers
    /\ contested \subseteq Addresses /\ crowded \subseteq GasRuns
    /\ charged \in [GasRuns -> Nat]

GasInit ==
    /\ trx \in [Addresses -> InitialTrx]
    /\ wallet = WalletFunds
    /\ gasRun \in [GasRuns ->
          {[pc |-> "idle", items |-> {}, target |-> t, budget |-> b,
            seen |-> [i \in Items |-> 0], left |-> {}, lack |-> 0]
              : t \in Targets, b \in Budgets}]
    /\ mempool = {} /\ accepted = {} /\ contested = {} /\ crowded = {}
    /\ charged = [r \in GasRuns |-> 0]

Becomes(r, locals) == gasRun' = [gasRun EXCEPT ![r] = locals]

\* Slip: the whole target is sent to whoever is below it.
SlipTopUp(run, i) == IF run.seen[i] >= run.target THEN 0 ELSE run.target

\* computeTopUps, of what a run knows.
TopUp(run, i) ==
    IF run.seen[i] >= run.target THEN 0 ELSE run.target - run.seen[i]

Plan(run) == {i \in run.items : TopUp(run, i) # 0}

\* A sum is the number of its SUN, each with the item that it is for.
Units(run, S) == UNION {{i} \X (1 .. TopUp(run, i)) : i \in S}

Total(run, S) == Cardinality(Units(run, S))

\* Slip: the cap on the run is held against each transfer.
SlipWithinCaps(run) ==
    \A i \in Plan(run) : TopUp(run, i) <= PerAddressCap /\ TopUp(run, i) <= run.budget

\* assertCaps: the cap on an address is held against each item of its own.
WithinCaps(run) ==
    /\ \A i \in Plan(run) : TopUp(run, i) <= PerAddressCap
    /\ Total(run, Plan(run)) <= run.budget

-----------------------------------------------------------------------------

\* The intent passes the pin; the target is one that the cap allows.
BeginRun(r) ==
    /\ gasRun[r].pc = "idle" /\ gasRun[r].target <= PerAddressCap
    /\ \E items \in Lists :
          Becomes(r, [gasRun[r] EXCEPT !.pc = "reading", !.items = items,
                                       !.left = items])
    /\ UNCHANGED <<trx, wallet, mempool, accepted, crowded, charged>>

\* fetchTrxBalanceSun, one address after the other.
ReadBalance(r, i) ==
    /\ gasRun[r].pc = "reading" /\ i \in gasRun[r].left
    /\ Becomes(r, [gasRun[r] EXCEPT !.seen = [@ EXCEPT ![i] = trx[AddressOf(i)]],
                                    !.left = @ \ {i}])
    /\ UNCHANGED <<trx, wallet, mempool, accepted, crowded, charged>>

\* Nothing to send ends the run, too much to send stops it.
PlanRun(r) ==
    /\ gasRun[r].pc = "reading" /\ gasRun[r].left = {}
    /\ Becomes(r, IF Plan(gasRun[r]) = {} THEN [gasRun[r] EXCEPT !.pc = "done"]
                  ELSE IF ~WithinCaps(gasRun[r]) THEN [gasRun[r] EXCEPT !.pc = "stopped"]
                  ELSE [gasRun[r] EXCEPT !.pc = "prompting", !.left = Plan(gasRun[r])])
    /\ UNCHANGED <<trx, wallet, mempool, accepted, crowded, charged>>

\* The passphrase opens the seed, from which the gas wallet is derived, or
\* does not.
Unlock(r) ==
    /\ gasRun[r].pc = "prompting"
    /\ \E opens \in BOOLEAN :
          Becomes(r, [gasRun[r] EXCEPT !.pc = IF opens THEN "checking" ELSE "stopped"])
    /\ UNCHANGED <<trx, wallet, mempool, accepted, crowded, charged>>

\* Slip: the wallet need only hold the next transfer.
SlipCheckWallet(r) ==
    /\ gasRun[r].pc = "checking"
    /\ Becomes(r, [gasRun[r] EXCEPT !.pc =
          IF \A i \in Plan(gasRun[r]) : TopUp(gasRun[r], i) <= wallet
            THEN "funding" ELSE "stopped"])
    /\ UNCHANGED <<trx, wallet, mempool, accepted, crowded, charged>>

\* The wallet has to hold the whole total, once; fees are not reckoned with.
CheckWallet(r) ==
    /\ gasRun[r].pc = "checking"
    /\ Becomes(r, [gasRun[r] EXCEPT !.pc =
          IF Total(gasRun[r], Plan(gasRun[r])) <= wallet THEN "funding" ELSE "stopped"])
    /\ UNCHANGED <<trx, wallet, mempool, accepted, crowded, charged>>

\* createtransaction does not answer, answers with another transfer or, for
\* want of balance, with an error: the rest of the run is off.
NodeRefuses(r, i) ==
    /\ gasRun[r].pc = "funding" /\ i \in gasRun[r].left
    /\ LET amount == TopUp(gasRun[r], i)
       IN  Becomes(r, [gasRun[r] EXCEPT !.pc = "stopped",
                          !.lack = IF amount > wallet THEN amount - wallet ELSE 0])
    /\ UNCHANGED <<trx, wallet, mempool, accepted, crowded, charged>>

NodeAnswer == {"success", "failure", "refused", "error"}

\* TronHttpClient.request: after a network error, a timeout or a 5xx, and only
\* then, the secondary node is asked.
Ask(primary, secondary) == IF primary = "error" THEN secondary ELSE primary

\* The transfer is built, verified, signed and broadcast.  A node may have taken
\* it whatever was answered last; success, a duplicate included, means that one
\* did.  A result without success lets the run go on, an error ends it.
Broadcast(r, i) ==
    /\ gasRun[r].pc = "funding" /\ i \in gasRun[r].left
    /\ TopUp(gasRun[r], i) <= wallet
    /\ \E took \in BOOLEAN, primary, secondary \in NodeAnswer :
          LET answer == Ask(primary, secondary)
          IN  /\ answer = "success" => took
              /\ mempool' = IF took THEN mempool \cup {<<r, i>>} ELSE mempool
              /\ accepted' = IF took THEN accepted \cup {<<r, i>>} ELSE accepted
              /\ Becomes(r, [gasRun[r] EXCEPT
                    !.pc = IF answer \in {"refused", "error"} THEN "stopped" ELSE @,
                    !.left = @ \ {i}])
    /\ UNCHANGED <<trx, wallet, crowded, charged>>

FinishRun(r) ==
    /\ gasRun[r].pc = "funding" /\ gasRun[r].left = {}
    /\ Becomes(r, [gasRun[r] EXCEPT !.pc = "done"])
    /\ UNCHANGED <<trx, wallet, mempool, accepted, crowded, charged>>

\* The process is killed, or a call throws.
RunDies(r) ==
    /\ gasRun[r].pc \in {"reading", "prompting", "checking", "funding"}
    /\ Becomes(r, [gasRun[r] EXCEPT !.pc = "stopped"])
    /\ UNCHANGED <<trx, wallet, mempool, accepted, crowded, charged>>

-----------------------------------------------------------------------------
(* The chain *)

\* The sender pays the amount and what comes on top.
Land(r, i) ==
    /\ <<r, i>> \in mempool
    /\ \E fee \in Fees :
          /\ TopUp(gasRun[r], i) + fee <= wallet
          /\ wallet' = wallet - (TopUp(gasRun[r], i) + fee)
          /\ charged' = [charged EXCEPT ![r] =
                            IF gasRun[r].pc = "funding" THEN @ + fee ELSE @]
    /\ mempool' = mempool \ {<<r, i>>}
    /\ trx' = [trx EXCEPT ![AddressOf(i)] = @ + TopUp(gasRun[r], i)]
    /\ crowded' = crowded \cup {q \in GasRuns \ {r} : gasRun[q].pc = "funding"}
    /\ UNCHANGED <<gasRun, accepted>>

Lapse(r, i) ==
    /\ <<r, i>> \in mempool
    /\ mempool' = mempool \ {<<r, i>>}
    /\ UNCHANGED <<trx, wallet, gasRun, accepted, crowded, charged>>

\* A sweep of the address burns TRX.
Burn(a) ==
    /\ trx[a] > 0
    /\ trx' = [trx EXCEPT ![a] = 0]
    /\ UNCHANGED <<wallet, gasRun, mempool, accepted, crowded, charged>>

-----------------------------------------------------------------------------

\* r has read the balance for i and has its transfer ahead of it, or on its way.
Exposed(r, i) ==
    \/ gasRun[r].pc = "reading" /\ i \in gasRun[r].items \ gasRun[r].left
    \/ gasRun[r].pc \in {"prompting", "checking", "funding"} /\ i \in gasRun[r].left
    \/ <<r, i>> \in mempool

Contention ==
    LET ahead == {t \in Transfers : Exposed(t[1], t[2])}
    IN  {a \in Addresses : \E t, u \in ahead :
            t # u /\ AddressOf(t[2]) = a /\ AddressOf(u[2]) = a}

Fund(r) ==
    \/ BeginRun(r) \/ PlanRun(r) \/ Unlock(r) \/ CheckWallet(r) \/ FinishRun(r)
    \/ RunDies(r)
    \/ \E i \in Items :
          \/ ReadBalance(r, i) \/ NodeRefuses(r, i) \/ Broadcast(r, i)
          \/ Land(r, i) \/ Lapse(r, i)

GasNext ==
    /\ \/ \E r \in GasRuns : Fund(r)
       \/ \E a \in Addresses : Burn(a)
    /\ contested' = contested \cup Contention'

GasSpec == GasInit /\ [][GasNext]_gasVars

-----------------------------------------------------------------------------
(* Properties *)

Sent(r) == {i \in Items : <<r, i>> \in accepted}

\* However its transfers fare, what nodes took of a run is within the caps the
\* operator gave, and is for items of its intent only.  The cap on an address
\* is one on each top-up: one that the list names twice is topped up twice.
SentWithinCaps ==
    \A r \in GasRuns :
        /\ Sent(r) \subseteq gasRun[r].items
        /\ \A i \in Sent(r) : TopUp(gasRun[r], i) <= PerAddressCap
        /\ Total(gasRun[r], Sent(r)) <= gasRun[r].budget

\* Running the command again after any failure funds only what is missing: an
\* address goes above every target, and what it may have held at first, only
\* if two top-ups of it were ahead or on their way at once: of two runs, the
\* last transfer of a run that ended included, or of one list that names it
\* twice.
OverfundedOnlyIfContested ==
    \A a \in Addresses \ contested :
        \E most \in Targets \cup InitialTrx : trx[a] <= most

\* The wallet is held against a run's total before it sends, and not against
\* its fees: a run that no other crowds may still find the wallet short of an
\* amount, but by no more than the fees of the transfers it had sent.
ShortOnlyByFees ==
    \A r \in GasRuns \ crowded : gasRun[r].lack <= charged[r]
=============================================================================
