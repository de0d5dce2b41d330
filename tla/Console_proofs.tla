---------------------------- MODULE Console_proofs ----------------------------
(***************************************************************************)
(* What an operator's commands may rely on, for any seeds, passphrases,    *)
(* addresses, wallets, deployments and numbers of runs: that the           *)
(* Keychain's passphrase opens the seed, that the gas wallet is spent as   *)
(* planned, and that a deployment's keys come to their owners.             *)
(***************************************************************************)
EXTENDS SeedStore, GasFunding, Provisioning, FiniteSetTheorems, TLAPS

-----------------------------------------------------------------------------
(* The seed and its Keychain entry *)

\* Unless the store was reported to have failed, an entry is the passphrase of
\* the blob that it was checked against.
EntryIsGood ==
    entry # NoEntry /\ ~misstored =>
        checked["entry"] # NoBlob /\ entry = checked["entry"].pass

\* The same for what `keychain enable` has checked and is about to store.
EnablingIsGood ==
    enabling # NoEntry =>
        checked["enabling"] # NoBlob /\ enabling = checked["enabling"].pass

SeedIInv ==
    /\ SeedTypeOK
    /\ EntryIsGood
    /\ EnablingIsGood
    /\ EntryOpensSeed

-----------------------------------------------------------------------------

LEMMA SeedInitInv == SeedInit => SeedIInv
  <1> SUFFICES ASSUME SeedInit PROVE SeedIInv
    OBVIOUS
  <1>1. SeedTypeOK
    <2>1. 0 \in 0 .. MaxSeedInits
      BY SeedInitsAssumption
    <2>2. checked \in [{"entry", "enabling"} -> Blob \cup {NoBlob}]
      BY DEF SeedInit
    <2>3. env \in [Terminals -> Blob \cup {NoBlob, TheFile}]
      <3>1. env \in [Terminals -> {NoBlob, TheFile}]
        BY DEF SeedInit
      <3>2. env = [t \in Terminals |-> env[t]]
            /\ \A t \in Terminals : env[t] \in Blob \cup {NoBlob, TheFile}
        BY <3>1
      <3>. QED  BY <3>2
    <2>. QED  BY <2>1, <2>2, <2>3 DEF SeedInit, SeedTypeOK, Attempt
  <1>2. EntryIsGood /\ EnablingIsGood /\ EntryOpensSeed
    BY DEF SeedInit, EntryIsGood, EnablingIsGood, EntryOpensSeed
  <1>. QED  BY <1>1, <1>2 DEF SeedIInv

LEMMA CurrentBlobType ==
    ASSUME SeedTypeOK, NEW t \in Terminals
    PROVE  CurrentBlob(t) \in Blob \cup {NoBlob}
  BY DEF SeedTypeOK, CurrentBlob

LEMMA AttemptType ==
    ASSUME NEW by \in {"typed", "entry"}, NEW opened \in BOOLEAN, NEW excused \in BOOLEAN
    PROVE  [by |-> by, opened |-> opened, excused |-> excused] \in Attempt
  BY DEF Attempt

\* What a signing command is offered, and what comes of it.
LEMMA SignEffect ==
    ASSUME NEW t \in Terminals, Sign(t)
    PROVE  \E by \in {"typed", "entry"}, opened, excused \in BOOLEAN :
              /\ attempt' = [by |-> by, opened |-> opened, excused |-> excused]
              /\ by = "entry" =>
                    /\ entry # NoEntry
                    /\ opened <=> Opens(t, entry)
                    /\ excused <=> (misstored \/ CurrentBlob(t) # checked["entry"])
  <1>1. \A pass : Opens(t, pass) \in BOOLEAN
    BY DEF Opens
  <1>2. CASE \E pass \in Passphrases :
               attempt' = [by |-> "typed", opened |-> Opens(t, pass), excused |-> FALSE]
    BY <1>1, <1>2
  <1>3. CASE /\ entry # NoEntry
             /\ attempt' = [by |-> "entry", opened |-> Opens(t, entry),
                            excused |-> misstored \/ CurrentBlob(t) # checked["entry"]]
    <2> DEFINE excused == misstored \/ CurrentBlob(t) # checked["entry"]
    <2>1. excused \in BOOLEAN
      OBVIOUS
    <2>2. excused <=> (misstored \/ CurrentBlob(t) # checked["entry"])
      OBVIOUS
    <2>3. attempt' = [by |-> "entry", opened |-> Opens(t, entry), excused |-> excused]
      BY <1>3
    <2> HIDE DEF excused
    <2>. QED  BY <1>1, <1>3, <2>1, <2>2, <2>3
  <1>. QED  BY <1>2, <1>3 DEF Sign

\* A store writes the passphrase checked, something else, or nothing.
LEMMA StoreEffect ==
    ASSUME SeedTypeOK, EnableStores
    PROVE  /\ entry' \in Passphrases \cup {NoEntry, Mangled}
           /\ misstored' \in BOOLEAN
           /\ \/ /\ entry' = enabling
                 /\ checked' = [checked EXCEPT !["entry"] = checked["enabling"]]
              \/ /\ entry' # NoEntry => misstored'
                 /\ checked' = checked
  <1>1. PICK stored \in {enabling, Mangled, entry}, readable \in BOOLEAN,
             deleted \in BOOLEAN :
          LET same == readable /\ stored = enabling
              gone == readable /\ ~same /\ deleted
          IN  /\ entry' = IF gone THEN NoEntry ELSE stored
              /\ misstored' = (~same /\ ~gone)
              /\ checked' = IF same
                            THEN [checked EXCEPT !["entry"] = checked["enabling"]]
                            ELSE checked
    BY DEF EnableStores
  <1>2. stored \in Passphrases \cup {NoEntry, Mangled}
    BY DEF SeedTypeOK
  <1>3. entry' \in {stored, NoEntry} /\ misstored' \in BOOLEAN
    BY <1>1
  <1>4. CASE readable /\ stored = enabling
    BY <1>1, <1>2, <1>3, <1>4
  <1>5. CASE ~(readable /\ stored = enabling)
    BY <1>1, <1>2, <1>3, <1>5
  <1>. QED  BY <1>4, <1>5

LEMMA SeedNextTypes == SeedTypeOK /\ [SeedNext]_seedVars => SeedTypeOK'
  <1> SUFFICES ASSUME SeedTypeOK, [SeedNext]_seedVars PROVE SeedTypeOK'
    OBVIOUS
  <1> USE DEF SeedTypeOK
  <1>1. ASSUME NEW blob \in Blob, InitWritesFile(blob) PROVE SeedTypeOK'
    BY <1>1, SeedInitsAssumption DEF InitWritesFile
  <1>2. ASSUME NEW blob \in Blob, InitIsExported(blob) PROVE SeedTypeOK'
    <2>1. env' \in [Terminals -> Blob \cup {NoBlob, TheFile}]
      BY <1>2 DEF InitIsExported
    <2>. QED  BY <1>2, <2>1, SeedInitsAssumption DEF InitIsExported
  <1>3. ASSUME NEW t \in Terminals, SetUp(t) PROVE SeedTypeOK'
    BY <1>3 DEF SetUp
  <1>4. ASSUME NEW t \in Terminals, NEW pass \in Passphrases, EnableChecks(t, pass)
        PROVE  SeedTypeOK'
    <2>1. CurrentBlob(t) \in Blob \cup {NoBlob}
      BY CurrentBlobType
    <2>2. checked' \in [{"entry", "enabling"} -> Blob \cup {NoBlob}]
      BY <1>4, <2>1 DEF EnableChecks
    <2>. QED  BY <1>4, <2>2 DEF EnableChecks
  <1>5. CASE EnableEnds
    BY <1>5 DEF EnableEnds
  <1>6. CASE EnableStores
    <2>1. checked' \in [{"entry", "enabling"} -> Blob \cup {NoBlob}]
      BY <1>6, StoreEffect
    <2>. QED  BY <1>6, <2>1, StoreEffect DEF EnableStores
  <1>7. CASE Disable
    BY <1>7 DEF Disable
  <1>8. ASSUME NEW t \in Terminals, Sign(t) PROVE SeedTypeOK'
    <2>1. attempt' \in Attempt
      BY <1>8, SignEffect, AttemptType
    <2>. QED  BY <1>8, <2>1 DEF Sign
  <1>9. CASE UNCHANGED seedVars
    BY <1>9 DEF seedVars
  <1>. QED  BY <1>1, <1>2, <1>3, <1>4, <1>5, <1>6, <1>7, <1>8, <1>9 DEF SeedNext

LEMMA SeedNextInv == SeedIInv /\ [SeedNext]_seedVars => SeedIInv'
  <1> SUFFICES ASSUME SeedIInv, [SeedNext]_seedVars PROVE SeedIInv'
    OBVIOUS
  <1> DEFINE Rest == EntryIsGood' /\ EnablingIsGood' /\ EntryOpensSeed'
  <1>0. SeedTypeOK'
    BY SeedNextTypes DEF SeedIInv
  <1>1. ASSUME UNCHANGED <<entry, enabling, attempt, checked, misstored>> PROVE Rest
    BY <1>1 DEF SeedIInv, EntryIsGood, EnablingIsGood, EntryOpensSeed
  <1>2. ASSUME NEW t \in Terminals, NEW pass \in Passphrases, EnableChecks(t, pass)
        PROVE  Rest
    <2>1. /\ enabling' = pass /\ Opens(t, pass)
          /\ checked'["enabling"] = CurrentBlob(t)
          /\ checked'["entry"] = checked["entry"]
          /\ UNCHANGED <<entry, attempt, misstored>>
      BY <1>2 DEF EnableChecks, SeedIInv, SeedTypeOK
    <2>. QED  BY <2>1 DEF Opens, SeedIInv, EntryIsGood, EnablingIsGood, EntryOpensSeed
  <1>3. ASSUME EnableEnds PROVE Rest
    BY <1>3 DEF EnableEnds, SeedIInv, EntryIsGood, EnablingIsGood, EntryOpensSeed
  <1>4. ASSUME EnableStores PROVE Rest
    <2>1. /\ enabling # NoEntry /\ enabling' = NoEntry /\ attempt' = attempt
          /\ SeedTypeOK
      BY <1>4 DEF EnableStores, SeedIInv
    <2>2. EnablingIsGood' /\ EntryOpensSeed'
      BY <2>1 DEF SeedIInv, EnablingIsGood, EntryOpensSeed
    <2>3. CASE /\ entry' = enabling
               /\ checked' = [checked EXCEPT !["entry"] = checked["enabling"]]
      <3>1. checked'["entry"] = checked["enabling"]
        BY <2>1, <2>3 DEF SeedTypeOK
      <3>2. EntryIsGood'
        BY <2>1, <2>3, <3>1 DEF SeedIInv, EnablingIsGood, EntryIsGood
      <3>. QED  BY <2>2, <3>2
    <2>4. CASE entry' # NoEntry => misstored'
      BY <2>2, <2>4 DEF EntryIsGood
    <2>. QED  BY <1>4, <2>1, <2>3, <2>4, StoreEffect
  <1>5. ASSUME Disable PROVE Rest
    BY <1>5 DEF Disable, SeedIInv, EntryIsGood, EnablingIsGood, EntryOpensSeed
  <1>6. ASSUME NEW t \in Terminals, Sign(t) PROVE Rest
    <2>1. UNCHANGED <<entry, enabling, checked, misstored>>
      BY <1>6 DEF Sign
    <2>2. EntryIsGood' /\ EnablingIsGood'
      BY <2>1 DEF SeedIInv, EntryIsGood, EnablingIsGood
    <2>3. PICK by \in {"typed", "entry"}, opened \in BOOLEAN, excused \in BOOLEAN :
            /\ attempt' = [by |-> by, opened |-> opened, excused |-> excused]
            /\ by = "entry" =>
                  /\ entry # NoEntry
                  /\ opened <=> Opens(t, entry)
                  /\ excused <=> (misstored \/ CurrentBlob(t) # checked["entry"])
      BY <1>6, SignEffect
    <2>4. by = "entry" => opened \/ excused
      BY <2>3 DEF SeedIInv, EntryIsGood, Opens
    <2>5. attempt'.by = by /\ attempt'.opened = opened /\ attempt'.excused = excused
      BY <2>3
    <2>6. EntryOpensSeed'
      BY <2>4, <2>5 DEF EntryOpensSeed
    <2>. QED  BY <2>2, <2>6
  <1>. HIDE DEF Rest
  <1>7. Rest
    BY <1>1, <1>2, <1>3, <1>4, <1>5, <1>6
       DEF SeedNext, InitWritesFile, InitIsExported, SetUp, seedVars
  <1>. QED  BY <1>0, <1>7 DEF SeedIInv, Rest

-----------------------------------------------------------------------------
(* The seed: theorems *)

LEMMA SeedAlways == SeedSpec => []SeedIInv
BY SeedInitInv, SeedNextInv, PTL DEF SeedSpec

\* Whoever signs with Touch ID gets through wherever the seed in use is the one
\* that the passphrase was checked against, unless its store reported a failure.
THEOREM TouchIdOpensSeed == SeedSpec => []EntryOpensSeed
<1>1. SeedIInv => EntryOpensSeed
  BY DEF SeedIInv
<1> QED BY SeedAlways, <1>1, PTL

\* Blobs, entry and history keep their types.
THEOREM SeedTypeCorrect == SeedSpec => []SeedTypeOK
<1>1. SeedIInv => SeedTypeOK
  BY DEF SeedIInv
<1> QED BY SeedAlways, <1>1, PTL

-----------------------------------------------------------------------------
(* The gas wallet: sums *)

LEMMA ItemsNameAddresses ==
    /\ IsFiniteSet(Items)
    /\ \A i \in Items : AddressOf(i) \in Addresses
  <1>1. IsFiniteSet(Addresses) /\ IsFiniteSet(1 .. MaxItems)
    BY FundingAssumption, FS_Interval
  <1>. QED  BY <1>1, FS_Product DEF Items, AddressOf

LEMMA TopUpType ==
    ASSUME NEW run \in GasRun, NEW i \in Items
    PROVE  /\ TopUp(run, i) \in Nat
           /\ TopUp(run, i) <= run.target
  <1>1. run.seen[i] \in Nat /\ run.target \in Nat
    BY FundingAssumption DEF GasRun
  <1>. QED  BY <1>1 DEF TopUp

LEMMA UnitsFinite ==
    ASSUME NEW run \in GasRun, NEW S \in SUBSET Items
    PROVE  IsFiniteSet(Units(run, S))
  <1> DEFINE box == Items \X (1 .. run.target)
  <1>1. run.target \in Nat
    BY FundingAssumption DEF GasRun
  <1>2. IsFiniteSet(box)
    <2>1. IsFiniteSet(1 .. run.target)
      BY <1>1, FS_Interval
    <2>. QED  BY <2>1, ItemsNameAddresses, FS_Product
  <1>3. Units(run, S) \subseteq box
    BY <1>1, TopUpType DEF Units
  <1>. QED  BY <1>2, <1>3, FS_Subset

LEMMA TotalIsNat ==
    ASSUME NEW run \in GasRun, NEW S \in SUBSET Items
    PROVE  Total(run, S) \in Nat
  BY UnitsFinite, FS_CardinalityType DEF Total

\* Fewer transfers never sum up to more.
LEMMA TotalMonotone ==
    ASSUME NEW run \in GasRun, NEW S \in SUBSET Items, NEW T \in SUBSET S
    PROVE  Total(run, T) <= Total(run, S)
  <1>1. Units(run, T) \subseteq Units(run, S)
    BY DEF Units
  <1>. QED  BY <1>1, UnitsFinite, FS_Subset DEF Total

\* A transfer taken out of a sum takes its amount with it.
LEMMA TotalWithout ==
    ASSUME NEW run \in GasRun, NEW S \in SUBSET Items, NEW i \in S
    PROVE  Total(run, S) = Total(run, S \ {i}) + TopUp(run, i)
  <1> DEFINE own == {i} \X (1 .. TopUp(run, i))
             rest == Units(run, S \ {i})
  <1>1. TopUp(run, i) \in Nat
    BY TopUpType
  <1>2. IsFiniteSet(own) /\ Cardinality(own) = TopUp(run, i)
    <2>1. IsFiniteSet({i}) /\ Cardinality({i}) = 1
      BY FS_Singleton
    <2>2. /\ IsFiniteSet(1 .. TopUp(run, i))
          /\ Cardinality(1 .. TopUp(run, i)) = TopUp(run, i)
      BY <1>1, FS_Interval
    <2>. QED  BY <1>1, <2>1, <2>2, FS_Product
  <1>3. IsFiniteSet(rest) /\ Cardinality(rest) = Total(run, S \ {i})
    BY UnitsFinite DEF Total
  <1>4. Units(run, S) = rest \cup own
    BY DEF Units
  <1>5. rest \cap own = {}
    BY DEF Units
  <1>6. Total(run, S \ {i}) \in Nat
    BY TotalIsNat
  <1>7. Cardinality(rest \cup own) = Cardinality(rest) + Cardinality(own)
    <2>. HIDE DEF own, rest
    <2>1. Cardinality(rest \cup own)
            = Cardinality(rest) + Cardinality(own) - Cardinality(rest \cap own)
      BY <1>2, <1>3, FS_Union
    <2>2. Cardinality(rest \cap own) = 0
      BY <1>5, FS_EmptySet
    <2>. QED  BY <1>1, <1>2, <1>3, <1>6, <2>1, <2>2
  <1>. QED  BY <1>2, <1>3, <1>4, <1>7 DEF Total

\* Runs that planned from the same balances, for the same target and budget,
\* send the same.
LEMMA SamePlan ==
    ASSUME NEW run \in GasRun, NEW now \in GasRun,
           now.items = run.items, now.seen = run.seen,
           now.target = run.target, now.budget = run.budget
    PROVE  /\ \A i : TopUp(now, i) = TopUp(run, i)
           /\ Plan(now) = Plan(run)
           /\ \A S : Total(now, S) = Total(run, S)
           /\ WithinCaps(now) <=> WithinCaps(run)
  <1>1. \A i : TopUp(now, i) = TopUp(run, i)
    BY DEF TopUp
  <1>2. Plan(now) = Plan(run)
    BY <1>1 DEF Plan
  <1>3. \A S : Units(now, S) = Units(run, S)
    BY <1>1 DEF Units
  <1>. QED  BY <1>1, <1>2, <1>3 DEF Total, WithinCaps

-----------------------------------------------------------------------------
(* The gas wallet: invariant *)

\* What a run has planned is within the caps, and all it has ahead of it.
Planned(r) ==
    gasRun[r].pc \in {"prompting", "checking", "funding"} =>
        /\ WithinCaps(gasRun[r])
        /\ gasRun[r].left \subseteq Plan(gasRun[r])

\* What nodes took of a run was of such a plan, and is not sent again.
SentAsPlanned(r) ==
    \A i \in Sent(r) :
        /\ gasRun[r].pc \in {"funding", "done", "stopped"}
        /\ WithinCaps(gasRun[r])
        /\ i \in Plan(gasRun[r])
        /\ gasRun[r].pc = "funding" => i \notin gasRun[r].left

Owed(r) == gasRun[r].left \cup {i \in Items : <<r, i>> \in mempool}

\* But for the fees that blocks took, the wallet holds all that a run has still
\* to send, and all it has sent that no block has, as long as no other run
\* draws on it.
WalletSuffices(r) ==
    r \notin crowded =>
        /\ gasRun[r].pc = "funding" =>
              Total(gasRun[r], Owed(r)) <= wallet + charged[r]
        /\ gasRun[r].lack <= charged[r]

RunIsSound(r) == Planned(r) /\ SentAsPlanned(r) /\ WalletSuffices(r)

\* Nothing but a run's own transfer raises an address between its reading
\* and that transfer, unless another top-up of it was ahead.
BalanceIsKnown ==
    \A r \in GasRuns, i \in Items :
        Exposed(r, i) /\ AddressOf(i) \notin contested =>
            trx[AddressOf(i)] <= gasRun[r].seen[i]

GasIInv ==
    /\ GasTypeOK
    /\ \A r \in GasRuns : RunIsSound(r)
    /\ mempool \subseteq accepted
    /\ Contention \subseteq contested
    /\ BalanceIsKnown
    /\ OverfundedOnlyIfContested

-----------------------------------------------------------------------------
(* The gas wallet: the invariant is inductive *)

LEMMA GasInitInv == GasInit => GasIInv
  <1> SUFFICES ASSUME GasInit PROVE GasIInv
    OBVIOUS
  <1>1. \A r \in GasRuns :
           /\ gasRun[r] \in GasRun
           /\ gasRun[r].pc = "idle" /\ gasRun[r].lack = 0
    <2> SUFFICES ASSUME NEW r \in GasRuns
                 PROVE  /\ gasRun[r] \in GasRun
                        /\ gasRun[r].pc = "idle" /\ gasRun[r].lack = 0
      OBVIOUS
    <2>1. PICK t \in Targets, b \in Budgets :
             gasRun[r] = [pc |-> "idle", items |-> {}, target |-> t, budget |-> b,
                          seen |-> [i \in Items |-> 0], left |-> {},
                          lack |-> 0]
      BY DEF GasInit
    <2>2. [i \in Items |-> 0] \in [Items -> Nat]
      OBVIOUS
    <2>. QED  BY <2>1, <2>2 DEF GasRun
  <1>2. GasTypeOK
    <2>1. gasRun \in [GasRuns -> GasRun]
      <3>1. gasRun = [r \in GasRuns |-> gasRun[r]]
        BY DEF GasInit
      <3>. QED  BY <1>1, <3>1
    <2>2. trx \in [Addresses -> Nat]
      <3>1. trx \in [Addresses -> InitialTrx] /\ InitialTrx \subseteq Nat
        BY FundingAssumption DEF GasInit
      <3>2. trx = [a \in Addresses |-> trx[a]] /\ \A a \in Addresses : trx[a] \in Nat
        BY <3>1
      <3>. QED  BY <3>2
    <2>3. wallet \in Nat
      BY FundingAssumption DEF GasInit
    <2>. QED  BY <2>1, <2>2, <2>3 DEF GasInit, GasTypeOK
  <1>3. \A r \in GasRuns : RunIsSound(r)
    <2>1. \A r \in GasRuns : gasRun[r].lack <= charged[r]
      BY <1>1 DEF GasInit
    <2>. QED  BY <1>1, <2>1 DEF GasInit, RunIsSound, Planned, SentAsPlanned, Sent,
                               WalletSuffices
  <1>4. \A r \in GasRuns, i \in Items : ~Exposed(r, i)
    BY <1>1 DEF GasInit, Exposed
  <1>5. Contention \subseteq contested /\ BalanceIsKnown
    BY <1>4 DEF Contention, BalanceIsKnown, Transfers
  <1>6. OverfundedOnlyIfContested
    <2>1. \A a \in Addresses : trx[a] \in InitialTrx
      BY DEF GasInit
    <2>2. \A n \in InitialTrx : n <= n
      BY FundingAssumption
    <2>. QED  BY <2>1, <2>2 DEF OverfundedOnlyIfContested
  <1>. QED  BY <1>2, <1>3, <1>5, <1>6 DEF GasInit, GasIInv

LEMMA GasNextTypes ==
    ASSUME GasTypeOK, NEW r \in GasRuns, Fund(r)
    PROVE  /\ gasRun' \in [GasRuns -> GasRun]
           /\ trx' \in [Addresses -> Nat] /\ wallet' \in Nat
           /\ mempool' \subseteq Transfers /\ accepted' \subseteq Transfers
           /\ crowded' \subseteq GasRuns /\ charged' \in [GasRuns -> Nat]
           /\ crowded \subseteq crowded'
  <1> DEFINE Goal ==
        /\ gasRun' \in [GasRuns -> GasRun]
        /\ trx' \in [Addresses -> Nat] /\ wallet' \in Nat
        /\ mempool' \subseteq Transfers /\ accepted' \subseteq Transfers
        /\ crowded' \subseteq GasRuns /\ charged' \in [GasRuns -> Nat]
        /\ crowded \subseteq crowded'
  <1>0. gasRun[r] \in GasRun /\ Plan(gasRun[r]) \subseteq Items
    BY DEF GasTypeOK, GasRun, Plan
  <1>1. ASSUME BeginRun(r) PROVE Goal
    <2>1. PICK items \in Lists :
             gasRun' = [gasRun EXCEPT ![r] = [gasRun[r] EXCEPT
                           !.pc = "reading", !.items = items, !.left = items]]
      BY <1>1 DEF BeginRun, Becomes
    <2>2. [gasRun[r] EXCEPT !.pc = "reading", !.items = items, !.left = items]
             \in GasRun
      BY <1>0 DEF GasRun, Lists
    <2>. QED  BY <1>1, <2>1, <2>2 DEF BeginRun, GasTypeOK
  <1>2. ASSUME PlanRun(r) PROVE Goal
    BY <1>0, <1>2 DEF PlanRun, Becomes, GasTypeOK, GasRun
  <1>3. ASSUME Unlock(r) PROVE Goal
    <2>1. PICK pc \in {"checking", "stopped"} :
             gasRun' = [gasRun EXCEPT ![r] = [gasRun[r] EXCEPT !.pc = pc]]
      BY <1>3 DEF Unlock, Becomes
    <2>2. [gasRun[r] EXCEPT !.pc = pc] \in GasRun
      BY <1>0 DEF GasRun
    <2>. QED  BY <1>3, <2>1, <2>2 DEF Unlock, GasTypeOK
  <1>4. ASSUME CheckWallet(r) PROVE Goal
    BY <1>0, <1>4 DEF CheckWallet, Becomes, GasTypeOK, GasRun
  <1>5. ASSUME FinishRun(r) PROVE Goal
    BY <1>0, <1>5 DEF FinishRun, Becomes, GasTypeOK, GasRun
  <1>6. ASSUME RunDies(r) PROVE Goal
    BY <1>0, <1>6 DEF RunDies, Becomes, GasTypeOK, GasRun
  <1>7. ASSUME NEW i \in Items, ReadBalance(r, i) PROVE Goal
    <2>1. trx[AddressOf(i)] \in Nat
      BY ItemsNameAddresses DEF GasTypeOK
    <2>. QED  BY <1>0, <1>7, <2>1 DEF ReadBalance, Becomes, GasTypeOK, GasRun
  <1>8. ASSUME NEW i \in Items, NodeRefuses(r, i) PROVE Goal
    <2>1. PICK lack : /\ lack = IF TopUp(gasRun[r], i) > wallet
                                  THEN TopUp(gasRun[r], i) - wallet ELSE 0
                      /\ gasRun' = [gasRun EXCEPT ![r] =
                            [gasRun[r] EXCEPT !.pc = "stopped", !.lack = lack]]
      BY <1>8 DEF NodeRefuses, Becomes
    <2>2. TopUp(gasRun[r], i) \in Nat /\ wallet \in Nat
      BY <1>0, TopUpType DEF GasTypeOK
    <2>3. lack \in Nat
      BY <2>1, <2>2
    <2>4. [gasRun[r] EXCEPT !.pc = "stopped", !.lack = lack] \in GasRun
      BY <1>0, <2>3 DEF GasRun
    <2>. QED  BY <1>8, <2>1, <2>4 DEF NodeRefuses, GasTypeOK
  <1>9. ASSUME NEW i \in Items, Broadcast(r, i) PROVE Goal
    <2>1. PICK pc \in {"funding", "stopped"} :
             gasRun' = [gasRun EXCEPT ![r] = [gasRun[r] EXCEPT
                           !.pc = pc, !.left = @ \ {i}]]
      BY <1>9 DEF Broadcast, Becomes
    <2>2. [gasRun[r] EXCEPT !.pc = pc, !.left = @ \ {i}] \in GasRun
      BY <1>0 DEF GasRun
    <2>3. gasRun' \in [GasRuns -> GasRun]
      BY <2>1, <2>2 DEF GasTypeOK
    <2>4. mempool' \subseteq Transfers /\ accepted' \subseteq Transfers
      BY <1>9 DEF Broadcast, GasTypeOK, Transfers
    <2>. QED  BY <1>9, <2>3, <2>4 DEF Broadcast, GasTypeOK
  <1>10. ASSUME NEW i \in Items, Land(r, i) PROVE Goal
    <2>1. TopUp(gasRun[r], i) \in Nat
      BY <1>0, TopUpType
    <2>2. PICK fee \in Fees :
             /\ TopUp(gasRun[r], i) + fee <= wallet
             /\ wallet' = wallet - (TopUp(gasRun[r], i) + fee)
             /\ charged' = [charged EXCEPT ![r] =
                               IF gasRun[r].pc = "funding" THEN @ + fee ELSE @]
      BY <1>10 DEF Land
    <2>3. fee \in Nat /\ AddressOf(i) \in Addresses
      BY FundingAssumption, ItemsNameAddresses
    <2>4. wallet' \in Nat
      BY <2>1, <2>2, <2>3 DEF GasTypeOK
    <2>5. charged' \in [GasRuns -> Nat]
      BY <2>2, <2>3 DEF GasTypeOK
    <2>6. trx' \in [Addresses -> Nat]
      BY <1>10, <2>1, <2>3 DEF Land, GasTypeOK
    <2>. QED  BY <1>10, <2>4, <2>5, <2>6 DEF Land, GasTypeOK
  <1>11. ASSUME NEW i \in Items, Lapse(r, i) PROVE Goal
    BY <1>11 DEF Lapse, GasTypeOK
  <1>. HIDE DEF Goal
  <1>12. Goal
    BY <1>1, <1>2, <1>3, <1>4, <1>5, <1>6, <1>7, <1>8, <1>9, <1>10, <1>11 DEF Fund
  <1>. QED  BY <1>12 DEF Goal

\* What a run read and was told is as it was.
KnowsTheSame(r) ==
    /\ gasRun'[r].items = gasRun[r].items /\ gasRun'[r].seen = gasRun[r].seen
    /\ gasRun'[r].target = gasRun[r].target /\ gasRun'[r].budget = gasRun[r].budget

LEMMA SamePlanNow ==
    ASSUME GasTypeOK, GasTypeOK', NEW r \in GasRuns, KnowsTheSame(r)
    PROVE  /\ gasRun[r] \in GasRun /\ gasRun'[r] \in GasRun
           /\ \A i : TopUp(gasRun'[r], i) = TopUp(gasRun[r], i)
           /\ Plan(gasRun'[r]) = Plan(gasRun[r])
           /\ \A S : Total(gasRun'[r], S) = Total(gasRun[r], S)
           /\ WithinCaps(gasRun'[r]) <=> WithinCaps(gasRun[r])
  <1>1. gasRun[r] \in GasRun /\ gasRun'[r] \in GasRun
    BY DEF GasTypeOK
  <1>. QED  BY <1>1, SamePlan DEF KnowsTheSame

\* A run past its plan only goes on with it.
LEMMA PlanIsKept ==
    ASSUME GasTypeOK, GasTypeOK', NEW r \in GasRuns,
           Planned(r), SentAsPlanned(r), KnowsTheSame(r),
           gasRun'[r].pc \in {"prompting", "checking", "funding"} =>
               /\ gasRun[r].pc \in {"prompting", "checking", "funding"}
               /\ gasRun'[r].left \subseteq gasRun[r].left,
           gasRun[r].pc \in {"funding", "done", "stopped"} =>
               /\ gasRun'[r].pc \in {"funding", "done", "stopped"}
               /\ gasRun'[r].pc = "funding" => gasRun[r].pc = "funding",
           \A i \in Sent(r)' :
               \/ i \in Sent(r)
               \/ /\ gasRun[r].pc = "funding" /\ i \in gasRun[r].left
                  /\ i \notin gasRun'[r].left
    PROVE  Planned(r)' /\ SentAsPlanned(r)'
  <1>1. Planned(r)'
    BY SamePlanNow DEF Planned
  <1>2. SentAsPlanned(r)'
    <2> SUFFICES ASSUME NEW i \in Sent(r)'
                 PROVE  /\ gasRun'[r].pc \in {"funding", "done", "stopped"}
                        /\ WithinCaps(gasRun'[r])
                        /\ i \in Plan(gasRun'[r])
                        /\ gasRun'[r].pc = "funding" => i \notin gasRun'[r].left
      BY DEF SentAsPlanned
    <2>1. CASE i \in Sent(r)
      BY <2>1, SamePlanNow DEF SentAsPlanned
    <2>2. CASE /\ gasRun[r].pc = "funding" /\ i \in gasRun[r].left
               /\ i \notin gasRun'[r].left
      BY <2>2, SamePlanNow DEF Planned
    <2>. QED  BY <2>1, <2>2
  <1>. QED  BY <1>1, <1>2

\* A wallet that nobody else drew on goes on sufficing for fewer transfers.
LEMMA WalletStillSuffices ==
    ASSUME GasTypeOK, GasTypeOK', NEW r \in GasRuns,
           WalletSuffices(r), KnowsTheSame(r),
           charged'[r] = charged[r],
           r \notin crowded' => /\ r \notin crowded
                                /\ gasRun'[r].lack = gasRun[r].lack,
           gasRun'[r].pc = "funding" /\ r \notin crowded' =>
               /\ gasRun[r].pc = "funding" /\ wallet' = wallet
               /\ Owed(r)' \subseteq Owed(r)
    PROVE  WalletSuffices(r)'
  <1> SUFFICES ASSUME r \notin crowded'
               PROVE  /\ gasRun'[r].pc = "funding" =>
                            Total(gasRun'[r], Owed(r)') <= wallet' + charged'[r]
                      /\ gasRun'[r].lack <= charged'[r]
    BY DEF WalletSuffices
  <1>1. gasRun'[r].lack <= charged'[r]
    BY DEF WalletSuffices
  <1>2. ASSUME gasRun'[r].pc = "funding"
        PROVE  Total(gasRun'[r], Owed(r)') <= wallet' + charged'[r]
    <2>1. Total(gasRun[r], Owed(r)) <= wallet + charged[r]
      BY <1>2 DEF WalletSuffices
    <2>2. gasRun[r] \in GasRun /\ Owed(r) \in SUBSET Items
      BY DEF GasTypeOK, GasRun, Owed
    <2>3. Owed(r)' \in SUBSET Owed(r)
      BY <1>2
    <2>4. Owed(r)' \in SUBSET Items
      BY <2>2, <2>3
    <2>5. Total(gasRun[r], Owed(r)') <= Total(gasRun[r], Owed(r))
      BY <2>2, <2>3, TotalMonotone
    <2>6. /\ Total(gasRun[r], Owed(r)') \in Nat /\ Total(gasRun[r], Owed(r)) \in Nat
          /\ wallet \in Nat /\ charged[r] \in Nat
      BY <2>2, <2>4, TotalIsNat DEF GasTypeOK
    <2>7. Total(gasRun'[r], Owed(r)') = Total(gasRun[r], Owed(r)')
      BY SamePlanNow
    <2>. QED  BY <1>2, <2>1, <2>5, <2>6, <2>7
  <1>. QED  BY <1>1, <1>2

\* Who does not take a step stays sound, whoever does.
LEMMA OthersStaySound ==
    ASSUME GasTypeOK, GasTypeOK', NEW r \in GasRuns, RunIsSound(r),
           gasRun'[r] = gasRun[r], Sent(r)' = Sent(r),
           \A i \in Items : <<r, i>> \in mempool' => <<r, i>> \in mempool,
           crowded \subseteq crowded',
           charged'[r] = charged[r],
           wallet' = wallet \/ r \in crowded' \/ gasRun[r].pc # "funding"
    PROVE  RunIsSound(r)'
  <1>1. KnowsTheSame(r)
    BY DEF KnowsTheSame
  <1>2. Planned(r)' /\ SentAsPlanned(r)'
    BY <1>1, PlanIsKept DEF RunIsSound
  <1>3. Owed(r)' \subseteq Owed(r)
    BY DEF Owed
  <1>4. WalletSuffices(r)'
    BY <1>1, <1>3, WalletStillSuffices DEF RunIsSound
  <1>. QED  BY <1>2, <1>4 DEF RunIsSound

LEMMA OthersSound ==
    ASSUME GasIInv, GasTypeOK', NEW r \in GasRuns, Fund(r), NEW q \in GasRuns \ {r}
    PROVE  RunIsSound(q)'
  <1>1. gasRun'[q] = gasRun[q]
    BY DEF GasIInv, GasTypeOK, Fund, BeginRun, PlanRun, Unlock, CheckWallet,
           FinishRun, RunDies, ReadBalance, NodeRefuses, Broadcast, Land, Lapse,
           Becomes
  <1>2. /\ \A i \in Items : /\ <<q, i>> \in mempool' => <<q, i>> \in mempool
                            /\ <<q, i>> \in accepted' <=> <<q, i>> \in accepted
        /\ crowded \subseteq crowded'
        /\ wallet' = wallet \/ q \in crowded' \/ gasRun[q].pc # "funding"
    BY DEF Fund, BeginRun, PlanRun, Unlock, CheckWallet, FinishRun, RunDies,
           ReadBalance, NodeRefuses, Broadcast, Land, Lapse, Becomes
  <1>3. Sent(q)' = Sent(q)
    BY <1>2 DEF Sent
  <1>4. RunIsSound(q)
    BY DEF GasIInv
  <1>5. charged'[q] = charged[q]
    <2>1. ASSUME NEW i \in Items, Land(r, i) PROVE charged'[q] = charged[q]
      BY <2>1 DEF Land, GasIInv, GasTypeOK
    <2>2. UNCHANGED charged \/ \E i \in Items : Land(r, i)
      BY DEF Fund, BeginRun, PlanRun, Unlock, CheckWallet, FinishRun, RunDies,
             ReadBalance, NodeRefuses, Broadcast, Lapse
    <2>. QED  BY <2>1, <2>2
  <1>. QED  BY <1>1, <1>2, <1>3, <1>4, <1>5, OthersStaySound DEF GasIInv

\* Steps of a run that only reads and plans: nothing of it was sent.
LEMMA ReadingIsSound ==
    ASSUME GasIInv, GasTypeOK', NEW r \in GasRuns,
           \/ BeginRun(r) \/ PlanRun(r)
           \/ \E i \in Items : ReadBalance(r, i)
    PROVE  RunIsSound(r)'
  <1>1. /\ gasRun \in [GasRuns -> GasRun] /\ gasRun[r] \in GasRun
        /\ RunIsSound(r)
    BY DEF GasIInv, GasTypeOK
  <1>2. /\ UNCHANGED <<accepted, crowded, charged>>
        /\ gasRun[r].pc \in {"idle", "reading"}
    BY DEF BeginRun, PlanRun, ReadBalance
  <1>3. Sent(r)' = {}
    BY <1>1, <1>2 DEF RunIsSound, SentAsPlanned, Sent
  <1>4. ASSUME BeginRun(r) \/ \E i \in Items : ReadBalance(r, i)
        PROVE  gasRun'[r].pc = "reading" /\ gasRun'[r].lack = gasRun[r].lack
    <2>1. CASE BeginRun(r)
      <3>1. PICK items : gasRun'[r] = [gasRun[r] EXCEPT !.pc = "reading",
                                           !.items = items, !.left = items]
        BY <1>1, <2>1 DEF BeginRun, Becomes
      <3>. QED  BY <1>1, <3>1 DEF GasRun
    <2>2. ASSUME NEW i \in Items, ReadBalance(r, i)
          PROVE  gasRun'[r].pc = "reading" /\ gasRun'[r].lack = gasRun[r].lack
      <3>1. gasRun'[r] = [gasRun[r] EXCEPT !.seen = [@ EXCEPT ![i] = trx[AddressOf(i)]],
                                           !.left = @ \ {i}]
        BY <1>1, <2>2 DEF ReadBalance, Becomes
      <3>. QED  BY <1>1, <2>2, <3>1 DEF ReadBalance, GasRun
    <2>. QED  BY <1>4, <2>1, <2>2
  <1>9. gasRun'[r].pc # "funding" /\ gasRun'[r].lack = gasRun[r].lack
    <2>1. CASE PlanRun(r)
      BY <1>1, <2>1 DEF PlanRun, Becomes, GasRun
    <2>. QED  BY <1>4, <2>1
  <1>5. WalletSuffices(r)'
    BY <1>1, <1>2, <1>9 DEF RunIsSound, WalletSuffices
  <1>6. Planned(r)'
    <2>1. CASE PlanRun(r)
      <3>1. CASE Plan(gasRun[r]) = {} \/ ~WithinCaps(gasRun[r])
        <4>1. gasRun'[r].pc \in {"done", "stopped"}
          BY <1>1, <2>1, <3>1 DEF PlanRun, Becomes, GasRun
        <4>. QED  BY <4>1 DEF Planned
      <3>2. CASE Plan(gasRun[r]) # {} /\ WithinCaps(gasRun[r])
        <4>1. gasRun'[r] = [gasRun[r] EXCEPT !.pc = "prompting",
                                             !.left = Plan(gasRun[r])]
          BY <1>1, <2>1, <3>2 DEF PlanRun, Becomes
        <4>2. KnowsTheSame(r) /\ gasRun'[r].left = Plan(gasRun[r])
          BY <1>1, <4>1 DEF KnowsTheSame, GasRun
        <4>3. WithinCaps(gasRun'[r]) /\ Plan(gasRun'[r]) = Plan(gasRun[r])
          BY <3>2, <4>2, SamePlanNow DEF GasIInv
        <4>. QED  BY <4>2, <4>3 DEF Planned
      <3>. QED  BY <3>1, <3>2
    <2>2. CASE BeginRun(r) \/ \E i \in Items : ReadBalance(r, i)
      <3>1. gasRun'[r].pc = "reading"
        BY <1>4, <2>2
      <3>. QED  BY <3>1 DEF Planned
    <2>. QED  BY <2>1, <2>2
  <1>. QED  BY <1>3, <1>5, <1>6 DEF RunIsSound, SentAsPlanned

\* From the plan to its end, a run learns nothing new and loses transfers it has
\* ahead of it, the one that it sends among them.
LEMMA SendingStep ==
    ASSUME GasTypeOK, NEW r \in GasRuns,
           \/ Unlock(r) \/ CheckWallet(r) \/ FinishRun(r) \/ RunDies(r)
           \/ \E i \in Items : NodeRefuses(r, i) \/ Broadcast(r, i)
    PROVE  /\ KnowsTheSame(r)
           /\ gasRun'[r].left \subseteq gasRun[r].left
           /\ gasRun'[r].pc \in {"checking", "funding"} =>
                 gasRun[r].pc \in {"prompting", "checking", "funding"}
           /\ gasRun[r].pc = "funding" => gasRun'[r].pc \in {"funding", "done", "stopped"}
           /\ gasRun'[r].pc = "funding" => gasRun[r].pc \in {"checking", "funding"}
           /\ gasRun[r].pc \notin {"idle", "done"} /\ gasRun'[r].pc # "prompting"
           /\ gasRun[r].pc # "stopped"
           /\ \/ Unlock(r) \/ CheckWallet(r) \/ FinishRun(r) \/ RunDies(r)
              \/ \E i \in Items : Broadcast(r, i)
              => gasRun'[r].lack = gasRun[r].lack
           /\ Unlock(r) \/ FinishRun(r) \/ RunDies(r) => gasRun'[r].pc # "funding"
  <1> DEFINE Goal == /\ KnowsTheSame(r)
                     /\ gasRun'[r].left \subseteq gasRun[r].left
                     /\ gasRun'[r].pc \in {"checking", "funding"} =>
                           gasRun[r].pc \in {"prompting", "checking", "funding"}
                     /\ gasRun[r].pc = "funding" =>
                           gasRun'[r].pc \in {"funding", "done", "stopped"}
                     /\ gasRun'[r].pc = "funding" =>
                           gasRun[r].pc \in {"checking", "funding"}
                     /\ gasRun[r].pc \notin {"idle", "done"}
                     /\ gasRun'[r].pc # "prompting" /\ gasRun[r].pc # "stopped"
             Short == gasRun'[r].lack = gasRun[r].lack
  <1>1. gasRun \in [GasRuns -> GasRun] /\ gasRun[r] \in GasRun
    BY DEF GasTypeOK
  <1>2. ASSUME Unlock(r) PROVE Goal /\ Short /\ gasRun'[r].pc # "funding"
    <2>1. PICK pc \in {"checking", "stopped"} :
             gasRun'[r] = [gasRun[r] EXCEPT !.pc = pc]
      BY <1>1, <1>2 DEF Unlock, Becomes
    <2>. QED  BY <1>1, <1>2, <2>1 DEF Unlock, KnowsTheSame, GasRun
  <1>3. ASSUME CheckWallet(r) PROVE Goal /\ Short
    <2>1. PICK pc \in {"funding", "stopped"} :
             gasRun'[r] = [gasRun[r] EXCEPT !.pc = pc]
      BY <1>1, <1>3 DEF CheckWallet, Becomes
    <2>. QED  BY <1>1, <1>3, <2>1 DEF CheckWallet, KnowsTheSame, GasRun
  <1>4. ASSUME FinishRun(r) \/ RunDies(r)
        PROVE  Goal /\ Short /\ gasRun'[r].pc # "funding"
    <2>1. PICK pc \in {"done", "stopped"} :
             gasRun'[r] = [gasRun[r] EXCEPT !.pc = pc]
      BY <1>1, <1>4 DEF FinishRun, RunDies, Becomes
    <2>. QED  BY <1>1, <1>4, <2>1 DEF FinishRun, RunDies, KnowsTheSame, GasRun
  <1>5. ASSUME NEW i \in Items, NodeRefuses(r, i) PROVE Goal
    <2>1. PICK lack : gasRun'[r] = [gasRun[r] EXCEPT !.pc = "stopped",
                                                     !.lack = lack]
      BY <1>1, <1>5 DEF NodeRefuses, Becomes
    <2>. QED  BY <1>1, <1>5, <2>1 DEF NodeRefuses, KnowsTheSame, GasRun
  <1>6. ASSUME NEW i \in Items, Broadcast(r, i) PROVE Goal /\ Short
    <2>1. PICK pc \in {"funding", "stopped"} :
             gasRun'[r] = [gasRun[r] EXCEPT !.pc = pc, !.left = @ \ {i}]
      BY <1>1, <1>6 DEF Broadcast, Becomes
    <2>2. /\ gasRun'[r].pc = pc /\ gasRun'[r].left = gasRun[r].left \ {i}
          /\ KnowsTheSame(r) /\ Short
      BY <1>1, <2>1 DEF KnowsTheSame, GasRun
    <2>. QED  BY <1>6, <2>2 DEF Broadcast
  <1>. HIDE DEF Goal, Short
  <1>7. Goal
    BY <1>2, <1>3, <1>4, <1>5, <1>6
  <1>8. /\ \/ Unlock(r) \/ CheckWallet(r) \/ FinishRun(r) \/ RunDies(r)
           \/ \E i \in Items : Broadcast(r, i)
           => Short
        /\ Unlock(r) \/ FinishRun(r) \/ RunDies(r) => gasRun'[r].pc # "funding"
    BY <1>2, <1>3, <1>4, <1>6
  <1>. QED  BY <1>7, <1>8 DEF Goal, Short

\* What a run sends leaves what it has ahead of it.
LEMMA SentLeaves ==
    ASSUME GasTypeOK, NEW r \in GasRuns, NEW i \in Items, Broadcast(r, i)
    PROVE  /\ gasRun[r].pc = "funding" /\ i \in gasRun[r].left
           /\ i \notin gasRun'[r].left
           /\ Sent(r)' \subseteq Sent(r) \cup {i}
           /\ Owed(r)' \subseteq Owed(r)
  <1>1. gasRun \in [GasRuns -> GasRun] /\ gasRun[r] \in GasRun
    BY DEF GasTypeOK
  <1>2. PICK pc \in {"funding", "stopped"} :
           gasRun'[r] = [gasRun[r] EXCEPT !.pc = pc, !.left = @ \ {i}]
    BY <1>1 DEF Broadcast, Becomes
  <1>3. gasRun'[r].left = gasRun[r].left \ {i}
    BY <1>1, <1>2 DEF GasRun
  <1>4. Sent(r)' \subseteq Sent(r) \cup {i}
    BY DEF Broadcast, Sent
  <1>5. gasRun[r].pc = "funding" /\ i \in gasRun[r].left
    BY DEF Broadcast
  <1>6. \A j \in Items : <<r, j>> \in mempool' => <<r, j>> \in mempool \/ j = i
    BY DEF Broadcast
  <1>7. Owed(r)' \subseteq Owed(r)
    BY <1>3, <1>5, <1>6 DEF Owed
  <1>. QED  BY <1>3, <1>4, <1>5, <1>7

\* Steps from the plan to the end of the run.
LEMMA SendingIsSound ==
    ASSUME GasIInv, GasTypeOK', NEW r \in GasRuns,
           \/ Unlock(r) \/ CheckWallet(r) \/ FinishRun(r) \/ RunDies(r)
           \/ \E i \in Items : NodeRefuses(r, i) \/ Broadcast(r, i)
    PROVE  RunIsSound(r)'
  <1>1. /\ gasRun \in [GasRuns -> GasRun] /\ gasRun[r] \in GasRun
        /\ RunIsSound(r) /\ GasTypeOK
    BY DEF GasIInv, GasTypeOK
  <1>2. KnowsTheSame(r)
    BY <1>1, SendingStep
  <1>3. /\ gasRun'[r].pc \in {"prompting", "checking", "funding"} =>
              /\ gasRun[r].pc \in {"prompting", "checking", "funding"}
              /\ gasRun'[r].left \subseteq gasRun[r].left
        /\ gasRun[r].pc \in {"funding", "done", "stopped"} =>
              /\ gasRun'[r].pc \in {"funding", "done", "stopped"}
              /\ gasRun'[r].pc = "funding" => gasRun[r].pc = "funding"
    BY <1>1, SendingStep DEF GasRun
  <1>4. \A i \in Sent(r)' :
           \/ i \in Sent(r)
           \/ /\ gasRun[r].pc = "funding" /\ i \in gasRun[r].left
              /\ i \notin gasRun'[r].left
    <2>1. CASE \E i \in Items : Broadcast(r, i)
      BY <1>1, <2>1, SentLeaves
    <2>2. CASE UNCHANGED accepted
      BY <2>2 DEF Sent
    <2>. QED  BY <2>1, <2>2 DEF Unlock, CheckWallet, FinishRun, RunDies, NodeRefuses
  <1>5. Planned(r)' /\ SentAsPlanned(r)'
    BY <1>1, <1>2, <1>3, <1>4, PlanIsKept DEF RunIsSound
  <1>6. UNCHANGED <<wallet, crowded, charged>>
    BY DEF Unlock, CheckWallet, FinishRun, RunDies, NodeRefuses, Broadcast
  <1>7. CASE Unlock(r) \/ FinishRun(r) \/ RunDies(r)
             \/ \E i \in Items : Broadcast(r, i)
    <2>1. /\ gasRun'[r].lack = gasRun[r].lack
          /\ gasRun'[r].pc = "funding" =>
                gasRun[r].pc = "funding" /\ Owed(r)' \subseteq Owed(r)
      <3>1. CASE Unlock(r) \/ FinishRun(r) \/ RunDies(r)
        BY <1>1, <3>1, SendingStep
      <3>2. CASE \E i \in Items : Broadcast(r, i)
        BY <1>1, <3>2, SentLeaves, SendingStep
      <3>. QED  BY <1>7, <3>1, <3>2
    <2>2. WalletSuffices(r)'
      BY <1>1, <1>2, <1>6, <2>1, WalletStillSuffices DEF RunIsSound
    <2>. QED  BY <1>5, <2>2 DEF RunIsSound
  <1>8. CASE CheckWallet(r)
    <2>1. /\ gasRun[r].pc = "checking" /\ UNCHANGED mempool
          /\ gasRun'[r].left = gasRun[r].left
          /\ gasRun'[r].lack = gasRun[r].lack
          /\ gasRun'[r].pc = "funding" =>
                Total(gasRun[r], Plan(gasRun[r])) <= wallet
      BY <1>1, <1>8 DEF CheckWallet, Becomes, GasRun
    <2>2. Owed(r)' \in SUBSET Plan(gasRun[r])
      BY <1>1, <2>1 DEF GasIInv, RunIsSound, Planned, SentAsPlanned, Sent, Owed
    <2>3. Plan(gasRun[r]) \in SUBSET Items /\ Owed(r)' \in SUBSET Items
      BY <1>1, <2>2 DEF Plan, GasRun
    <2>4. /\ Total(gasRun[r], Owed(r)') <= Total(gasRun[r], Plan(gasRun[r]))
          /\ Total(gasRun[r], Owed(r)') \in Nat
          /\ Total(gasRun[r], Plan(gasRun[r])) \in Nat
          /\ wallet \in Nat
      BY <1>1, <2>2, <2>3, TotalMonotone, TotalIsNat DEF GasTypeOK
    <2>5. Total(gasRun'[r], Owed(r)') = Total(gasRun[r], Owed(r)')
      BY <1>1, <1>2, SamePlanNow
    <2>6. gasRun'[r].pc = "funding" =>
             Total(gasRun'[r], Owed(r)') <= wallet' + charged'[r]
      <3>1. charged[r] \in Nat
        BY <1>1 DEF GasTypeOK
      <3>. QED  BY <1>6, <2>1, <2>4, <2>5, <3>1
    <2>7. WalletSuffices(r)'
      BY <1>1, <1>6, <2>1, <2>6 DEF RunIsSound, WalletSuffices
    <2>. QED  BY <1>5, <2>7 DEF RunIsSound
  <1>9. ASSUME NEW i \in Items, NodeRefuses(r, i)
        PROVE  RunIsSound(r)'
    <2>1. /\ gasRun[r].pc = "funding" /\ i \in gasRun[r].left
          /\ gasRun'[r].pc = "stopped"
          /\ gasRun'[r].lack = IF TopUp(gasRun[r], i) > wallet
                                 THEN TopUp(gasRun[r], i) - wallet ELSE 0
      <3>1. PICK lack : /\ lack = IF TopUp(gasRun[r], i) > wallet
                                    THEN TopUp(gasRun[r], i) - wallet ELSE 0
                        /\ gasRun'[r] = [gasRun[r] EXCEPT !.pc = "stopped",
                                                          !.lack = lack]
        BY <1>1, <1>9 DEF NodeRefuses, Becomes
      <3>2. gasRun'[r].pc = "stopped" /\ gasRun'[r].lack = lack
        BY <1>1, <3>1 DEF GasRun
      <3>. QED  BY <1>9, <3>1, <3>2 DEF NodeRefuses
    <2>2. TopUp(gasRun[r], i) \in Nat /\ wallet \in Nat /\ charged[r] \in Nat
      BY <1>1, TopUpType DEF GasTypeOK
    <2>3. ASSUME r \notin crowded
          PROVE  TopUp(gasRun[r], i) <= wallet + charged[r]
      <3>1. Total(gasRun[r], Owed(r)) <= wallet + charged[r]
        BY <1>1, <2>1, <2>3 DEF RunIsSound, WalletSuffices
      <3>2. Owed(r) \in SUBSET Items /\ i \in Owed(r)
        BY <1>1, <2>1 DEF Owed, GasRun
      <3>3. Total(gasRun[r], Owed(r))
              = Total(gasRun[r], Owed(r) \ {i}) + TopUp(gasRun[r], i)
        BY <1>1, <3>2, TotalWithout
      <3>4. /\ Total(gasRun[r], Owed(r)) \in Nat
            /\ Total(gasRun[r], Owed(r) \ {i}) \in Nat
        <4>1. Owed(r) \ {i} \in SUBSET Items
          BY <3>2
        <4>. QED  BY <1>1, <3>2, <4>1, TotalIsNat
      <3>. QED  BY <2>2, <3>1, <3>3, <3>4
    <2>4. r \notin crowded => gasRun'[r].lack <= charged[r]
      BY <2>1, <2>2, <2>3
    <2>5. WalletSuffices(r)'
      BY <1>6, <2>1, <2>4 DEF WalletSuffices
    <2>. QED  BY <1>5, <2>5 DEF RunIsSound
  <1>. QED  BY <1>7, <1>8, <1>9

\* A block takes from the wallet what it takes from what the run owes, and the
\* fee.
LEMMA LandingIsSound ==
    ASSUME GasIInv, GasTypeOK', NEW r \in GasRuns, NEW i \in Items,
           Land(r, i) \/ Lapse(r, i)
    PROVE  RunIsSound(r)'
  <1>1. /\ gasRun[r] \in GasRun /\ RunIsSound(r) /\ GasTypeOK
        /\ <<r, i>> \in mempool /\ i \in Sent(r)
    BY DEF GasIInv, GasTypeOK, Land, Lapse, Sent
  <1>2. /\ UNCHANGED gasRun /\ Sent(r)' = Sent(r) /\ KnowsTheSame(r)
        /\ crowded \subseteq crowded'
        /\ r \in crowded' => r \in crowded
    BY DEF Land, Lapse, Sent, KnowsTheSame
  <1>3. Planned(r)' /\ SentAsPlanned(r)'
    BY <1>1, <1>2, PlanIsKept DEF RunIsSound
  <1>4. CASE Lapse(r, i)
    <2>1. /\ wallet' = wallet /\ Owed(r)' \subseteq Owed(r)
          /\ charged'[r] = charged[r]
      BY <1>4 DEF Lapse, Owed
    <2>2. WalletSuffices(r)'
      BY <1>1, <1>2, <2>1, WalletStillSuffices DEF RunIsSound
    <2>. QED  BY <1>3, <2>2 DEF RunIsSound
  <1>5. CASE Land(r, i)
    <2>1. PICK fee \in Fees :
             /\ wallet' = wallet - (TopUp(gasRun[r], i) + fee)
             /\ charged' = [charged EXCEPT ![r] =
                               IF gasRun[r].pc = "funding" THEN @ + fee ELSE @]
      BY <1>5 DEF Land
    <2>2. /\ fee \in Nat /\ wallet \in Nat /\ TopUp(gasRun[r], i) \in Nat
          /\ charged \in [GasRuns -> Nat] /\ charged[r] \in Nat
          /\ gasRun[r].lack \in Nat
      BY <1>1, FundingAssumption, TopUpType DEF GasTypeOK, GasRun
    <2>3. /\ gasRun[r].pc = "funding" => charged'[r] = charged[r] + fee
          /\ gasRun[r].pc # "funding" => charged'[r] = charged[r]
      BY <2>1, <2>2
    <2>4. ASSUME r \notin crowded, gasRun[r].pc = "funding"
          PROVE  Total(gasRun[r], Owed(r)') <= wallet' + charged'[r]
      <3>1. Total(gasRun[r], Owed(r)) <= wallet + charged[r]
        BY <1>1, <2>4 DEF RunIsSound, WalletSuffices
      <3>2. i \notin gasRun[r].left
        BY <1>1, <2>4 DEF RunIsSound, SentAsPlanned
      <3>3. Owed(r)' = Owed(r) \ {i}
        BY <1>2, <1>5, <3>2 DEF Land, Owed
      <3>4. Owed(r) \in SUBSET Items /\ i \in Owed(r)
        BY <1>1 DEF Owed, GasRun
      <3>5. Total(gasRun[r], Owed(r))
              = Total(gasRun[r], Owed(r) \ {i}) + TopUp(gasRun[r], i)
        BY <1>1, <3>4, TotalWithout
      <3>6. /\ Total(gasRun[r], Owed(r)) \in Nat
            /\ Total(gasRun[r], Owed(r) \ {i}) \in Nat
        <4>1. Owed(r) \ {i} \in SUBSET Items
          BY <3>4
        <4>. QED  BY <1>1, <3>4, <4>1, TotalIsNat
      <3>7. charged'[r] = charged[r] + fee
        BY <2>3, <2>4
      <3>8. Total(gasRun[r], Owed(r) \ {i}) <= wallet' + charged'[r]
        BY <2>1, <2>2, <3>1, <3>5, <3>6, <3>7
      <3>. QED  BY <3>3, <3>8
    <2>5. r \notin crowded => gasRun[r].lack <= charged'[r]
      <3>1. r \notin crowded => gasRun[r].lack <= charged[r]
        BY <1>1 DEF RunIsSound, WalletSuffices
      <3>. QED  BY <2>2, <2>3, <3>1
    <2>6. WalletSuffices(r)'
      BY <1>1, <1>2, <2>4, <2>5 DEF WalletSuffices
    <2>. QED  BY <1>3, <2>6 DEF RunIsSound
  <1>. QED  BY <1>4, <1>5

LEMMA FundIsSound ==
    ASSUME GasIInv, GasTypeOK', NEW r \in GasRuns, Fund(r)
    PROVE  /\ \A q \in GasRuns : RunIsSound(q)'
           /\ mempool' \subseteq accepted'
  <1>1. RunIsSound(r)'
    BY ReadingIsSound, SendingIsSound, LandingIsSound DEF Fund
  <1>2. mempool' \subseteq accepted'
    BY DEF GasIInv, Fund, BeginRun, PlanRun, Unlock, CheckWallet, FinishRun,
           RunDies, ReadBalance, NodeRefuses, Broadcast, Land, Lapse
  <1>. QED  BY <1>1, <1>2, OthersSound

-----------------------------------------------------------------------------
(* The gas wallet: what an address may come to hold *)

\* A run that is about to fund an item was so before the step, with the
\* same balance in mind, or has just read it.
LEMMA Exposure ==
    ASSUME GasIInv, NEW r \in GasRuns, Fund(r),
           NEW q \in GasRuns, NEW i \in Items, Exposed(q, i)'
    PROVE  \/ Exposed(q, i) /\ gasRun'[q].seen[i] = gasRun[q].seen[i]
           \/ /\ trx'[AddressOf(i)] = trx[AddressOf(i)]
              /\ gasRun'[q].seen[i] = trx[AddressOf(i)]
  <1>1. /\ gasRun \in [GasRuns -> GasRun] /\ gasRun[q] \in GasRun
        /\ gasRun[r] \in GasRun /\ GasTypeOK
    BY DEF GasIInv, GasTypeOK
  <1>2. CASE q # r \/ \E j \in Items : Land(r, j) \/ Lapse(r, j)
    <2>1. gasRun'[q] = gasRun[q]
      BY <1>1, <1>2 DEF Fund, BeginRun, PlanRun, Unlock, CheckWallet, FinishRun,
             RunDies, ReadBalance, NodeRefuses, Broadcast, Land, Lapse, Becomes
    <2>2. <<q, i>> \in mempool' => <<q, i>> \in mempool
      <3>1. CASE q # r
        <4>1. ASSUME NEW j \in Items, Broadcast(r, j)
              PROVE  mempool' \subseteq mempool \cup {<<r, j>>}
          BY <4>1 DEF Broadcast
        <4>2. \/ mempool' \subseteq mempool
              \/ \E j \in Items : Broadcast(r, j)
          BY DEF Fund, BeginRun, PlanRun, Unlock, CheckWallet, FinishRun,
                 RunDies, ReadBalance, NodeRefuses, Land, Lapse
        <4>. QED  BY <3>1, <4>1, <4>2
      <3>2. CASE \E j \in Items : Land(r, j) \/ Lapse(r, j)
        BY <3>2 DEF Land, Lapse
      <3>. QED  BY <1>2, <3>1, <3>2
    <2>. QED  BY <2>1, <2>2 DEF Exposed
  <1>3. ASSUME q = r, BeginRun(r)
        PROVE  Exposed(q, i) /\ gasRun'[q].seen[i] = gasRun[q].seen[i]
    <2>1. PICK items \in Lists :
             gasRun'[r] = [gasRun[r] EXCEPT !.pc = "reading",
                                            !.items = items, !.left = items]
      BY <1>1, <1>3 DEF BeginRun, Becomes
    <2>2. /\ gasRun'[r].pc = "reading"
          /\ gasRun'[r].items = items /\ gasRun'[r].left = items
          /\ gasRun'[r].seen = gasRun[r].seen
      BY <1>1, <2>1 DEF GasRun
    <2>3. UNCHANGED mempool
      BY <1>3 DEF BeginRun
    <2>. QED  BY <1>3, <2>2, <2>3 DEF Exposed
  <1>4. ASSUME q = r, NEW j \in Items, ReadBalance(r, j)
        PROVE  \/ Exposed(q, i) /\ gasRun'[q].seen[i] = gasRun[q].seen[i]
               \/ /\ trx'[AddressOf(i)] = trx[AddressOf(i)]
                  /\ gasRun'[q].seen[i] = trx[AddressOf(i)]
    <2>1. gasRun'[r] = [gasRun[r] EXCEPT !.seen = [@ EXCEPT ![j] = trx[AddressOf(j)]],
                                         !.left = @ \ {j}]
      BY <1>1, <1>4 DEF ReadBalance, Becomes
    <2>2. /\ gasRun'[r].pc = "reading" /\ gasRun'[r].items = gasRun[r].items
          /\ gasRun'[r].left = gasRun[r].left \ {j}
          /\ gasRun'[r].seen = [gasRun[r].seen EXCEPT ![j] = trx[AddressOf(j)]]
          /\ gasRun[r].seen \in [Items -> Nat]
      BY <1>1, <1>4, <2>1 DEF ReadBalance, GasRun
    <2>3. UNCHANGED <<trx, mempool>> /\ gasRun[r].pc = "reading"
      BY <1>4 DEF ReadBalance
    <2>4. CASE i = j
      BY <1>4, <2>2, <2>3, <2>4
    <2>5. CASE i # j
      <3>1. gasRun'[r].seen[i] = gasRun[r].seen[i]
        BY <2>2, <2>5
      <3>. QED  BY <1>4, <2>2, <2>3, <2>5, <3>1 DEF Exposed
    <2>. QED  BY <2>4, <2>5
  <1>5. ASSUME q = r, PlanRun(r)
        PROVE  Exposed(q, i) /\ gasRun'[q].seen[i] = gasRun[q].seen[i]
    <2>1. UNCHANGED mempool /\ gasRun[r].pc = "reading" /\ gasRun[r].left = {}
      BY <1>5 DEF PlanRun
    <2>2. \/ /\ gasRun'[r].pc \in {"done", "stopped"}
             /\ gasRun'[r].seen = gasRun[r].seen
          \/ /\ gasRun'[r].pc = "prompting" /\ gasRun'[r].left = Plan(gasRun[r])
             /\ gasRun'[r].seen = gasRun[r].seen
      BY <1>1, <1>5 DEF PlanRun, Becomes, GasRun
    <2>3. Plan(gasRun[r]) \subseteq gasRun[r].items
      BY DEF Plan
    <2>. QED  BY <1>5, <2>1, <2>2, <2>3 DEF Exposed
  <1>6. ASSUME q = r, NEW j \in Items, Broadcast(r, j)
        PROVE  Exposed(q, i) /\ gasRun'[q].seen[i] = gasRun[q].seen[i]
    <2>1. KnowsTheSame(r) /\ gasRun'[r].pc \in {"funding", "done", "stopped"}
      BY <1>1, <1>6, SendingStep DEF Broadcast
    <2>2. gasRun[r].pc = "funding" /\ Owed(r)' \subseteq Owed(r)
      BY <1>1, <1>6, SentLeaves
    <2>3. Exposed(r, i) <=> i \in Owed(r)
      BY <2>2 DEF Exposed, Owed
    <2>4. Exposed(r, i)' => i \in Owed(r)'
      BY <2>1 DEF Exposed, Owed
    <2>. QED  BY <1>6, <2>1, <2>2, <2>3, <2>4 DEF KnowsTheSame
  <1>7. ASSUME q = r, \/ Unlock(r) \/ CheckWallet(r) \/ FinishRun(r) \/ RunDies(r)
                      \/ \E j \in Items : NodeRefuses(r, j)
        PROVE  Exposed(q, i) /\ gasRun'[q].seen[i] = gasRun[q].seen[i]
    <2>1. UNCHANGED mempool
      BY <1>7 DEF Unlock, CheckWallet, FinishRun, RunDies, NodeRefuses
    <2>2. /\ KnowsTheSame(r) /\ gasRun'[r].left \subseteq gasRun[r].left
          /\ gasRun'[r].pc \in {"checking", "funding"} =>
                 gasRun[r].pc \in {"prompting", "checking", "funding"}
          /\ gasRun'[r].pc # "prompting"
      BY <1>1, <1>7, SendingStep
    <2>3. gasRun'[r].pc # "reading"
      <3>1. CASE RunDies(r)
        BY <1>1, <3>1 DEF RunDies, Becomes, GasRun
      <3>2. CASE Unlock(r)
        <4>1. PICK pc \in {"checking", "stopped"} :
                 gasRun'[r] = [gasRun[r] EXCEPT !.pc = pc]
          BY <1>1, <3>2 DEF Unlock, Becomes
        <4>. QED  BY <1>1, <4>1 DEF GasRun
      <3>3. CASE CheckWallet(r)
        BY <1>1, <3>3 DEF CheckWallet, Becomes, GasRun
      <3>4. CASE FinishRun(r) \/ \E j \in Items : NodeRefuses(r, j)
        BY <1>1, <3>4, SendingStep DEF FinishRun, NodeRefuses
      <3>. QED  BY <1>7, <3>1, <3>2, <3>3, <3>4
    <2>. QED  BY <1>7, <2>1, <2>2, <2>3 DEF Exposed, KnowsTheSame
  <1>. QED  BY <1>2, <1>3, <1>4, <1>5, <1>6, <1>7 DEF Fund

\* Only its own transfer raises an address, and then the run that sent it is
\* not about to fund that item again.
LEMMA Raising ==
    ASSUME GasIInv, NEW r \in GasRuns, Fund(r), NEW a \in Addresses
    PROVE  \/ trx'[a] = trx[a]
           \/ \E i \in Items :
                /\ AddressOf(i) = a
                /\ Exposed(r, i) /\ ~Exposed(r, i)'
                /\ trx'[a] = trx[a] + TopUp(gasRun[r], i)
                /\ UNCHANGED gasRun /\ mempool' \subseteq mempool
  <1>1. trx \in [Addresses -> Nat]
    BY DEF GasIInv, GasTypeOK
  <1>2. CASE UNCHANGED trx
    BY <1>2
  <1>3. ASSUME NEW i \in Items, Land(r, i), AddressOf(i) # a
        PROVE  trx'[a] = trx[a]
    BY <1>1, <1>3 DEF Land
  <1>4. ASSUME NEW i \in Items, Land(r, i), AddressOf(i) = a
        PROVE  /\ Exposed(r, i) /\ ~Exposed(r, i)'
               /\ trx'[a] = trx[a] + TopUp(gasRun[r], i)
               /\ UNCHANGED gasRun /\ mempool' \subseteq mempool
    <2>1. /\ <<r, i>> \in mempool /\ i \in Sent(r) /\ UNCHANGED gasRun
          /\ mempool' = mempool \ {<<r, i>>}
      BY <1>4 DEF Land, GasIInv, Sent
    <2>2. /\ gasRun[r].pc \in {"funding", "done", "stopped"}
          /\ gasRun[r].pc = "funding" => i \notin gasRun[r].left
      BY <2>1 DEF GasIInv, RunIsSound, SentAsPlanned
    <2>3. trx'[a] = trx[a] + TopUp(gasRun[r], i)
      BY <1>1, <1>4 DEF Land
    <2>. QED  BY <2>1, <2>2, <2>3 DEF Exposed
  <1>5. \/ UNCHANGED trx
        \/ \E i \in Items : Land(r, i)
    BY DEF Fund, BeginRun, PlanRun, Unlock, CheckWallet, FinishRun, RunDies,
           ReadBalance, NodeRefuses, Broadcast, Lapse
  <1>. QED  BY <1>2, <1>3, <1>4, <1>5

\* Two top-ups that are ahead of an address at once make it contested.
LEMMA AheadAtOnce ==
    ASSUME NEW q \in GasRuns, NEW r \in GasRuns, NEW i \in Items, NEW j \in Items,
           Exposed(q, i), Exposed(r, j), <<q, i>> # <<r, j>>,
           AddressOf(i) = AddressOf(j)
    PROVE  AddressOf(i) \in Contention
  <1>1. <<q, i>> \in Transfers /\ <<r, j>> \in Transfers
    BY DEF Transfers
  <1>2. /\ Exposed(<<q, i>>[1], <<q, i>>[2])
        /\ Exposed(<<r, j>>[1], <<r, j>>[2])
    OBVIOUS
  <1>3. AddressOf(i) \in Addresses
    BY ItemsNameAddresses
  <1>. QED  BY <1>1, <1>2, <1>3 DEF Contention

LEMMA FundKnowsBalances ==
    ASSUME GasIInv, GasTypeOK', NEW r \in GasRuns, Fund(r),
           contested' = contested \cup Contention'
    PROVE  BalanceIsKnown' /\ OverfundedOnlyIfContested'
  <1>1. /\ trx \in [Addresses -> Nat] /\ trx' \in [Addresses -> Nat]
        /\ gasRun[r] \in GasRun
        /\ \A q \in GasRuns, i \in Items : gasRun[q].seen[i] \in Nat
    BY DEF GasIInv, GasTypeOK, GasRun
  <1>2. ASSUME NEW q \in GasRuns, NEW i \in Items,
               Exposed(q, i)', AddressOf(i) \notin contested'
        PROVE  trx'[AddressOf(i)] <= gasRun'[q].seen[i]
    <2>0. AddressOf(i) \in Addresses /\ trx[AddressOf(i)] \in Nat
      BY <1>1, ItemsNameAddresses
    <2>1. CASE /\ trx'[AddressOf(i)] = trx[AddressOf(i)]
               /\ gasRun'[q].seen[i] = trx[AddressOf(i)]
      BY <2>0, <2>1
    <2>2. CASE Exposed(q, i) /\ gasRun'[q].seen[i] = gasRun[q].seen[i]
      <3>1. trx[AddressOf(i)] <= gasRun[q].seen[i]
        BY <1>2, <2>2 DEF GasIInv, BalanceIsKnown
      <3>2. CASE trx'[AddressOf(i)] = trx[AddressOf(i)]
        BY <2>2, <3>1, <3>2
      <3>3. ASSUME NEW j \in Items, AddressOf(j) = AddressOf(i),
                   Exposed(r, j), ~Exposed(r, j)'
            PROVE  FALSE
        <4>1. <<q, i>> # <<r, j>>
          BY <1>2, <3>3
        <4>2. AddressOf(i) \in Contention
          BY <2>2, <3>3, <4>1, AheadAtOnce
        <4>. QED  BY <1>2, <4>2 DEF GasIInv
      <3>. QED  BY <2>0, <3>2, <3>3, Raising
    <2>. QED  BY <1>2, <2>1, <2>2, Exposure
  <1>3. ASSUME NEW a \in Addresses \ contested'
        PROVE  \E most \in Targets \cup InitialTrx : trx'[a] <= most
    <2>1. CASE trx'[a] = trx[a]
      BY <2>1 DEF GasIInv, OverfundedOnlyIfContested
    <2>2. ASSUME NEW i \in Items, AddressOf(i) = a, Exposed(r, i),
                 trx'[a] = trx[a] + TopUp(gasRun[r], i)
          PROVE  \E most \in Targets \cup InitialTrx : trx'[a] <= most
      <3>1. trx[a] <= gasRun[r].seen[i]
        BY <2>2 DEF GasIInv, BalanceIsKnown
      <3>2. gasRun[r].target \in Targets /\ gasRun[r].target \in Nat
        BY <1>1, FundingAssumption DEF GasRun
      <3>3. CASE gasRun[r].seen[i] >= gasRun[r].target
        <4>1. trx'[a] = trx[a]
          BY <1>1, <2>2, <3>3 DEF TopUp
        <4>. QED  BY <2>1, <4>1
      <3>4. CASE ~(gasRun[r].seen[i] >= gasRun[r].target)
        <4>1. trx'[a] <= gasRun[r].target
          BY <1>1, <2>2, <3>1, <3>2, <3>4 DEF TopUp
        <4>. QED  BY <3>2, <4>1
      <3>. QED  BY <3>3, <3>4
    <2>. QED  BY <2>1, <2>2, Raising
  <1>. QED  BY <1>2, <1>3 DEF BalanceIsKnown, OverfundedOnlyIfContested

LEMMA BurnKeeps ==
    ASSUME GasIInv, NEW b \in Addresses, Burn(b),
           contested' = contested \cup Contention'
    PROVE  GasIInv'
  <1>1. /\ trx \in [Addresses -> Nat]
        /\ trx' = [trx EXCEPT ![b] = 0]
        /\ UNCHANGED <<wallet, gasRun, mempool, accepted, crowded, charged>>
    BY DEF GasIInv, GasTypeOK, Burn
  <1>2. Contention' \subseteq Addresses
    BY DEF Contention
  <1>3. GasTypeOK'
    BY <1>1, <1>2 DEF GasIInv, GasTypeOK
  <1>4. \A r \in GasRuns : RunIsSound(r)' <=> RunIsSound(r)
    BY <1>1 DEF RunIsSound, Planned, SentAsPlanned, Sent, WalletSuffices, Owed
  <1>5. \A a \in Addresses : trx'[a] \in Nat /\ trx[a] \in Nat /\ trx'[a] <= trx[a]
    BY <1>1
  <1>6. BalanceIsKnown'
    <2> SUFFICES ASSUME NEW r \in GasRuns, NEW i \in Items,
                        Exposed(r, i)', AddressOf(i) \notin contested'
                 PROVE  trx'[AddressOf(i)] <= gasRun'[r].seen[i]
      BY DEF BalanceIsKnown
    <2>1. Exposed(r, i) /\ AddressOf(i) \notin contested
      BY <1>1 DEF Exposed
    <2>2. trx[AddressOf(i)] <= gasRun[r].seen[i]
      BY <2>1 DEF GasIInv, BalanceIsKnown
    <2>3. gasRun[r].seen[i] \in Nat /\ gasRun' = gasRun
      BY <1>1 DEF GasIInv, GasTypeOK, GasRun
    <2>4. AddressOf(i) \in Addresses
      BY ItemsNameAddresses
    <2>. QED  BY <1>5, <2>2, <2>3, <2>4
  <1>7. OverfundedOnlyIfContested'
    <2> SUFFICES ASSUME NEW a \in Addresses \ contested'
                 PROVE  \E most \in Targets \cup InitialTrx : trx'[a] <= most
      BY DEF OverfundedOnlyIfContested
    <2>1. PICK most \in Targets \cup InitialTrx : trx[a] <= most
      BY DEF GasIInv, OverfundedOnlyIfContested
    <2>2. most \in Nat
      BY FundingAssumption
    <2>. QED  BY <1>5, <2>1, <2>2
  <1>. QED  BY <1>1, <1>3, <1>4, <1>6, <1>7 DEF GasIInv

LEMMA GasNextInv == GasIInv /\ [GasNext]_gasVars => GasIInv'
  <1> SUFFICES ASSUME GasIInv, [GasNext]_gasVars PROVE GasIInv'
    OBVIOUS
  <1>1. ASSUME NEW r \in GasRuns, Fund(r), contested' = contested \cup Contention'
        PROVE  GasIInv'
    <2>1. contested' \subseteq Addresses /\ Contention' \subseteq contested'
      BY <1>1 DEF GasIInv, GasTypeOK, Contention
    <2>2. GasTypeOK'
      BY <1>1, <2>1, GasNextTypes DEF GasIInv, GasTypeOK
    <2>. QED  BY <1>1, <2>1, <2>2, FundIsSound, FundKnowsBalances DEF GasIInv
  <1>2. CASE UNCHANGED gasVars
    <2>1. UNCHANGED <<trx, wallet, gasRun, mempool, accepted, contested, crowded,
                      charged>>
      BY <1>2 DEF gasVars
    <2>2. \A r \in GasRuns : RunIsSound(r)' <=> RunIsSound(r)
      BY <2>1 DEF RunIsSound, Planned, SentAsPlanned, Sent, WalletSuffices, Owed
    <2>3. Contention' = Contention /\ (BalanceIsKnown' <=> BalanceIsKnown)
      BY <2>1 DEF Contention, BalanceIsKnown, Exposed
    <2>4. OverfundedOnlyIfContested' /\ GasTypeOK'
      BY <2>1 DEF GasIInv, OverfundedOnlyIfContested, GasTypeOK
    <2>. QED  BY <2>1, <2>2, <2>3, <2>4 DEF GasIInv
  <1>. QED  BY <1>1, <1>2, BurnKeeps DEF GasNext

-----------------------------------------------------------------------------
(* The gas wallet: theorems *)

LEMMA GasAlways == GasSpec => []GasIInv
  BY GasInitInv, GasNextInv, PTL DEF GasSpec

\* Balances, runs and history keep their types.
THEOREM GasTypeCorrect == GasSpec => []GasTypeOK
  <1>1. GasIInv => GasTypeOK
    BY DEF GasIInv
  <1>. QED  BY GasAlways, <1>1, PTL

\* However its transfers fare, what nodes took of a run is within its caps and
\* is for items of its intent only.
THEOREM CapsHold == GasSpec => []SentWithinCaps
  <1>1. GasIInv => SentWithinCaps
    <2> SUFFICES ASSUME GasIInv, NEW r \in GasRuns
                 PROVE  /\ Sent(r) \subseteq gasRun[r].items
                        /\ \A i \in Sent(r) : TopUp(gasRun[r], i) <= PerAddressCap
                        /\ Total(gasRun[r], Sent(r)) <= gasRun[r].budget
      BY DEF SentWithinCaps
    <2>1. gasRun[r] \in GasRun /\ SentAsPlanned(r)
      BY DEF GasIInv, GasTypeOK, RunIsSound
    <2>2. Plan(gasRun[r]) \in SUBSET Items /\ Sent(r) \in SUBSET Plan(gasRun[r])
      BY <2>1 DEF GasRun, Plan, SentAsPlanned
    <2>3. CASE Sent(r) = {}
      <3>1. Total(gasRun[r], Sent(r)) = 0
        BY <2>3, FS_EmptySet DEF Total, Units
      <3>2. gasRun[r].budget \in Nat
        BY <2>1, FundingAssumption DEF GasRun
      <3>. QED  BY <2>3, <3>1, <3>2
    <2>4. CASE Sent(r) # {}
      <3>1. WithinCaps(gasRun[r])
        BY <2>1, <2>4 DEF SentAsPlanned
      <3>2. /\ Total(gasRun[r], Sent(r)) <= Total(gasRun[r], Plan(gasRun[r]))
            /\ Total(gasRun[r], Sent(r)) \in Nat
            /\ Total(gasRun[r], Plan(gasRun[r])) \in Nat
        <4>1. Sent(r) \in SUBSET Items
          BY <2>2
        <4>. QED  BY <2>1, <2>2, <4>1, TotalMonotone, TotalIsNat
      <3>3. gasRun[r].budget \in Nat
        BY <2>1, FundingAssumption DEF GasRun
      <3>4. Total(gasRun[r], Sent(r)) <= gasRun[r].budget
        BY <3>1, <3>2, <3>3 DEF WithinCaps
      <3>. QED  BY <2>2, <3>1, <3>4 DEF WithinCaps, Plan
    <2>. QED  BY <2>3, <2>4
  <1>. QED  BY GasAlways, <1>1, PTL

\* Running the command again funds only what is missing: an address goes above
\* every target only if two top-ups of it were ahead at once, of two runs or of
\* one list that names it twice.
THEOREM FundingIsRepeatable == GasSpec => []OverfundedOnlyIfContested
  <1>1. GasIInv => OverfundedOnlyIfContested
    BY DEF GasIInv
  <1>. QED  BY GasAlways, <1>1, PTL

\* A run that no other crowds finds the wallet short by no more than the fees
\* of the transfers it had sent.
THEOREM WalletHoldsOut == GasSpec => []ShortOnlyByFees
  <1>1. GasIInv => ShortOnlyByFees
    BY DEF GasIInv, RunIsSound, WalletSuffices, ShortOnlyByFees
  <1>. QED  BY GasAlways, <1>1, PTL

-----------------------------------------------------------------------------
(* Provisioning: the next account *)

\* Induction, for a set: whatever holds of 0 and passes from n to n + 1 misses
\* no number m, for else n |-> n + 1 were an injection of the finite set of
\* those up to m into itself without 0.
LEMMA SetInduction ==
    ASSUME NEW S, 0 \in S, \A n \in Nat : n \in S => n + 1 \in S
    PROVE  Nat \subseteq S
  <1> SUFFICES ASSUME NEW m \in Nat, m \notin S PROVE FALSE
    OBVIOUS
  <1> DEFINE T == S \cap (0 .. m)
             U == T \ {0}
             up == [n \in T |-> n + 1]
  <1>1. IsFiniteSet(T)
    <2>1. IsFiniteSet(0 .. m)
      BY FS_Interval
    <2>. QED  BY <2>1, FS_Subset
  <1>2. /\ IsFiniteSet(U) /\ Cardinality(U) = Cardinality(T) - 1
        /\ Cardinality(T) \in Nat
    <2>1. 0 \in T
      OBVIOUS
    <2>. HIDE DEF T
    <2>. QED  BY <1>1, <2>1, FS_RemoveElement, FS_CardinalityType
  <1>3. up \in Injection(T, U)
    <2>1. \A n \in T : n + 1 \in U
      OBVIOUS
    <2>2. up \in [T -> U]
      BY <2>1
    <2>3. \A x, y \in T : up[x] = up[y] => x = y
      OBVIOUS
    <2>. HIDE DEF T, U, up
    <2>. QED  BY <2>2, <2>3 DEF Injection, IsInjective
  <1>4. Cardinality(T) <= Cardinality(U)
    <2>. HIDE DEF T, U, up
    <2>. QED  BY <1>2, <1>3, FS_Injection
  <1>. QED  BY <1>2, <1>4

LEMMA MaxIsLargest ==
    ASSUME NEW m \in Nat, NEW S \in SUBSET (0 .. m), S # {}
    PROVE  Max(S) \in S /\ \A n \in S : n <= Max(S)
  <1> DEFINE HasLargest(T) == \E x \in T : \A y \in T : x >= y
             good == {k \in Nat : \A T \in SUBSET (0 .. k) : T # {} => HasLargest(T)}
  <1>1. 0 \in good
    <2> SUFFICES ASSUME NEW T \in SUBSET (0 .. 0), T # {} PROVE HasLargest(T)
      OBVIOUS
    <2>1. \A x \in T : x = 0
      OBVIOUS
    <2>2. PICK x \in T : TRUE
      OBVIOUS
    <2>. QED  BY <2>1, <2>2
  <1>2. ASSUME NEW k \in Nat, k \in good
        PROVE  k + 1 \in good
    <2> SUFFICES ASSUME NEW T \in SUBSET (0 .. k + 1), T # {} PROVE HasLargest(T)
      OBVIOUS
    <2>1. CASE k + 1 \in T
      BY <2>1
    <2>2. CASE k + 1 \notin T
      <3>1. T \in SUBSET (0 .. k)
        BY <2>2
      <3>. QED  BY <1>2, <3>1
    <2>. QED  BY <2>1, <2>2
  <1>3. Nat \subseteq good
    <2>. HIDE DEF good
    <2>. QED  BY <1>1, <1>2, SetInduction
  <1>4. HasLargest(S)
    BY <1>3
  <1>5. Max(S) \in S /\ \A n \in S : Max(S) >= n
    BY <1>4 DEF Max
  <1>6. S \subseteq Nat
    OBVIOUS
  <1>. QED  BY <1>5, <1>6

\* The account a form computes is free when it is computed.
LEMMA NextAccountIsFree ==
    ASSUME TypeOK
    PROVE  /\ NextAccount \in 0 .. MaxAccount + 1
           /\ NextAccount \in Accounts => events[NextAccount] = Unused
  <1>1. MaxAccount \in Nat
    BY AccountAssumption
  <1>2. CASE Taken = {}
    <2>1. NextAccount = 0
      BY <1>2 DEF NextAccount
    <2>2. \A a \in Accounts : events[a] = Unused
      BY <1>2 DEF Taken
    <2>. QED  BY <1>1, <2>1, <2>2 DEF Accounts
  <1>3. CASE Taken # {}
    <2>1. NextAccount = Max(Taken) + 1
      BY <1>3 DEF NextAccount
    <2>2. Taken \in SUBSET (0 .. MaxAccount)
      BY DEF Taken, Accounts
    <2>3. Max(Taken) \in Taken /\ \A n \in Taken : n <= Max(Taken)
      BY <1>1, <1>3, <2>2, MaxIsLargest
    <2>4. Max(Taken) \in 0 .. MaxAccount
      BY <2>2, <2>3
    <2>5. NextAccount \notin Taken
      BY <2>1, <2>3, <2>4
    <2>6. NextAccount \in 0 .. MaxAccount + 1
      BY <1>1, <2>1, <2>4
    <2>. QED  BY <2>5, <2>6 DEF Taken
  <1>. QED  BY <1>2, <1>3

-----------------------------------------------------------------------------
(* Provisioning: invariant *)

\* Two runs at work at once are both known to have overlapped.
OverlapIsSeen ==
    \A i, j \in Inits : i # j /\ AtWork(i) /\ AtWork(j) => i \in overlap

\* A run that found no key and mints meets the keys only of runs that it
\* overlaps.
MintersOverlap ==
    \A i \in Inits, k \in keys :
        init[i].pc \in {"admin", "readonly"} /\ k.by \in Inits \ {i}
            => {i, k.by} \subseteq overlap

\* A store has its event before it has a key, and keeps it.
StoreHasEvent ==
    \A f \in Forms :
        form[f].pc = "mint" \/ (\E k \in keys : k.by = f) =>
            /\ form[f].pc \in {"mint", "done", "dead"}
            /\ form[f].account \in Accounts
            /\ events[form[f].account] = form[f].merchant

\* The account a form computed is free until some event is created.
FreeUnlessRaced ==
    \A f \in Forms :
        /\ form[f].pc = "create" /\ f \notin raced
        /\ form[f].account \in Accounts
        => events[form[f].account] = Unused

ProvisioningIInv ==
    /\ TypeOK
    /\ OverlapIsSeen
    /\ MintersOverlap
    /\ InitMintsOnce
    /\ StoreHasEvent
    /\ KeysReachTheirOwner
    /\ FreeUnlessRaced
    /\ RefusedOnlyForARace

-----------------------------------------------------------------------------
(* Provisioning: the invariant is inductive *)

LEMMA ProvisioningInitInv == Init => ProvisioningIInv
  <1> SUFFICES ASSUME Init PROVE ProvisioningIInv
    OBVIOUS
  <1>1. /\ \A i \in Inits : init[i].pc = "idle"
        /\ \A f \in Forms : form[f].pc = "idle"
    BY DEF Init
  <1>2. TypeOK
    <2>1. init \in [Inits -> InitRun]
      BY DEF Init, InitRun
    <2>2. form \in [Forms -> Form]
      <3>1. 0 \in 0 .. MaxAccount + 1
        BY AccountAssumption
      <3>2. \A f \in Forms : form[f] \in Form
        <4> SUFFICES ASSUME NEW f \in Forms PROVE form[f] \in Form
          OBVIOUS
        <4>1. PICK m \in Merchants :
                 form[f] = [pc |-> "idle", merchant |-> m, account |-> 0,
                            left |-> {}, failed |-> FALSE]
          BY DEF Init
        <4>. QED  BY <3>1, <4>1 DEF Form
      <3>3. form = [f \in Forms |-> form[f]]
        BY DEF Init
      <3>. QED  BY <3>2, <3>3
    <2>3. events \in [Accounts -> Merchants \cup {None, Unused}]
      BY DEF Init
    <2>. QED  BY <2>1, <2>2, <2>3 DEF Init, TypeOK
  <1>3. OverlapIsSeen /\ MintersOverlap
    BY <1>1 DEF OverlapIsSeen, MintersOverlap, AtWork
  <1>4. InitMintsOnce /\ KeysReachTheirOwner
    BY DEF Init, InitMintsOnce, KeysReachTheirOwner
  <1>5. StoreHasEvent /\ FreeUnlessRaced /\ RefusedOnlyForARace
    BY <1>1 DEF Init, StoreHasEvent, FreeUnlessRaced, RefusedOnlyForARace
  <1>. QED  BY <1>2, <1>3, <1>4, <1>5 DEF ProvisioningIInv

\* Where a run stands after its step.
LEMMA GoesTo ==
    ASSUME TypeOK, NEW i \in Inits,
           NEW pc \in {"idle", "create", "seed", "event", "derive", "keys",
                       "admin", "readonly", "link", "output", "done", "dead"},
           Goes(i, pc)
    PROVE  /\ init' \in [Inits -> InitRun]
           /\ init'[i].pc = pc
           /\ \A j \in Inits \ {i} : init'[j] = init[j]
  BY DEF TypeOK, InitRun, Goes

\* A step of a run moves that run, and touches neither forms nor others' keys.
LEMMA RunMoves ==
    ASSUME TypeOK, NEW i \in Inits, RunInit(i)
    PROVE  /\ init' \in [Inits -> InitRun]
           /\ \A j \in Inits \ {i} : init'[j] = init[j]
           /\ UNCHANGED <<merchants, form>>
           /\ init'[i].pc # "idle"
           /\ init'[i].pc = "done" => Output(i)
           /\ init[i].pc \notin {"done", "dead"}
           /\ init'[i].pc \in {"admin", "readonly"} =>
                 \/ keys = {} /\ init[i].pc = "keys"
                 \/ init[i].pc = "admin"
  <1> DEFINE Goal == /\ init' \in [Inits -> InitRun]
                     /\ \A j \in Inits \ {i} : init'[j] = init[j]
                     /\ UNCHANGED <<merchants, form>>
                     /\ init'[i].pc # "idle"
                     /\ init'[i].pc = "done" => Output(i)
                     /\ init[i].pc \notin {"done", "dead"}
                     /\ init'[i].pc \in {"admin", "readonly"} =>
                           \/ keys = {} /\ init[i].pc = "keys"
                           \/ init[i].pc = "admin"
  <1>1. ASSUME Start(i) PROVE Goal
    <2>1. PICK pc \in {"create", "seed"} : Goes(i, pc)
      BY <1>1 DEF Start
    <2>. QED  BY <1>1, <2>1, GoesTo DEF Start
  <1>2. ASSUME CreateOperator(i) PROVE Goal
    <2>1. PICK pc \in {"dead", "seed"} : Goes(i, pc)
      BY <1>2 DEF CreateOperator
    <2>. QED  BY <1>2, <2>1, GoesTo DEF CreateOperator
  <1>3. ASSUME SeedStep(i) PROVE Goal
    <2>1. PICK written \in BOOLEAN :
             init' = [init EXCEPT ![i] = [init[i] EXCEPT
                         !.pc = "event", !.ready = seedReady \/ written]]
      BY <1>3 DEF SeedStep
    <2> DEFINE ready == seedReady \/ written
    <2>2. ready \in BOOLEAN
      OBVIOUS
    <2>3. [init[i] EXCEPT !.pc = "event", !.ready = ready] \in InitRun
      <3>. HIDE DEF ready
      <3>. QED  BY <2>2 DEF TypeOK, InitRun
    <2>4. init' = [init EXCEPT ![i] = [init[i] EXCEPT !.pc = "event", !.ready = ready]]
      BY <2>1
    <2>. HIDE DEF ready
    <2>5. init' \in [Inits -> InitRun] /\ init'[i].pc = "event"
      BY <2>3, <2>4 DEF TypeOK, InitRun
    <2>. QED  BY <1>3, <2>4, <2>5 DEF SeedStep, TypeOK
  <1>4. ASSUME LookForEvent(i) PROVE Goal
    <2>1. PICK pc \in {"derive", "keys"} :
             init' = [init EXCEPT ![i] = [pc |-> pc, ready |-> FALSE]]
      BY <1>4 DEF LookForEvent
    <2>2. init' \in [Inits -> InitRun] /\ init'[i].pc = pc
      BY <2>1 DEF TypeOK, InitRun
    <2>. QED  BY <1>4, <2>1, <2>2 DEF LookForEvent, TypeOK
  <1>5. ASSUME CreateDefaultEvent(i) PROVE Goal
    <2>1. PICK pc \in {"dead", "keys"} : Goes(i, pc)
      BY <1>5 DEF CreateDefaultEvent
    <2>. QED  BY <1>5, <2>1, GoesTo DEF CreateDefaultEvent
  <1>6. ASSUME CountKeys(i) PROVE Goal
    <2>1. PICK pc \in {"admin", "link"} : Goes(i, pc) /\ (pc = "admin" => keys = {})
      BY <1>6 DEF CountKeys
    <2>. QED  BY <1>6, <2>1, GoesTo DEF CountKeys
  <1>7. ASSUME MintKey(i) PROVE Goal
    <2>1. PICK pc \in {"readonly", "link"} :
             Goes(i, pc) /\ (pc = "readonly" => init[i].pc = "admin")
      BY <1>7 DEF MintKey
    <2>. QED  BY <1>7, <2>1, GoesTo DEF MintKey
  <1>8. ASSUME MintLoginLink(i) PROVE Goal
    BY <1>8, GoesTo DEF MintLoginLink
  <1>9. ASSUME Output(i) PROVE Goal
    BY <1>9, GoesTo DEF Output
  <1>10. ASSUME InitDies(i) PROVE Goal
    BY <1>10, GoesTo DEF InitDies, AtWork
  <1>11. Goal
    <2>. HIDE DEF Goal
    <2>. QED  BY <1>1, <1>2, <1>3, <1>4, <1>5, <1>6, <1>7, <1>8, <1>9, <1>10
              DEF RunInit
  <1>. QED  BY <1>11

\* What else a step of a run changes.
LEMMA RunTypes ==
    ASSUME TypeOK, NEW i \in Inits, RunInit(i)
    PROVE  TypeOK'
  <1>1. init' \in [Inits -> InitRun] /\ UNCHANGED <<merchants, form>>
    BY RunMoves
  <1>2. operators' \subseteq {"placeholder", "human"} /\ seedReady' \in BOOLEAN
    <2>1. CASE CreateOperator(i)
      BY <2>1 DEF TypeOK, CreateOperator
    <2>2. CASE SeedStep(i)
      BY <2>2 DEF TypeOK, SeedStep
    <2>3. CASE UNCHANGED <<operators, seedReady>>
      BY <2>3 DEF TypeOK
    <2>. QED  BY <2>1, <2>2, <2>3 DEF RunInit, Start, LookForEvent,
                 CreateDefaultEvent, CountKeys, MintKey, MintLoginLink, Output,
                 InitDies
  <1>3. /\ events' \in [Accounts -> Merchants \cup {None, Unused}]
        /\ raced' \subseteq Forms
    <2>1. CASE CreateDefaultEvent(i)
      BY <2>1 DEF TypeOK, CreateDefaultEvent, InsertEvent
    <2>2. CASE UNCHANGED <<events, raced>>
      BY <2>2 DEF TypeOK
    <2>. QED  BY <2>1, <2>2 DEF RunInit, Start, CreateOperator, SeedStep,
                 LookForEvent, CountKeys, MintKey, MintLoginLink, Output, InitDies
  <1>4. keys' \subseteq Key /\ shown' \subseteq Key /\ overlap' \subseteq Inits
    <2>1. CASE Start(i)
      BY <2>1 DEF TypeOK, Start
    <2>2. CASE MintKey(i)
      <3>1. [by |-> i, scope |-> init[i].pc] \in Key
        BY <2>2 DEF MintKey, Key
      <3>. QED  BY <2>2, <3>1 DEF TypeOK, MintKey
    <2>3. CASE Output(i)
      BY <2>3 DEF TypeOK, Output
    <2>4. CASE UNCHANGED <<keys, shown, overlap>>
      BY <2>4 DEF TypeOK
    <2>. QED  BY <2>1, <2>2, <2>3, <2>4 DEF RunInit, CreateOperator, SeedStep,
                 LookForEvent, CreateDefaultEvent, CountKeys, MintLoginLink,
                 InitDies
  <1>. QED  BY <1>1, <1>2, <1>3, <1>4 DEF TypeOK

\* A step of a form moves that form, along its way.
LEMMA FormMoves ==
    ASSUME TypeOK, NEW f \in Forms, HandleForm(f)
    PROVE  /\ form' \in [Forms -> Form]
           /\ \A g \in Forms \ {f} : form'[g] = form[g]
           /\ form'[f].merchant = form[f].merchant
           /\ form'[f].account = form[f].account \/ Allocate(f)
           /\ form[f].failed => form'[f].failed
           /\ form[f].pc \notin {"done", "refused", "dead"}
           /\ form[f].pc = "mint" => form'[f].pc \in {"mint", "done", "dead"}
           /\ form'[f].pc = "mint" => form[f].pc = "mint" \/ CreateStore(f)
           /\ form'[f].pc = "create" => Allocate(f)
           /\ form'[f].pc = "refused" => CreateStore(f)
           /\ form'[f].pc = "done" => StoreAnswered(f)
  <1> DEFINE Goal ==
        /\ form' \in [Forms -> Form]
        /\ \A g \in Forms \ {f} : form'[g] = form[g]
        /\ form'[f].merchant = form[f].merchant
        /\ form'[f].account = form[f].account \/ Allocate(f)
        /\ form[f].failed => form'[f].failed
        /\ form[f].pc \notin {"done", "refused", "dead"}
        /\ form[f].pc = "mint" => form'[f].pc \in {"mint", "done", "dead"}
        /\ form'[f].pc = "mint" => form[f].pc = "mint" \/ CreateStore(f)
        /\ form'[f].pc = "create" => Allocate(f)
        /\ form'[f].pc = "refused" => CreateStore(f)
        /\ form'[f].pc = "done" => StoreAnswered(f)
  <1>0. form \in [Forms -> Form] /\ form[f] \in Form
    BY DEF TypeOK
  <1>1. ASSUME NEW pc \in {"idle", "session", "allocate", "done", "refused", "dead"},
               Fills(f, [form[f] EXCEPT !.pc = pc]),
               \/ LogIn(f) /\ pc = "session"
               \/ SessionExpires(f) /\ pc = "idle"
               \/ Submit(f) /\ pc = "allocate"
               \/ StoreAnswered(f) /\ pc = "done"
               \/ FormDies(f) /\ pc = "dead"
               \/ CreateStore(f) /\ pc = "refused"
        PROVE  Goal
    <2>1. /\ form' \in [Forms -> Form]
          /\ form'[f] = [form[f] EXCEPT !.pc = pc]
          /\ \A g \in Forms \ {f} : form'[g] = form[g]
      BY <1>0, <1>1 DEF Fills, Form
    <2>2. /\ form'[f].pc = pc /\ form'[f].merchant = form[f].merchant
          /\ form'[f].account = form[f].account /\ form'[f].failed = form[f].failed
      BY <1>0, <2>1 DEF Form
    <2>3. /\ form[f].pc \notin {"done", "refused", "dead"}
          /\ form[f].pc = "mint" => pc \in {"mint", "done", "dead"}
      BY <1>1 DEF LogIn, SessionExpires, Submit, StoreAnswered, FormDies, CreateStore
    <2>. QED  BY <1>1, <2>1, <2>2, <2>3
  <1>2. ASSUME Allocate(f) PROVE Goal
    <2>1. /\ form'[f] = [form[f] EXCEPT !.pc = "create", !.account = NextAccount]
          /\ form' \in [Forms -> Form]
          /\ \A g \in Forms \ {f} : form'[g] = form[g]
      BY <1>0, <1>2, NextAccountIsFree DEF Allocate, Fills, Form
    <2>2. /\ form'[f].pc = "create" /\ form'[f].merchant = form[f].merchant
          /\ form'[f].failed = form[f].failed
      BY <1>0, <2>1 DEF Form
    <2>3. form[f].pc = "allocate"
      BY <1>2 DEF Allocate
    <2>. QED  BY <1>2, <2>1, <2>2, <2>3
  <1>3. ASSUME CreateStore(f), Insertable(form[f].account) PROVE Goal
    <2>1. /\ form'[f] = [form[f] EXCEPT !.pc = "mint",
                                        !.left = {"merchant", "readonly"}]
          /\ form' \in [Forms -> Form]
          /\ \A g \in Forms \ {f} : form'[g] = form[g]
      <3>1. form' = [form EXCEPT ![f] = [form[f] EXCEPT !.pc = "mint",
                                            !.left = {"merchant", "readonly"}]]
        BY <1>3 DEF CreateStore, Fills
      <3>. QED  BY <1>0, <3>1 DEF Form
    <2>2. /\ form'[f].pc = "mint" /\ form'[f].merchant = form[f].merchant
          /\ form'[f].account = form[f].account /\ form'[f].failed = form[f].failed
      BY <1>0, <2>1 DEF Form
    <2>3. form[f].pc = "create"
      BY <1>3 DEF CreateStore
    <2>. QED  BY <1>3, <2>1, <2>2, <2>3
  <1>4. ASSUME NEW scope \in {"merchant", "readonly"}, MintStoreKey(f, scope)
        PROVE  Goal
    <2>1. PICK inserted \in BOOLEAN :
             form' = [form EXCEPT ![f] = [form[f] EXCEPT
                         !.left = @ \ {scope}, !.failed = @ \/ ~inserted]]
      BY <1>4 DEF MintStoreKey, Fills
    <2> DEFINE failed == form[f].failed \/ ~inserted
    <2>2. failed \in BOOLEAN /\ (form[f].failed => failed)
      OBVIOUS
    <2>3. form' = [form EXCEPT ![f] = [form[f] EXCEPT
                       !.left = form[f].left \ {scope}, !.failed = failed]]
      BY <2>1
    <2>. HIDE DEF failed
    <2>4. /\ form' \in [Forms -> Form]
          /\ form'[f].failed = failed /\ form'[f].pc = form[f].pc
          /\ form'[f].merchant = form[f].merchant
          /\ form'[f].account = form[f].account
          /\ \A g \in Forms \ {f} : form'[g] = form[g]
      BY <1>0, <2>2, <2>3 DEF Form
    <2>5. form[f].pc = "mint"
      BY <1>4 DEF MintStoreKey
    <2>. QED  BY <2>2, <2>4, <2>5
  <1>5. Goal
    <2>1. CASE CreateStore(f)
      <3>1. CASE ~Insertable(form[f].account)
        <4>1. Fills(f, [form[f] EXCEPT !.pc = "refused"])
          BY <2>1, <3>1 DEF CreateStore
        <4>. HIDE DEF Goal
        <4>. QED  BY <1>1, <2>1, <4>1
      <3>. HIDE DEF Goal
      <3>. QED  BY <1>3, <2>1, <3>1
    <2>2. CASE \/ LogIn(f) \/ SessionExpires(f) \/ Submit(f) \/ StoreAnswered(f)
               \/ FormDies(f)
      <3>. HIDE DEF Goal
      <3>1. ASSUME LogIn(f) PROVE Goal
        <4>1. Fills(f, [form[f] EXCEPT !.pc = "session"])
          BY <3>1 DEF LogIn
        <4>. QED  BY <1>1, <3>1, <4>1
      <3>2. ASSUME SessionExpires(f) PROVE Goal
        <4>1. Fills(f, [form[f] EXCEPT !.pc = "idle"])
          BY <3>2 DEF SessionExpires
        <4>. QED  BY <1>1, <3>2, <4>1
      <3>3. ASSUME Submit(f) PROVE Goal
        <4>1. Fills(f, [form[f] EXCEPT !.pc = "allocate"])
          BY <3>3 DEF Submit
        <4>. QED  BY <1>1, <3>3, <4>1
      <3>4. ASSUME StoreAnswered(f) PROVE Goal
        <4>1. Fills(f, [form[f] EXCEPT !.pc = "done"])
          BY <3>4 DEF StoreAnswered
        <4>. QED  BY <1>1, <3>4, <4>1
      <3>5. ASSUME FormDies(f) PROVE Goal
        <4>1. Fills(f, [form[f] EXCEPT !.pc = "dead"])
          BY <3>5 DEF FormDies
        <4>. QED  BY <1>1, <3>5, <4>1
      <3>. QED  BY <2>2, <3>1, <3>2, <3>3, <3>4, <3>5
    <2>. HIDE DEF Goal
    <2>. QED  BY <1>2, <1>4, <2>1, <2>2 DEF HandleForm
  <1>. QED  BY <1>5

LEMMA FormTypes ==
    ASSUME TypeOK, NEW f \in Forms, HandleForm(f)
    PROVE  TypeOK'
  <1>1. form' \in [Forms -> Form]
    BY FormMoves
  <1>2. UNCHANGED <<operators, seedReady, merchants, init, overlap>>
    BY DEF HandleForm, LogIn, SessionExpires, Submit, Allocate, CreateStore,
           StoreAnswered, FormDies, MintStoreKey
  <1>3. /\ events' \in [Accounts -> Merchants \cup {None, Unused}]
        /\ raced' \subseteq Forms
    <2>1. CASE CreateStore(f)
      BY <2>1 DEF TypeOK, CreateStore, InsertEvent, Form
    <2>2. CASE Allocate(f)
      BY <2>2 DEF TypeOK, Allocate
    <2>3. CASE UNCHANGED <<events, raced>>
      BY <2>3 DEF TypeOK
    <2>. QED  BY <2>1, <2>2, <2>3 DEF HandleForm, LogIn, SessionExpires, Submit,
                 StoreAnswered, FormDies, MintStoreKey
  <1>4. keys' \subseteq Key /\ shown' \subseteq Key
    <2>1. ASSUME NEW scope \in {"merchant", "readonly"}, MintStoreKey(f, scope)
          PROVE  keys' \subseteq Key /\ shown' \subseteq Key
      <3>1. [by |-> f, scope |-> scope] \in Key
        BY DEF Key
      <3>2. keys' \subseteq keys \cup {[by |-> f, scope |-> scope]}
        BY <2>1 DEF MintStoreKey
      <3>. QED  BY <2>1, <3>1, <3>2 DEF TypeOK, MintStoreKey
    <2>2. CASE StoreAnswered(f)
      BY <2>2 DEF TypeOK, StoreAnswered
    <2>3. CASE UNCHANGED <<keys, shown>>
      BY <2>3 DEF TypeOK
    <2>. QED  BY <2>1, <2>2, <2>3 DEF HandleForm, LogIn, SessionExpires, Submit,
                 Allocate, CreateStore, FormDies
  <1>. QED  BY <1>1, <1>2, <1>3, <1>4 DEF TypeOK

\* The runs' invariants, when neither runs nor their keys change.
LEMMA RunsAtRest ==
    ASSUME OverlapIsSeen, MintersOverlap, InitMintsOnce,
           UNCHANGED <<init, overlap>>,
           \A k \in keys' : k \in keys \/ k.by \notin Inits
    PROVE  OverlapIsSeen' /\ MintersOverlap' /\ InitMintsOnce'
  <1>1. OverlapIsSeen'
    BY DEF OverlapIsSeen, AtWork
  <1>2. MintersOverlap'
    BY DEF MintersOverlap
  <1>3. InitMintsOnce'
    BY DEF InitMintsOnce
  <1>. QED  BY <1>1, <1>2, <1>3

\* Two runs never both start from an empty table unless they overlap.
LEMMA RunsMintOnce ==
    ASSUME ProvisioningIInv, NEW i \in Inits, RunInit(i)
    PROVE  OverlapIsSeen' /\ MintersOverlap' /\ InitMintsOnce'
  <1>0. /\ TypeOK /\ OverlapIsSeen /\ MintersOverlap /\ InitMintsOnce
        /\ \A j \in Inits \ {i} : init'[j] = init[j]
        /\ \A j \in Inits \ {i} : AtWork(j)' <=> AtWork(j)
    BY RunMoves DEF ProvisioningIInv, AtWork
  <1>1. overlap \subseteq overlap'
    BY DEF RunInit, Start, CreateOperator, SeedStep, LookForEvent,
           CreateDefaultEvent, CountKeys, MintKey, MintLoginLink, Output, InitDies
  <1>2. AtWork(i) \/ (/\ Start(i) /\ keys' = keys
                      /\ \A j \in Inits : AtWork(j) => {i, j} \subseteq overlap')
    <2>1. CASE Start(i)
      BY <2>1 DEF Start
    <2>. QED  BY <2>1 DEF RunInit, CreateOperator, SeedStep, LookForEvent,
           CreateDefaultEvent, CountKeys, MintKey, MintLoginLink, Output,
           InitDies, AtWork
  <1>3. OverlapIsSeen'
    <2> SUFFICES ASSUME NEW j \in Inits, NEW k \in Inits, j # k,
                        AtWork(j)', AtWork(k)'
                 PROVE  j \in overlap'
      BY DEF OverlapIsSeen
    <2>1. CASE j # i /\ k # i
      BY <1>0, <1>1, <2>1 DEF OverlapIsSeen
    <2>2. CASE AtWork(i)
      BY <1>0, <1>1, <2>2 DEF OverlapIsSeen
    <2>3. CASE \A q \in Inits : AtWork(q) => {i, q} \subseteq overlap'
      BY <1>0, <2>3
    <2>. QED  BY <1>2, <2>2, <2>3
  <1>4. keys' = keys \/ MintKey(i)
    BY DEF RunInit, Start, CreateOperator, SeedStep, LookForEvent,
           CreateDefaultEvent, CountKeys, MintLoginLink, Output, InitDies
  <1>5. MintersOverlap'
    <2> SUFFICES ASSUME NEW j \in Inits, NEW k \in keys',
                        init'[j].pc \in {"admin", "readonly"}, k.by \in Inits \ {j}
                 PROVE  {j, k.by} \subseteq overlap'
      BY DEF MintersOverlap
    <2>1. ASSUME k \in keys, init[j].pc \in {"admin", "readonly"}
          PROVE  {j, k.by} \subseteq overlap'
      BY <1>0, <1>1, <2>1 DEF MintersOverlap
    <2>2. CASE j = i
      <3>1. \/ keys = {} /\ init[i].pc = "keys"
            \/ init[i].pc = "admin"
        BY <1>0, <2>2, RunMoves
      <3>2. MintKey(i) => keys' = keys \cup {[by |-> i, scope |-> init[i].pc]}
        BY DEF MintKey
      <3>3. k \in keys
        BY <1>4, <2>2, <3>2
      <3>. QED  BY <2>1, <2>2, <3>1, <3>3
    <2>3. CASE j # i
      <3>1. init'[j] = init[j]
        BY <1>0, <2>3
      <3>2. CASE k \in keys
        BY <2>1, <3>1, <3>2
      <3>3. CASE k \notin keys
        <4>1. MintKey(i) /\ k.by = i
          BY <1>4, <3>3 DEF MintKey
        <4>2. AtWork(i) /\ AtWork(j)
          BY <3>1, <4>1 DEF MintKey, AtWork
        <4>. QED  BY <1>0, <1>1, <2>3, <4>1, <4>2 DEF OverlapIsSeen
      <3>. QED  BY <3>2, <3>3
    <2>. QED  BY <2>2, <2>3
  <1>6. InitMintsOnce'
    <2>1. CASE keys' = keys
      BY <1>0, <1>1, <2>1 DEF InitMintsOnce
    <2>2. CASE MintKey(i)
      <3>1. /\ keys' = keys \cup {[by |-> i, scope |-> init[i].pc]}
            /\ init[i].pc \in {"admin", "readonly"}
        BY <2>2 DEF MintKey
      <3>2. \A k \in keys : k.by \in Inits \ {i} => {i, k.by} \subseteq overlap
        BY <1>0, <3>1 DEF MintersOverlap
      <3>3. ASSUME NEW k \in keys', NEW j \in keys',
                   k.by \in Inits \ overlap', j.by \in Inits
            PROVE  k.by = j.by
        <4>1. CASE k \in keys /\ j \in keys
          BY <1>0, <1>1, <3>3, <4>1 DEF InitMintsOnce
        <4>2. CASE k \notin keys
          <5>1. k.by = i
            BY <3>1, <4>2
          <5>. QED  BY <1>1, <3>1, <3>2, <3>3, <5>1
        <4>3. CASE k \in keys /\ j \notin keys
          <5>1. j.by = i
            BY <3>1, <4>3
          <5>. QED  BY <1>1, <3>2, <3>3, <4>3, <5>1
        <4>. QED  BY <4>1, <4>2, <4>3
      <3>. QED  BY <3>3 DEF InitMintsOnce
    <2>. QED  BY <1>4, <2>1, <2>2
  <1>. QED  BY <1>3, <1>5, <1>6

\* What other steps leave of the forms' invariants: a new event never takes an
\* account that has one, and tells the forms that have computed theirs.
LEMMA FormsAtRest ==
    ASSUME TypeOK, StoreHasEvent, FreeUnlessRaced, RefusedOnlyForARace,
           UNCHANGED form, \A k \in keys' : k \in keys \/ k.by \notin Forms,
           \/ UNCHANGED <<events, raced>>
           \/ \E a \in Accounts, owner \in Merchants \cup {None} :
                 Insertable(a) /\ InsertEvent(a, owner)
    PROVE  StoreHasEvent' /\ FreeUnlessRaced' /\ RefusedOnlyForARace'
  <1>1. Unused \notin Merchants
    BY NamesAssumption
  <1>2. \A f \in Forms : form[f].merchant \in Merchants
    BY DEF TypeOK, Form
  <1>3. CASE UNCHANGED <<events, raced>>
    BY <1>3 DEF StoreHasEvent, FreeUnlessRaced, RefusedOnlyForARace
  <1>4. ASSUME NEW a \in Accounts, NEW owner \in Merchants \cup {None},
               Insertable(a), InsertEvent(a, owner)
        PROVE  StoreHasEvent' /\ FreeUnlessRaced' /\ RefusedOnlyForARace'
    <2>1. /\ events[a] = Unused
          /\ \A b \in Accounts : b # a => events'[b] = events[b]
          /\ raced' = raced \cup {f \in Forms : form[f].pc = "create"}
      BY <1>4 DEF Insertable, InsertEvent, TypeOK
    <2>2. StoreHasEvent'
      BY <1>1, <1>2, <2>1 DEF StoreHasEvent
    <2>3. FreeUnlessRaced'
      BY <2>1 DEF FreeUnlessRaced
    <2>4. RefusedOnlyForARace'
      BY <2>1 DEF RefusedOnlyForARace
    <2>. QED  BY <2>2, <2>3, <2>4
  <1>. QED  BY <1>3, <1>4

\* A form gets its event before its keys, and is refused only for a race.
LEMMA FormsGetTheirEvents ==
    ASSUME ProvisioningIInv, TypeOK', NEW f \in Forms, HandleForm(f)
    PROVE  StoreHasEvent' /\ FreeUnlessRaced' /\ RefusedOnlyForARace'
  <1>0. /\ TypeOK /\ StoreHasEvent /\ FreeUnlessRaced /\ RefusedOnlyForARace
        /\ form[f] \in Form /\ form'[f] \in Form
        /\ \A g \in Forms \ {f} : form'[g] = form[g]
        /\ form'[f].merchant = form[f].merchant
        /\ form[f].merchant \in Merchants /\ Unused \notin Merchants
    BY FormMoves, NamesAssumption DEF ProvisioningIInv, TypeOK, Form
  <1>1. \/ CreateStore(f) \/ Allocate(f)
        \/ UNCHANGED <<events, raced>> /\ form'[f].account = form[f].account
    BY <1>0, FormMoves DEF HandleForm, LogIn, SessionExpires, Submit,
                           StoreAnswered, FormDies, MintStoreKey
  <1>2. \A k \in keys' : k \in keys \/ (k.by = f /\ form[f].pc = "mint")
    <2>1. ASSUME NEW scope \in {"merchant", "readonly"}, MintStoreKey(f, scope)
          PROVE  /\ keys' \subseteq keys \cup {[by |-> f, scope |-> scope]}
                 /\ form[f].pc = "mint"
      BY <2>1 DEF MintStoreKey
    <2>2. \/ UNCHANGED keys
          \/ \E scope \in {"merchant", "readonly"} : MintStoreKey(f, scope)
      BY DEF HandleForm, LogIn, SessionExpires, Submit, Allocate, CreateStore,
             StoreAnswered, FormDies
    <2>. QED  BY <2>1, <2>2
  <1>3. CASE Allocate(f)
    <2>1. /\ form[f].pc = "allocate" /\ UNCHANGED <<events, keys>>
          /\ raced' = raced \ {f}
      BY <1>3 DEF Allocate
    <2>2. form'[f] = [form[f] EXCEPT !.pc = "create", !.account = NextAccount]
      BY <1>0, <1>3 DEF Allocate, Fills, TypeOK
    <2>3. form'[f].pc = "create" /\ form'[f].account = NextAccount
      BY <1>0, <2>2 DEF Form
    <2>4. StoreHasEvent'
      BY <1>0, <2>1, <2>3 DEF StoreHasEvent
    <2>5. FreeUnlessRaced'
      BY <1>0, <2>1, <2>3, NextAccountIsFree DEF FreeUnlessRaced
    <2>6. RefusedOnlyForARace'
      BY <1>0, <2>1, <2>3 DEF RefusedOnlyForARace
    <2>. QED  BY <2>4, <2>5, <2>6
  <1>4. CASE CreateStore(f)
    <2>1. form[f].pc = "create" /\ UNCHANGED keys
      BY <1>4 DEF CreateStore
    <2>2. CASE Insertable(form[f].account)
      <3>1. /\ InsertEvent(form[f].account, form[f].merchant)
            /\ Fills(f, [form[f] EXCEPT !.pc = "mint",
                                        !.left = {"merchant", "readonly"}])
        BY <1>4, <2>2 DEF CreateStore
      <3>2. /\ form'[f].pc = "mint" /\ form'[f].account = form[f].account
        BY <1>0, <3>1 DEF Fills, TypeOK, Form
      <3>3. /\ form[f].account \in Accounts /\ events[form[f].account] = Unused
            /\ events'[form[f].account] = form[f].merchant
            /\ \A b \in Accounts : b # form[f].account => events'[b] = events[b]
            /\ raced' = raced \cup {g \in Forms : form[g].pc = "create"}
        BY <1>0, <2>2, <3>1 DEF Insertable, InsertEvent, TypeOK
      <3>4. StoreHasEvent'
        <4> SUFFICES ASSUME NEW g \in Forms,
                            form'[g].pc = "mint" \/ (\E k \in keys' : k.by = g)
                     PROVE  /\ form'[g].pc \in {"mint", "done", "dead"}
                            /\ form'[g].account \in Accounts
                            /\ events'[form'[g].account] = form'[g].merchant
          BY DEF StoreHasEvent
        <4>1. CASE g = f
          BY <1>0, <3>2, <3>3, <4>1
        <4>2. CASE g # f
          <5>1. /\ form'[g] = form[g] /\ form[g].merchant \in Merchants
                /\ form[g].pc = "mint" \/ (\E k \in keys : k.by = g)
            BY <1>0, <2>1, <4>2 DEF TypeOK, Form
          <5>2. /\ form[g].pc \in {"mint", "done", "dead"}
                /\ form[g].account \in Accounts
                /\ events[form[g].account] = form[g].merchant
            BY <1>0, <5>1 DEF StoreHasEvent
          <5>. QED  BY <1>0, <3>3, <5>1, <5>2
        <4>. QED  BY <4>1, <4>2
      <3>5. FreeUnlessRaced'
        BY <1>0, <3>2, <3>3 DEF FreeUnlessRaced
      <3>6. RefusedOnlyForARace'
        BY <1>0, <3>2, <3>3 DEF RefusedOnlyForARace
      <3>. QED  BY <3>4, <3>5, <3>6
    <2>3. CASE ~Insertable(form[f].account)
      <3>1. /\ Fills(f, [form[f] EXCEPT !.pc = "refused"])
            /\ UNCHANGED <<events, raced>>
        BY <1>4, <2>3 DEF CreateStore
      <3>2. form'[f].pc = "refused" /\ form'[f].account = form[f].account
        BY <1>0, <3>1 DEF Fills, TypeOK, Form
      <3>3. form[f].account \in Accounts \/ form[f].account > MaxAccount
        BY <1>0, AccountAssumption DEF Form, Accounts
      <3>4. f \in raced \/ form[f].account > MaxAccount
        BY <1>0, <2>1, <2>3, <3>3 DEF FreeUnlessRaced, Insertable
      <3>5. StoreHasEvent' /\ FreeUnlessRaced'
        BY <1>0, <2>1, <3>1, <3>2 DEF StoreHasEvent, FreeUnlessRaced
      <3>6. RefusedOnlyForARace'
        BY <1>0, <3>1, <3>2, <3>4 DEF RefusedOnlyForARace
      <3>. QED  BY <3>5, <3>6
    <2>. QED  BY <2>2, <2>3
  <1>5. CASE /\ UNCHANGED <<events, raced>> /\ form'[f].account = form[f].account
             /\ ~CreateStore(f) /\ ~Allocate(f)
    <2>1. /\ form'[f].pc = "mint" => form[f].pc = "mint"
          /\ form[f].pc = "mint" => form'[f].pc \in {"mint", "done", "dead"}
          /\ form'[f].pc \notin {"create", "refused"}
          /\ form[f].pc \notin {"done", "dead"}
      BY <1>0, <1>5, FormMoves
    <2>2. StoreHasEvent'
      <3> SUFFICES ASSUME NEW g \in Forms,
                          form'[g].pc = "mint" \/ (\E k \in keys' : k.by = g)
                   PROVE  /\ form'[g].pc \in {"mint", "done", "dead"}
                          /\ form'[g].account \in Accounts
                          /\ events'[form'[g].account] = form'[g].merchant
        BY DEF StoreHasEvent
      <3>1. form[g].pc = "mint" \/ (\E k \in keys : k.by = g)
        BY <1>0, <1>2, <2>1
      <3>2. /\ form[g].pc \in {"mint", "done", "dead"}
            /\ form[g].account \in Accounts
            /\ events[form[g].account] = form[g].merchant
        BY <1>0, <3>1 DEF StoreHasEvent
      <3>. QED  BY <1>0, <1>5, <2>1, <3>2
    <2>3. FreeUnlessRaced' /\ RefusedOnlyForARace'
      BY <1>0, <1>5, <2>1 DEF FreeUnlessRaced, RefusedOnlyForARace
    <2>. QED  BY <2>2, <2>3
  <1>. QED  BY <1>1, <1>3, <1>4, <1>5

\* A run shows what it minted before it is done.
LEMMA RunsShowTheirKeys ==
    ASSUME ProvisioningIInv, NEW i \in Inits, RunInit(i), StoreHasEvent'
    PROVE  KeysReachTheirOwner'
  <1>0. /\ TypeOK /\ KeysReachTheirOwner /\ UNCHANGED form
        /\ \A j \in Inits \ {i} : init'[j] = init[j]
        /\ \A k \in keys : k.by \in Inits \/ k.by \in Forms
    BY RunMoves DEF ProvisioningIInv, TypeOK, Key
  <1>1. keys \subseteq keys' /\ (keys' = keys \/ MintKey(i))
    BY DEF RunInit, Start, CreateOperator, SeedStep, LookForEvent,
           CreateDefaultEvent, CountKeys, MintKey, MintLoginLink, Output, InitDies
  <1>2. \/ shown' = shown
        \/ Output(i) /\ keys' = keys /\ shown' = shown \cup {k \in keys : k.by = i}
    BY DEF RunInit, Start, CreateOperator, SeedStep, LookForEvent,
           CreateDefaultEvent, CountKeys, MintKey, MintLoginLink, Output, InitDies
  <1>3. \A k \in keys' : k \in keys \/ k.by = i
    BY <1>1 DEF MintKey
  <1>4. /\ init'[i].pc = "done" => Output(i)
        /\ init'[i].pc # "idle"
    BY <1>0, RunMoves
  <1>5. Output(i) => shown' = shown \cup {k \in keys : k.by = i} /\ keys' = keys
    BY DEF Output
  <1>6. \A k \in keys' \ shown' :
           IF k.by \in Inits THEN AtWork(k.by)' \/ init'[k.by].pc = "dead"
           ELSE form'[k.by].pc \in {"mint", "dead"} \/ form'[k.by].failed
    <2> SUFFICES ASSUME NEW k \in keys' \ shown'
                 PROVE  IF k.by \in Inits
                          THEN AtWork(k.by)' \/ init'[k.by].pc = "dead"
                          ELSE form'[k.by].pc \in {"mint", "dead"} \/ form'[k.by].failed
      OBVIOUS
    <2>1. CASE k.by = i
      <3>1. ~Output(i)
        BY <1>5, <2>1
      <3>. QED  BY <1>4, <2>1, <3>1 DEF AtWork
    <2>2. CASE k.by # i
      <3>1. k \in keys \ shown
        BY <1>2, <1>3, <2>2
      <3>. QED  BY <1>0, <2>2, <3>1 DEF KeysReachTheirOwner, AtWork
    <2>. QED  BY <2>1, <2>2
  <1>7. shown' \subseteq keys'
    BY <1>0, <1>1, <1>2 DEF KeysReachTheirOwner
  <1>8. \A k \in shown' : k.by \in Forms =>
           events'[form'[k.by].account] = form'[k.by].merchant
    BY <1>7 DEF StoreHasEvent
  <1>. QED  BY <1>6, <1>7, <1>8 DEF KeysReachTheirOwner

\* A form shows both keys, or neither, and then an insert of its had failed.
LEMMA FormsShowTheirKeys ==
    ASSUME ProvisioningIInv, NEW f \in Forms, HandleForm(f), StoreHasEvent'
    PROVE  KeysReachTheirOwner'
  <1>0. /\ TypeOK /\ KeysReachTheirOwner /\ StoreHasEvent
        /\ \A g \in Forms \ {f} : form'[g] = form[g]
        /\ f \notin Inits
        /\ \A k \in keys : k.by \in Inits \/ k.by \in Forms
    BY FormMoves, NamesAssumption DEF ProvisioningIInv, TypeOK, Key
  <1>1. UNCHANGED init
    BY DEF HandleForm, LogIn, SessionExpires, Submit, Allocate, CreateStore,
           StoreAnswered, FormDies, MintStoreKey
  <1>2. /\ keys \subseteq keys'
        /\ \A k \in keys' : k \in keys \/ (k.by = f /\ form'[f].pc = "mint")
    <2>1. ASSUME NEW scope \in {"merchant", "readonly"}, MintStoreKey(f, scope)
          PROVE  /\ keys' \subseteq keys \cup {[by |-> f, scope |-> scope]}
                 /\ form'[f].pc = "mint" /\ keys \subseteq keys'
      <3>1. form[f].pc = "mint" /\ ~(form[f].pc \in {"create", "allocate"})
        BY <2>1 DEF MintStoreKey
      <3>2. form'[f].pc = form[f].pc
        BY <1>0, <2>1 DEF MintStoreKey, Fills, TypeOK, Form
      <3>. QED  BY <2>1, <3>1, <3>2 DEF MintStoreKey
    <2>2. \/ UNCHANGED keys
          \/ \E scope \in {"merchant", "readonly"} : MintStoreKey(f, scope)
      BY DEF HandleForm, LogIn, SessionExpires, Submit, Allocate, CreateStore,
             StoreAnswered, FormDies
    <2>. QED  BY <2>1, <2>2
  <1>3. shown' = shown \/ StoreAnswered(f)
    BY DEF HandleForm, LogIn, SessionExpires, Submit, Allocate, CreateStore,
           FormDies, MintStoreKey
  <1>4. StoreAnswered(f) =>
           /\ shown' = IF form[f].failed THEN shown
                       ELSE shown \cup {k \in keys : k.by = f}
           /\ keys' = keys
    BY DEF StoreAnswered
  <1>5. \A k \in keys' \ shown' :
           IF k.by \in Inits THEN AtWork(k.by)' \/ init'[k.by].pc = "dead"
           ELSE form'[k.by].pc \in {"mint", "dead"} \/ form'[k.by].failed
    <2> SUFFICES ASSUME NEW k \in keys' \ shown'
                 PROVE  IF k.by \in Inits
                          THEN AtWork(k.by)' \/ init'[k.by].pc = "dead"
                          ELSE form'[k.by].pc \in {"mint", "dead"} \/ form'[k.by].failed
      OBVIOUS
    <2>1. CASE k.by # f
      <3>1. k \in keys \ shown
        BY <1>2, <1>3, <1>4, <2>1
      <3>. QED  BY <1>0, <1>1, <2>1, <3>1 DEF KeysReachTheirOwner, AtWork
    <2>2. CASE k.by = f
      <3>1. CASE k \notin keys
        BY <1>0, <1>2, <2>2, <3>1
      <3>2. CASE k \in keys
        <4>1. form[f].pc \in {"mint", "done", "dead"}
          BY <1>0, <2>2, <3>2 DEF StoreHasEvent
        <4>2. /\ form[f].pc = "mint" /\ form'[f].pc \in {"mint", "done", "dead"}
              /\ form[f].failed => form'[f].failed
              /\ form'[f].pc = "done" => StoreAnswered(f)
          BY <1>0, <4>1, FormMoves
        <4>3. StoreAnswered(f) => form[f].failed
          BY <1>4, <2>2, <3>2
        <4>. QED  BY <1>0, <2>2, <4>2, <4>3
      <3>. QED  BY <3>1, <3>2
    <2>. QED  BY <2>1, <2>2
  <1>6. shown' \subseteq keys'
    BY <1>0, <1>2, <1>3, <1>4 DEF KeysReachTheirOwner
  <1>7. \A k \in shown' : k.by \in Forms =>
           events'[form'[k.by].account] = form'[k.by].merchant
    BY <1>6 DEF StoreHasEvent
  <1>. QED  BY <1>5, <1>6, <1>7 DEF KeysReachTheirOwner

\* A restart ends every form's work and shows nothing.
LEMMA ServerDiesKeeps ==
    ASSUME ProvisioningIInv, ServerDies
    PROVE  ProvisioningIInv'
  <1>1. /\ UNCHANGED <<operators, seedReady, events, keys, merchants, init,
                       shown, overlap, raced>>
        /\ form' = [f \in Forms |-> [form[f] EXCEPT
              !.pc = CASE @ = "session" -> "idle"
                       [] @ \in {"allocate", "create", "mint"} -> "dead"
                       [] OTHER -> @]]
    BY DEF ServerDies
  <1>2. \A f \in Forms :
           /\ form'[f] \in Form
           /\ form'[f].pc = CASE form[f].pc = "session" -> "idle"
                              [] form[f].pc \in {"allocate", "create", "mint"} -> "dead"
                              [] OTHER -> form[f].pc
           /\ form'[f].merchant = form[f].merchant
           /\ form'[f].account = form[f].account
           /\ form'[f].failed = form[f].failed
    BY <1>1 DEF ProvisioningIInv, TypeOK, Form
  <1>3. TypeOK'
    BY <1>1, <1>2 DEF ProvisioningIInv, TypeOK
  <1>4. OverlapIsSeen' /\ MintersOverlap' /\ InitMintsOnce'
    BY <1>1, RunsAtRest DEF ProvisioningIInv
  <1>5. StoreHasEvent'
    BY <1>1, <1>2 DEF ProvisioningIInv, StoreHasEvent
  <1>6. FreeUnlessRaced' /\ RefusedOnlyForARace'
    BY <1>1, <1>2 DEF ProvisioningIInv, FreeUnlessRaced, RefusedOnlyForARace
  <1>7. KeysReachTheirOwner'
    <2>1. \A k \in keys : k.by \in Inits \/ k.by \in Forms
      BY DEF ProvisioningIInv, TypeOK, Key
    <2>2. \A k \in keys \ shown :
             IF k.by \in Inits THEN AtWork(k.by)' \/ init'[k.by].pc = "dead"
             ELSE form'[k.by].pc \in {"mint", "dead"} \/ form'[k.by].failed
      BY <1>1, <1>2, <2>1 DEF ProvisioningIInv, KeysReachTheirOwner, AtWork
    <2>3. \A k \in shown : k.by \in Forms =>
             events[form'[k.by].account] = form'[k.by].merchant
      BY <1>2 DEF ProvisioningIInv, KeysReachTheirOwner
    <2>. QED  BY <1>1, <2>2, <2>3 DEF ProvisioningIInv, KeysReachTheirOwner
  <1>. QED  BY <1>3, <1>4, <1>5, <1>6, <1>7 DEF ProvisioningIInv

\* Steps that neither a run nor a form takes.
LEMMA OutsideKeeps ==
    ASSUME ProvisioningIInv,
           \/ OperatorInit \/ UNCHANGED provisioningVars
           \/ \E m \in Merchants : SignUp(m)
           \/ \E a \in Accounts, owner \in Merchants \cup {None} : PostEvent(a, owner)
    PROVE  ProvisioningIInv'
  <1>1. UNCHANGED <<seedReady, keys, init, form, shown, overlap>>
    BY DEF OperatorInit, provisioningVars, SignUp, PostEvent
  <1>2. \/ UNCHANGED <<events, raced>>
        \/ \E a \in Accounts, owner \in Merchants \cup {None} :
              Insertable(a) /\ InsertEvent(a, owner)
    BY DEF OperatorInit, provisioningVars, SignUp, PostEvent
  <1>3. TypeOK'
    <2>1. /\ events' \in [Accounts -> Merchants \cup {None, Unused}]
          /\ raced' \subseteq Forms
      BY <1>2 DEF ProvisioningIInv, TypeOK, InsertEvent
    <2>2. operators' \subseteq {"placeholder", "human"} /\ merchants' \subseteq Merchants
      BY DEF ProvisioningIInv, TypeOK, OperatorInit, provisioningVars, SignUp, PostEvent
    <2>. QED  BY <1>1, <2>1, <2>2 DEF ProvisioningIInv, TypeOK
  <1>4. OverlapIsSeen' /\ MintersOverlap' /\ InitMintsOnce'
    BY <1>1, RunsAtRest DEF ProvisioningIInv
  <1>5. StoreHasEvent' /\ FreeUnlessRaced' /\ RefusedOnlyForARace'
    BY <1>1, <1>2, FormsAtRest DEF ProvisioningIInv
  <1>6. KeysReachTheirOwner'
    <2>1. \A k \in shown : k.by \in Forms =>
             events'[form[k.by].account] = form[k.by].merchant
      BY <1>1, <1>5 DEF ProvisioningIInv, KeysReachTheirOwner, StoreHasEvent
    <2>. QED  BY <1>1, <2>1 DEF ProvisioningIInv, KeysReachTheirOwner, AtWork
  <1>. QED  BY <1>3, <1>4, <1>5, <1>6 DEF ProvisioningIInv

LEMMA ProvisioningNextInv == ProvisioningIInv /\ [Next]_provisioningVars => ProvisioningIInv'
  <1> SUFFICES ASSUME ProvisioningIInv, [Next]_provisioningVars PROVE ProvisioningIInv'
    OBVIOUS
  <1>1. ASSUME NEW i \in Inits, RunInit(i) PROVE ProvisioningIInv'
    <2>1. TypeOK'
      BY <1>1, RunTypes DEF ProvisioningIInv
    <2>2. UNCHANGED form
      BY <1>1, RunMoves DEF ProvisioningIInv
    <2>3. \A k \in keys' : k \in keys \/ k.by \notin Forms
      <3>1. keys' = keys \/ keys' = keys \cup {[by |-> i, scope |-> init[i].pc]}
        BY <1>1 DEF RunInit, Start, CreateOperator, SeedStep, LookForEvent,
               CreateDefaultEvent, CountKeys, MintKey, MintLoginLink, Output,
               InitDies
      <3>. QED  BY <3>1, NamesAssumption
    <2>4. \/ UNCHANGED <<events, raced>>
          \/ \E a \in Accounts, owner \in Merchants \cup {None} :
                Insertable(a) /\ InsertEvent(a, owner)
      <3>1. CASE CreateDefaultEvent(i)
        BY <3>1 DEF CreateDefaultEvent, Insertable
      <3>. QED  BY <1>1, <3>1 DEF RunInit, Start, CreateOperator, SeedStep,
                   LookForEvent, CountKeys, MintKey, MintLoginLink, Output,
                   InitDies
    <2>5. StoreHasEvent' /\ FreeUnlessRaced' /\ RefusedOnlyForARace'
      BY <2>2, <2>3, <2>4, FormsAtRest DEF ProvisioningIInv
    <2>. QED  BY <1>1, <2>1, <2>5, RunsMintOnce, RunsShowTheirKeys DEF ProvisioningIInv
  <1>2. ASSUME NEW f \in Forms, HandleForm(f) PROVE ProvisioningIInv'
    <2>1. TypeOK'
      BY <1>2, FormTypes DEF ProvisioningIInv
    <2>2. StoreHasEvent' /\ FreeUnlessRaced' /\ RefusedOnlyForARace'
      BY <1>2, <2>1, FormsGetTheirEvents
    <2>3. UNCHANGED <<init, overlap>>
      BY <1>2 DEF HandleForm, LogIn, SessionExpires, Submit, Allocate,
             CreateStore, StoreAnswered, FormDies, MintStoreKey
    <2>4. \A k \in keys' : k \in keys \/ k.by \notin Inits
      <3>1. \A scope : MintStoreKey(f, scope) =>
               keys' \subseteq keys \cup {[by |-> f, scope |-> scope]}
        BY DEF MintStoreKey
      <3>2. keys' = keys \/ \E scope : MintStoreKey(f, scope)
        BY <1>2 DEF HandleForm, LogIn, SessionExpires, Submit, Allocate,
               CreateStore, StoreAnswered, FormDies
      <3>. QED  BY <3>1, <3>2, NamesAssumption
    <2>5. OverlapIsSeen' /\ MintersOverlap' /\ InitMintsOnce'
      BY <2>3, <2>4, RunsAtRest DEF ProvisioningIInv
    <2>. QED  BY <1>2, <2>1, <2>2, <2>5, FormsShowTheirKeys DEF ProvisioningIInv
  <1>. QED  BY <1>1, <1>2, ServerDiesKeeps, OutsideKeeps DEF Next

-----------------------------------------------------------------------------
(* Provisioning: theorems *)

LEMMA ProvisioningAlways == Spec => []ProvisioningIInv
  BY ProvisioningInitInv, ProvisioningNextInv, PTL DEF Spec

\* Rows, runs, forms and history keep their types; an account that a form
\* computes is never beyond the one after the largest.
THEOREM ProvisioningTypeCorrect == Spec => []TypeOK
  <1>1. ProvisioningIInv => TypeOK
    BY DEF ProvisioningIInv
  <1>. QED  BY ProvisioningAlways, <1>1, PTL

\* init is safe to run again: of runs that did not overlap, one mints keys.
THEOREM RerunsMintNothing == Spec => []InitMintsOnce
  <1>1. ProvisioningIInv => InitMintsOnce
    BY DEF ProvisioningIInv
  <1>. QED  BY ProvisioningAlways, <1>1, PTL

\* Whoever comes through shows all the keys it minted, and what is shown works,
\* a store's key for an event of its merchant.
THEOREM KeysAreDelivered == Spec => []KeysReachTheirOwner
  <1>1. ProvisioningIInv => KeysReachTheirOwner
    BY DEF ProvisioningIInv
  <1>. QED  BY ProvisioningAlways, <1>1, PTL

\* A store form is refused only because another event was created since its
\* account was computed, or because the accounts have come to their end.
THEOREM OnlyRacesRefuse == Spec => []RefusedOnlyForARace
  <1>1. ProvisioningIInv => RefusedOnlyForARace
    BY DEF ProvisioningIInv
  <1>. QED  BY ProvisioningAlways, <1>1, PTL
=============================================================================
