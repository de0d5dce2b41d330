----------------------------- MODULE Sweep_proofs -----------------------------
(***************************************************************************)
(* Theorems about Sweep for every set of addresses, intents and runs, and  *)
(* about the checks of a run for every item and transaction.               *)
(***************************************************************************)
EXTENDS SweepChecks, TLAPS

-----------------------------------------------------------------------------
(* What the steps of a run do to its locals *)

LEMMA BecomesEffect ==
    ASSUME TypeOK, NEW r \in Runs, NEW locals \in Run, Becomes(r, locals)
    PROVE  /\ run' \in [Runs -> Run] /\ run'[r] = locals
           /\ \A s \in Runs : s # r => run'[s] = run[s]
  BY DEF TypeOK, Becomes

\* Steps that only move a run along, or fill in what it verified.
Moves(r) == Begin(r) \/ Build(r) \/ BuiltAll(r) \/ SentAll(r) \/ RunDies(r)
                \/ RefuseReport(r) \/ HandlerDies(r)

LEMMA MovesEffect ==
    ASSUME TypeOK, NEW r \in Runs, Moves(r)
    PROVE  /\ run' \in [Runs -> Run]
           /\ \A s \in Runs : s # r => run'[s] = run[s]
           /\ run'[r].intent = run[r].intent
           /\ run'[r].succeeded = run[r].succeeded
           /\ run'[r].merged = run[r].merged
           /\ run[r].verified \subseteq run'[r].verified
           /\ run'[r].pc \notin {"idle", "storing", "marking"}
           /\ run'[r].pc = "building" =>
                 /\ run[r].pc = "idle" /\ run'[r].remaining = Items(run[r].intent)
                 \/ /\ run[r].pc = "building"
                    /\ run[r].verified \cup run[r].remaining
                          \subseteq run'[r].verified \cup run'[r].remaining
                    /\ run'[r].remaining \subseteq run[r].remaining
           /\ run'[r].pc = "sending" =>
                 /\ run[r].pc = "building" /\ run[r].remaining = {}
                 /\ run'[r].remaining = Items(run[r].intent)
           /\ run'[r].pc = "reporting" => run[r].pc = "sending"
           /\ run'[r].pc = "done" => run[r].pc # "idle"
           /\ run[r].pc = "idle" => intents[run[r].intent].status # "none"
           /\ UNCHANGED <<balance, mempool, moved, received, intents, taken,
                          contended>>
  <1>1. /\ run[r] \in Run
        /\ \A i \in Intents : Items(i) \subseteq Addresses
    BY DEF TypeOK, Items
  <1>2. CASE Begin(r)
    <2> DEFINE locals == [run[r] EXCEPT !.pc = "building",
                                        !.remaining = Items(run[r].intent)]
    <2>1. /\ locals \in Run /\ locals.pc = "building"
          /\ locals.remaining = Items(run[r].intent)
          /\ locals.intent = run[r].intent /\ locals.merged = run[r].merged
          /\ locals.succeeded = run[r].succeeded
          /\ locals.verified = run[r].verified
      BY <1>1 DEF Run
    <2>2. Becomes(r, locals)
      BY <1>2 DEF Begin
    <2>. HIDE DEF locals
    <2>. QED  BY <1>2, <2>1, <2>2, BecomesEffect DEF Begin
  <1>3. CASE Build(r)
    <2>1. PICK a \in run[r].remaining :
              Becomes(r, [run[r] EXCEPT !.verified = @ \cup {a},
                                        !.remaining = @ \ {a}])
      BY <1>3 DEF Build
    <2> DEFINE locals == [run[r] EXCEPT !.verified = @ \cup {a},
                                        !.remaining = @ \ {a}]
    <2>2. /\ locals \in Run /\ locals.pc = run[r].pc
          /\ locals.remaining = run[r].remaining \ {a}
          /\ locals.intent = run[r].intent /\ locals.merged = run[r].merged
          /\ locals.succeeded = run[r].succeeded
          /\ locals.verified = run[r].verified \cup {a}
      BY <1>1 DEF Run
    <2>3. Becomes(r, locals)
      BY <2>1
    <2>. HIDE DEF locals
    <2>. QED  BY <1>3, <2>2, <2>3, BecomesEffect DEF Build
  <1>4. CASE BuiltAll(r)
    <2> DEFINE locals == [run[r] EXCEPT !.pc = "sending",
                                        !.remaining = Items(run[r].intent)]
    <2>1. /\ locals \in Run /\ locals.pc = "sending"
          /\ locals.remaining = Items(run[r].intent)
          /\ locals.intent = run[r].intent /\ locals.merged = run[r].merged
          /\ locals.succeeded = run[r].succeeded
          /\ locals.verified = run[r].verified
      BY <1>1 DEF Run
    <2>2. Becomes(r, locals)
      BY <1>4 DEF BuiltAll
    <2>. HIDE DEF locals
    <2>. QED  BY <1>4, <2>1, <2>2, BecomesEffect DEF BuiltAll
  <1>5. CASE SentAll(r)
    <2> DEFINE locals == [run[r] EXCEPT
                !.pc = IF run[r].succeeded = {} THEN "done" ELSE "reporting"]
    <2>1. /\ locals \in Run /\ locals.pc \in {"done", "reporting"}
          /\ locals.intent = run[r].intent /\ locals.merged = run[r].merged
          /\ locals.succeeded = run[r].succeeded
          /\ locals.verified = run[r].verified
      BY <1>1 DEF Run
    <2>2. Becomes(r, locals)
      BY <1>5 DEF SentAll
    <2>. HIDE DEF locals
    <2>. QED  BY <1>5, <2>1, <2>2, BecomesEffect DEF SentAll
  <1>6. CASE RunDies(r) \/ RefuseReport(r) \/ HandlerDies(r)
    <2> DEFINE locals == [run[r] EXCEPT !.pc = "done"]
    <2>1. /\ locals \in Run /\ locals.pc = "done"
          /\ locals.intent = run[r].intent /\ locals.merged = run[r].merged
          /\ locals.succeeded = run[r].succeeded
          /\ locals.verified = run[r].verified
      BY <1>1 DEF Run
    <2>2. /\ Becomes(r, locals) /\ run[r].pc # "idle"
          /\ UNCHANGED <<balance, mempool, moved, received, intents, taken,
                         contended>>
      BY <1>6 DEF RunDies, RefuseReport, HandlerDies
    <2>. HIDE DEF locals
    <2>. QED  BY <2>1, <2>2, BecomesEffect
  <1>. QED  BY <1>2, <1>3, <1>4, <1>5, <1>6 DEF Moves

\* A broadcast adds a transfer of the run's own, and a success if it was
\* confirmed.
LEMMA SendEffect ==
    ASSUME TypeOK, NEW r \in Runs, NEW a \in Addresses, Send(r, a)
    PROVE  /\ run' \in [Runs -> Run]
           /\ \A s \in Runs : s # r => run'[s] = run[s]
           /\ run'[r].intent = run[r].intent
           /\ run'[r].verified = run[r].verified
           /\ run'[r].merged = run[r].merged
           /\ run'[r].pc = "sending"
           /\ run'[r].remaining = run[r].remaining \ {a}
           /\ taken \subseteq taken' /\ taken' \subseteq taken \cup {<<r, a>>}
           /\ \/ run'[r].succeeded = run[r].succeeded
              \/ /\ run'[r].succeeded = run[r].succeeded \cup {a}
                 /\ <<r, a>> \in taken'
           /\ mempool' \subseteq mempool \cup {<<r, a>>}
           /\ UNCHANGED <<balance, moved, received, intents, contended>>
           /\ run[r].pc = "sending" /\ a \in run[r].remaining
  <1>1. PICK took \in BOOLEAN, answered \in BOOLEAN :
          /\ mempool' = IF took THEN mempool \cup {<<r, a>>} ELSE mempool
          /\ taken' = IF took THEN taken \cup {<<r, a>>} ELSE taken
          /\ Becomes(r, [run[r] EXCEPT
                !.remaining = @ \ {a},
                !.succeeded = IF took /\ answered THEN @ \cup {a} ELSE @])
    BY DEF Send
  <1> DEFINE locals == [run[r] EXCEPT
                !.remaining = @ \ {a},
                !.succeeded = IF took /\ answered THEN @ \cup {a} ELSE @]
  <1>2. run[r] \in Run /\ run[r].pc = "sending" /\ a \in run[r].remaining
    BY DEF TypeOK, Send
  <1>3. /\ locals \in Run /\ locals.pc = "sending"
        /\ locals.remaining = run[r].remaining \ {a}
        /\ locals.intent = run[r].intent /\ locals.merged = run[r].merged
        /\ locals.verified = run[r].verified
        /\ locals.succeeded = IF took /\ answered THEN run[r].succeeded \cup {a}
                                                  ELSE run[r].succeeded
    BY <1>2 DEF Run
  <1>4. Becomes(r, locals)
    BY <1>1
  <1>. HIDE DEF locals
  <1>5. /\ run' \in [Runs -> Run] /\ run'[r] = locals
        /\ \A s \in Runs : s # r => run'[s] = run[s]
    BY <1>3, <1>4, BecomesEffect
  <1>. QED  BY <1>1, <1>2, <1>3, <1>5 DEF Send

\* Each step of the report handler: it takes what it read, it writes the
\* items, it writes the status.
LEMMA ReadEffect ==
    ASSUME TypeOK, NEW r \in Runs, ReadIntent(r)
    PROVE  /\ run' \in [Runs -> Run]
           /\ \A s \in Runs : s # r => run'[s] = run[s]
           /\ run'[r].intent = run[r].intent
           /\ run'[r].verified = run[r].verified
           /\ run'[r].succeeded = run[r].succeeded
           /\ run'[r].pc = "storing" /\ run[r].pc = "reporting"
           /\ run'[r].merged = Merged(r)
           /\ intents[run[r].intent].status # "broadcast"
           /\ contended' = IF HandledNow(run[r].intent) # {}
                             THEN contended \cup {run[r].intent} ELSE contended
           /\ UNCHANGED <<balance, mempool, moved, received, intents, taken>>
  <1> DEFINE locals == [run[r] EXCEPT !.pc = "storing", !.merged = Merged(r)]
  <1>1. run[r] \in Run /\ intents[run[r].intent] \in IntentRow
    BY DEF TypeOK, Run
  <1>2. Merged(r) \in [Addresses -> Hash]
    BY <1>1 DEF Merged, IntentRow, Hash
  <1>3. /\ locals \in Run /\ locals.pc = "storing" /\ locals.merged = Merged(r)
        /\ locals.intent = run[r].intent
        /\ locals.succeeded = run[r].succeeded
        /\ locals.verified = run[r].verified
    BY <1>1, <1>2 DEF Run
  <1>4. Becomes(r, locals)
    BY DEF ReadIntent
  <1>. HIDE DEF locals
  <1>. QED  BY <1>3, <1>4, BecomesEffect DEF ReadIntent, TakesReport

LEMMA ItemsEffect ==
    ASSUME TypeOK, NEW r \in Runs, UpdateItems(r)
    PROVE  /\ run' \in [Runs -> Run]
           /\ \A s \in Runs : s # r => run'[s] = run[s]
           /\ run'[r].intent = run[r].intent
           /\ run'[r].verified = run[r].verified
           /\ run'[r].succeeded = run[r].succeeded
           /\ run'[r].merged = run[r].merged
           /\ run'[r].pc = "marking" /\ run[r].pc = "storing"
           /\ intents' \in [Intents -> IntentRow]
           /\ \A i \in Intents : i # run[r].intent => intents'[i] = intents[i]
           /\ intents'[run[r].intent].hash = run[r].merged
           /\ intents'[run[r].intent].status = intents[run[r].intent].status
           /\ intents'[run[r].intent].amount = intents[run[r].intent].amount
           /\ UNCHANGED <<balance, mempool, moved, received, taken, contended>>
  <1> DEFINE locals == [run[r] EXCEPT !.pc = "marking"]
  <1>1. run[r] \in Run /\ intents \in [Intents -> IntentRow]
    BY DEF TypeOK
  <1>2. /\ locals \in Run /\ locals.pc = "marking"
        /\ locals.merged = run[r].merged /\ locals.intent = run[r].intent
        /\ locals.succeeded = run[r].succeeded
        /\ locals.verified = run[r].verified
    BY <1>1 DEF Run
  <1>3. Becomes(r, locals)
    BY DEF UpdateItems
  <1>. HIDE DEF locals
  <1>4. /\ run' \in [Runs -> Run] /\ run'[r] = locals
        /\ \A s \in Runs : s # r => run'[s] = run[s]
    BY <1>2, <1>3, BecomesEffect
  <1> DEFINE row == [intents[run[r].intent] EXCEPT !.hash = run[r].merged]
  <1>5. run[r].intent \in Intents /\ run[r].merged \in [Addresses -> Hash]
    BY <1>1 DEF Run
  <1>6. /\ row \in IntentRow /\ row.hash = run[r].merged
        /\ row.status = intents[run[r].intent].status
        /\ row.amount = intents[run[r].intent].amount
    BY <1>1, <1>5 DEF IntentRow
  <1>7. intents' = [intents EXCEPT ![run[r].intent] = row]
    BY DEF UpdateItems
  <1>. HIDE DEF row
  <1>8. /\ intents' \in [Intents -> IntentRow]
        /\ \A i \in Intents : i # run[r].intent => intents'[i] = intents[i]
        /\ intents'[run[r].intent] = row
    BY <1>1, <1>5, <1>6, <1>7
  <1>. QED  BY <1>2, <1>4, <1>6, <1>8 DEF UpdateItems

LEMMA StatusEffect ==
    ASSUME TypeOK, NEW r \in Runs, UpdateStatus(r)
    PROVE  /\ run' \in [Runs -> Run]
           /\ \A s \in Runs : s # r => run'[s] = run[s]
           /\ run'[r].intent = run[r].intent
           /\ run'[r].verified = run[r].verified
           /\ run'[r].succeeded = run[r].succeeded
           /\ run'[r].merged = run[r].merged
           /\ run'[r].pc = "done" /\ run[r].pc = "marking"
           /\ intents' \in [Intents -> IntentRow]
           /\ \A i \in Intents : i # run[r].intent => intents'[i] = intents[i]
           /\ intents'[run[r].intent].hash = intents[run[r].intent].hash
           /\ intents'[run[r].intent].amount = intents[run[r].intent].amount
           /\ intents'[run[r].intent].status =
                 IF AllBroadcasted(r) THEN "broadcast" ELSE "partially_broadcast"
           /\ UNCHANGED <<balance, mempool, moved, received, taken, contended>>
  <1> DEFINE locals == [run[r] EXCEPT !.pc = "done"]
  <1>1. run[r] \in Run /\ intents \in [Intents -> IntentRow]
    BY DEF TypeOK
  <1>2. /\ locals \in Run /\ locals.pc = "done"
        /\ locals.merged = run[r].merged /\ locals.intent = run[r].intent
        /\ locals.succeeded = run[r].succeeded
        /\ locals.verified = run[r].verified
    BY <1>1 DEF Run
  <1>3. Becomes(r, locals)
    BY DEF UpdateStatus
  <1>. HIDE DEF locals
  <1>4. /\ run' \in [Runs -> Run] /\ run'[r] = locals
        /\ \A s \in Runs : s # r => run'[s] = run[s]
    BY <1>2, <1>3, BecomesEffect
  <1> DEFINE status == IF AllBroadcasted(r) THEN "broadcast"
                                            ELSE "partially_broadcast"
             row == [intents[run[r].intent] EXCEPT !.status = status]
  <1>5. run[r].intent \in Intents
    BY <1>1 DEF Run
  <1>6. status \in {"none", "prepared", "partially_broadcast", "broadcast"}
    OBVIOUS
  <1>7. intents' = [intents EXCEPT ![run[r].intent] = row]
    BY DEF UpdateStatus
  <1>. HIDE DEF status
  <1>8. /\ row \in IntentRow /\ row.status = status
        /\ row.hash = intents[run[r].intent].hash
        /\ row.amount = intents[run[r].intent].amount
    BY <1>1, <1>5, <1>6 DEF IntentRow
  <1>. HIDE DEF row
  <1>9. /\ intents' \in [Intents -> IntentRow]
        /\ \A i \in Intents : i # run[r].intent => intents'[i] = intents[i]
        /\ intents'[run[r].intent] = row
    BY <1>1, <1>5, <1>7, <1>8
  <1>. QED  BY <1>2, <1>4, <1>8, <1>9 DEF UpdateStatus, status

LEMMA PrepareEffect ==
    ASSUME TypeOK, NEW i \in Intents, Prepare(i)
    PROVE  /\ intents' \in [Intents -> IntentRow]
           /\ \A j \in Intents : j # i => intents'[j] = intents[j]
           /\ intents[i].status = "none" /\ intents'[i].status = "prepared"
           /\ intents'[i].hash = NoHashes
           /\ UNCHANGED <<balance, mempool, moved, received, run, taken,
                          contended>>
  <1>1. PICK chosen \in SUBSET Sweepable \ {{}} :
          intents' = [intents EXCEPT ![i] =
             [status |-> "prepared", hash |-> NoHashes,
              amount |-> [a \in Addresses |-> IF a \in chosen THEN received[a]
                                                             ELSE 0]]]
    BY DEF Prepare
  <1> DEFINE amount == [a \in Addresses |-> IF a \in chosen THEN received[a]
                                                            ELSE 0]
             row == [status |-> "prepared", hash |-> NoHashes,
                     amount |-> amount]
  <1>2. amount \in [Addresses -> Nat]
    BY DEF TypeOK
  <1>3. NoHashes \in [Addresses -> Hash]
    BY DEF NoHashes, Hash
  <1>. HIDE DEF amount
  <1>4. row \in IntentRow
    BY <1>2, <1>3 DEF IntentRow
  <1>. QED  BY <1>1, <1>4 DEF amount, TypeOK, Prepare

-----------------------------------------------------------------------------
(* Types *)

\* A step is one of the chain, a preparation or a step of a run.
LEMMA StepKinds ==
    ASSUME Next
    PROVE  \/ Chain
           \/ \E i \in Intents : Prepare(i)
           \/ \E r \in Runs : \/ Moves(r) \/ ReadIntent(r) \/ UpdateItems(r)
                              \/ UpdateStatus(r)
                              \/ \E a \in Addresses : Send(r, a)
  BY DEF Next, Execute, Report, Moves

\* What the chain leaves alone.
LEMMA ChainEffect ==
    ASSUME Chain
    PROVE  UNCHANGED <<intents, run, taken, contended>>
  BY DEF Chain, CreditUnit, TakeEffect, ComeToNothing

LEMMA ChainKeepsTypes ==
    ASSUME TypeOK, Chain
    PROVE  TypeOK'
  <1>1. ASSUME NEW a \in Addresses, CreditUnit(a)
        PROVE  TypeOK'
    <2>1. /\ balance' \in [Addresses -> Nat] /\ received' \in [Addresses -> Nat]
      BY <1>1 DEF TypeOK, CreditUnit
    <2>. QED  BY <1>1, <2>1 DEF TypeOK, CreditUnit
  <1>2. ASSUME NEW r \in Runs, NEW a \in Addresses, TakeEffect(r, a)
        PROVE  TypeOK'
    <2> DEFINE amount == intents[run[r].intent].amount[a]
    <2>1. run[r] \in Run
      BY DEF TypeOK
    <2>2. intents[run[r].intent] \in IntentRow
      BY <2>1 DEF TypeOK, Run
    <2>3. amount \in Nat
      BY <2>2 DEF IntentRow
    <2>4. /\ amount <= balance[a]
          /\ balance' = [balance EXCEPT ![a] = @ - amount]
          /\ mempool' = mempool \ {<<r, a>>}
          /\ moved' = moved \cup {<<r, a>>}
      BY <1>2 DEF TakeEffect
    <2>. HIDE DEF amount
    <2>5. balance[a] - amount \in Nat
      BY <2>3, <2>4 DEF TypeOK
    <2>6. balance' \in [Addresses -> Nat]
      BY <2>4, <2>5 DEF TypeOK
    <2>7. mempool' \subseteq Transfers /\ moved' \subseteq Transfers
      BY <2>4 DEF TypeOK, Transfers
    <2>. QED  BY <1>2, <2>6, <2>7 DEF TypeOK, TakeEffect
  <1>3. ASSUME NEW r \in Runs, NEW a \in Addresses, ComeToNothing(r, a)
        PROVE  TypeOK'
    BY <1>3 DEF TypeOK, ComeToNothing
  <1>. QED  BY <1>1, <1>2, <1>3 DEF Chain

LEMMA TypeStep ==
    ASSUME TypeOK, [Next]_sweepVars
    PROVE  TypeOK'
  <1>1. CASE UNCHANGED sweepVars
    BY <1>1 DEF TypeOK, sweepVars
  <1>2. CASE Chain
    BY <1>2, ChainKeepsTypes
  <1>3. ASSUME NEW i \in Intents, Prepare(i)
        PROVE  TypeOK'
    BY <1>3, PrepareEffect DEF TypeOK
  <1>4. ASSUME NEW r \in Runs, Moves(r)
        PROVE  TypeOK'
    BY <1>4, MovesEffect DEF TypeOK
  <1>5. ASSUME NEW r \in Runs, NEW a \in Addresses, Send(r, a)
        PROVE  TypeOK'
    <2>1. <<r, a>> \in Transfers
      BY DEF Transfers
    <2>. QED  BY <1>5, <2>1, SendEffect DEF TypeOK
  <1>6. ASSUME NEW r \in Runs, ReadIntent(r)
        PROVE  TypeOK'
    <2>1. run[r].intent \in Intents
      BY DEF TypeOK, Run
    <2>. QED  BY <1>6, <2>1, ReadEffect DEF TypeOK
  <1>7. ASSUME NEW r \in Runs, UpdateItems(r)
        PROVE  TypeOK'
    BY <1>7, ItemsEffect DEF TypeOK
  <1>8. ASSUME NEW r \in Runs, UpdateStatus(r)
        PROVE  TypeOK'
    BY <1>8, StatusEffect DEF TypeOK
  <1>. QED
    BY <1>1, <1>2, <1>3, <1>4, <1>5, <1>6, <1>7, <1>8, StepKinds

LEMMA InitTypes ==
    ASSUME Init
    PROVE  TypeOK
  <1>1. NoHashes \in [Addresses -> Hash]
    BY DEF NoHashes, Hash
  <1>2. intents \in [Intents -> IntentRow]
    BY <1>1 DEF Init, IntentRow
  <1>3. run \in [Runs -> Run]
    BY <1>1 DEF Init, Run
  <1>. QED  BY <1>2, <1>3 DEF Init, TypeOK

\* Rows, locals and ledgers keep their types; in particular no address is
\* ever drawn below zero.
THEOREM TypeCorrect == Spec => []TypeOK
  BY InitTypes, TypeStep, PTL DEF Spec

-----------------------------------------------------------------------------
(* What every step leaves as it was *)

\* A run stays with its intent, and the ledger of broadcasts only grows.
LEMMA RunsKeepIntent ==
    ASSUME TypeOK, Next
    PROVE  /\ \A r \in Runs : run'[r].intent = run[r].intent
           /\ taken \subseteq taken' /\ contended \subseteq contended'
  <1>1. CASE Chain
    BY <1>1, ChainEffect
  <1>2. ASSUME NEW i \in Intents, Prepare(i)
        PROVE  /\ \A r \in Runs : run'[r].intent = run[r].intent
               /\ taken \subseteq taken' /\ contended \subseteq contended'
    BY <1>2, PrepareEffect
  <1>3. ASSUME NEW r \in Runs,
               \/ Moves(r) \/ ReadIntent(r) \/ UpdateItems(r)
               \/ UpdateStatus(r) \/ \E a \in Addresses : Send(r, a)
        PROVE  /\ \A s \in Runs : run'[s].intent = run[s].intent
               /\ taken \subseteq taken' /\ contended \subseteq contended'
    BY <1>3, MovesEffect, SendEffect, ReadEffect, ItemsEffect, StatusEffect
  <1>. QED  BY <1>1, <1>2, <1>3, StepKinds

\* A run's locals change only in its own steps.
LEMMA OwnSteps ==
    ASSUME TypeOK, Next, NEW r \in Runs
    PROVE  \/ run'[r] = run[r]
           \/ Moves(r) \/ ReadIntent(r) \/ UpdateItems(r) \/ UpdateStatus(r)
           \/ \E a \in Addresses : Send(r, a)
  <1>1. CASE run' = run
    BY <1>1
  <1>2. ASSUME NEW s \in Runs, s # r,
               \/ Moves(s) \/ ReadIntent(s) \/ UpdateItems(s)
               \/ UpdateStatus(s) \/ \E a \in Addresses : Send(s, a)
        PROVE  run'[r] = run[r]
    <2>1. CASE Moves(s)
      BY <1>2, <2>1, MovesEffect
    <2>2. CASE ReadIntent(s) \/ UpdateItems(s) \/ UpdateStatus(s)
      BY <1>2, <2>2, ReadEffect, ItemsEffect, StatusEffect
    <2>3. ASSUME NEW a \in Addresses, Send(s, a)
          PROVE  run'[r] = run[r]
      BY <1>2, <2>3, SendEffect
    <2>. QED  BY <1>2, <2>1, <2>2, <2>3
  <1>. QED  BY <1>1, <1>2, StepKinds, ChainEffect, PrepareEffect

\* A prepared intent keeps its items, and a row is written only by
\* preparing it or by the two writes of a report.
LEMMA PreparedKeepsItems ==
    ASSUME TypeOK, Next, NEW i \in Intents, intents[i].status # "none"
    PROVE  Items(i)' = Items(i) /\ intents'[i].status # "none"
  <1>1. CASE UNCHANGED intents
    BY <1>1 DEF Items
  <1>2. ASSUME NEW j \in Intents, Prepare(j)
        PROVE  intents'[i] = intents[i]
    BY <1>2, PrepareEffect
  <1>3. ASSUME NEW r \in Runs, UpdateItems(r) \/ UpdateStatus(r)
        PROVE  /\ intents'[i].amount = intents[i].amount
               /\ intents'[i].status # "none"
    <2>1. i = run[r].intent \/ intents'[i] = intents[i]
      BY <1>3, ItemsEffect, StatusEffect
    <2>. QED  BY <1>3, <2>1, ItemsEffect, StatusEffect
  <1>4. \/ UNCHANGED intents
        \/ \E j \in Intents : Prepare(j)
        \/ \E r \in Runs : UpdateItems(r) \/ UpdateStatus(r)
    BY StepKinds, ChainEffect, MovesEffect, SendEffect, ReadEffect
  <1>. QED  BY <1>1, <1>2, <1>3, <1>4 DEF Items

-----------------------------------------------------------------------------
(* Every recorded hash was broadcast *)

\* What a run's hashes, held by a row or by a handler, must be for intent i.
Genuine(hash, i) ==
    \A a \in Addresses :
        hash[a] # NoHash => /\ <<hash[a], a>> \in taken
                            /\ a \in Items(i) /\ run[hash[a]].intent = i

\* The claim of RecordedWasBroadcast followed back: to what the handler
\* holds, to the successes a run counts, to the items its loop visits; and
\* no run of an intent begins before the intent is prepared.
RecordInv ==
    /\ TypeOK
    /\ \A i \in Intents : /\ Genuine(intents[i].hash, i)
                          /\ intents[i].status = "none"
                                => intents[i].hash = NoHashes
    /\ \A r \in Runs :
          /\ run[r].pc = "idle" => run[r].succeeded = {}
          /\ run[r].pc # "idle" => intents[run[r].intent].status # "none"
          /\ run[r].pc = "sending"
                => run[r].remaining \subseteq Items(run[r].intent)
          /\ \A a \in run[r].succeeded :
                <<r, a>> \in taken /\ a \in Items(run[r].intent)
          /\ run[r].pc \in {"storing", "marking"}
                => Genuine(run[r].merged, run[r].intent)

LEMMA GenuineKept ==
    ASSUME TypeOK, Next, NEW i \in Intents, NEW hash \in [Addresses -> Hash],
           intents[i].status # "none", Genuine(hash, i)
    PROVE  \A a \in Addresses :
              hash[a] # NoHash => /\ <<hash[a], a>> \in taken'
                                  /\ a \in Items(i)' /\ run'[hash[a]].intent = i
  <1>1. /\ \A r \in Runs : run'[r].intent = run[r].intent
        /\ taken \subseteq taken' /\ Items(i)' = Items(i)
    BY RunsKeepIntent, PreparedKeepsItems
  <1>2. \A a \in Addresses : hash[a] # NoHash => hash[a] \in Runs
    BY DEF Hash
  <1>. QED  BY <1>1, <1>2 DEF Genuine

\* What a handler is about to write is genuine: its own successes, and what
\* the row had.
LEMMA MergedGenuine ==
    ASSUME RecordInv, NEW r \in Runs
    PROVE  Merged(r) \in [Addresses -> Hash] /\ Genuine(Merged(r), run[r].intent)
  <1>1. run[r].intent \in Intents
    BY DEF RecordInv, TypeOK, Run
  <1>2. intents[run[r].intent].hash \in [Addresses -> Hash]
    BY <1>1 DEF RecordInv, TypeOK, IntentRow
  <1>3. Merged(r) \in [Addresses -> Hash]
    BY <1>2 DEF Merged, Hash
  <1>. QED  BY <1>1, <1>3 DEF RecordInv, Genuine, Merged

\* The rows: a preparation starts without hashes, and the first write of a
\* report stores what its handler holds.
LEMMA RowsStayGenuine ==
    ASSUME RecordInv, Next, NEW i \in Intents
    PROVE  /\ Genuine(intents[i].hash, i)'
           /\ intents'[i].status = "none" => intents'[i].hash = NoHashes
  <1>1. /\ TypeOK /\ Genuine(intents[i].hash, i)
        /\ intents[i].hash \in [Addresses -> Hash]
        /\ intents[i].status = "none" => intents[i].hash = NoHashes
    BY DEF RecordInv, TypeOK, IntentRow
  <1>2. CASE /\ intents'[i].hash = intents[i].hash
             /\ intents'[i].status = intents[i].status
                   \/ intents[i].status # "none"
    <2>1. CASE intents[i].status = "none"
      BY <1>1, <1>2, <2>1 DEF Genuine, NoHashes
    <2>2. CASE intents[i].status # "none"
      <3>1. \A a \in Addresses :
               intents[i].hash[a] # NoHash
                  => /\ <<intents[i].hash[a], a>> \in taken'
                     /\ a \in Items(i)' /\ run'[intents[i].hash[a]].intent = i
        BY <1>1, <2>2, GenuineKept
      <3>2. intents'[i].status # "none"
        BY <1>1, <2>2, PreparedKeepsItems
      <3>. QED  BY <1>2, <3>1, <3>2 DEF Genuine
    <2>. QED  BY <2>1, <2>2
  <1>3. CASE intents'[i].hash = NoHashes
    BY <1>3 DEF Genuine, NoHashes
  <1>4. ASSUME NEW r \in Runs, UpdateItems(r), i = run[r].intent
        PROVE  /\ Genuine(intents[i].hash, i)'
               /\ intents'[i].status # "none"
    <2>1. /\ intents[i].status # "none" /\ Genuine(run[r].merged, i)
          /\ run[r].merged \in [Addresses -> Hash]
      BY <1>4, ItemsEffect DEF RecordInv, TypeOK, Run
    <2>2. \A a \in Addresses :
             run[r].merged[a] # NoHash
                => /\ <<run[r].merged[a], a>> \in taken'
                   /\ a \in Items(i)' /\ run'[run[r].merged[a]].intent = i
      BY <1>1, <2>1, GenuineKept
    <2>3. intents'[i].hash = run[r].merged /\ intents'[i].status # "none"
      BY <1>1, <1>4, <2>1, ItemsEffect
    <2>. QED  BY <2>2, <2>3 DEF Genuine
  <1>5. \/ intents'[i] = intents[i]
        \/ Prepare(i)
        \/ \E r \in Runs : UpdateItems(r) /\ i = run[r].intent
        \/ \E r \in Runs : UpdateStatus(r) /\ i = run[r].intent
    BY <1>1, StepKinds, ChainEffect, MovesEffect, SendEffect, ReadEffect,
       PrepareEffect, ItemsEffect, StatusEffect
  <1>6. ASSUME NEW r \in Runs, UpdateStatus(r), i = run[r].intent
        PROVE  /\ intents'[i].hash = intents[i].hash
               /\ intents[i].status # "none"
    BY <1>1, <1>6, StatusEffect DEF RecordInv
  <1>7. ASSUME Prepare(i)
        PROVE  intents'[i].hash = NoHashes
    BY <1>1, <1>7, PrepareEffect
  <1>. QED  BY <1>2, <1>3, <1>4, <1>5, <1>6, <1>7

\* The locals: a success is counted only with its broadcast, for an item
\* the loop visits.
LEMMA RunsStayGenuine ==
    ASSUME RecordInv, Next, NEW r \in Runs, NEW i \in Intents, run[r].intent = i
    PROVE  /\ run'[r].pc = "idle" => run'[r].succeeded = {}
           /\ run'[r].pc # "idle" => intents'[i].status # "none"
           /\ run'[r].pc = "sending" => run'[r].remaining \subseteq Items(i)'
           /\ \A a \in run'[r].succeeded : <<r, a>> \in taken' /\ a \in Items(i)'
           /\ run'[r].pc \in {"storing", "marking"}
                 => Genuine(run[r].merged, i)'
  <1>1. /\ TypeOK /\ run[r] \in Run
        /\ run[r].merged \in [Addresses -> Hash]
        /\ run[r].succeeded \subseteq Addresses
    BY DEF RecordInv, TypeOK, Run
  <1>2. run'[r].intent = i /\ taken \subseteq taken'
    BY <1>1, RunsKeepIntent
  <1>3. CASE run'[r].pc = "idle"
    <2>1. run[r].pc = "idle" /\ run'[r].succeeded = run[r].succeeded
      <3>1. CASE run' = run
        BY <1>3, <3>1
      <3>2. ASSUME NEW s \in Runs,
                   \/ Moves(s) \/ ReadIntent(s) \/ UpdateItems(s)
                   \/ UpdateStatus(s) \/ \E a \in Addresses : Send(s, a)
            PROVE  run'[r] = run[r]
        BY <1>1, <1>3, <3>2, MovesEffect, SendEffect, ReadEffect, ItemsEffect,
           StatusEffect
      <3>. QED  BY <1>1, <1>3, <3>1, <3>2, StepKinds, ChainEffect, PrepareEffect
    <2>. QED  BY <1>3, <2>1 DEF RecordInv
  <1>4. CASE run[r].pc = "idle" /\ run'[r].pc # "idle"
    <2>1. /\ Moves(r) /\ intents' = intents /\ run'[r].succeeded = {}
          /\ run'[r].pc = "building" /\ intents[i].status # "none"
      <3>1. run' # run
        BY <1>4
      <3>2. ASSUME NEW s \in Runs,
                   \/ Moves(s) \/ ReadIntent(s) \/ UpdateItems(s)
                   \/ UpdateStatus(s) \/ \E a \in Addresses : Send(s, a)
            PROVE  s = r /\ Moves(r)
        BY <1>1, <1>4, <3>2, MovesEffect, SendEffect, ReadEffect, ItemsEffect,
           StatusEffect
      <3>3. Moves(r)
        BY <1>1, <3>1, <3>2, StepKinds, ChainEffect, PrepareEffect
      <3>4. run'[r].pc \in {"building", "sending", "reporting", "done"}
        BY <1>1, <1>4, <3>3, MovesEffect DEF Run
      <3>. QED  BY <1>1, <1>4, <3>3, <3>4, MovesEffect DEF RecordInv
    <2>. QED  BY <1>4, <2>1
  <1>5. CASE run[r].pc # "idle" /\ run'[r].pc # "idle"
    <2>1. /\ intents[i].status # "none" /\ Items(i)' = Items(i)
          /\ intents'[i].status # "none"
      BY <1>1, <1>5, PreparedKeepsItems DEF RecordInv
    <2>2. /\ run'[r].pc = "sending" => run'[r].remaining \subseteq Items(i)
          /\ \A a \in run'[r].succeeded : <<r, a>> \in taken' /\ a \in Items(i)
      <3>1. CASE run'[r] = run[r]
        BY <1>2, <3>1 DEF RecordInv
      <3>2. CASE Moves(r)
        BY <1>1, <1>2, <3>2, MovesEffect DEF RecordInv
      <3>3. ASSUME NEW a \in Addresses, Send(r, a)
            PROVE  /\ run'[r].remaining \subseteq Items(i)
                   /\ \A b \in run'[r].succeeded :
                         <<r, b>> \in taken' /\ b \in Items(i)
        <4>1. /\ run[r].pc = "sending" /\ a \in run[r].remaining
              /\ run'[r].remaining = run[r].remaining \ {a}
              /\ \/ run'[r].succeeded = run[r].succeeded
                 \/ /\ run'[r].succeeded = run[r].succeeded \cup {a}
                    /\ <<r, a>> \in taken'
          BY <1>1, <3>3, SendEffect
        <4>2. /\ run[r].remaining \subseteq Items(i)
              /\ \A b \in run[r].succeeded :
                    <<r, b>> \in taken /\ b \in Items(i)
          BY <4>1 DEF RecordInv
        <4>. QED  BY <1>2, <4>1, <4>2
      <3>4. CASE ReadIntent(r) \/ UpdateItems(r) \/ UpdateStatus(r)
        BY <1>1, <1>2, <3>4, ReadEffect, ItemsEffect, StatusEffect DEF RecordInv
      <3>5. \/ run'[r] = run[r] \/ Moves(r)
            \/ \E a \in Addresses : Send(r, a)
            \/ ReadIntent(r) \/ UpdateItems(r) \/ UpdateStatus(r)
        BY <1>1, OwnSteps
      <3>. QED  BY <3>1, <3>2, <3>3, <3>4, <3>5
    <2>3. ASSUME run'[r].pc \in {"storing", "marking"}
          PROVE  Genuine(run[r].merged, i)'
      <3>1. CASE run'[r].merged = run[r].merged
                 /\ run[r].pc \in {"storing", "marking"}
        <4>1. Genuine(run[r].merged, i)
          BY <3>1 DEF RecordInv
        <4>2. \A a \in Addresses :
                 run[r].merged[a] # NoHash
                    => /\ <<run[r].merged[a], a>> \in taken'
                       /\ a \in Items(i)' /\ run'[run[r].merged[a]].intent = i
          BY <1>1, <2>1, <4>1, GenuineKept
        <4>. QED  BY <3>1, <4>2 DEF Genuine
      <3>2. CASE ReadIntent(r)
        <4>1. /\ Merged(r) \in [Addresses -> Hash] /\ Genuine(Merged(r), i)
              /\ run'[r].merged = Merged(r)
          BY <1>1, <3>2, MergedGenuine, ReadEffect
        <4>2. \A a \in Addresses :
                 Merged(r)[a] # NoHash
                    => /\ <<Merged(r)[a], a>> \in taken'
                       /\ a \in Items(i)' /\ run'[Merged(r)[a]].intent = i
          BY <1>1, <2>1, <4>1, GenuineKept
        <4>. QED  BY <4>1, <4>2 DEF Genuine
      <3>3. \/ ReadIntent(r)
            \/ run'[r].merged = run[r].merged
               /\ run[r].pc \in {"storing", "marking"}
        BY <1>1, <2>3, StepKinds, ChainEffect, PrepareEffect, MovesEffect,
           SendEffect, ReadEffect, ItemsEffect, StatusEffect
      <3>. QED  BY <3>1, <3>2, <3>3
    <2>. QED  BY <2>1, <2>2, <2>3, <1>5
  <1>. QED  BY <1>3, <1>4, <1>5

LEMMA RecordStep ==
    ASSUME RecordInv, [Next]_sweepVars
    PROVE  RecordInv'
  <1>1. CASE UNCHANGED sweepVars
    BY <1>1 DEF RecordInv, sweepVars, TypeOK, Genuine, Items
  <1>2. CASE Next
    <2>1. TypeOK'
      BY <1>2, TypeStep DEF RecordInv
    <2>2. \A i \in Intents : /\ Genuine(intents[i].hash, i)'
                             /\ intents'[i].status = "none"
                                   => intents'[i].hash = NoHashes
      BY <1>2, RowsStayGenuine
    <2>3. ASSUME NEW r \in Runs
          PROVE  /\ run'[r].pc = "idle" => run'[r].succeeded = {}
                 /\ run'[r].pc # "idle"
                       => intents'[run'[r].intent].status # "none"
                 /\ run'[r].pc = "sending"
                       => run'[r].remaining \subseteq Items(run[r].intent)'
                 /\ \A a \in run'[r].succeeded :
                       <<r, a>> \in taken' /\ a \in Items(run[r].intent)'
                 /\ run'[r].pc \in {"storing", "marking"}
                       => Genuine(run[r].merged, run[r].intent)'
      <3>1. PICK i \in Intents : run[r].intent = i
        BY DEF RecordInv, TypeOK, Run
      <3>2. run'[r].intent = i
        BY <1>2, <3>1, RunsKeepIntent DEF RecordInv
      <3>3. /\ run'[r].pc = "idle" => run'[r].succeeded = {}
            /\ run'[r].pc # "idle" => intents'[i].status # "none"
            /\ run'[r].pc = "sending" => run'[r].remaining \subseteq Items(i)'
            /\ \A a \in run'[r].succeeded :
                  <<r, a>> \in taken' /\ a \in Items(i)'
            /\ run'[r].pc \in {"storing", "marking"}
                  => Genuine(run[r].merged, i)'
        BY <1>2, <3>1, RunsStayGenuine
      <3>4. Items(run[r].intent)' = Items(i)'
        BY <3>2 DEF Items
      <3>. QED  BY <3>2, <3>3, <3>4 DEF Genuine
    <2>. QED  BY <2>1, <2>2, <2>3 DEF RecordInv
  <1>. QED  BY <1>1, <1>2

\* Whatever runs of an intent race, fail and die, and whatever reports cross
\* or get lost, the rows name only transfers that a node took.
THEOREM OnlyBroadcastsRecorded == Spec => []RecordedWasBroadcast
  <1>1. Init => RecordInv
    BY InitTypes DEF Init, RecordInv, Genuine, NoHashes
  <1>2. RecordInv /\ [Next]_sweepVars => RecordInv'
    BY RecordStep
  <1>3. RecordInv => RecordedWasBroadcast
    BY DEF RecordInv, Genuine, RecordedWasBroadcast
  <1>. QED  BY <1>1, <1>2, <1>3, PTL DEF Spec

-----------------------------------------------------------------------------
(* Nothing is broadcast before everything is verified *)

\* The prebuilding loop leaves no item behind that is not verified, so the
\* sending loop starts with all of them verified.
VerifiedInv ==
    /\ RecordInv
    /\ \A r \in Runs :
          /\ run[r].pc = "building"
                => Items(run[r].intent) \subseteq run[r].verified \cup run[r].remaining
          /\ run[r].pc = "sending" => Items(run[r].intent) \subseteq run[r].verified
          /\ \A a \in Addresses :
                <<r, a>> \in taken
                    => /\ run[r].pc \notin {"idle", "building"}
                       /\ Items(run[r].intent) \subseteq run[r].verified

\* Only a run's own broadcasts add to its transfers.
LEMMA OwnTransfers ==
    ASSUME TypeOK, Next, NEW r \in Runs, NEW a \in Addresses,
           <<r, a>> \in taken', <<r, a>> \notin taken
    PROVE  Send(r, a)
  <1>1. CASE UNCHANGED taken
    BY <1>1
  <1>2. ASSUME NEW s \in Runs, NEW b \in Addresses, Send(s, b)
        PROVE  Send(r, a)
    <2>1. <<r, a>> = <<s, b>>
      BY <1>2, SendEffect
    <2>. QED  BY <1>2, <2>1
  <1>3. UNCHANGED taken \/ \E s \in Runs, b \in Addresses : Send(s, b)
    <2>1. ASSUME NEW s \in Runs, \/ Moves(s) \/ ReadIntent(s)
                                 \/ UpdateItems(s) \/ UpdateStatus(s)
          PROVE  UNCHANGED taken
      BY <2>1, MovesEffect, ReadEffect, ItemsEffect, StatusEffect
    <2>2. ASSUME NEW j \in Intents, Prepare(j)
          PROVE  UNCHANGED taken
      BY <2>2, PrepareEffect
    <2>. QED  BY <2>1, <2>2, StepKinds, ChainEffect
  <1>. QED  BY <1>1, <1>2, <1>3

LEMMA RunsStayVerified ==
    ASSUME VerifiedInv, Next, NEW r \in Runs, NEW i \in Intents,
           run[r].intent = i
    PROVE  /\ run'[r].pc = "building"
                 => Items(i)' \subseteq run'[r].verified \cup run'[r].remaining
           /\ run'[r].pc = "sending" => Items(i)' \subseteq run'[r].verified
           /\ \A a \in Addresses :
                 <<r, a>> \in taken'
                     => /\ run'[r].pc \notin {"idle", "building"}
                        /\ Items(i)' \subseteq run'[r].verified
  <1>1. RecordInv /\ TypeOK
    BY DEF VerifiedInv, RecordInv
  <1>2. CASE run[r].pc = "idle"
    <2>1. run'[r] = run[r] \/ Moves(r)
      <3>1. \A a \in Addresses : ~Send(r, a)
        BY <1>1, <1>2, SendEffect
      <3>2. ~ReadIntent(r) /\ ~UpdateItems(r) /\ ~UpdateStatus(r)
        BY <1>1, <1>2, ReadEffect, ItemsEffect, StatusEffect
      <3>. QED  BY <1>1, <3>1, <3>2, OwnSteps
    <2>2. \A a \in Addresses : <<r, a>> \notin taken'
      <3>1. \A a \in Addresses : <<r, a>> \notin taken /\ ~Send(r, a)
        BY <1>1, <1>2, SendEffect DEF VerifiedInv
      <3>. QED  BY <1>1, <3>1, OwnTransfers
    <2>3. Moves(r) => /\ Items(i)' = Items(i)
                      /\ run'[r].pc = "building" => run'[r].remaining = Items(i)
                      /\ run'[r].pc # "sending"
      <3>1. Moves(r) => intents' = intents
        BY <1>1, MovesEffect
      <3>. QED  BY <1>1, <1>2, <3>1, MovesEffect DEF Items
    <2>. QED  BY <1>2, <2>1, <2>2, <2>3
  <1>3. CASE run[r].pc # "idle"
    <2>1. Items(i)' = Items(i)
      BY <1>1, <1>3, PreparedKeepsItems DEF RecordInv
    <2>2. run[r].verified \subseteq run'[r].verified
      BY <1>1, OwnSteps, MovesEffect, SendEffect, ReadEffect, ItemsEffect,
         StatusEffect
    <2>3. CASE run'[r].pc = "building"
      <3>1. \/ run'[r] = run[r]
            \/ /\ run[r].pc = "building"
               /\ run[r].verified \cup run[r].remaining
                     \subseteq run'[r].verified \cup run'[r].remaining
        <4>1. CASE Moves(r)
          BY <1>1, <1>3, <2>3, <4>1, MovesEffect
        <4>2. (\E a \in Addresses : Send(r, a)) => FALSE
          BY <1>1, <2>3, SendEffect
        <4>3. ReadIntent(r) \/ UpdateItems(r) \/ UpdateStatus(r) => FALSE
          BY <1>1, <2>3, ReadEffect, ItemsEffect, StatusEffect
        <4>. QED  BY <1>1, <4>1, <4>2, <4>3, OwnSteps
      <3>2. run[r].pc = "building"
        BY <2>3, <3>1
      <3>3. \A a \in Addresses : <<r, a>> \notin taken'
        BY <1>1, <3>2, OwnTransfers, SendEffect DEF VerifiedInv
      <3>. QED  BY <2>1, <2>3, <3>1, <3>2, <3>3 DEF VerifiedInv
    <2>4. CASE run'[r].pc # "building"
      <3>1. run'[r].pc = "sending" => Items(i) \subseteq run'[r].verified
        <4>1. CASE run'[r] = run[r]
          BY <4>1 DEF VerifiedInv
        <4>2. CASE Moves(r)
          BY <1>1, <2>2, <4>2, MovesEffect DEF VerifiedInv
        <4>3. ASSUME NEW a \in Addresses, Send(r, a)
              PROVE  Items(i) \subseteq run'[r].verified
          BY <1>1, <4>3, SendEffect DEF VerifiedInv
        <4>4. ReadIntent(r) \/ UpdateItems(r) \/ UpdateStatus(r)
                  => run'[r].pc # "sending"
          BY <1>1, ReadEffect, ItemsEffect, StatusEffect
        <4>. QED  BY <1>1, <4>1, <4>2, <4>3, <4>4, OwnSteps
      <3>2. run'[r].pc # "idle"
        BY <1>1, <1>3, OwnSteps, MovesEffect, SendEffect, ReadEffect,
           ItemsEffect, StatusEffect
      <3>3. ASSUME NEW a \in Addresses, <<r, a>> \in taken'
            PROVE  Items(i) \subseteq run'[r].verified
        <4>1. CASE <<r, a>> \in taken
          BY <2>2, <4>1 DEF VerifiedInv
        <4>2. CASE <<r, a>> \notin taken
          <5>1. Send(r, a)
            BY <1>1, <3>3, <4>2, OwnTransfers
          <5>. QED  BY <1>1, <5>1, <3>1, SendEffect
        <4>. QED  BY <4>1, <4>2
      <3>. QED  BY <2>1, <2>4, <3>1, <3>2, <3>3
    <2>. QED  BY <2>3, <2>4
  <1>. QED  BY <1>2, <1>3

LEMMA VerifiedStep ==
    ASSUME VerifiedInv, [Next]_sweepVars
    PROVE  VerifiedInv'
  <1>1. RecordInv'
    BY RecordStep DEF VerifiedInv
  <1>2. CASE UNCHANGED sweepVars
    BY <1>1, <1>2 DEF VerifiedInv, sweepVars, Items
  <1>3. CASE Next
    <2>1. ASSUME NEW r \in Runs
          PROVE  /\ run'[r].pc = "building"
                       => Items(run[r].intent)'
                             \subseteq run'[r].verified \cup run'[r].remaining
                 /\ run'[r].pc = "sending"
                       => Items(run[r].intent)' \subseteq run'[r].verified
                 /\ \A a \in Addresses :
                       <<r, a>> \in taken'
                           => /\ run'[r].pc \notin {"idle", "building"}
                              /\ Items(run[r].intent)' \subseteq run'[r].verified
      <3>1. PICK i \in Intents : run[r].intent = i
        BY DEF VerifiedInv, RecordInv, TypeOK, Run
      <3>2. run'[r].intent = i
        BY <1>3, <3>1, RunsKeepIntent DEF VerifiedInv, RecordInv
      <3>3. Items(run[r].intent)' = Items(i)'
        BY <3>2 DEF Items
      <3>. QED  BY <1>3, <3>1, <3>3, RunsStayVerified
    <2>. QED  BY <1>1, <2>1 DEF VerifiedInv
  <1>. QED  BY <1>2, <1>3

\* One transfer that a node builds wrong keeps the whole run from sending.
THEOREM AllVerifiedFirst == Spec => []VerifiedBeforeSent
  <1>1. Init => VerifiedInv
    BY InitTypes DEF Init, VerifiedInv, RecordInv, Genuine, NoHashes
  <1>2. VerifiedInv /\ [Next]_sweepVars => VerifiedInv'
    BY VerifiedStep
  <1>3. VerifiedInv => VerifiedBeforeSent
    BY DEF VerifiedInv, RecordInv, TypeOK, Transfers, VerifiedBeforeSent
  <1>. QED  BY <1>1, <1>2, <1>3, PTL DEF Spec

-----------------------------------------------------------------------------
(* A finished intent is complete, and stays as it is *)

\* The two writes of a report lie apart, so the claim is followed through
\* its handler: it is the only one of its intent, works on an intent that is
\* not finished, and what it is about to store keeps what is stored.
Handling(r) ==
    LET i == run[r].intent
    IN  /\ intents[i].status # "broadcast"
        /\ \A s \in HandledNow(i) : s = r
        /\ run[r].pc = "marking" => intents[i].hash = run[r].merged
        /\ run[r].pc = "storing"
              => \A a \in Addresses : intents[i].hash[a] # NoHash
                                          => run[r].merged[a] # NoHash

CompleteInv ==
    /\ RecordInv
    /\ BroadcastIsComplete
    /\ \A r \in Runs : /\ run[r].intent \notin contended
                       /\ run[r].pc \in {"storing", "marking"}
                       => Handling(r)

\* Which rows a step writes, and what it makes of them.
LEMMA RowWriters ==
    ASSUME TypeOK, Next, NEW i \in Intents, intents'[i] # intents[i]
    PROVE  \/ Prepare(i)
           \/ \E r \in Runs : /\ run[r].intent = i
                              /\ UpdateItems(r) \/ UpdateStatus(r)
  <1>1. intents' # intents
    OBVIOUS
  <1>2. ASSUME NEW r \in Runs, Moves(r) \/ ReadIntent(r)
                                \/ \E a \in Addresses : Send(r, a)
        PROVE  intents' = intents
    BY <1>2, MovesEffect, ReadEffect, SendEffect
  <1>. QED
    BY <1>1, <1>2, StepKinds, ChainEffect, PrepareEffect, ItemsEffect,
       StatusEffect

\* Which steps put a run into the handler, or move it there.
LEMMA HandlerSteps ==
    ASSUME TypeOK, Next, NEW r \in Runs, run'[r].pc \in {"storing", "marking"}
    PROVE  run'[r] = run[r] \/ ReadIntent(r) \/ UpdateItems(r)
  BY OwnSteps, MovesEffect, SendEffect, StatusEffect

\* Two reports of an intent that were never handled at once: whoever handles
\* one in the next state is alone with it.
LEMMA HandlerAlone ==
    ASSUME CompleteInv, Next, NEW r \in Runs, NEW s \in Runs, NEW i \in Intents,
           run[r].intent = i, run[s].intent = i, i \notin contended',
           run'[r].pc \in {"storing", "marking"},
           run'[s].pc \in {"storing", "marking"}
    PROVE  s = r
  <1>1. TypeOK /\ i \notin contended
    BY RunsKeepIntent DEF CompleteInv, RecordInv
  <1>2. ASSUME NEW q \in Runs, run[q].intent = i, ReadIntent(q)
        PROVE  /\ HandledNow(i) = {} /\ \A p \in Runs : p # q => run'[p] = run[p]
               /\ \A p \in Runs : p # q => ~ReadIntent(p) /\ ~UpdateItems(p)
    BY <1>1, <1>2, ReadEffect, ItemsEffect
  <1>3. CASE ReadIntent(r) \/ ReadIntent(s)
    BY <1>2, <1>3 DEF HandledNow
  <1>4. CASE ~ReadIntent(r) /\ ~ReadIntent(s)
    <2>1. /\ run[r].pc \in {"storing", "marking"}
          /\ run[s].pc \in {"storing", "marking"}
      BY <1>1, <1>4, HandlerSteps, ItemsEffect
    <2>. QED  BY <1>1, <2>1 DEF CompleteInv, Handling, HandledNow
  <1>. QED  BY <1>3, <1>4

\* The row of a handler that has not read just now is only its own to write.
LEMMA HandlerRow ==
    ASSUME CompleteInv, Next, NEW r \in Runs, NEW i \in Intents,
           run[r].intent = i, i \notin contended',
           run'[r].pc \in {"storing", "marking"}
    PROVE  /\ intents'[i].status # "broadcast"
           /\ run'[r].pc = "marking" => intents'[i].hash = run'[r].merged
           /\ run'[r].pc = "storing"
                 => \A a \in Addresses : intents'[i].hash[a] # NoHash
                                             => run'[r].merged[a] # NoHash
  <1>1. TypeOK /\ RecordInv /\ i \notin contended
    BY RunsKeepIntent DEF CompleteInv, RecordInv
  <1>2. CASE ReadIntent(r)
    <2>1. /\ run'[r].pc = "storing" /\ run'[r].merged = Merged(r)
          /\ intents' = intents /\ intents[i].status # "broadcast"
      BY <1>1, <1>2, ReadEffect
    <2>2. \A a \in Addresses : intents[i].hash[a] # NoHash
                                   => Merged(r)[a] # NoHash
      BY SweepAssumption DEF Merged
    <2>. QED  BY <2>1, <2>2
  <1>3. CASE UpdateItems(r)
    BY <1>1, <1>3, ItemsEffect DEF CompleteInv, Handling
  <1>4. CASE run'[r] = run[r]
    <2>1. intents'[i] = intents[i]
      <3>1. Prepare(i) => FALSE
        BY <1>1, <1>4, PrepareEffect DEF RecordInv
      <3>2. ASSUME NEW s \in Runs, run[s].intent = i,
                   UpdateItems(s) \/ UpdateStatus(s)
            PROVE  FALSE
        <4>1. s = r
          BY <1>1, <1>4, <3>2, ItemsEffect, StatusEffect
          DEF CompleteInv, Handling, HandledNow
        <4>. QED  BY <1>1, <1>4, <3>2, <4>1, ItemsEffect, StatusEffect
      <3>. QED  BY <1>1, <3>1, <3>2, RowWriters
    <2>. QED  BY <1>1, <1>4, <2>1 DEF CompleteInv, Handling
  <1>. QED  BY <1>1, <1>2, <1>3, <1>4, HandlerSteps

\* What a step makes of a row that was never contended: a preparation of a
\* fresh one, or a report that keeps every hash and leaves a finished one.
LEMMA RowsKept ==
    ASSUME CompleteInv, Next, NEW i \in Intents, i \notin contended
    PROVE  /\ \A a \in Addresses : intents[i].hash[a] # NoHash
                                       => intents'[i].hash[a] # NoHash
           /\ intents[i].status = "broadcast" => intents'[i] = intents[i]
           /\ intents'[i].status = "broadcast"
                 => \A a \in Items(i)' : intents'[i].hash[a] # NoHash
  <1>1. TypeOK /\ RecordInv
    BY DEF CompleteInv, RecordInv
  <1>2. CASE intents'[i] = intents[i]
    BY <1>2 DEF CompleteInv, BroadcastIsComplete, Items
  <1>3. CASE Prepare(i)
    BY <1>1, <1>3, PrepareEffect DEF RecordInv, NoHashes
  <1>4. ASSUME NEW r \in Runs, run[r].intent = i, UpdateItems(r)
        PROVE  /\ \A a \in Addresses : intents[i].hash[a] # NoHash
                                           => intents'[i].hash[a] # NoHash
               /\ intents[i].status # "broadcast"
               /\ intents'[i].status # "broadcast"
    BY <1>1, <1>4, ItemsEffect DEF CompleteInv, Handling
  <1>5. ASSUME NEW r \in Runs, run[r].intent = i, UpdateStatus(r)
        PROVE  /\ intents'[i].hash = intents[i].hash
               /\ intents[i].status # "broadcast"
               /\ intents'[i].status = "broadcast"
                     => \A a \in Items(i)' : intents'[i].hash[a] # NoHash
    <2>1. /\ run[r].pc = "marking" /\ intents'[i].hash = intents[i].hash
          /\ intents'[i].amount = intents[i].amount
          /\ intents'[i].status = "broadcast" => AllBroadcasted(r)
      BY <1>1, <1>5, StatusEffect
    <2>2. intents[i].status # "broadcast" /\ intents[i].hash = run[r].merged
      BY <1>5, <2>1 DEF CompleteInv, Handling
    <2>3. Items(i)' = Items(i)
      BY <2>1 DEF Items
    <2>. QED  BY <1>5, <2>1, <2>2, <2>3 DEF AllBroadcasted
  <1>. QED  BY <1>1, <1>2, <1>3, <1>4, <1>5, RowWriters

LEMMA CompleteStep ==
    ASSUME CompleteInv, [Next]_sweepVars
    PROVE  CompleteInv'
  <1>1. RecordInv'
    BY RecordStep DEF CompleteInv
  <1>2. CASE UNCHANGED sweepVars
    BY <1>1, <1>2
    DEF CompleteInv, sweepVars, BroadcastIsComplete, Handling, HandledNow, Items
  <1>3. CASE Next
    <2>1. TypeOK /\ \A r \in Runs : run[r].intent \in Intents
      BY DEF CompleteInv, RecordInv, TypeOK, Run
    <2>2. BroadcastIsComplete'
      BY <1>3, <2>1, RunsKeepIntent, RowsKept DEF BroadcastIsComplete
    <2>3. ASSUME NEW r \in Runs, run'[r].intent \notin contended',
                 run'[r].pc \in {"storing", "marking"}
          PROVE  Handling(r)'
      <3>1. PICK i \in Intents : run[r].intent = i
        BY <2>1
      <3>2. run'[r].intent = i /\ i \notin contended'
        BY <1>3, <2>1, <2>3, <3>1, RunsKeepIntent
      <3>3. \A s \in HandledNow(i)' : s = r
        BY <1>3, <2>1, <2>3, <3>1, <3>2, RunsKeepIntent, HandlerAlone
        DEF HandledNow
      <3>4. /\ intents'[i].status # "broadcast"
            /\ run'[r].pc = "marking" => intents'[i].hash = run'[r].merged
            /\ run'[r].pc = "storing"
                  => \A a \in Addresses : intents'[i].hash[a] # NoHash
                                              => run'[r].merged[a] # NoHash
        BY <1>3, <2>3, <3>1, <3>2, HandlerRow
      <3>. QED  BY <3>2, <3>3, <3>4 DEF Handling, HandledNow
    <2>. QED  BY <1>1, <2>2, <2>3 DEF CompleteInv
  <1>. QED  BY <1>2, <1>3

LEMMA InitComplete ==
    ASSUME Init
    PROVE  CompleteInv
  <1>1. RecordInv
    BY InitTypes DEF Init, RecordInv, Genuine, NoHashes
  <1>2. \A r \in Runs : run[r].pc = "idle"
    BY DEF Init
  <1>3. BroadcastIsComplete
    BY DEF Init, BroadcastIsComplete
  <1>. QED  BY <1>1, <1>2, <1>3 DEF CompleteInv

\* A status of broadcast covers every item, unless two reports of the intent
\* were handled at once.
THEOREM FinishedIsComplete == Spec => []BroadcastIsComplete
  <1>1. CompleteInv => BroadcastIsComplete
    BY DEF CompleteInv
  <1>. QED  BY <1>1, InitComplete, CompleteStep, PTL DEF Spec

\* With the same exception no report loses a hash or touches a finished
\* intent.
THEOREM RecordsAreKept == Spec => RecordIsKept
  <1> DEFINE Kept(i) ==
          /\ \A a \in Addresses : intents[i].hash[a] # NoHash
                                      => intents'[i].hash[a] # NoHash
          /\ intents[i].status = "broadcast" => intents'[i] = intents[i]
  <1>1. CompleteInv /\ [Next]_sweepVars
            => [\A i \in Intents \ contended : Kept(i)]_sweepVars
    BY RowsKept
  <1>. QED  BY <1>1, InitComplete, CompleteStep, PTL DEF Spec, RecordIsKept

-----------------------------------------------------------------------------
(* What a run signs *)

\* Whatever JSON and bytes a node answers with: a transaction that is signed
\* and sent is, by its txID, the transfer of the item to the main wallet.
THEOREM OnlyTheMeantIsSent ==
    ASSUME NEW env, NEW item, NEW txID, NEW bytes, NEW raw \in Raw,
           Goes(env, item, Answer(txID, bytes, raw))
    PROVE  txID = Meant(item)
  <1> DEFINE tx == [txID |-> txID, bytes |-> bytes, raw |-> raw]
             c == raw.contracts[1]
  <1>1. VerifyNodeTransaction(tx, Expected(item))
    BY DEF Goes, Answer
  <1>2. /\ raw.contracts # <<>> /\ Encoded(raw) = txID /\ Len(raw.contracts) = 1
        /\ c.type = "TriggerSmartContract"
        /\ c.owner = Expected(item).from
        /\ c.contract = Expected(item).contract
        /\ c.data = Expected(item).callData
        /\ c.callValue = 0
        /\ raw.feeLimit = Expected(item).feeLimit
    BY <1>1 DEF VerifyNodeTransaction, VerifyRawDataBindsToTxId
  <1>3. /\ Expected(item).from = item.address /\ Expected(item).contract = Usdt
        /\ Expected(item).callData = TransferCall(Pin, item.amount)
        /\ Expected(item).feeLimit = item.feeLimit
    BY DEF Expected, BuildTransfer
  <1> DEFINE meant == [type |-> "TriggerSmartContract", owner |-> item.address,
                       contract |-> Usdt, data |-> TransferCall(Pin, item.amount),
                       callValue |-> 0]
  <1>4. raw.contracts \in Seq(Contract) /\ c \in Contract
    <2>1. raw.contracts \in Seq(Contract)
      BY DEF Raw
    <2>. QED  BY <2>1, <1>2
  <1>5. c = meant
    BY <1>2, <1>3, <1>4 DEF Contract
  <1>6. Head(raw.contracts) = meant
    BY <1>2, <1>4, <1>5
  <1>7. Encoded(raw) = [contracts |-> <<Head(raw.contracts)>>, feeLimit |-> raw.feeLimit]
    BY DEF Encoded, Raw
  <1>. QED  BY <1>2, <1>3, <1>6, <1>7 DEF Meant

\* Where server and node are right a run sends: no check stands in the way of
\* an honest transfer.
THEOREM TheMeantIsSent ==
    ASSUME NEW env, NEW item, Prepared(item), Live(env)
    PROVE  Goes(env, item, Answer(Meant(item), Meant(item), Meant(item)))
  <1> DEFINE m == Meant(item)
             tx == [txID |-> m, bytes |-> m, raw |-> m]
  <1>1. PinChecked(item)
    BY DEF Prepared, PinChecked, BuildTransfer
  <1>2. /\ Len(m.contracts) = 1 /\ m.contracts # <<>>
        /\ m.contracts[1].type = "TriggerSmartContract"
        /\ m.contracts[1].owner = item.address
        /\ m.contracts[1].contract = Usdt
        /\ m.contracts[1].data = TransferCall(Pin, item.amount)
        /\ m.contracts[1].callValue = 0
        /\ m.feeLimit = item.feeLimit
    BY DEF Meant
  <1>3. Encoded(m) = m
    BY DEF Encoded, Meant
  <1>4. /\ Expected(item).from = item.address /\ Expected(item).contract = Usdt
        /\ Expected(item).callData = TransferCall(Pin, item.amount)
        /\ Expected(item).feeLimit = item.feeLimit
    BY DEF Expected, BuildTransfer
  <1> HIDE DEF m
  <1>5. VerifyNodeTransaction(tx, Expected(item))
    BY <1>2, <1>3, <1>4 DEF VerifyNodeTransaction, VerifyTxIdMatchesRawData,
                            VerifyRawDataBindsToTxId
  <1>6. SignerTakes(env, tx)
    BY <1>2 DEF SignerTakes, NotMockWhenLive, IsMock, VerifyTxIdMatchesRawData
  <1>7. Answered(Answer(m, m, m)) /\ Answer(m, m, m).tx = tx
    BY DEF Answered, Answer
  <1>8. Goes(env, item, Answer(m, m, m))
    BY <1>1, <1>5, <1>6, <1>7 DEF Goes
  <1>. QED  BY <1>8 DEF m

\* Nothing but the transfer an item stands for is signed and sent, and it is.
THEOREM OnlyIntentsGo == Spec => []OnlyTheIntentGoes
<1>1. OnlyTheIntentGoes
  <2>1. SUFFICES ASSUME NEW env \in Environments, NEW item \in ServerItems
                 PROVE  /\ \A txID, raw \in RawData(item) : \A bytes \in {txID, Meant(item)} :
                              Goes(env, item, Answer(txID, bytes, raw)) => txID = Meant(item)
                        /\ Prepared(item) /\ (\E name \in LiveNames : name \in env)
                             => Goes(env, item, Answer(Meant(item), Meant(item), Meant(item)))
    BY DEF OnlyTheIntentGoes
  <2>2. RawData(item) \subseteq Raw
    BY GivenAssumption
  <2>3. (\E name \in LiveNames : name \in env) => Live(env)
    BY DEF Live
  <2> QED BY <2>2, <2>3, OnlyTheMeantIsSent, TheMeantIsSent
<1> QED BY <1>1, PTL
=============================================================================
