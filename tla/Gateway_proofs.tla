---------------------------- MODULE Gateway_proofs ----------------------------
(***************************************************************************)
(* What the kill switch and the rate limiter promise behind the gateway,   *)
(* for any processes, callers, TTL, buckets and keys.                      *)
(***************************************************************************)
EXTENDS Gateway, FiniteSetTheorems, TLAPS

\* An answer that is on its way, and an entry of the cache, is no older than
\* the check it comes from.
AnswersAreRecent ==
    /\ lost[flag] = 0
    /\ \A c \in Callers : check[c].pc = "read" => lost[check[c].value] <= check[c].waited
    /\ \A p \in Processes :
          cache[p].left > 0 => lost[cache[p].value] + cache[p].left <= Ttl

\* Between an answer of the admin route and the next write, all that the
\* server's process holds of the flag is its value.
ServerIsCurrent ==
    admin = "idle" /\ ~overtaken =>
        /\ \A c \in Callers : ProcessOf[c] = Server /\ check[c].pc = "read"
                                => check[c].value = flag
        /\ cache[Server].left > 0 => cache[Server].value = flag

IInv == KillSwitchTypeOK /\ AnswersAreRecent /\ ServerIsCurrent

-----------------------------------------------------------------------------
(* Steps of the switch *)

\* A step of the gateway, as the switch sees it.
SwitchStep ==
    \/ \E c \in Callers :
          \/ AnswerFromEnv(c) \/ AnswerFromCache(c) \/ Ask(c)
          \/ ReadFlag(c) \/ ReadFails(c) \/ Fill(c) \/ Finish(c)
    \/ \E v \in BOOLEAN : SetFlag(v)
    \/ Flush
    \/ \E p \in Processes : StartProcess(p)
    \/ KillSwitchTick
    \/ UNCHANGED killSwitchVars

LEMMA GatewayStep == [Next]_gatewayVars => SwitchStep
<1> SUFFICES ASSUME [Next]_gatewayVars PROVE SwitchStep
  OBVIOUS
<1>1. ASSUME NEW c \in Callers,
             ApiArrives(c) \/ ApiAdmitted(c) \/ FormArrives(c) \/ LoopTurns(c)
               \/ WorkEnds(c) \/ CheckGoesOn(c)
      PROVE  SwitchStep
  BY <1>1 DEF ApiArrives, ApiAdmitted, FormArrives, LoopTurns, WorkEnds, CheckGoesOn,
              StartCheck, Resume, SwitchStep
<1>2. ASSUME \/ \E v \in BOOLEAN : AdminSets(v)
             \/ AdminFlushes
             \/ \E p \in Processes : Restart(p)
             \/ Tick
      PROVE  SwitchStep
  BY <1>2 DEF AdminSets, AdminFlushes, Restart, Tick, SwitchStep
<1>3. CASE UNCHANGED gatewayVars
  BY <1>3 DEF gatewayVars, SwitchStep
<1> QED BY <1>1, <1>2, <1>3, CallerAssumption DEF Next

LEMMA AtIsCheck ==
    ASSUME NEW pc \in {"idle", "asking", "read", "passed"}
    PROVE  At(pc) \in Check /\ At(pc).pc = pc
BY TtlAssumption DEF At, Check

\* Whether the switch answers or not, a caller that starts a check or ends it
\* has no answer on its way.
LEMMA AnswerEffect ==
    ASSUME KillSwitchTypeOK, NEW c \in Callers, NEW paused \in BOOLEAN, Answer(c, paused)
    PROVE  /\ check' \in [Callers -> Check]
           /\ check'[c].pc # "read"
           /\ \A d \in Callers \ {c} : check'[d] = check[d]
<1>1. PICK row \in {At("idle"), At("passed")} : check' = [check EXCEPT ![c] = row]
  BY DEF Answer, Idle
<1>2. row \in Check /\ row.pc # "read"
  BY <1>1, AtIsCheck
<1> QED BY <1>1, <1>2 DEF KillSwitchTypeOK

\* Steps in which one caller comes to have no answer on its way, and which
\* change nothing else.
LEMMA CallerKeeps ==
    ASSUME IInv, NEW c \in Callers,
           check' \in [Callers -> Check], check'[c].pc # "read",
           \A d \in Callers \ {c} : check'[d] = check[d],
           UNCHANGED <<flag, cache, admin, lost, overtaken>>
    PROVE  IInv'
<1>1. KillSwitchTypeOK'
  BY DEF IInv, KillSwitchTypeOK
<1>2. AnswersAreRecent'
  BY DEF IInv, AnswersAreRecent
<1>3. ServerIsCurrent'
  BY DEF IInv, ServerIsCurrent
<1> QED BY <1>1, <1>2, <1>3 DEF IInv

LEMMA InitInv == KillSwitchInit => IInv
<1> SUFFICES ASSUME KillSwitchInit PROVE IInv
  OBVIOUS
<1>1. Idle \in Check /\ NoEntry \in Entry /\ Idle.pc = "idle" /\ NoEntry.left = 0
  BY TtlAssumption, AtIsCheck DEF Idle, NoEntry, Entry
<1>2. KillSwitchTypeOK
  <2>1. 0 \in 0 .. Ttl /\ Ttl \in 0 .. Ttl
    BY TtlAssumption
  <2>2. lost \in [BOOLEAN -> 0 .. Ttl]
    BY <2>1, Zenon DEF KillSwitchInit
  <2> QED BY <1>1, <2>2 DEF KillSwitchInit, KillSwitchTypeOK
<1>3. AnswersAreRecent
  BY <1>1 DEF KillSwitchInit, AnswersAreRecent
<1>4. ServerIsCurrent
  BY <1>1, ProcessAssumption DEF KillSwitchInit, ServerIsCurrent
<1> QED BY <1>2, <1>3, <1>4 DEF IInv

LEMMA StepInv == IInv /\ SwitchStep => IInv'
<1> SUFFICES ASSUME IInv, SwitchStep PROVE IInv'
  OBVIOUS
<1>1. ASSUME NEW c \in Callers, AnswerFromEnv(c) \/ AnswerFromCache(c) PROVE IInv'
  <2>1. cache[ProcessOf[c]].value \in BOOLEAN
    BY ProcessAssumption DEF IInv, KillSwitchTypeOK, Entry
  <2>2. PICK paused \in BOOLEAN : Answer(c, paused)
    BY <1>1, <2>1 DEF AnswerFromEnv, AnswerFromCache
  <2>3. UNCHANGED <<flag, cache, admin, lost, overtaken>>
    BY <1>1 DEF AnswerFromEnv, AnswerFromCache
  <2> QED BY <2>2, <2>3, AnswerEffect, CallerKeeps DEF IInv
<1>2. ASSUME NEW c \in Callers, Ask(c) \/ ReadFails(c) \/ Finish(c) PROVE IInv'
  <2>1. PICK row \in {At("idle"), At("asking")} : check' = [check EXCEPT ![c] = row]
    BY <1>2 DEF Ask, ReadFails, Finish, Idle
  <2>2. row \in Check /\ row.pc # "read"
    BY <2>1, AtIsCheck
  <2>3. check' \in [Callers -> Check] /\ check'[c].pc # "read"
        /\ \A d \in Callers \ {c} : check'[d] = check[d]
    BY <2>1, <2>2 DEF IInv, KillSwitchTypeOK
  <2>4. UNCHANGED <<flag, cache, admin, lost, overtaken>>
    BY <1>2 DEF Ask, ReadFails, Finish
  <2> QED BY <2>3, <2>4, CallerKeeps
<1>3. ASSUME NEW c \in Callers, ReadFlag(c) PROVE IInv'
  <2> DEFINE row == [pc |-> "read", value |-> flag, waited |-> check[c].waited]
  <2>1. row \in Check /\ row.value = flag /\ row.waited \in Nat
    BY TtlAssumption DEF IInv, KillSwitchTypeOK, Check
  <2>2. /\ check' = [check EXCEPT ![c] = row]
        /\ UNCHANGED <<flag, cache, admin, lost, overtaken>>
    BY <1>3 DEF ReadFlag
  <2> HIDE DEF row
  <2>3. KillSwitchTypeOK' /\ \A d \in Callers : check'[d] = IF d = c THEN row ELSE check[d]
    BY <2>1, <2>2 DEF IInv, KillSwitchTypeOK
  <2>4. AnswersAreRecent'
    BY <2>1, <2>2, <2>3 DEF IInv, AnswersAreRecent
  <2>5. ServerIsCurrent'
    BY <2>1, <2>2, <2>3 DEF IInv, ServerIsCurrent
  <2> QED BY <2>3, <2>4, <2>5 DEF IInv
<1>4. ASSUME NEW c \in Callers, Fill(c) PROVE IInv'
  <2> DEFINE p == ProcessOf[c]
             row == [value |-> check[c].value, left |-> Ttl - check[c].waited]
  <2>1. /\ p \in Processes /\ check[c].waited \in 0 .. Ttl /\ check[c].value \in BOOLEAN
        /\ check[c].pc = "read"
    BY <1>4, ProcessAssumption DEF Fill, IInv, KillSwitchTypeOK, Check
  <2>2. row \in Entry /\ row.value = check[c].value /\ row.left = Ttl - check[c].waited
    BY <2>1, TtlAssumption DEF Entry
  <2>3. /\ cache' = [cache EXCEPT ![p] = row]
        /\ Answer(c, check[c].value)
        /\ UNCHANGED <<flag, admin, lost, overtaken>>
    BY <1>4 DEF Fill
  <2> HIDE DEF row, p
  <2>4. /\ check' \in [Callers -> Check] /\ check'[c].pc # "read"
        /\ \A d \in Callers \ {c} : check'[d] = check[d]
    BY <2>1, <2>3, AnswerEffect DEF IInv
  <2>5. KillSwitchTypeOK' /\ \A q \in Processes : cache'[q] = IF q = p THEN row ELSE cache[q]
    BY <2>1, <2>2, <2>3, <2>4 DEF IInv, KillSwitchTypeOK
  <2>6. AnswersAreRecent'
    <3>1. lost[check[c].value] <= check[c].waited /\ lost[check[c].value] \in 0 .. Ttl
      BY <2>1 DEF IInv, AnswersAreRecent, KillSwitchTypeOK
    <3>2. lost[row.value] + row.left <= Ttl
      BY <2>1, <2>2, <3>1, TtlAssumption
    <3> QED BY <2>3, <2>4, <2>5, <3>2 DEF IInv, AnswersAreRecent
  <2>7. ServerIsCurrent'
    BY <2>1, <2>2, <2>3, <2>4, <2>5, ProcessAssumption DEF IInv, ServerIsCurrent, p
  <2> QED BY <2>5, <2>6, <2>7 DEF IInv
<1>5. ASSUME NEW v \in BOOLEAN, SetFlag(v) PROVE IInv'
  <2>1. /\ admin' = "written" /\ flag' = v
        /\ lost' = [lost EXCEPT ![v] = 0]
        /\ UNCHANGED <<cache, check, overtaken>>
    BY <1>5 DEF SetFlag
  <2>2. KillSwitchTypeOK' /\ \A w \in BOOLEAN : lost'[w] = IF w = v THEN 0 ELSE lost[w]
    BY <2>1, TtlAssumption DEF IInv, KillSwitchTypeOK
  <2>3. AnswersAreRecent'
    <3>1. \A c \in Callers : check[c].value \in BOOLEAN /\ check[c].waited \in 0 .. Ttl
      BY DEF IInv, KillSwitchTypeOK, Check
    <3>2. \A p \in Processes : cache[p].value \in BOOLEAN /\ cache[p].left \in 0 .. Ttl
      BY DEF IInv, KillSwitchTypeOK, Entry
    <3> QED BY <2>1, <2>2, <3>1, <3>2, TtlAssumption DEF IInv, AnswersAreRecent
  <2>4. ServerIsCurrent'
    BY <2>1 DEF ServerIsCurrent
  <2> QED BY <2>2, <2>3, <2>4 DEF IInv
<1>6. ASSUME Flush PROVE IInv'
  <2>1. /\ cache' = [cache EXCEPT ![Server] = NoEntry]
        /\ overtaken' = \E c \in Callers : /\ ProcessOf[c] = Server
                                           /\ check[c].pc = "read"
                                           /\ check[c].value # flag
        /\ admin' = "idle"
        /\ UNCHANGED <<flag, check, lost>>
    BY <1>6 DEF Flush
  <2>2. NoEntry \in Entry /\ NoEntry.left = 0
    BY TtlAssumption DEF NoEntry, Entry
  <2>3. \A q \in Processes : cache'[q] = IF q = Server THEN NoEntry ELSE cache[q]
    BY <2>1 DEF IInv, KillSwitchTypeOK
  <2>4. overtaken' \in BOOLEAN
    BY <2>1
  <2>5. KillSwitchTypeOK'
    BY <2>1, <2>2, <2>4 DEF IInv, KillSwitchTypeOK
  <2>6. AnswersAreRecent'
    BY <2>1, <2>2, <2>3 DEF IInv, AnswersAreRecent
  <2>7. ServerIsCurrent'
    BY <2>1, <2>2, <2>3, ProcessAssumption DEF ServerIsCurrent
  <2> QED BY <2>5, <2>6, <2>7 DEF IInv
<1>7. ASSUME NEW p \in Processes, StartProcess(p) PROVE IInv'
  <2>1. /\ cache' = [cache EXCEPT ![p] = NoEntry]
        /\ check' = [c \in Callers |-> IF ProcessOf[c] = p THEN Idle ELSE check[c]]
        /\ UNCHANGED <<flag, admin, lost, overtaken>>
    BY <1>7 DEF StartProcess
  <2>2. NoEntry \in Entry /\ NoEntry.left = 0 /\ Idle \in Check /\ Idle.pc # "read"
    BY TtlAssumption, AtIsCheck DEF NoEntry, Entry, Idle
  <2>3. \A q \in Processes : cache'[q] = IF q = p THEN NoEntry ELSE cache[q]
    BY <2>1 DEF IInv, KillSwitchTypeOK
  <2>4. \A c \in Callers : check'[c].pc = "read" => check'[c] = check[c]
    BY <2>1, <2>2
  <2>5. KillSwitchTypeOK'
    BY <2>1, <2>2 DEF IInv, KillSwitchTypeOK
  <2>6. AnswersAreRecent'
    BY <2>1, <2>2, <2>3, <2>4 DEF IInv, AnswersAreRecent
  <2>7. ServerIsCurrent'
    BY <2>1, <2>2, <2>3, <2>4, ProcessAssumption DEF IInv, ServerIsCurrent
  <2> QED BY <2>5, <2>6, <2>7 DEF IInv
<1>8. ASSUME KillSwitchTick PROVE IInv'
  <2>1. /\ \A p \in Processes : /\ cache[p].left \in 0 .. Ttl /\ cache[p].value \in BOOLEAN
                                /\ cache'[p].value = cache[p].value
                                /\ cache'[p].left = IF cache[p].left > 0
                                                      THEN cache[p].left - 1 ELSE 0
        /\ cache' \in [Processes -> Entry]
    BY <1>8, TtlAssumption DEF KillSwitchTick, IInv, KillSwitchTypeOK, Entry
  <2>2. /\ \A c \in Callers : /\ check[c].waited \in 0 .. Ttl /\ check[c].value \in BOOLEAN
                              /\ check'[c].pc = check[c].pc
                              /\ check'[c].value = check[c].value
                              /\ check[c].pc = "read" =>
                                    check'[c].waited = Older(check[c].waited)
        /\ check' \in [Callers -> Check]
    BY <1>8, TtlAssumption DEF KillSwitchTick, IInv, KillSwitchTypeOK, Check, Older
  <2>3. /\ \A v \in BOOLEAN : /\ lost[v] \in 0 .. Ttl
                              /\ lost'[v] = IF v = flag THEN 0 ELSE Older(lost[v])
        /\ lost' \in [BOOLEAN -> 0 .. Ttl]
        /\ flag \in BOOLEAN
        /\ UNCHANGED <<flag, admin, overtaken>>
    BY <1>8, TtlAssumption DEF KillSwitchTick, IInv, KillSwitchTypeOK, Older
  <2>4. KillSwitchTypeOK'
    BY <2>1, <2>2, <2>3 DEF IInv, KillSwitchTypeOK
  <2>5. AnswersAreRecent'
    BY <2>1, <2>2, <2>3, TtlAssumption DEF IInv, AnswersAreRecent, Older
  <2>6. ServerIsCurrent'
    <3>1. /\ \A c \in Callers : check'[c].pc = check[c].pc
                               /\ check'[c].value = check[c].value
          /\ cache'[Server].left > 0 => cache[Server].left > 0
          /\ cache'[Server].value = cache[Server].value
      BY <2>1, <2>2, ProcessAssumption
    <3>2. flag' = flag /\ admin' = admin /\ (overtaken' <=> overtaken)
      BY <2>3
    <3> QED BY <3>1, <3>2, Zenon DEF IInv, ServerIsCurrent
  <2> QED BY <2>4, <2>5, <2>6 DEF IInv
<1>9. CASE UNCHANGED killSwitchVars
  BY <1>9 DEF killSwitchVars, IInv, KillSwitchTypeOK, AnswersAreRecent, ServerIsCurrent
<1> QED BY <1>1, <1>2, <1>3, <1>4, <1>5, <1>6, <1>7, <1>8, <1>9 DEF SwitchStep

-----------------------------------------------------------------------------
(* Theorems *)

LEMMA AlwaysIInv == Spec => []IInv
<1>1. Init => IInv
  BY InitInv DEF Init
<1>2. IInv /\ [Next]_gatewayVars => IInv'
  BY StepInv, GatewayStep
<1> QED BY <1>1, <1>2, PTL DEF Spec

\* After the admin route has answered, its process never serves another value
\* than the flag's, unless a check that had read the old one was under way.
THEOREM FlushHolds == Spec => []FlushedIsFresh
<1>1. IInv => FlushedIsFresh
  BY DEF IInv, ServerIsCurrent, FlushedIsFresh, Fresh
<1> QED BY AlwaysIInv, <1>1, PTL

\* In every process what a cache answers with, the flag had within the TTL,
\* whatever crosses, restarts or takes long; and what a query brings its
\* caller, the flag had since the check began.
THEOREM CacheLagsByTtl == Spec => []CacheIsRecent
<1>1. IInv => CacheIsRecent
  <2> SUFFICES ASSUME IInv PROVE CacheIsRecent
    OBVIOUS
  <2>1. ASSUME NEW p \in Processes, cache[p].left > 0
        PROVE  lost[cache[p].value] < Ttl
    <3>1. cache[p].left \in 0 .. Ttl /\ lost[cache[p].value] \in 0 .. Ttl
      BY DEF IInv, KillSwitchTypeOK, Entry
    <3>2. lost[cache[p].value] + cache[p].left <= Ttl
      BY <2>1 DEF IInv, AnswersAreRecent
    <3> QED BY <2>1, <3>1, <3>2, TtlAssumption
  <2> QED BY <2>1 DEF CacheIsRecent, Fresh, IInv, AnswersAreRecent
<1> QED BY AlwaysIInv, <1>1, PTL

-----------------------------------------------------------------------------
(* The rate limiter: lengths *)

LEMMA RequestsFinite ==
    ASSUME NEW n \in Nat, NEW times \in [0 .. n -> Nat]
    PROVE  IsFiniteSet(Requests(times))
  <1> DEFINE column == [age \in 0 .. n |-> {age} \X (1 .. times[age])]
             columns == {column[age] : age \in 0 .. n}
  <1>1. IsFiniteSet(columns)
    <2>1. column \in Surjection(0 .. n, columns)
      BY DEF Surjection
    <2>2. IsFiniteSet(0 .. n)
      BY FS_Interval
    <2>. QED  BY <2>1, <2>2, FS_Surjection
  <1>2. \A c \in columns : IsFiniteSet(c)
    <2>1. SUFFICES ASSUME NEW age \in 0 .. n PROVE IsFiniteSet({age} \X (1 .. times[age]))
      OBVIOUS
    <2>2. IsFiniteSet({age})
      BY FS_Singleton
    <2>3. IsFiniteSet(1 .. times[age])
      <3>1. times[age] \in Int
        OBVIOUS
      <3>. QED  BY <3>1, FS_Interval
    <2>. QED  BY <2>2, <2>3, FS_Product
  <1>3. Requests(times) = UNION columns
    BY DEF Requests
  <1>. QED  BY <1>1, <1>2, <1>3, FS_UNION

LEMMA RequestIn ==
    ASSUME NEW n \in Nat, NEW times \in [0 .. n -> Nat]
    PROVE  \A r : r \in Requests(times)
                    <=> \E age \in 0 .. n : \E i \in 1 .. times[age] : r = <<age, i>>
  <1>1. \A age, r : r \in {age} \X (1 .. times[age])
                      <=> \E i \in 1 .. times[age] : r = <<age, i>>
    OBVIOUS
  <1>. QED  BY <1>1 DEF Requests

LEMMA LengthIsNat ==
    ASSUME NEW n \in Nat, NEW times \in [0 .. n -> Nat]
    PROVE  Length(times) \in Nat
  BY RequestsFinite, FS_CardinalityType DEF Length

LEMMA LengthOfNone ==
    ASSUME NEW n \in Nat, NEW times \in [0 .. n -> Nat], \A age \in 0 .. n : times[age] = 0
    PROVE  Length(times) = 0
  <1>1. Requests(times) = {}
    BY RequestIn
  <1>. QED  BY <1>1, FS_EmptySet DEF Length

\* An array that has no times has length 0, and no other has.
LEMMA LengthOfSome ==
    ASSUME NEW n \in Nat, NEW times \in [0 .. n -> Nat], Length(times) # 0
    PROVE  \E age \in 0 .. n : times[age] > 0
  BY LengthOfNone

LEMMA LengthOfOneMore ==
    ASSUME NEW n \in Nat, NEW times \in [0 .. n -> Nat], NEW more \in [0 .. n -> Nat],
           more[0] = times[0] + 1, \A age \in 1 .. n : more[age] = times[age]
    PROVE  Length(more) = Length(times) + 1
  <1>1. \A r : r \in Requests(times)
                 <=> \E age \in 0 .. n : \E i \in 1 .. times[age] : r = <<age, i>>
    BY RequestIn
  <1>2. \A r : r \in Requests(more)
                 <=> \E age \in 0 .. n : \E i \in 1 .. more[age] : r = <<age, i>>
    BY RequestIn
  <1>3. times[0] \in Nat /\ 0 \in 0 .. n
    OBVIOUS
  <1> DEFINE new == <<0, times[0] + 1>>
  <1>4. new \notin Requests(times)
    BY <1>1, <1>3
  <1>5. Requests(more) = Requests(times) \cup {new}
    <2>1. \A i : i \in 1 .. more[0] <=> i \in 1 .. times[0] \/ i = times[0] + 1
      BY <1>3
    <2>2. ASSUME NEW r
          PROVE  r \in Requests(more) <=> r \in Requests(times) \/ r = new
      BY <1>1, <1>2, <1>3, <2>1
    <2>. QED  BY <2>2
  <1>6. IsFiniteSet(Requests(times))
    BY RequestsFinite
  <1> HIDE DEF new
  <1>. QED  BY <1>4, <1>5, <1>6, FS_AddElement DEF Length

LEMMA LengthOfPush ==
    ASSUME NEW n \in Nat, NEW times \in [0 .. n -> Nat]
    PROVE  /\ Push(times) \in [0 .. n -> Nat]
           /\ Push(times)[0] = times[0] + 1
           /\ \A age \in 1 .. n : Push(times)[age] = times[age]
           /\ Length(Push(times)) = Length(times) + 1
  <1> DEFINE more == Push(times)
  <1>1. more \in [0 .. n -> Nat]
    BY DEF Push
  <1>2. more[0] = times[0] + 1
    BY DEF Push
  <1>3. \A age \in 1 .. n : more[age] = times[age]
    BY DEF Push
  <1> HIDE DEF more
  <1>4. Length(more) = Length(times) + 1
    BY <1>1, <1>2, <1>3, LengthOfOneMore
  <1>. QED  BY <1>1, <1>2, <1>3, <1>4 DEF more

\* Times that are each as many or fewer, after as many have passed the end as
\* ever: no array gets longer by getting older.
LEMMA LengthOfOlder ==
    ASSUME NEW n \in Nat, NEW times \in [0 .. n -> Nat], NEW older \in [0 .. n -> Nat],
           older[0] = 0, \A age \in 1 .. n : older[age] <= times[age - 1]
    PROVE  Length(older) <= Length(times)
  <1> DEFINE before == [r \in Requests(older) |-> <<r[1] - 1, r[2]>>]
  <1>0. \A r : r \in Requests(older)
                 <=> \E age \in 0 .. n : \E i \in 1 .. older[age] : r = <<age, i>>
    <2> HIDE DEF before
    <2>. QED  BY RequestIn
  <1>1. ASSUME NEW r \in Requests(older)
        PROVE  /\ before[r] \in Requests(times)
               /\ r = <<before[r][1] + 1, before[r][2]>>
    <2>1. PICK age \in 0 .. n : \E i \in 1 .. older[age] : r = <<age, i>>
      BY <1>0
    <2>2. PICK i \in 1 .. older[age] : r = <<age, i>>
      BY <2>1
    <2>3. age # 0
      BY <2>2
    <2>4. before[r] = <<age - 1, i>> /\ age - 1 \in 0 .. n /\ i \in 1 .. times[age - 1]
      BY <2>2, <2>3
    <2> HIDE DEF before
    <2>5. before[r] \in Requests(times)
      BY <2>4, RequestIn
    <2>. QED  BY <2>2, <2>4, <2>5
  <1>2. before \in Injection(Requests(older), Requests(times))
    <2>1. before \in [Requests(older) -> Requests(times)]
      BY <1>1
    <2>2. \A r, s \in Requests(older) : before[r] = before[s] => r = s
      <3>1. SUFFICES ASSUME NEW r \in Requests(older), NEW s \in Requests(older),
                            before[r] = before[s]
                     PROVE  r = s
        OBVIOUS
      <3> HIDE DEF before
      <3>. QED  BY <1>1, <3>1
    <2> HIDE DEF before
    <2>. QED  BY <2>1, <2>2 DEF Injection, IsInjective
  <1>. QED  BY <1>2, RequestsFinite, FS_Injection DEF Length

\* And if none has passed the end, none is lost.
LEMMA LengthOfNewer ==
    ASSUME NEW n \in Nat, NEW times \in [0 .. n -> Nat], NEW older \in [0 .. n -> Nat],
           times[n] = 0, \A age \in 1 .. n : times[age - 1] <= older[age]
    PROVE  Length(times) <= Length(older)
  <1> DEFINE after == [r \in Requests(times) |-> <<r[1] + 1, r[2]>>]
  <1>0. \A r : r \in Requests(times)
                 <=> \E age \in 0 .. n : \E i \in 1 .. times[age] : r = <<age, i>>
    <2> HIDE DEF after
    <2>. QED  BY RequestIn
  <1>1. ASSUME NEW r \in Requests(times)
        PROVE  /\ after[r] \in Requests(older)
               /\ r = <<after[r][1] - 1, after[r][2]>>
    <2>1. PICK age \in 0 .. n : \E i \in 1 .. times[age] : r = <<age, i>>
      BY <1>0
    <2>2. PICK i \in 1 .. times[age] : r = <<age, i>>
      BY <2>1
    <2>3. age # n
      BY <2>2
    <2>4. after[r] = <<age + 1, i>> /\ age + 1 \in 1 .. n /\ i \in 1 .. older[age + 1]
      <3>1. age + 1 \in 1 .. n /\ (age + 1) - 1 = age
        BY <2>3
      <3>2. times[age] <= older[age + 1] /\ times[age] \in Nat /\ older[age + 1] \in Nat
        BY <3>1
      <3>. QED  BY <2>2, <3>1, <3>2
    <2> HIDE DEF after
    <2>5. \A q : q \in Requests(older)
                   <=> \E a \in 0 .. n : \E m \in 1 .. older[a] : q = <<a, m>>
      BY RequestIn
    <2>6. after[r] \in Requests(older)
      <3>1. age + 1 \in 0 .. n
        BY <2>4
      <3>. QED  BY <3>1, <2>4, <2>5
    <2>. QED  BY <2>2, <2>4, <2>6
  <1>2. after \in Injection(Requests(times), Requests(older))
    <2>1. after \in [Requests(times) -> Requests(older)]
      BY <1>1
    <2>2. \A r, s \in Requests(times) : after[r] = after[s] => r = s
      <3>1. SUFFICES ASSUME NEW r \in Requests(times), NEW s \in Requests(times),
                            after[r] = after[s]
                     PROVE  r = s
        OBVIOUS
      <3> HIDE DEF after
      <3>. QED  BY <1>1, <3>1
    <2> HIDE DEF after
    <2>. QED  BY <2>1, <2>2 DEF Injection, IsInjective
  <1>. QED  BY <1>2, RequestsFinite, FS_Injection DEF Length

\* An array is no shorter than one with as many of each age or fewer.
LEMMA LengthOfFewer ==
    ASSUME NEW n \in Nat, NEW times \in [0 .. n -> Nat], NEW fewer \in [0 .. n -> Nat],
           \A age \in 0 .. n : fewer[age] <= times[age]
    PROVE  Length(fewer) <= Length(times)
  <1>1. Requests(fewer) \subseteq Requests(times)
    <2>1. SUFFICES ASSUME NEW r \in Requests(fewer) PROVE r \in Requests(times)
      OBVIOUS
    <2>2. PICK age \in 0 .. n : \E i \in 1 .. fewer[age] : r = <<age, i>>
      BY RequestIn
    <2>3. PICK i \in 1 .. fewer[age] : r = <<age, i>>
      BY <2>2
    <2>4. i \in 1 .. times[age]
      <3>1. fewer[age] <= times[age] /\ fewer[age] \in Nat /\ times[age] \in Nat
        OBVIOUS
      <3>. QED  BY <3>1
    <2>. QED  BY <2>3, <2>4, RequestIn
  <1>. QED  BY <1>1, RequestsFinite, FS_Subset DEF Length

-----------------------------------------------------------------------------
(* The rate limiter: its invariant *)

\* The times of the last w ticks.
Younger(times, w) == [age \in DOMAIN times |-> IF age < w THEN times[age] ELSE 0]

\* What is stored was let through.
StoredIsHits ==
    \A k \in Keys : \A age \in 0 .. Window[k] - 1 : windows[k][age] <= hits[k][age]

\* What was let through and is not stored was forgotten by a restart, a bucket
\* by each, and that in every part of the window that ends now.
ForgottenByRestart ==
    \A k \in Keys : \A w \in 0 .. Window[k] :
        Length(Younger(hits[k], w))
          <= Length(Younger(windows[k], w)) + MaxRequests[k] * Length(Younger(restarts[k], w))

WithinLimit == \A k \in Keys : Length(Counted(k, windows[k])) <= MaxRequests[k]

LimiterIInv ==
    LimiterTypeOK /\ StoredIsHits /\ ForgottenByRestart /\ WithinLimit /\ AbandonedIsSwept

\* A step of the gateway, as the limiter sees it.
LimiterStep ==
    \/ \E k \in Keys : CheckKey(k)
    \/ StartLimiter
    \/ LimiterTick
    \/ UNCHANGED limiterVars

LEMMA GatewayLimiterStep == [Next]_gatewayVars => LimiterStep
  <1> SUFFICES ASSUME [Next]_gatewayVars PROVE LimiterStep
    OBVIOUS
  <1>1. ASSUME NEW c \in ApiRequests, ApiArrives(c) \/ ApiAdmitted(c)
        PROVE  LimiterStep
    BY <1>1, CallerAssumption DEF ApiArrives, ApiAdmitted, LimiterStep
  <1>2. ASSUME NEW c \in FormRequests, FormArrives(c) \/ WorkEnds(c)
        PROVE  LimiterStep
    BY <1>2, CallerAssumption DEF FormArrives, WorkEnds, LimiterStep
  <1>3. ASSUME NEW c, LoopTurns(c) \/ WorkEnds(c) \/ CheckGoesOn(c)
        PROVE  LimiterStep
    BY <1>3 DEF LoopTurns, WorkEnds, CheckGoesOn, LimiterStep
  <1>4. ASSUME \/ \E v \in BOOLEAN : AdminSets(v)
               \/ AdminFlushes
               \/ \E p \in Processes : Restart(p)
               \/ Tick
        PROVE  LimiterStep
    BY <1>4 DEF AdminSets, AdminFlushes, Restart, Tick, LimiterStep
  <1>5. CASE UNCHANGED gatewayVars
    BY <1>5 DEF gatewayVars, LimiterStep
  <1>. QED  BY <1>1, <1>2, <1>3, <1>4, <1>5 DEF Next

\* The ages of a key: its window is among them, and age 0 is in its window.
LEMMA AgesOf ==
    ASSUME NEW k \in Keys
    PROVE  /\ OldestAge(k) \in Nat \ {0} /\ Window[k] \in Nat \ {0} /\ SweepInterval \in Nat \ {0}
           /\ MaxRequests[k] \in Nat \ {0}
           /\ OldestAge(k) = Window[k] + SweepInterval - 1
           /\ 0 \in 0 .. Window[k] - 1
           /\ \A age \in 0 .. Window[k] - 1 : age \in 0 .. OldestAge(k)
  <1>1. Window[k] \in Nat \ {0} /\ MaxRequests[k] \in Nat \ {0} /\ SweepInterval \in Nat \ {0}
    BY BucketAssumption
  <1>. QED  BY <1>1 DEF OldestAge

LEMMA NoTimesOf ==
    ASSUME NEW k \in Keys
    PROVE  /\ NoTimes(k) \in Times(k)
           /\ \A age \in 0 .. OldestAge(k) : NoTimes(k)[age] = 0
  BY DEF NoTimes, Times

LEMMA YoungerOf ==
    ASSUME NEW k \in Keys, NEW times \in Times(k), NEW w \in Nat
    PROVE  /\ Younger(times, w) \in Times(k)
           /\ Length(Younger(times, w)) \in Nat
           /\ \A age \in 0 .. OldestAge(k) :
                 Younger(times, w)[age] = IF age < w THEN times[age] ELSE 0
  <1>1. Younger(times, w) \in Times(k)
    BY DEF Younger, Times
  <1>2. Length(Younger(times, w)) \in Nat
    BY <1>1, AgesOf, LengthIsNat DEF Times
  <1>. QED  BY <1>1, <1>2 DEF Younger, Times

LEMMA CountedOf ==
    ASSUME NEW k \in Keys, NEW times \in Times(k)
    PROVE  /\ Counted(k, times) = Younger(times, Window[k])
           /\ Counted(k, times) \in Times(k)
           /\ \A age \in 0 .. OldestAge(k) :
                 Counted(k, times)[age] = IF age < Window[k] THEN times[age] ELSE 0
  <1>1. Counted(k, times) = Younger(times, Window[k])
    BY DEF Counted, Younger
  <1>2. Window[k] \in Nat
    BY AgesOf
  <1>3. /\ Younger(times, Window[k]) \in Times(k)
        /\ \A age \in 0 .. OldestAge(k) :
              Younger(times, Window[k])[age] = IF age < Window[k] THEN times[age] ELSE 0
    BY <1>2, YoungerOf
  <1>. QED  BY <1>1, <1>3

LEMMA PushOf ==
    ASSUME NEW k \in Keys, NEW times \in Times(k)
    PROVE  /\ Push(times) \in Times(k)
           /\ \A age \in 0 .. OldestAge(k) :
                 Push(times)[age] = IF age = 0 THEN times[0] + 1 ELSE times[age]
  <1>1. OldestAge(k) \in Nat
    BY AgesOf
  <1>2. times \in [0 .. OldestAge(k) -> Nat] /\ 0 \in 0 .. OldestAge(k)
    BY <1>1 DEF Times
  <1>3. times[0] + 1 \in Nat
    BY <1>2
  <1>. QED  BY <1>2, <1>3 DEF Push, Times

\* Two arrays that agree in the last w ticks have the same times there.
LEMMA SameYounger ==
    ASSUME NEW k \in Keys, NEW times \in Times(k), NEW other \in Times(k), NEW w \in Nat,
           \A age \in 0 .. OldestAge(k) : age < w => times[age] = other[age]
    PROVE  Younger(times, w) = Younger(other, w)
  <1> DEFINE one == Younger(times, w)
             two == Younger(other, w)
  <1>1. one \in [0 .. OldestAge(k) -> Nat] /\ two \in [0 .. OldestAge(k) -> Nat]
    BY YoungerOf DEF Times
  <1>2. \A age \in 0 .. OldestAge(k) : one[age] = two[age]
    <2>1. \A age \in 0 .. OldestAge(k) : one[age] = IF age < w THEN times[age] ELSE 0
      BY YoungerOf
    <2>2. \A age \in 0 .. OldestAge(k) : two[age] = IF age < w THEN other[age] ELSE 0
      BY YoungerOf
    <2> HIDE DEF one, two
    <2>. QED  BY <2>1, <2>2
  <1> HIDE DEF one, two
  <1>3. one = two
    <2>1. /\ one = [age \in 0 .. OldestAge(k) |-> one[age]]
          /\ two = [age \in 0 .. OldestAge(k) |-> two[age]]
      BY <1>1
    <2>2. [age \in 0 .. OldestAge(k) |-> one[age]] = [age \in 0 .. OldestAge(k) |-> two[age]]
      BY <1>2
    <2>. QED  BY <2>1, <2>2
  <1>. QED  BY <1>3 DEF one, two

\* No more in a shorter time.
LEMMA YoungerIsLess ==
    ASSUME NEW k \in Keys, NEW times \in Times(k), NEW other \in Times(k),
           NEW w \in Nat, NEW v \in Nat, w <= v,
           \A age \in 0 .. OldestAge(k) : age < w => times[age] <= other[age]
    PROVE  Length(Younger(times, w)) <= Length(Younger(other, v))
  <1> DEFINE one == Younger(times, w)
             two == Younger(other, v)
  <1>1. one \in [0 .. OldestAge(k) -> Nat] /\ two \in [0 .. OldestAge(k) -> Nat]
    BY YoungerOf DEF Times
  <1>2. \A age \in 0 .. OldestAge(k) : one[age] <= two[age]
    <2>1. SUFFICES ASSUME NEW age \in 0 .. OldestAge(k) PROVE one[age] <= two[age]
      OBVIOUS
    <2>2. /\ one[age] = IF age < w THEN times[age] ELSE 0
          /\ two[age] = IF age < v THEN other[age] ELSE 0
      BY YoungerOf
    <2>3. one[age] \in Nat /\ two[age] \in Nat /\ age \in Nat
      BY <1>1, AgesOf
    <2> HIDE DEF one, two
    <2>. QED  BY <2>2, <2>3
  <1> HIDE DEF one, two
  <1>3. Length(one) <= Length(two)
    BY <1>1, <1>2, AgesOf, LengthOfFewer
  <1>. QED  BY <1>3 DEF one, two

LEMMA NoneIsYounger ==
    ASSUME NEW k \in Keys, NEW times \in Times(k), NEW w \in Nat,
           \A age \in 0 .. OldestAge(k) : age < w => times[age] = 0
    PROVE  Length(Younger(times, w)) = 0
  <1> DEFINE none == Younger(times, w)
  <1>1. none \in [0 .. OldestAge(k) -> Nat] /\ \A age \in 0 .. OldestAge(k) : none[age] = 0
    <2>1. none \in [0 .. OldestAge(k) -> Nat]
      BY YoungerOf DEF Times
    <2>2. \A age \in 0 .. OldestAge(k) : none[age] = IF age < w THEN times[age] ELSE 0
      BY YoungerOf
    <2> HIDE DEF none
    <2>. QED  BY <2>1, <2>2
  <1> HIDE DEF none
  <1>2. Length(none) = 0
    BY <1>1, AgesOf, LengthOfNone
  <1>. QED  BY <1>2 DEF none

\* A sweep takes nothing that a window reaches.
LEMMA SweptOf ==
    ASSUME LimiterTypeOK, NEW k \in Keys
    PROVE  /\ Swept(k) \in Times(k)
           /\ \A age \in 0 .. Window[k] - 1 : Swept(k)[age] = windows[k][age]
           /\ Swept(k) \in {windows[k], NoTimes(k)}
           /\ sweptAgo >= SweepInterval /\ NewestIn(Swept(k), 0 .. OldestAge(k))
                => NewestIn(Swept(k), 0 .. Window[k] - 1)
  <1>1. windows[k] \in Times(k)
    BY DEF LimiterTypeOK
  <1>2. CASE sweptAgo >= SweepInterval /\ ~NewestIn(windows[k], 0 .. Window[k] - 1)
    <2>1. Swept(k) = NoTimes(k)
      BY <1>2 DEF Swept
    <2>2. \A age \in 0 .. Window[k] - 1 : windows[k][age] = 0
      <3>1. SUFFICES ASSUME NEW age \in 0 .. Window[k] - 1 PROVE windows[k][age] = 0
        OBVIOUS
      <3>2. ~(windows[k][age] > 0)
        BY <1>2 DEF NewestIn
      <3>3. windows[k][age] \in Nat
        BY <1>1, AgesOf DEF Times
      <3>. QED  BY <3>2, <3>3
    <2>3. ~NewestIn(NoTimes(k), 0 .. OldestAge(k))
      BY NoTimesOf DEF NewestIn
    <2>. QED  BY <2>1, <2>2, <2>3, NoTimesOf, AgesOf
  <1>3. CASE ~(sweptAgo >= SweepInterval /\ ~NewestIn(windows[k], 0 .. Window[k] - 1))
    <2>1. Swept(k) = windows[k]
      BY <1>3 DEF Swept
    <2>. QED  BY <2>1, <1>1, <1>3
  <1>. QED  BY <1>2, <1>3

\* What the limiter counts is what it has stored in the window.
LEMMA FreshIsStored ==
    ASSUME LimiterTypeOK, NEW k \in Keys
    PROVE  FreshHits(k) = Counted(k, windows[k])
  <1>1. windows[k] \in Times(k) /\ Swept(k) \in Times(k)
    BY SweptOf DEF LimiterTypeOK
  <1>2. \A age \in 0 .. OldestAge(k) : age < Window[k] => Swept(k)[age] = windows[k][age]
    <2>1. \A age \in 0 .. OldestAge(k) : age < Window[k] => age \in 0 .. Window[k] - 1
      BY AgesOf
    <2>. QED  BY <2>1, SweptOf
  <1>. QED  BY <1>1, <1>2, AgesOf, SameYounger, CountedOf DEF FreshHits

-----------------------------------------------------------------------------
(* The rate limiter: its steps *)

\* m for one more start.
LEMMA OneMoreQuota ==
    ASSUME NEW m \in Nat, NEW s \in Nat
    PROVE  m * s \in Nat /\ m * (s + 1) = m * s + m /\ m * (1 + s) = m * s + m
  OBVIOUS

LEMMA AgedOf ==
    ASSUME NEW k \in Keys, NEW times \in Times(k)
    PROVE  /\ Aged(k, times) \in Times(k)
           /\ Aged(k, times)[0] = 0
           /\ \A age \in 1 .. OldestAge(k) :
                 Aged(k, times)[age]
                   = times[age - 1] + IF age = OldestAge(k) THEN times[age] ELSE 0
  <1>1. OldestAge(k) \in Nat /\ times \in [0 .. OldestAge(k) -> Nat]
    BY AgesOf DEF Times
  <1>2. \A age \in 0 .. OldestAge(k) :
           /\ times[age] \in Nat
           /\ age # 0 => times[age - 1] \in Nat
    BY <1>1
  <1>3. Aged(k, times) \in Times(k)
    BY <1>1, <1>2 DEF Aged, Times
  <1>4. Aged(k, times)[0] = 0
    BY <1>1 DEF Aged
  <1>. QED  BY <1>1, <1>3, <1>4 DEF Aged

\* A request that is let through is one more in any time up to now.
LEMMA YoungerPush ==
    ASSUME NEW k \in Keys, NEW times \in Times(k), NEW w \in Nat \ {0}
    PROVE  Length(Younger(Push(times), w)) = Length(Younger(times, w)) + 1
  <1> DEFINE one == Younger(times, w)
             more == Younger(Push(times), w)
  <1>1. one \in [0 .. OldestAge(k) -> Nat] /\ more \in [0 .. OldestAge(k) -> Nat]
    BY YoungerOf, PushOf DEF Times
  <1>2. more[0] = one[0] + 1 /\ \A age \in 1 .. OldestAge(k) : more[age] = one[age]
    <2>1. \A age \in 0 .. OldestAge(k) :
             more[age] = IF age < w THEN IF age = 0 THEN times[0] + 1 ELSE times[age] ELSE 0
      <3>1. Push(times) \in Times(k)
        BY PushOf
      <3>2. \A age \in 0 .. OldestAge(k) : more[age] = IF age < w THEN Push(times)[age] ELSE 0
        BY <3>1, YoungerOf
      <3> HIDE DEF more
      <3>. QED  BY <3>2, PushOf
    <2>2. \A age \in 0 .. OldestAge(k) : one[age] = IF age < w THEN times[age] ELSE 0
      BY YoungerOf
    <2>3. 0 \in 0 .. OldestAge(k) /\ 0 < w
      BY AgesOf
    <2> HIDE DEF one, more
    <2>4. more[0] = one[0] + 1
      BY <2>1, <2>2, <2>3
    <2>5. \A age \in 1 .. OldestAge(k) : more[age] = one[age]
      BY <2>1, <2>2, AgesOf
    <2>. QED  BY <2>4, <2>5
  <1> HIDE DEF one, more
  <1>3. Length(more) = Length(one) + 1
    BY <1>1, <1>2, AgesOf, LengthOfOneMore
  <1>. QED  BY <1>3 DEF one, more

\* What is in a time a tick later was in the time without it.
LEMMA YoungerAged ==
    ASSUME NEW k \in Keys, NEW times \in Times(k), NEW w \in 1 .. Window[k]
    PROVE  Length(Younger(Aged(k, times), w)) = Length(Younger(times, w - 1))
  <1> DEFINE before == Younger(times, w - 1)
             older == Younger(Aged(k, times), w)
  <1>1. w \in Nat /\ w - 1 \in Nat /\ w <= OldestAge(k) /\ OldestAge(k) \in Nat
    BY AgesOf
  <1>2. before \in [0 .. OldestAge(k) -> Nat] /\ older \in [0 .. OldestAge(k) -> Nat]
    BY <1>1, AgedOf, YoungerOf DEF Times
  <1>3. older[0] = 0
    <2>1. Aged(k, times) \in Times(k) /\ 0 \in 0 .. OldestAge(k) /\ 0 < w
      BY <1>1, AgedOf
    <2>2. older[0] = IF 0 < w THEN Aged(k, times)[0] ELSE 0
      BY <1>1, <2>1, YoungerOf
    <2>. QED  BY <2>1, <2>2, AgedOf
  <1>4. before[OldestAge(k)] = 0
    <2>1. OldestAge(k) \in 0 .. OldestAge(k) /\ ~(OldestAge(k) < w - 1)
      BY <1>1
    <2>. QED  BY <2>1, <1>1, YoungerOf
  <1>5. \A age \in 1 .. OldestAge(k) : older[age] = before[age - 1]
    <2>1. SUFFICES ASSUME NEW age \in 1 .. OldestAge(k) PROVE older[age] = before[age - 1]
      OBVIOUS
    <2>2. /\ age \in 0 .. OldestAge(k) /\ age - 1 \in 0 .. OldestAge(k)
          /\ age < w <=> age - 1 < w - 1
          /\ age < w => age # OldestAge(k)
      BY <1>1
    <2>3. older[age] = IF age < w THEN Aged(k, times)[age] ELSE 0
      BY <1>1, <2>2, AgedOf, YoungerOf
    <2>4. before[age - 1] = IF age - 1 < w - 1 THEN times[age - 1] ELSE 0
      BY <1>1, <2>2, YoungerOf
    <2>5. times[age - 1] \in Nat
      BY <2>2 DEF Times
    <2>6. age < w => Aged(k, times)[age] = times[age - 1]
      BY <2>2, <2>5, AgedOf
    <2> HIDE DEF before, older
    <2>. QED  BY <2>2, <2>3, <2>4, <2>6
  <1> HIDE DEF before, older
  <1>6. \A age \in 1 .. OldestAge(k) :
           older[age] <= before[age - 1] /\ before[age - 1] <= older[age]
    <2>1. SUFFICES ASSUME NEW age \in 1 .. OldestAge(k)
                   PROVE  older[age] <= before[age - 1] /\ before[age - 1] <= older[age]
      OBVIOUS
    <2>2. older[age] \in Nat /\ older[age] = before[age - 1]
      BY <1>1, <1>2, <1>5
    <2>. QED  BY <2>2
  <1>7. Length(older) <= Length(before)
    BY <1>1, <1>2, <1>3, <1>6, LengthOfOlder
  <1>8. Length(before) <= Length(older)
    BY <1>1, <1>2, <1>4, <1>6, LengthOfNewer
  <1>9. Length(before) \in Nat /\ Length(older) \in Nat
    BY <1>1, <1>2, LengthIsNat
  <1>10. Length(older) = Length(before)
    BY <1>7, <1>8, <1>9
  <1>. QED  BY <1>10 DEF before, older

\* What no window reaches can be forgotten.
LEMMA YoungerCounted ==
    ASSUME NEW k \in Keys, NEW times \in Times(k), NEW w \in 0 .. Window[k]
    PROVE  Younger(Counted(k, times), w) = Younger(times, w)
  <1>1. w \in Nat /\ Counted(k, times) \in Times(k)
    BY AgesOf, CountedOf
  <1>2. \A age \in 0 .. OldestAge(k) : age < w => Counted(k, times)[age] = times[age]
    BY AgesOf, CountedOf
  <1>. QED  BY <1>1, <1>2, SameYounger

LEMMA InitLimiter == LimiterInit => LimiterIInv
  <1> SUFFICES ASSUME LimiterInit PROVE LimiterIInv
    OBVIOUS
  <1>1. LimiterTypeOK
    <2>1. sweptAgo \in 0 .. SweepInterval
      BY BucketAssumption DEF LimiterInit
    <2>. QED  BY <2>1, NoTimesOf DEF LimiterInit, LimiterTypeOK
  <1>2. StoredIsHits
    BY NoTimesOf, AgesOf DEF LimiterInit, StoredIsHits
  <1>3. ASSUME NEW k \in Keys, NEW w \in 0 .. Window[k]
        PROVE  /\ Length(Younger(windows[k], w)) = 0
               /\ Length(Younger(hits[k], w)) = 0
               /\ Length(Younger(restarts[k], w)) = 0
    BY NoTimesOf, NoneIsYounger, AgesOf DEF LimiterInit
  <1>4. ForgottenByRestart
    BY <1>3, AgesOf DEF ForgottenByRestart
  <1>5. WithinLimit
    <2>1. SUFFICES ASSUME NEW k \in Keys PROVE Length(Counted(k, windows[k])) <= MaxRequests[k]
      BY DEF WithinLimit
    <2>2. Counted(k, windows[k]) = Younger(windows[k], Window[k]) /\ Window[k] \in 0 .. Window[k]
      BY <1>1, CountedOf, AgesOf DEF LimiterTypeOK
    <2>. QED  BY <2>2, <1>3, AgesOf
  <1>6. AbandonedIsSwept
    BY NoTimesOf DEF LimiterInit, AbandonedIsSwept, NewestIn
  <1>. QED  BY <1>1, <1>2, <1>4, <1>5, <1>6 DEF LimiterIInv

\* A server that starts again forgets no more than a bucket allows.
LEMMA StartKeeps ==
    ASSUME LimiterIInv, StartLimiter
    PROVE  LimiterIInv'
  <1>1. LimiterTypeOK /\ StoredIsHits /\ ForgottenByRestart /\ WithinLimit
    BY DEF LimiterIInv
  <1>2. ASSUME NEW k \in Keys
        PROVE  /\ windows[k] \in Times(k) /\ hits[k] \in Times(k) /\ restarts[k] \in Times(k)
               /\ windows'[k] = NoTimes(k) /\ NoTimes(k) \in Times(k)
               /\ hits'[k] = hits[k]
               /\ restarts'[k] = Push(restarts[k]) /\ Push(restarts[k]) \in Times(k)
    BY <1>1, NoTimesOf, PushOf DEF LimiterTypeOK, StartLimiter
  <1>3. LimiterTypeOK'
    <2>1. sweptAgo' \in 0 .. SweepInterval
      BY BucketAssumption DEF StartLimiter
    <2>2. /\ windows' = [k \in Keys |-> windows'[k]]
          /\ hits' = [k \in Keys |-> hits'[k]]
          /\ restarts' = [k \in Keys |-> restarts'[k]]
      BY <1>1 DEF StartLimiter, LimiterTypeOK
    <2>. QED  BY <1>2, <2>1, <2>2 DEF LimiterTypeOK
  <1>4. StoredIsHits'
    <2>1. SUFFICES ASSUME NEW k \in Keys, NEW age \in 0 .. Window[k] - 1
                   PROVE  windows'[k][age] <= hits'[k][age]
      BY DEF StoredIsHits
    <2>2. age \in 0 .. OldestAge(k) /\ hits[k] \in [0 .. OldestAge(k) -> Nat]
      BY <1>2, AgesOf DEF Times
    <2>3. windows'[k][age] = 0 /\ hits'[k][age] \in Nat
      BY <2>2, <1>2, NoTimesOf
    <2>. QED  BY <2>3
  <1>5. ASSUME NEW k \in Keys, NEW w \in 0 .. Window[k]
        PROVE  Length(Younger(windows'[k], w)) = 0
    BY <1>2, NoTimesOf, NoneIsYounger, AgesOf
  <1>6. ForgottenByRestart'
    <2>1. SUFFICES ASSUME NEW k \in Keys, NEW w \in 0 .. Window[k]
                   PROVE  Length(Younger(hits'[k], w))
                            <= Length(Younger(windows'[k], w))
                                 + MaxRequests[k] * Length(Younger(restarts'[k], w))
      BY DEF ForgottenByRestart
    <2>2. w \in Nat /\ w <= Window[k] /\ Window[k] \in Nat /\ MaxRequests[k] \in Nat
      BY AgesOf
    <2> DEFINE h == Length(Younger(hits[k], w))
               stored == Length(Younger(windows[k], w))
               s == Length(Younger(restarts[k], w))
    <2>3. h \in Nat /\ stored \in Nat /\ s \in Nat /\ h <= stored + MaxRequests[k] * s
      BY <1>1, <1>2, <2>2, YoungerOf DEF ForgottenByRestart
    <2>4. CASE w = 0
      <3>1. Length(Younger(hits'[k], w)) = 0 /\ Length(Younger(restarts'[k], w)) = 0
        BY <2>4, <2>2, <1>2, AgesOf, NoneIsYounger
      <3>. QED  BY <3>1, <1>5, <2>2
    <2>5. CASE w # 0
      <3>1. Length(Younger(restarts'[k], w)) = s + 1
        BY <2>2, <2>5, <1>2, YoungerPush
      <3>2. stored <= MaxRequests[k]
        <4>1. stored <= Length(Younger(windows[k], Window[k]))
          <5>1. \A age \in 0 .. OldestAge(k) : windows[k][age] <= windows[k][age]
            <6>1. \A age \in 0 .. OldestAge(k) : windows[k][age] \in Nat
              BY <1>2 DEF Times
            <6>. QED  BY <6>1
          <5>. QED  BY <5>1, <2>2, <1>2, YoungerIsLess
        <4>2. Length(Younger(windows[k], Window[k])) <= MaxRequests[k]
          BY <1>1, <1>2, CountedOf DEF WithinLimit
        <4>3. Length(Younger(windows[k], Window[k])) \in Nat
          BY <1>2, <2>2, YoungerOf
        <4>. QED  BY <4>1, <4>2, <4>3, <2>2, <2>3
      <3>3. /\ MaxRequests[k] * s \in Nat
            /\ MaxRequests[k] * (s + 1) = MaxRequests[k] * s + MaxRequests[k]
        BY <2>2, <2>3, OneMoreQuota
      <3> HIDE DEF h, stored, s
      <3>4. h <= 0 + MaxRequests[k] * (s + 1)
        BY <3>2, <3>3, <2>2, <2>3
      <3>. QED  BY <3>1, <3>4, <1>2, <1>5 DEF h
    <2>. QED  BY <2>4, <2>5
  <1>7. WithinLimit'
    <2>1. SUFFICES ASSUME NEW k \in Keys PROVE Length(Counted(k, windows'[k])) <= MaxRequests[k]
      BY DEF WithinLimit
    <2>2. Counted(k, windows'[k]) = Younger(windows'[k], Window[k]) /\ Window[k] \in 0 .. Window[k]
      BY <1>2, CountedOf, AgesOf
    <2>. QED  BY <2>2, <1>5, AgesOf
  <1>8. AbandonedIsSwept'
    BY <1>2, NoTimesOf DEF AbandonedIsSwept, NewestIn
  <1>. QED  BY <1>3, <1>4, <1>6, <1>7, <1>8 DEF LimiterIInv

LEMMA CheckKeyKeeps ==
    ASSUME LimiterIInv, NEW k \in Keys, CheckKey(k)
    PROVE  LimiterIInv'
  <1>1. /\ LimiterTypeOK /\ StoredIsHits /\ ForgottenByRestart /\ WithinLimit
        /\ AbandonedIsSwept
    BY DEF LimiterIInv
  <1>2. /\ windows[k] \in Times(k) /\ hits[k] \in Times(k) /\ Swept(k) \in Times(k)
        /\ FreshHits(k) \in Times(k) /\ FreshHits(k) = Counted(k, windows[k])
    BY <1>1, SweptOf, CountedOf, FreshIsStored DEF LimiterTypeOK, FreshHits
  <1>3. \A j \in Keys \ {k} : windows'[j] = Swept(j) /\ hits'[j] = hits[j]
    BY <1>1 DEF CheckKey, LimiterTypeOK
  <1>4. windows'[k] = (IF Allowed(k) THEN Push(FreshHits(k)) ELSE FreshHits(k))
    BY DEF CheckKey
  <1>5. hits'[k] = IF Allowed(k) THEN Push(hits[k]) ELSE hits[k]
    BY <1>1 DEF CheckKey, LimiterTypeOK
  <1>6. LimiterTypeOK'
    <2>1. windows' = [j \in Keys |-> windows'[j]]
      BY DEF CheckKey
    <2>2. hits' = [j \in Keys |-> hits'[j]]
      BY <1>1 DEF CheckKey, LimiterTypeOK
    <2>3. \A j \in Keys : windows'[j] \in Times(j) /\ hits'[j] \in Times(j)
      <3>1. SUFFICES ASSUME NEW j \in Keys PROVE windows'[j] \in Times(j) /\ hits'[j] \in Times(j)
        OBVIOUS
      <3>2. CASE j = k
        BY <3>2, <1>2, <1>4, <1>5, PushOf
      <3>3. CASE j # k
        BY <3>3, <1>1, <1>3, SweptOf DEF LimiterTypeOK
      <3>. QED  BY <3>2, <3>3
    <2>4. sweptAgo' \in 0 .. SweepInterval
      BY <1>1, AgesOf DEF CheckKey, LimiterTypeOK
    <2>5. restarts' = restarts
      BY DEF CheckKey
    <2>. QED  BY <1>1, <2>1, <2>2, <2>3, <2>4, <2>5 DEF LimiterTypeOK
  \* Within its window a key has what it had, and a request let through.
  <1>7. ASSUME NEW j \in Keys, NEW age \in 0 .. OldestAge(j), age < Window[j]
        PROVE  windows'[j][age]
                 = IF j = k /\ Allowed(k) THEN Push(windows[j])[age] ELSE windows[j][age]
    <2>1. age \in 0 .. Window[j] - 1
      BY <1>7, AgesOf
    <2>2. CASE j # k
      BY <2>1, <2>2, <1>1, <1>3, SweptOf
    <2>3. CASE j = k
      <3>1. FreshHits(k)[age] = windows[k][age] /\ FreshHits(k)[0] = windows[k][0]
        BY <1>2, <1>7, <2>3, CountedOf, AgesOf
      <3>2. Push(FreshHits(k))[age] = Push(windows[k])[age]
        BY <3>1, <1>2, <2>3, PushOf
      <3>. QED  BY <2>3, <3>1, <3>2, <1>4
    <2>. QED  BY <2>2, <2>3
  <1>8. StoredIsHits'
    <2>1. SUFFICES ASSUME NEW j \in Keys, NEW age \in 0 .. Window[j] - 1
                   PROVE  windows'[j][age] <= hits'[j][age]
      BY DEF StoredIsHits
    <2>2. /\ age \in 0 .. OldestAge(j) /\ age < Window[j] /\ 0 \in 0 .. OldestAge(j)
          /\ 0 \in 0 .. Window[j] - 1
      BY AgesOf
    <2>3. windows[j][age] <= hits[j][age] /\ windows[j][0] <= hits[j][0]
      BY <1>1, <2>2 DEF StoredIsHits
    <2>4. windows[j] \in Times(j) /\ hits[j] \in Times(j)
      BY <1>1 DEF LimiterTypeOK
    <2>5. CASE j = k /\ Allowed(k)
      <3>1. windows'[j][age] = Push(windows[j])[age] /\ hits'[j][age] = Push(hits[j])[age]
        BY <2>2, <2>5, <1>5, <1>7
      <3>2. /\ Push(windows[j])[age] = IF age = 0 THEN windows[j][0] + 1 ELSE windows[j][age]
            /\ Push(hits[j])[age] = IF age = 0 THEN hits[j][0] + 1 ELSE hits[j][age]
        BY <2>2, <2>4, PushOf
      <3>3. /\ windows[j][0] \in Nat /\ hits[j][0] \in Nat
            /\ windows[j][age] \in Nat /\ hits[j][age] \in Nat
        BY <2>2, <2>4 DEF Times
      <3>. QED  BY <2>3, <3>1, <3>2, <3>3
    <2>6. CASE ~(j = k /\ Allowed(k))
      <3>1. windows'[j][age] = windows[j][age]
        BY <2>2, <2>6, <1>7
      <3>2. hits'[j] = hits[j]
        BY <2>6, <1>3, <1>5
      <3>. QED  BY <2>3, <3>1, <3>2
    <2>. QED  BY <2>5, <2>6
  <1>9. ForgottenByRestart'
    <2>1. SUFFICES ASSUME NEW j \in Keys, NEW w \in 0 .. Window[j]
                   PROVE  Length(Younger(hits'[j], w))
                            <= Length(Younger(windows'[j], w))
                                 + MaxRequests[j] * Length(Younger(restarts'[j], w))
      BY DEF ForgottenByRestart
    <2>2. /\ w \in Nat /\ MaxRequests[j] \in Nat /\ restarts' = restarts
          /\ \A age \in 0 .. OldestAge(j) : age < w => age < Window[j]
      BY AgesOf DEF CheckKey
    <2>3. /\ windows[j] \in Times(j) /\ hits[j] \in Times(j) /\ restarts[j] \in Times(j)
          /\ windows'[j] \in Times(j) /\ hits'[j] \in Times(j)
      BY <1>1, <1>6 DEF LimiterTypeOK
    <2> DEFINE h == Length(Younger(hits[j], w))
               stored == Length(Younger(windows[j], w))
               s == Length(Younger(restarts[j], w))
    <2>4. h \in Nat /\ stored \in Nat /\ s \in Nat /\ h <= stored + MaxRequests[j] * s
      BY <1>1, <2>2, <2>3, YoungerOf DEF ForgottenByRestart
    <2>5. MaxRequests[j] * s \in Nat
      BY <2>2, <2>4, OneMoreQuota
    <2>6. CASE w # 0 /\ j = k /\ Allowed(k)
      <3>1. Length(Younger(hits'[j], w)) = h + 1
        BY <2>2, <2>3, <2>6, <1>5, YoungerPush
      <3>2. Younger(windows'[j], w) = Younger(Push(windows[j]), w)
        <4>1. Push(windows[j]) \in Times(j)
          BY <2>3, PushOf
        <4>. QED  BY <4>1, <2>2, <2>3, <2>6, <1>7, SameYounger
      <3>3. Length(Younger(windows'[j], w)) = stored + 1
        BY <3>2, <2>2, <2>3, <2>6, YoungerPush
      <3> HIDE DEF h, stored
      <3>4. h + 1 <= (stored + 1) + MaxRequests[j] * s
        BY <2>4, <2>5
      <3>. QED  BY <3>1, <3>3, <3>4, <2>2
    <2>7. CASE w # 0 /\ ~(j = k /\ Allowed(k))
      <3>1. hits'[j] = hits[j]
        BY <2>7, <1>3, <1>5
      <3>2. Younger(windows'[j], w) = Younger(windows[j], w)
        BY <2>2, <2>3, <2>7, <1>7, SameYounger
      <3>. QED  BY <3>1, <3>2, <2>2, <2>4
    <2>8. CASE w = 0
      <3>1. Length(Younger(hits'[j], w)) = 0 /\ Length(Younger(windows'[j], w)) = 0
        BY <2>2, <2>3, <2>8, AgesOf, NoneIsYounger
      <3>. QED  BY <3>1, <2>2, <2>5
    <2>. QED  BY <2>6, <2>7, <2>8
  <1>10. WithinLimit'
    <2>1. SUFFICES ASSUME NEW j \in Keys
                   PROVE  Length(Counted(j, windows'[j])) <= MaxRequests[j]
      BY DEF WithinLimit
    <2>2. /\ windows[j] \in Times(j) /\ windows'[j] \in Times(j)
          /\ Window[j] \in Nat \ {0} /\ MaxRequests[j] \in Nat
      BY <1>1, <1>6, AgesOf DEF LimiterTypeOK
    <2>3. /\ Length(Younger(windows[j], Window[j])) <= MaxRequests[j]
          /\ Length(Younger(windows[j], Window[j])) \in Nat
          /\ Counted(j, windows'[j]) = Younger(windows'[j], Window[j])
      BY <1>1, <2>2, CountedOf, YoungerOf DEF WithinLimit
    <2>4. CASE j = k /\ Allowed(k)
      <3>1. Push(windows[j]) \in Times(j)
        BY <2>2, PushOf
      <3>2. Younger(windows'[j], Window[j]) = Younger(Push(windows[j]), Window[j])
        BY <3>1, <2>2, <2>4, <1>7, SameYounger
      <3>3. Length(Younger(Push(windows[j]), Window[j])) = Length(Younger(windows[j], Window[j])) + 1
        BY <2>2, YoungerPush
      <3>4. Length(Younger(windows[j], Window[j])) < MaxRequests[j]
        BY <2>2, <2>4, <1>2, CountedOf DEF Allowed
      <3>. QED  BY <2>2, <2>3, <3>2, <3>3, <3>4
    <2>5. CASE ~(j = k /\ Allowed(k))
      <3>1. Younger(windows'[j], Window[j]) = Younger(windows[j], Window[j])
        BY <2>2, <2>5, <1>7, SameYounger
      <3>. QED  BY <2>3, <3>1
    <2>. QED  BY <2>4, <2>5
  <1>11. AbandonedIsSwept'
    <2>1. SUFFICES ASSUME NEW j \in Keys, NEW age \in 0 .. OldestAge(j), windows'[j][age] > 0
                   PROVE  \E a \in 0 .. OldestAge(j) :
                             a < Window[j] + sweptAgo' /\ windows'[j][a] > 0
      BY DEF AbandonedIsSwept, NewestIn
    <2>2. sweptAgo \in Nat /\ sweptAgo' \in Nat
      BY <1>1, <1>6, AgesOf DEF LimiterTypeOK
    <2>3. ASSUME NEW a \in 0 .. Window[j] - 1, windows'[j][a] > 0
          PROVE  \E b \in 0 .. OldestAge(j) : b < Window[j] + sweptAgo' /\ windows'[j][b] > 0
      BY <2>2, <2>3, AgesOf
    <2>4. CASE j = k
      <3>1. CASE Allowed(k)
        <4>1. windows'[k][0] = FreshHits(k)[0] + 1 /\ FreshHits(k)[0] \in Nat
          BY <3>1, <1>2, <1>4, AgesOf, PushOf DEF Times
        <4>. QED  BY <4>1, <2>4, <2>3, AgesOf
      <3>2. CASE ~Allowed(k)
        <4>1. windows'[k] = Counted(k, Swept(k))
          BY <3>2, <1>4 DEF FreshHits
        <4>2. age < Window[k] /\ age \in 0 .. Window[k] - 1
          BY <4>1, <2>1, <2>4, <1>2, CountedOf, AgesOf
        <4>. QED  BY <4>2, <2>1, <2>3, <2>4
      <3>. QED  BY <3>1, <3>2
    <2>5. CASE j # k
      <3>1. windows'[j] = Swept(j)
        BY <2>5, <1>3
      <3>2. CASE sweptAgo >= SweepInterval
        <4>1. NewestIn(Swept(j), 0 .. Window[j] - 1)
          BY <3>1, <3>2, <2>1, <1>1, SweptOf DEF NewestIn
        <4>. QED  BY <4>1, <3>1, <2>3 DEF NewestIn
      <3>3. CASE ~(sweptAgo >= SweepInterval)
        <4>1. windows'[j] = windows[j] /\ sweptAgo' = sweptAgo
          BY <3>1, <3>3 DEF Swept, CheckKey
        <4>. QED  BY <4>1, <2>1, <1>1 DEF AbandonedIsSwept, NewestIn
      <3>. QED  BY <3>2, <3>3
    <2>. QED  BY <2>4, <2>5
  <1>. QED  BY <1>6, <1>8, <1>9, <1>10, <1>11 DEF LimiterIInv

LEMMA TickKeeps ==
    ASSUME LimiterIInv, LimiterTick
    PROVE  LimiterIInv'
  <1>1. /\ LimiterTypeOK /\ StoredIsHits /\ ForgottenByRestart /\ WithinLimit
        /\ AbandonedIsSwept
    BY DEF LimiterIInv
  <1>2. ASSUME NEW k \in Keys
        PROVE  /\ windows[k] \in Times(k) /\ hits[k] \in Times(k) /\ restarts[k] \in Times(k)
               /\ windows'[k] = Aged(k, windows[k])
               /\ hits'[k] = Counted(k, Aged(k, hits[k]))
               /\ restarts'[k] = Counted(k, Aged(k, restarts[k]))
    BY <1>1 DEF LimiterTypeOK, LimiterTick
  <1>3. LimiterTypeOK'
    <2>1. /\ windows' = [k \in Keys |-> windows'[k]] /\ hits' = [k \in Keys |-> hits'[k]]
          /\ restarts' = [k \in Keys |-> restarts'[k]]
      BY DEF LimiterTick
    <2>2. \A k \in Keys : windows'[k] \in Times(k) /\ hits'[k] \in Times(k)
                            /\ restarts'[k] \in Times(k)
      BY <1>2, AgedOf, CountedOf
    <2>3. sweptAgo' \in 0 .. SweepInterval
      <3>1. sweptAgo \in 0 .. SweepInterval /\ SweepInterval \in Nat
        BY <1>1, BucketAssumption DEF LimiterTypeOK
      <3>. QED  BY <3>1 DEF LimiterTick
    <2>. QED  BY <2>1, <2>2, <2>3 DEF LimiterTypeOK
  <1>4. StoredIsHits'
    <2>1. SUFFICES ASSUME NEW k \in Keys, NEW age \in 0 .. Window[k] - 1
                   PROVE  windows'[k][age] <= hits'[k][age]
      BY DEF StoredIsHits
    <2>2. age \in 0 .. OldestAge(k) /\ age < Window[k]
      BY AgesOf
    <2>3. hits'[k][age] = Aged(k, hits[k])[age]
      BY <2>2, <1>2, AgedOf, CountedOf
    <2>4. CASE age = 0
      BY <2>3, <2>4, <1>2, AgedOf
    <2>5. CASE age # 0
      <3>1. /\ age \in 1 .. OldestAge(k) /\ age # OldestAge(k)
            /\ age - 1 \in 0 .. Window[k] - 1 /\ age - 1 \in 0 .. OldestAge(k)
        BY <2>2, <2>5, AgesOf
      <3>2. windows[k][age - 1] <= hits[k][age - 1]
        BY <3>1, <1>1 DEF StoredIsHits
      <3>3. windows[k][age - 1] \in Nat /\ hits[k][age - 1] \in Nat
        BY <3>1, <1>2 DEF Times
      <3>4. /\ Aged(k, windows[k])[age] = windows[k][age - 1]
            /\ Aged(k, hits[k])[age] = hits[k][age - 1]
        BY <3>1, <3>3, <1>2, AgedOf
      <3>. QED  BY <3>2, <3>4, <2>3, <1>2
    <2>. QED  BY <2>4, <2>5
  \* A time that ends a tick later, as the time without that tick.
  <1>5. ASSUME NEW k \in Keys, NEW w \in 1 .. Window[k]
        PROVE  /\ Length(Younger(windows'[k], w)) = Length(Younger(windows[k], w - 1))
               /\ Length(Younger(hits'[k], w)) = Length(Younger(hits[k], w - 1))
               /\ Length(Younger(restarts'[k], w)) = Length(Younger(restarts[k], w - 1))
    <2>1. w \in 0 .. Window[k]
      BY AgesOf
    <2>2. /\ Younger(hits'[k], w) = Younger(Aged(k, hits[k]), w)
          /\ Younger(restarts'[k], w) = Younger(Aged(k, restarts[k]), w)
      BY <2>1, <1>2, AgedOf, YoungerCounted
    <2>. QED  BY <2>2, <1>2, YoungerAged
  <1>6. ForgottenByRestart'
    <2>1. SUFFICES ASSUME NEW k \in Keys, NEW w \in 0 .. Window[k]
                   PROVE  Length(Younger(hits'[k], w))
                            <= Length(Younger(windows'[k], w))
                                 + MaxRequests[k] * Length(Younger(restarts'[k], w))
      BY DEF ForgottenByRestart
    <2>2. CASE w # 0
      <3>1. w \in 1 .. Window[k] /\ w - 1 \in 0 .. Window[k]
        BY <2>2, AgesOf
      <3>2. Length(Younger(hits[k], w - 1))
              <= Length(Younger(windows[k], w - 1))
                   + MaxRequests[k] * Length(Younger(restarts[k], w - 1))
        BY <3>1, <1>1 DEF ForgottenByRestart
      <3>. QED  BY <3>1, <3>2, <1>5
    <2>3. CASE w = 0
      <3>1. /\ windows'[k] \in Times(k) /\ hits'[k] \in Times(k) /\ restarts'[k] \in Times(k)
            /\ MaxRequests[k] \in Nat
        BY <1>3, AgesOf DEF LimiterTypeOK
      <3>2. /\ Length(Younger(hits'[k], 0)) = 0 /\ Length(Younger(windows'[k], 0)) = 0
            /\ Length(Younger(restarts'[k], 0)) = 0
        BY <3>1, AgesOf, NoneIsYounger
      <3>. QED  BY <2>3, <3>1, <3>2
    <2>. QED  BY <2>2, <2>3
  <1>7. WithinLimit'
    <2>1. SUFFICES ASSUME NEW k \in Keys
                   PROVE  Length(Counted(k, windows'[k])) <= MaxRequests[k]
      BY DEF WithinLimit
    <2>2. /\ windows[k] \in Times(k) /\ windows'[k] \in Times(k)
          /\ Window[k] \in 1 .. Window[k] /\ Window[k] \in Nat /\ Window[k] - 1 \in Nat
          /\ Window[k] - 1 <= Window[k] /\ MaxRequests[k] \in Nat
      BY <1>1, <1>3, AgesOf DEF LimiterTypeOK
    <2>3. Length(Counted(k, windows'[k])) = Length(Younger(windows[k], Window[k] - 1))
      BY <2>2, <1>5, CountedOf
    <2>4. Length(Younger(windows[k], Window[k] - 1)) <= Length(Younger(windows[k], Window[k]))
      <3>1. \A age \in 0 .. OldestAge(k) : windows[k][age] <= windows[k][age]
        <4>1. \A age \in 0 .. OldestAge(k) : windows[k][age] \in Nat
          BY <2>2 DEF Times
        <4>. QED  BY <4>1
      <3>. QED  BY <3>1, <2>2, YoungerIsLess
    <2>5. /\ Length(Younger(windows[k], Window[k])) <= MaxRequests[k]
          /\ Length(Younger(windows[k], Window[k])) \in Nat
          /\ Length(Younger(windows[k], Window[k] - 1)) \in Nat
      BY <1>1, <2>2, CountedOf, YoungerOf DEF WithinLimit
    <2>. QED  BY <2>2, <2>3, <2>4, <2>5
  <1>8. AbandonedIsSwept'
    <2>1. SUFFICES ASSUME NEW k \in Keys, NEW age \in 0 .. OldestAge(k), windows'[k][age] > 0
                   PROVE  \E a \in 0 .. OldestAge(k) :
                             a < Window[k] + sweptAgo' /\ windows'[k][a] > 0
      BY DEF AbandonedIsSwept, NewestIn
    <2>2. sweptAgo \in 0 .. SweepInterval
      BY <1>1 DEF LimiterTypeOK
    <2>3. CASE sweptAgo' = SweepInterval
      BY <2>1, <2>3, AgesOf
    <2>4. CASE sweptAgo' # SweepInterval
      <3>1. sweptAgo' = sweptAgo + 1 /\ sweptAgo + 1 < SweepInterval
        BY <2>2, <2>4, AgesOf DEF LimiterTick
      <3>2. \E b \in 0 .. OldestAge(k) : windows[k][b] > 0
        <4>1. age # 0
          BY <2>1, <1>2, AgedOf
        <4>2. age - 1 \in 0 .. OldestAge(k) /\ age \in 1 .. OldestAge(k)
          BY <4>1, AgesOf
        <4>3. windows[k][age - 1] \in Nat /\ windows[k][age] \in Nat
          BY <4>2, <1>2 DEF Times
        <4>4. windows[k][age - 1] > 0 \/ windows[k][age] > 0
          BY <4>2, <4>3, <2>1, <1>2, AgedOf
        <4>. QED  BY <4>2, <4>4
      <3>3. PICK a \in 0 .. OldestAge(k) : a < Window[k] + sweptAgo /\ windows[k][a] > 0
        BY <3>2, <1>1 DEF AbandonedIsSwept, NewestIn
      <3>4. a + 1 \in 1 .. OldestAge(k) /\ a + 1 < Window[k] + sweptAgo'
        BY <3>1, <3>3, <2>2, AgesOf
      <3>5. windows[k][a] \in Nat /\ windows[k][a + 1] \in Nat
        <4>1. windows[k] \in [0 .. OldestAge(k) -> Nat]
          BY <1>2 DEF Times
        <4>2. a \in 0 .. OldestAge(k) /\ a + 1 \in 0 .. OldestAge(k)
          BY <3>4, AgesOf
        <4>. QED  BY <4>1, <4>2
      <3>6. windows'[k][a + 1] = windows[k][a]
                                   + IF a + 1 = OldestAge(k) THEN windows[k][a + 1] ELSE 0
        BY <3>4, <1>2, AgedOf
      <3>7. windows'[k][a + 1] > 0
        BY <3>3, <3>5, <3>6
      <3>. QED  BY <3>4, <3>7
    <2>. QED  BY <2>3, <2>4
  <1>. QED  BY <1>3, <1>4, <1>6, <1>7, <1>8 DEF LimiterIInv

LEMMA LimiterStepInv == LimiterIInv /\ LimiterStep => LimiterIInv'
  <1> SUFFICES ASSUME LimiterIInv, LimiterStep PROVE LimiterIInv'
    OBVIOUS
  <1>1. ASSUME NEW k \in Keys, CheckKey(k) PROVE LimiterIInv'
    BY <1>1, CheckKeyKeeps
  <1>2. ASSUME StartLimiter PROVE LimiterIInv'
    BY <1>2, StartKeeps
  <1>3. ASSUME LimiterTick PROVE LimiterIInv'
    BY <1>3, TickKeeps
  <1>4. CASE UNCHANGED limiterVars
    BY <1>4 DEF limiterVars, LimiterIInv, LimiterTypeOK, StoredIsHits, ForgottenByRestart,
                WithinLimit, AbandonedIsSwept
  <1>. QED  BY <1>1, <1>2, <1>3, <1>4 DEF LimiterStep

LEMMA AlwaysLimiterIInv == Spec => []LimiterIInv
<1>1. Init => LimiterIInv
  BY InitLimiter DEF Init
<1>2. LimiterIInv /\ [Next]_gatewayVars => LimiterIInv'
  BY LimiterStepInv, GatewayLimiterStep
<1> QED BY <1>1, <1>2, PTL DEF Spec

\* A bucket lets no more through in a window than it allows, and as much again
\* for each restart in that window, whatever the checks of other keys sweep
\* and whatever ages; and it refuses only while at least that many were let
\* through in the window that ends now.
THEOREM LimitHolds == Spec => []LimitIsExact
<1>1. ASSUME LimiterIInv, NEW k \in Keys
      PROVE  LET recent == Length(Counted(k, hits[k]))
                 quotas == 1 + Length(Counted(k, restarts[k]))
             IN  /\ recent <= MaxRequests[k] * quotas
                 /\ Allowed(k) => recent < MaxRequests[k] * quotas
                 /\ recent < MaxRequests[k] => Allowed(k)
  <2>1. /\ windows[k] \in Times(k) /\ hits[k] \in Times(k) /\ restarts[k] \in Times(k)
        /\ Window[k] \in Nat /\ Window[k] \in 0 .. Window[k] /\ MaxRequests[k] \in Nat
    BY <1>1, AgesOf DEF LimiterIInv, LimiterTypeOK
  <2> DEFINE recent == Length(Counted(k, hits[k]))
             stored == Length(Counted(k, windows[k]))
             started == Length(Counted(k, restarts[k]))
  <2>2. recent \in Nat /\ stored \in Nat /\ started \in Nat
    BY <2>1, CountedOf, YoungerOf
  <2>3. recent <= stored + MaxRequests[k] * started /\ stored <= MaxRequests[k]
    BY <1>1, <2>1, CountedOf DEF LimiterIInv, ForgottenByRestart, WithinLimit
  <2>4. stored <= recent
    <3>1. \A age \in 0 .. OldestAge(k) : age < Window[k] => windows[k][age] <= hits[k][age]
      <4>1. \A age \in 0 .. OldestAge(k) : age < Window[k] => age \in 0 .. Window[k] - 1
        BY AgesOf
      <4>. QED  BY <1>1, <4>1 DEF LimiterIInv, StoredIsHits
    <3>2. Length(Younger(windows[k], Window[k])) <= Length(Younger(hits[k], Window[k]))
      BY <2>1, <3>1, YoungerIsLess
    <3>. QED  BY <2>1, <3>2, CountedOf
  <2>5. Allowed(k) <=> stored < MaxRequests[k]
    BY <1>1, FreshIsStored DEF LimiterIInv, Allowed
  <2>6. /\ MaxRequests[k] * started \in Nat
        /\ MaxRequests[k] * (1 + started) = MaxRequests[k] * started + MaxRequests[k]
    BY <2>1, <2>2, OneMoreQuota
  <2> HIDE DEF recent, stored, started
  <2>7. /\ recent <= MaxRequests[k] * (1 + started)
        /\ Allowed(k) => recent < MaxRequests[k] * (1 + started)
        /\ recent < MaxRequests[k] => Allowed(k)
    BY <2>1, <2>2, <2>3, <2>4, <2>5, <2>6
  <2>. QED  BY <2>7 DEF recent, started
<1>2. LimiterIInv => LimitIsExact
  BY <1>1 DEF LimitIsExact
<1> QED BY AlwaysLimiterIInv, <1>2, PTL

\* A key nobody asks for any more is gone within a window and the time since
\* the last sweep.
THEOREM MapIsSwept == Spec => []AbandonedIsSwept
<1>1. LimiterIInv => AbandonedIsSwept
  BY DEF LimiterIInv
<1> QED BY AlwaysLimiterIInv, <1>1, PTL

\* The switch's and the limiter's variables keep their types.
THEOREM TypeCorrect == Spec => []TypeOK
<1>1. IInv /\ LimiterIInv => TypeOK
  BY DEF IInv, LimiterIInv, TypeOK
<1> QED BY AlwaysIInv, AlwaysLimiterIInv, <1>1, PTL
=============================================================================
