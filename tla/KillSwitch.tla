----------------------------- MODULE KillSwitch -----------------------------
(***************************************************************************)
(* The kill switch of one area (src/src/server/killswitch.ts): a flag in   *)
(* the database, set by an administrator through the server                *)
(* (routes/killswitchAdmin.ts), and in each process a cache over it that   *)
(* invoice requests, the watcher's ticks and the webhook drain ask before  *)
(* they work.  The areas share nothing but the flush, which only empties   *)
(* the others' entries, so one is modelled.                                *)
(*                                                                         *)
(* Time passes in ticks and is kept as ages: what is left of a cache entry *)
(* (expiresAt - now), how long ago a check began.  Ages stop at the TTL,   *)
(* beyond which no comparison of the code tells them apart, so that time   *)
(* needs no bound.                                                         *)
(***************************************************************************)
EXTENDS Naturals

CONSTANTS
    Processes,      \* the API server and the workers
    Server,         \* the process that runs the admin route
    EnvPaused,      \* processes started with STABLERAILS_PAUSE_... set
    Callers,        \* handlers and loops that ask before they work
    ProcessOf,      \* the process a caller runs in
    Ttl             \* _cacheTtlMs, in ticks

ASSUME ProcessAssumption ==
    /\ Server \in Processes /\ EnvPaused \subseteq Processes
    /\ ProcessOf \in [Callers -> Processes]

ASSUME TtlAssumption == Ttl \in Nat \ {0}

VARIABLES
    flag,       \* the KillSwitch row of the area: paused
    cache,      \* _cache of each process
    check,      \* where each caller stands in isPausedAsync
    admin,      \* the admin route's handler
    \* history
    lost,       \* for each value, the ticks since the flag last had it
    overtaken   \* a check read the flag before the write the last flush was for

killSwitchVars == <<flag, cache, check, admin, lost, overtaken>>

\* left = 0: no entry, or one that expired.
Entry == [value : BOOLEAN, left : 0 .. Ttl]

NoEntry == [value |-> FALSE, left |-> 0]

\* asking: the query is out.  read: the database has answered, the handler has
\* not resumed.  passed: at the work that the switch allowed.
Check == [pc : {"idle", "asking", "read", "passed"}, value : BOOLEAN,
          waited : 0 .. Ttl]

At(pc) == [pc |-> pc, value |-> FALSE, waited |-> 0]

Idle == At("idle")

KillSwitchTypeOK ==
    /\ flag \in BOOLEAN
    /\ cache \in [Processes -> Entry]
    /\ check \in [Callers -> Check]
    /\ admin \in {"idle", "written"}
    /\ lost \in [BOOLEAN -> 0 .. Ttl]
    /\ overtaken \in BOOLEAN

KillSwitchInit ==
    /\ flag \in BOOLEAN
    /\ cache = [p \in Processes |-> NoEntry]
    /\ check = [c \in Callers |-> Idle]
    /\ admin = "idle"
    /\ lost = [v \in BOOLEAN |-> IF v = flag THEN 0 ELSE Ttl]
    /\ overtaken = FALSE

-----------------------------------------------------------------------------
(* isPausedAsync *)

\* now < expiresAt
Fresh(p) == cache[p].left > 0

Answer(c, paused) ==
    check' = [check EXCEPT ![c] = IF paused THEN Idle
                                  ELSE At("passed")]

\* The environment pauses the process: no cache and no query.
AnswerFromEnv(c) ==
    /\ check[c].pc = "idle" /\ ProcessOf[c] \in EnvPaused
    /\ Answer(c, TRUE)
    /\ UNCHANGED <<flag, cache, admin, lost, overtaken>>

\* Slip: an entry is served while a new one is fetched, however old.
SlipServeStale(c) ==
    /\ check[c].pc = "idle" /\ ProcessOf[c] \notin EnvPaused
    /\ Answer(c, cache[ProcessOf[c]].value)
    /\ UNCHANGED <<flag, cache, admin, lost, overtaken>>

AnswerFromCache(c) ==
    /\ check[c].pc = "idle" /\ ProcessOf[c] \notin EnvPaused
    /\ Fresh(ProcessOf[c])
    /\ Answer(c, cache[ProcessOf[c]].value)
    /\ UNCHANGED <<flag, cache, admin, lost, overtaken>>

\* A miss: the time is taken, then the query goes out.
Ask(c) ==
    /\ check[c].pc = "idle" /\ ProcessOf[c] \notin EnvPaused
    /\ ~Fresh(ProcessOf[c])
    /\ check' = [check EXCEPT ![c] = At("asking")]
    /\ UNCHANGED <<flag, cache, admin, lost, overtaken>>

\* getFlag, at the database.
ReadFlag(c) ==
    /\ check[c].pc = "asking"
    /\ check' = [check EXCEPT ![c] = [pc |-> "read", value |-> flag,
                                      waited |-> check[c].waited]]
    /\ UNCHANGED <<flag, cache, admin, lost, overtaken>>

\* The query throws: an invoice request answers 500, a tick or a drain is
\* skipped.  Nobody works on a check without an answer.
ReadFails(c) ==
    /\ check[c].pc = "asking"
    /\ check' = [check EXCEPT ![c] = Idle]
    /\ UNCHANGED <<flag, cache, admin, lost, overtaken>>

\* Slip: the TTL runs from when the answer is stored.
SlipFill(c) ==
    /\ check[c].pc = "read"
    /\ cache' = [cache EXCEPT ![ProcessOf[c]] = [value |-> check[c].value, left |-> Ttl]]
    /\ Answer(c, check[c].value)
    /\ UNCHANGED <<flag, admin, lost, overtaken>>

\* The caller resumes with the answer: it stores it, whatever is in the cache
\* by now, to expire a TTL after the check began.
Fill(c) ==
    /\ check[c].pc = "read"
    /\ cache' = [cache EXCEPT ![ProcessOf[c]] = [value |-> check[c].value,
                                                 left |-> Ttl - check[c].waited]]
    /\ Answer(c, check[c].value)
    /\ UNCHANGED <<flag, admin, lost, overtaken>>

\* The work is over: the handler answers, the loop sleeps.
Finish(c) ==
    /\ check[c].pc = "passed"
    /\ check' = [check EXCEPT ![c] = Idle]
    /\ UNCHANGED <<flag, cache, admin, lost, overtaken>>

-----------------------------------------------------------------------------
(* POST /v1/admin/killswitch, and what happens to processes *)

\* setFlag.
SetFlag(v) ==
    /\ admin = "idle"
    /\ admin' = "written"
    /\ flag' = v
    /\ lost' = [lost EXCEPT ![v] = 0]
    /\ UNCHANGED <<cache, check, overtaken>>

\* Slip: the other way round, so that nothing is flushed after the write.
SlipFlush ==
    /\ admin = "written"
    /\ admin' = "idle"
    /\ overtaken' = \E c \in Callers : /\ ProcessOf[c] = Server
                                       /\ check[c].pc = "read"
                                       /\ check[c].value # flag
    /\ UNCHANGED <<flag, cache, check, lost>>

\* flushKillSwitchCache, when setFlag has returned.
Flush ==
    /\ admin = "written"
    /\ admin' = "idle"
    /\ cache' = [cache EXCEPT ![Server] = NoEntry]
    /\ overtaken' = \E c \in Callers : /\ ProcessOf[c] = Server
                                       /\ check[c].pc = "read"
                                       /\ check[c].value # flag
    /\ UNCHANGED <<flag, check, lost>>

\* initKillSwitchRepo clears the cache of a process that starts.
StartProcess(p) ==
    /\ cache' = [cache EXCEPT ![p] = NoEntry]
    /\ check' = [c \in Callers |-> IF ProcessOf[c] = p THEN Idle ELSE check[c]]
    /\ UNCHANGED <<flag, admin, lost, overtaken>>

\* A tick of the clock.
Older(age) == IF age < Ttl THEN age + 1 ELSE age

KillSwitchTick ==
    /\ cache' = [p \in Processes |->
          [cache[p] EXCEPT !.left = IF @ > 0 THEN @ - 1 ELSE 0]]
    /\ check' = [c \in Callers |->
          [check[c] EXCEPT !.waited = IF check[c].pc \in {"asking", "read"}
                                        THEN Older(@) ELSE @]]
    /\ lost' = [v \in BOOLEAN |-> IF v = flag THEN 0 ELSE Older(lost[v])]
    /\ UNCHANGED <<flag, admin, overtaken>>

-----------------------------------------------------------------------------
(* Properties *)

\* A cache answers only with a value that the flag had less than a TTL ago,
\* though queries take their time, answers cross and processes restart: the
\* TTL of an entry runs from the start of its check.  The answer that a query
\* of its own brings a caller is older than that if the query was: of it only
\* this holds, that the flag had the value since the check began (times are
\* told apart up to a TTL).
CacheIsRecent ==
    /\ \A p \in Processes : Fresh(p) => lost[cache[p].value] < Ttl
    /\ \A c \in Callers :
          check[c].pc = "read" => lost[check[c].value] <= check[c].waited

\* Once the admin route has answered, its process asks the flag or has its
\* value, unless a check that had read the old one was still to store it.
FlushedIsFresh ==
    (admin = "idle" /\ ~overtaken /\ Fresh(Server)) => cache[Server].value = flag

\* A pause that stays ends all work of the area, in every process.
PauseTakesHold ==
    <>[]flag => <>[](\A c \in Callers : check[c].pc # "passed")
=============================================================================
