------------------------------- MODULE Gateway -------------------------------
(***************************************************************************)
(* What work has to pass before it is done: the kill switch and, in the    *)
(* API server, the rate limiter.  POST /v1/invoices asks the switch first  *)
(* (src/src/server/routes/invoices.ts), the dashboard's create-link form   *)
(* the limiter first (routes/createLink.ts); the watcher's ticks and the   *)
(* webhook drain (workers/) ask the switch alone.                          *)
(***************************************************************************)
EXTENDS KillSwitch, RateLimiter

CONSTANTS
    ApiRequests,    \* slots of concurrent POST /v1/invoices requests
    FormRequests,   \* slots of concurrent create-link submissions
    Loops,          \* TronWatcher.start, webhookLoop
    KeyOf           \* the limiter key of a request: API key prefix or address

ASSUME CallerAssumption ==
    /\ Callers = ApiRequests \cup FormRequests \cup Loops
    /\ \A c \in ApiRequests \cup FormRequests : KeyOf[c] \in Keys

gatewayVars == <<killSwitchVars, limiterVars>>

Init == KillSwitchInit /\ LimiterInit

StartCheck(c) == AnswerFromEnv(c) \/ AnswerFromCache(c) \/ Ask(c)

Resume(c) == ReadFlag(c) \/ ReadFails(c) \/ Fill(c)

-----------------------------------------------------------------------------

\* POST /v1/invoices comes in.
ApiArrives(c) == StartCheck(c) /\ UNCHANGED limiterVars

\* It was let through the switch: only now the limiter counts it.
ApiAdmitted(c) == Finish(c) /\ CheckKey(KeyOf[c])

\* A submission is counted before the switch is asked; one that is refused
\* ends there.
FormArrives(c) ==
    /\ check[c].pc = "idle"
    /\ CheckKey(KeyOf[c])
    /\ IF Allowed(KeyOf[c]) THEN StartCheck(c) ELSE UNCHANGED killSwitchVars

\* pollOnce and drainPending.
LoopTurns(c) == StartCheck(c) /\ UNCHANGED limiterVars

WorkEnds(c) == Finish(c) /\ UNCHANGED limiterVars

CheckGoesOn(c) == Resume(c) /\ UNCHANGED limiterVars

AdminSets(v) == SetFlag(v) /\ UNCHANGED limiterVars

AdminFlushes == Flush /\ UNCHANGED limiterVars

\* A process crashes or is deployed: its memory is gone.
Restart(p) ==
    /\ StartProcess(p)
    /\ IF p = Server THEN StartLimiter ELSE UNCHANGED limiterVars

Tick == KillSwitchTick /\ LimiterTick

Next ==
    \/ \E c \in ApiRequests : ApiArrives(c) \/ ApiAdmitted(c)
    \/ \E c \in FormRequests : FormArrives(c) \/ WorkEnds(c)
    \/ \E c \in Loops : LoopTurns(c) \/ WorkEnds(c)
    \/ \E c \in Callers : CheckGoesOn(c)
    \/ \E v \in BOOLEAN : AdminSets(v)
    \/ AdminFlushes
    \/ \E p \in Processes : Restart(p)
    \/ Tick

Spec == Init /\ [][Next]_gatewayVars

\* The clock goes on, the database answers or throws, and handlers end.
Fairness ==
    /\ WF_gatewayVars(Tick)
    /\ \A c \in Callers : WF_gatewayVars(CheckGoesOn(c))
    /\ \A c \in ApiRequests : WF_gatewayVars(ApiAdmitted(c))
    /\ \A c \in FormRequests \cup Loops : WF_gatewayVars(WorkEnds(c))

LiveSpec == Spec /\ Fairness

-----------------------------------------------------------------------------

TypeOK == KillSwitchTypeOK /\ LimiterTypeOK
=============================================================================
