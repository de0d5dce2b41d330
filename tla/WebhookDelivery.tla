---------------------------- MODULE WebhookDelivery ----------------------------
(***************************************************************************)
(* The webhook delivery loop (src/src/workers/webhookDelivery.ts) and the  *)
(* rows it claims and marks (workers/db/WebhookDeliveryRepository.ts).     *)
(* Several worker processes drain the same table: a claim leases rows      *)
(* under a fresh token, a second query loads them, each is posted to its   *)
(* endpoint and then marked, if the token still fits.                      *)
(*                                                                         *)
(* Time is what the code compares: whether nextAttemptAt has come (due)    *)
(* and whether claimExpiresAt has passed (leaseOver).  A paused drain and  *)
(* a drain that finds nothing do nothing.                                  *)
(***************************************************************************)
EXTENDS Naturals, FiniteSets

CONSTANTS
    Deliveries,     \* WebhookDelivery rows, by eventUid
    Inactive,       \* those whose endpoint row is not active
    Workers,        \* worker processes
    BatchSize,      \* rows one drain claims
    MaxAttempts,    \* RETRY_DELAYS_MS.length: sends before the dead letters
    MaxClaims,      \* bound: claims that ever happen, by all workers
    MaxReplays      \* bound: calls of replayDelivery

ASSUME DeliveriesAssumption == IsFiniteSet(Deliveries) /\ Inactive \subseteq Deliveries
ASSUME DeliveryBoundsAssumption ==
    /\ BatchSize \in Nat \ {0} /\ MaxAttempts \in Nat \ {0}
    /\ MaxClaims \in Nat /\ MaxReplays \in Nat

VARIABLES
    rows,       \* the table
    worker,     \* per worker, the locals of its drain
    claims,     \* claim tokens handed out so far; 0 is the null token
    replaying,  \* rows an operator's replay has read and not yet written
    replays,
    \* history
    acked,      \* deliveries some receiver answered 2xx to
    lapsed      \* deliveries of which a lease ran out or was revoked

deliveryVars == <<rows, worker, claims, replaying, replays, acked, lapsed>>

Tokens == 0 .. MaxClaims

Status == {"pending", "delivered", "failed", "dead"}

Row == [status : Status, attempts : Nat, token : Tokens,
        due : BOOLEAN, leaseOver : BOOLEAN]

\* The row as the load read it.
Snapshot == [attempts : Nat, token : Tokens]

\* claimToken: the token of its claim.  todo: rows claimed and not processed
\* yet.  seen: their snapshots, Unread for the others.  current: the row
\* being posted, with the outcome of the post.
Locals == [pc : {"idle", "loading", "drain", "sending", "marking"},
           claimToken : Tokens, todo : SUBSET Deliveries,
           seen : [Deliveries -> Snapshot],
           current : SUBSET Deliveries, ok : BOOLEAN]

Unread == [attempts |-> 0, token |-> 0]

Idle == [pc |-> "idle", claimToken |-> 0, todo |-> {},
         seen |-> [d \in Deliveries |-> Unread],
         current |-> {}, ok |-> FALSE]

TypeOK ==
    /\ rows \in [Deliveries -> Row]
    /\ worker \in [Workers -> Locals]
    /\ claims \in Tokens
    /\ replaying \subseteq Deliveries /\ replays \in 0 .. MaxReplays
    /\ acked \subseteq Deliveries /\ lapsed \subseteq Deliveries

Init ==
    /\ rows = [d \in Deliveries |->
                  [status |-> "pending", attempts |-> 0, token |-> 0,
                   due |-> TRUE, leaseOver |-> FALSE]]
    /\ worker = [w \in Workers |-> Idle]
    /\ claims = 0
    /\ replaying = {} /\ replays = 0
    /\ acked = {} /\ lapsed = {}

-----------------------------------------------------------------------------
(* Time *)

\* The retry delay of a row, always positive, elapses.
ComesDue(d) ==
    /\ ~rows[d].due
    /\ rows' = [rows EXCEPT ![d].due = TRUE]
    /\ UNCHANGED <<worker, claims, replaying, replays, acked, lapsed>>

\* claimExpiresAt passes.  The lease outlasts a whole batch of timeouts, but
\* nothing stops a worker that outlives it.
LeaseExpires(d) ==
    /\ rows[d].token # 0 /\ ~rows[d].leaseOver
    /\ rows' = [rows EXCEPT ![d].leaseOver = TRUE]
    /\ lapsed' = lapsed \cup {d}
    /\ UNCHANGED <<worker, claims, replaying, replays, acked>>

-----------------------------------------------------------------------------
(* drainPending *)

\* The locals of one worker change.
Becomes(w, locals) == worker' = [worker EXCEPT ![w] = locals]

\* Slip: a claim that was never released is respected for ever.
SlipNoReclaim == {d \in Deliveries : /\ rows[d].status = "pending" /\ rows[d].due
                                     /\ rows[d].token = 0}

\* Slip: claims are not looked at.
SlipIgnoreClaims == {d \in Deliveries : rows[d].status = "pending" /\ rows[d].due}

\* The WHERE clause of claimPending.
Claimable ==
    {d \in Deliveries : /\ rows[d].status = "pending" /\ rows[d].due
                        /\ rows[d].token = 0 \/ rows[d].leaseOver}

\* claimPending, its UPDATE: a fresh token on up to BatchSize rows, skipping
\* those another claim has locked.
Claim(w) ==
    /\ worker[w].pc = "idle"
    /\ claims < MaxClaims
    /\ \E ids \in SUBSET Claimable \ {{}} :
          /\ Cardinality(ids) <= BatchSize
          /\ rows' = [d \in Deliveries |->
                IF d \in ids
                  THEN [rows[d] EXCEPT !.token = claims + 1, !.leaseOver = FALSE]
                  ELSE rows[d]]
          /\ Becomes(w, [worker[w] EXCEPT !.pc = "loading", !.todo = ids,
                                          !.claimToken = claims + 1])
    /\ claims' = claims + 1
    /\ UNCHANGED <<replaying, replays, acked, lapsed>>

\* claimPending, its findMany: whatever token the rows have by now.
ReadRows(ids) ==
    [d \in Deliveries |-> IF d \in ids THEN [attempts |-> rows[d].attempts,
                                            token |-> rows[d].token]
                                      ELSE Unread]

Load(w) ==
    /\ worker[w].pc = "loading"
    /\ Becomes(w, [worker[w] EXCEPT !.pc = "drain",
                                    !.seen = ReadRows(worker[w].todo)])
    /\ UNCHANGED <<rows, claims, replaying, replays, acked, lapsed>>

\* processRow takes the next row; an inactive endpoint is not posted to.
Take(w, d) ==
    /\ worker[w].pc = "drain"
    /\ d \in worker[w].todo
    /\ Becomes(w, [worker[w] EXCEPT
          !.pc = IF d \in Inactive THEN "marking" ELSE "sending",
          !.todo = @ \ {d}, !.current = {d}, !.ok = FALSE])
    /\ UNCHANGED <<rows, claims, replaying, replays, acked, lapsed>>

\* Slip: any answer counts as an acknowledgement.
SlipAnyAnswer(w) ==
    /\ worker[w].pc = "sending"
    /\ Becomes(w, [worker[w] EXCEPT !.pc = "marking", !.ok = TRUE])
    /\ \E ok \in BOOLEAN :
          acked' = IF ok THEN acked \cup worker[w].current ELSE acked
    /\ UNCHANGED <<rows, claims, replaying, replays, lapsed>>

\* sendWithEventUid: answered 2xx, or not (refused, timed out, secret not
\* readable), which says nothing of what the receiver did with it.
Post(w) ==
    /\ worker[w].pc = "sending"
    /\ \E ok \in BOOLEAN :
          /\ Becomes(w, [worker[w] EXCEPT !.pc = "marking", !.ok = ok])
          /\ acked' = IF ok THEN acked \cup worker[w].current ELSE acked
    /\ UNCHANGED <<rows, claims, replaying, replays, lapsed>>

\* retryDelayMs: whether the schedule has an entry for this many attempts.
RetryLeft(attemptsDone) == attemptsDone < MaxAttempts

Released(row, status) ==
    [row EXCEPT !.status = status, !.token = 0, !.leaseOver = FALSE]

\* markDelivered, markFailed and markDead; only the first two count the
\* attempt.
Marked(row, w, d) ==
    CASE worker[w].ok ->
            [Released(row, "delivered") EXCEPT !.attempts = @ + 1]
      [] ~worker[w].ok /\ d \notin Inactive
           /\ RetryLeft(worker[w].seen[d].attempts + 1) ->
            [Released(row, "failed") EXCEPT !.attempts = @ + 1, !.due = FALSE]
      [] OTHER -> Released(row, "dead")

\* Slip: the update does not ask for the token.
SlipNoToken(w, d) == TRUE

\* The WHERE clause of an update by claim token; a null token asks nothing.
Fits(w, d) ==
    LET token == worker[w].seen[d].token
    IN  token = 0 \/ rows[d].token = token

\* A token that does not fit is a stale claim: the row is left alone.
Mark(w, d) ==
    /\ worker[w].pc = "marking" /\ worker[w].current = {d}
    /\ rows' = IF Fits(w, d)
                 THEN [rows EXCEPT ![d] = Marked(@, w, d)]
                 ELSE rows
    /\ Becomes(w, [worker[w] EXCEPT !.pc = "drain", !.current = {},
                                    !.ok = FALSE, !.seen[d] = Unread])
    /\ UNCHANGED <<claims, replaying, replays, acked, lapsed>>

EndDrain(w) ==
    /\ worker[w].pc = "drain" /\ worker[w].todo = {}
    /\ Becomes(w, Idle)
    /\ UNCHANGED <<rows, claims, replaying, replays, acked, lapsed>>

\* The process dies, or a query throws and the drain ends: claims stay.
DrainDies(w) ==
    /\ worker[w].pc # "idle"
    /\ Becomes(w, Idle)
    /\ UNCHANGED <<rows, claims, replaying, replays, acked, lapsed>>

-----------------------------------------------------------------------------
(* replayDelivery: a read, a check, and an update by primary key *)

ReplayRead(d) ==
    /\ replays < MaxReplays
    /\ d \notin replaying
    /\ rows[d].status # "delivered"
    /\ replaying' = replaying \cup {d}
    /\ replays' = replays + 1
    /\ UNCHANGED <<rows, worker, claims, acked, lapsed>>

\* recordAttempt
Replayed(row) ==
    [Released(row, "pending") EXCEPT !.attempts = @ + 1, !.due = TRUE]

ReplayWrite(d) ==
    /\ d \in replaying
    /\ rows' = [rows EXCEPT ![d] = Replayed(rows[d])]
    /\ replaying' = replaying \ {d}
    /\ lapsed' = lapsed \cup {d}
    /\ UNCHANGED <<worker, claims, replays, acked>>

-----------------------------------------------------------------------------

Drain(w) ==
    \/ Claim(w) \/ Load(w) \/ Post(w) \/ EndDrain(w)
    \/ \E d \in Deliveries : Take(w, d) \/ Mark(w, d)

Clock == \E d \in Deliveries : ComesDue(d) \/ LeaseExpires(d)

Next ==
    \/ Clock
    \/ \E w \in Workers : Drain(w) \/ DrainDies(w)
    \/ \E d \in Deliveries : ReplayRead(d) \/ ReplayWrite(d)

Spec == Init /\ [][Next]_deliveryVars

\* Time passes, and a worker's loop goes on draining while it lives.
LiveSpec == /\ Spec
            /\ \A d \in Deliveries : WF_deliveryVars(ComesDue(d) \/ LeaseExpires(d))
            /\ \A w \in Workers : WF_deliveryVars(Drain(w))

-----------------------------------------------------------------------------
(* Properties *)

\* A delivery marked delivered was answered 2xx by its receiver at least
\* once; no worker marks on behalf of a post that failed.
DeliveredWasAcknowledged ==
    \A d \in Deliveries : rows[d].status = "delivered" => d \in acked

Holds(w, d) == d \in worker[w].todo \cup worker[w].current

\* w loaded d after its lease had changed hands, with a token not its own.
Misread(w, d) ==
    /\ Holds(w, d) /\ worker[w].pc # "loading"
    /\ worker[w].seen[d].token # worker[w].claimToken

\* A delivered row stays delivered: no worker whose claim lapsed brings it
\* back, because mark* calls include the claim token.  There are exactly two
\* holes: a replay that read the row before it was delivered, and a worker
\* held up between its two claim queries, which then uses a token that is
\* not its own or none.
DeliveredIsFinal ==
    [][\A d \in Deliveries :
          rows[d].status = "delivered" =>
             \/ rows'[d].status = "delivered"
             \/ d \in replaying
             \/ \E w \in Workers : Misread(w, d)]_deliveryVars

\* As long as no lease of a row has lapsed, at most one worker has it in
\* hand: duplicate posts come from lapsed leases and from nothing else.
OneSenderPerLease ==
    \A d \in Deliveries \ lapsed :
        \A w1, w2 \in Workers : Holds(w1, d) /\ Holds(w2, d) => w1 = w2

\* No row is pending for ever because the worker that claimed it died, as
\* long as some claim is left to the modelled workers.
PendingIsSettled ==
    \A d \in Deliveries :
        rows[d].status = "pending" ~> rows[d].status # "pending" \/ claims = MaxClaims

\* A delivery that failed with retries left is tried again.
FailedIsRetried ==
    \A d \in Deliveries :
        rows[d].status = "failed" ~> rows[d].status # "failed" \/ claims = MaxClaims
=============================================================================
