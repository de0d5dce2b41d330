---------------------------- MODULE RateLimiter ----------------------------
(***************************************************************************)
(* The sliding-window rate limiter of the API process                      *)
(* (src/src/lib/rate-limit.ts): for each key the times of its recent       *)
(* requests, and a sweep of abandoned keys at the pace of the shortest     *)
(* window.  check is synchronous, so that a call is one step.              *)
(*                                                                         *)
(* Times are kept as ages in ticks, and an array of times as the number of *)
(* its entries of each age: the entries of a key are ascending and nothing *)
(* else tells them apart.  Ages stop a sweep interval after the window of  *)
(* the key.                                                                *)
(***************************************************************************)
EXTENDS Integers, FiniteSets

CONSTANTS
    Keys,           \* "bucket:entity"
    MaxRequests,    \* of the bucket of each key
    Window,         \* windowMs of the bucket of each key, in ticks
    SweepInterval,  \* the shortest window of all buckets
    MaxRestarts     \* bound: restarts of the server within a window

ASSUME BucketAssumption ==
    /\ MaxRequests \in [Keys -> Nat \ {0}] /\ Window \in [Keys -> Nat \ {0}]
    /\ SweepInterval \in Nat \ {0} /\ MaxRestarts \in Nat
    /\ \A k \in Keys : SweepInterval <= Window[k]

VARIABLES
    windows,    \* the times stored for a key
    sweptAgo,   \* now - lastSweepAt
    \* history: it outlives the server
    hits,       \* the times of all requests that were let through
    restarts    \* the times at which the server was started again

limiterVars == <<windows, sweptAgo, hits, restarts>>

OldestAge(k) == Window[k] + SweepInterval - 1

Times(k) == [0 .. OldestAge(k) -> Nat]

LimiterTypeOK ==
    /\ \A times \in {windows, hits, restarts} :
          times = [k \in Keys |-> times[k]] /\ \A k \in Keys : times[k] \in Times(k)
    /\ sweptAgo \in 0 .. SweepInterval

NoTimes(k) == [age \in 0 .. OldestAge(k) |-> 0]

\* lastSweepAt starts at 0, the epoch: the first check sweeps.
LimiterInit ==
    /\ windows = [k \in Keys |-> NoTimes(k)]
    /\ hits = [k \in Keys |-> NoTimes(k)]
    /\ restarts = [k \in Keys |-> NoTimes(k)]
    /\ sweptAgo = SweepInterval

\* ts.length
Requests(times) == UNION {{age} \X (1 .. times[age]) : age \in DOMAIN times}
Length(times) == Cardinality(Requests(times))

\* One of the times, and so the newest when S holds all up to an age, is of an
\* age in S.
NewestIn(times, S) == \E age \in S : times[age] > 0

\* t > now - windowMs
Counted(k, times) ==
    [age \in DOMAIN times |-> IF age < Window[k] THEN times[age] ELSE 0]

\* Slip: every key is swept by the shortest window.
SlipSwept(k) ==
    IF sweptAgo >= SweepInterval /\ ~NewestIn(windows[k], 0 .. SweepInterval - 1)
      THEN NoTimes(k) ELSE windows[k]

\* maybeSweep: what it leaves of a key.
Swept(k) ==
    IF sweptAgo >= SweepInterval /\ ~NewestIn(windows[k], 0 .. Window[k] - 1)
      THEN NoTimes(k) ELSE windows[k]

FreshHits(k) == Counted(k, Swept(k))

Allowed(k) == Length(FreshHits(k)) < MaxRequests[k]

\* push(now)
Push(times) == [times EXCEPT ![0] = @ + 1]

\* Slip: a sweep leaves the keys it was not called for.
SlipCheckKey(k) ==
    /\ sweptAgo' = IF sweptAgo >= SweepInterval THEN 0 ELSE sweptAgo
    /\ windows' = [windows EXCEPT ![k] =
          IF Allowed(k) THEN Push(FreshHits(k)) ELSE FreshHits(k)]
    /\ hits' = [hits EXCEPT ![k] = IF Allowed(k) THEN Push(@) ELSE @]
    /\ UNCHANGED restarts

\* check: sweep, count, and remember the request if it is let through.
CheckKey(k) ==
    /\ sweptAgo' = IF sweptAgo >= SweepInterval THEN 0 ELSE sweptAgo
    /\ windows' = [j \in Keys |->
          IF j # k THEN Swept(j)
          ELSE IF Allowed(k) THEN Push(FreshHits(k))
          ELSE FreshHits(k)]
    /\ hits' = [hits EXCEPT ![k] = IF Allowed(k) THEN Push(@) ELSE @]
    /\ UNCHANGED restarts

\* The limiter of a server that starts again knows nothing: the map is in
\* memory.  What was let through remains so.
StartLimiter ==
    /\ \A k \in Keys : Length(restarts[k]) < MaxRestarts
    /\ windows' = [k \in Keys |-> NoTimes(k)]
    /\ sweptAgo' = SweepInterval
    /\ restarts' = [k \in Keys |-> Push(restarts[k])]
    /\ UNCHANGED hits

Aged(k, times) ==
    [age \in 0 .. OldestAge(k) |->
        IF age = 0 THEN 0
        ELSE times[age - 1] + IF age = OldestAge(k) THEN times[age] ELSE 0]

\* A tick of the clock.  History forgets what no window reaches.
LimiterTick ==
    /\ windows' = [k \in Keys |-> Aged(k, windows[k])]
    /\ hits' = [k \in Keys |-> Counted(k, Aged(k, hits[k]))]
    /\ restarts' = [k \in Keys |-> Counted(k, Aged(k, restarts[k]))]
    /\ sweptAgo' = IF sweptAgo < SweepInterval THEN sweptAgo + 1 ELSE sweptAgo

-----------------------------------------------------------------------------
(* Properties *)

\* In no window of a key are more requests let through than its bucket
\* allows, and as many again for each restart of the server in that window,
\* which forgets what it had let through; checks of other keys, which sweep the
\* map, grant nothing.  A request is refused only while at least as many as
\* the bucket allows were let through in the window that ends now: what is
\* older never counts.
LimitIsExact ==
    \A k \in Keys :
        LET recent == Length(Counted(k, hits[k]))
            quotas == 1 + Length(Counted(k, restarts[k]))
        IN  /\ recent <= MaxRequests[k] * quotas
            /\ Allowed(k) => recent < MaxRequests[k] * quotas
            /\ recent < MaxRequests[k] => Allowed(k)

\* An abandoned key outlives its window by less than the time since the last
\* sweep, so that the map does not grow with keys nobody asks for any more.
AbandonedIsSwept ==
    \A k \in Keys :
        NewestIn(windows[k], 0 .. OldestAge(k))
          => NewestIn(windows[k], {age \in 0 .. OldestAge(k) : age < Window[k] + sweptAgo})
=============================================================================
