----------------------------- MODULE AddressGuard -----------------------------
(***************************************************************************)
(* The guard every webhook request passes (src/src/lib/ssrf-guard.ts):     *)
(* which addresses a host name may stand for, and which requests of a      *)
(* chain of redirects are made.  Pure operators; WebhookDelivery's Post is *)
(* such a chain.                                                           *)
(*                                                                         *)
(* An address is [v |-> 4, q |-> <<hi, lo>>] or [v |-> 6, q |-> eight      *)
(* groups], in numbers of 16 bits: the notations that expandIPv6 and its   *)
(* neighbours tell apart are one address here.                             *)
(***************************************************************************)
EXTENDS Integers, Sequences

CONSTANT MaxRedirects    \* DEFAULT_MAX_REDIRECTS: hops after the first

ASSUME RedirectsAssumption == MaxRedirects \in Nat

-----------------------------------------------------------------------------
(* Addresses *)

Group == 0 .. 65535

Address == [v : {4}, q : [1 .. 2 -> Group]] \cup [v : {6}, q : [1 .. 8 -> Group]]

\* IPV4_DENY_RANGES.  No prefix is longer than 16 bits, so the upper half of
\* an address decides; one of n bits leaves the halves 2^(16-n) values.
DenyRanges ==
    {[base |->  2560, width |-> 256],   \* 10/8
     [base |-> 44048, width |->  16],   \* 172.16/12
     [base |-> 49320, width |->   1],   \* 192.168/16
     [base |-> 32512, width |-> 256],   \* 127/8
     [base |-> 43518, width |->   1],   \* 169.254/16
     [base |->     0, width |-> 256]}   \* 0/8

\* The mask keeps what the prefix says.
InCidr(hi, range) == hi \div range.width = range.base \div range.width

BlockedIPv4(hi) == \E range \in DenyRanges : InCidr(hi, range)

\* extractIPv4MappedFromIPv6 and isNat64: the last two groups are an IPv4
\* address.
Mapped(q) == (\A i \in 1 .. 5 : q[i] = 0) /\ q[6] = 65535
Nat64(q)  == q[1] = 100 /\ q[2] = 65435 /\ \A i \in 3 .. 6 : q[i] = 0

BlockedIPv6(q) ==
    \/ (\A i \in 1 .. 7 : q[i] = 0) /\ q[8] \in {0, 1}   \* :: and ::1
    \/ q[1] \div 64  = 1018                              \* fe80::/10
    \/ q[1] \div 512 = 126                               \* fc00::/7
    \/ (Mapped(q) \/ Nat64(q)) /\ BlockedIPv4(q[7])

Blocked(addr) ==
    IF addr.v = 4 THEN BlockedIPv4(addr.q[1]) ELSE BlockedIPv6(addr.q)

-----------------------------------------------------------------------------
(* Requests *)

\* A hop is a URL on the way: whether it is https, what its host resolves to
\* (a literal to itself), what it resolves to when asked once more, and
\* whether its answer is a redirect to the next hop.
Hop == [https : BOOLEAN, redirects : BOOLEAN,
        answers : Seq(Address), later : Seq(Address)]

\* assertSafeUrl and buildPinnedFetch: every answer counts, and none is not
\* enough.
Admitted(hop) ==
    /\ hop.https
    /\ hop.answers # <<>>
    /\ \A i \in DOMAIN hop.answers : ~Blocked(hop.answers[i])

\* Slip: the connection resolves the name itself.
SlipResolveAgain(hop) == Head(hop.later)

\* The connection is pinned to the first answer that was checked.
Pinned(hop) == Head(hop.answers)

\* guardedFetch: the hops that are requested, each checked anew.
Requested(hops) ==
    {k \in DOMAIN hops :
        /\ k <= MaxRedirects + 1
        /\ \A j \in 1 .. k     : Admitted(hops[j])
        /\ \A j \in 1 .. k - 1 : hops[j].redirects}

\* It returns the answer of a hop that does not redirect, or throws.
Outcome(hops) ==
    LET answered == {k \in Requested(hops) : ~hops[k].redirects}
    IN  IF answered = {} THEN "refused" ELSE "answered"
=============================================================================
