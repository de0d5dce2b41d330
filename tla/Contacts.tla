------------------------------ MODULE Contacts ------------------------------
(***************************************************************************)
(* Webhook delivery with the guard each of its requests passes: what a     *)
(* request may contact, told by ranges of addresses, beside what the       *)
(* bitwise code of src/src/lib/ssrf-guard.ts lets through.  This is about  *)
(* addresses and chains of redirects and no state, so it is looked at in   *)
(* the initial states only.                                                *)
(***************************************************************************)
EXTENDS WebhookDelivery, AddressGuard

CONSTANTS
    Addresses,  \* a host may resolve to
    Chains      \* of redirects, by their hops

ASSUME ChainsAssumption ==
    /\ Addresses \subseteq Address
    /\ Chains \subseteq Seq(Hop)

\* The upper half of an IPv4 address on the list of the guard: 0/8, 10/8, 127/8,
\* 169.254/16, 172.16/12 and 192.168/16.  It is this list the guard is held to
\* and no other: shared space (100.64/10), benchmarks (198.18/15), 192.0.0/24,
\* multicast (224/4), reserved space (240/4) and IPv4 as ::a.b.c.d are not on it.
Denied(hi) ==
    \/ hi \in 0 .. 255 \/ hi \in 2560 .. 2815 \/ hi \in 32512 .. 32767
    \/ hi = 43518 \/ hi \in 44048 .. 44063 \/ hi = 49320

\* IPv4 within IPv6: ::ffff:0:0/96 and 64:ff9b::/96.
Embeds(q) ==
    \/ \A i \in 1 .. 6 : q[i] = IF i = 6 THEN 65535 ELSE 0
    \/ \A i \in 1 .. 6 : q[i] = CASE i = 1 -> 100 [] i = 2 -> 65435 [] OTHER -> 0

Permitted(addr) ==
    IF addr.v = 4 THEN ~Denied(addr.q[1])
    ELSE /\ addr.q[1] \notin 64512 .. 65023 \cup 65152 .. 65215
         /\ (\A i \in 1 .. 7 : addr.q[i] = 0) => addr.q[8] > 1
         /\ Embeds(addr.q) => ~Denied(addr.q[7])

\* A chain within the limit, from https to https and permitted host to
\* permitted host.
Sound(hops) ==
    /\ \A k \in DOMAIN hops :
          /\ hops[k].https /\ hops[k].answers # <<>>
          /\ \A i \in DOMAIN hops[k].answers : Permitted(hops[k].answers[i])
    /\ hops # <<>> /\ ~hops[Len(hops)].redirects /\ Len(hops) <= MaxRedirects + 1

\* The guard blocks the addresses on its list and no others, no address a chain
\* of redirects connects to is on it, whatever the names resolve to afterwards,
\* and a sound chain is answered.
NoDeniedIsContacted ==
    Init =>
        /\ \A addr \in Addresses : Blocked(addr) <=> ~Permitted(addr)
        /\ \A hops \in Chains :
            /\ \A k \in Requested(hops) : Permitted(Pinned(hops[k]))
            /\ Sound(hops) => Outcome(hops) = "answered"
=============================================================================
