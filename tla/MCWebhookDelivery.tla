-------------------------- MODULE MCWebhookDelivery --------------------------
(* Small instances of WebhookDelivery, and the guard its requests pass. *)
EXTENDS Contacts, TLC

CONSTANTS d1, d2, w1, w2

OneRow  == {d1}
TwoRows == {d1, d2}
NoRow   == {}
InactiveRow == {d2}
TwoWorkers == {w1, w2}

-----------------------------------------------------------------------------
(* Addresses at the edges of every range, by the ranges' first and last. *)

Edges == {-1, 0, 255, 256, 2559, 2560, 2815, 2816, 44047, 44048, 44063, 44064,
          49319, 49320, 49321, 32511, 32512, 32767, 32768, 43517, 43518, 43519,
          65535} \cap 0 .. 65535

Plain    == {[v |-> 4, q |-> <<hi, 1>>] : hi \in Edges}
Embedded == {[v |-> 6, q |-> prefix \o <<hi, 1>>] :
                hi \in Edges, prefix \in {<<0, 0, 0, 0, 0, 65535>>, <<100, 65435, 0, 0, 0, 0>>}}
Native   == {[v |-> 6, q |-> <<g, 0, 0, 0, 0, 0, 0, last>>] :
                g \in {0, 64511, 64512, 65023, 65024, 65151, 65152, 65215, 65216},
                last \in 0 .. 2}

Inside  == [v |-> 4, q |-> <<2560, 1>>]
Outside == [v |-> 4, q |-> <<2816, 1>>]

\* Chains of up to three hops of hosts that resolve to one or two addresses,
\* and whose answer may be another when asked again.
SomeHops == [https : BOOLEAN, redirects : BOOLEAN,
             answers : {<<>>, <<Outside>>, <<Inside>>, <<Outside, Inside>>},
             later : {<<Outside>>, <<Inside>>}]
SomeChains == UNION {[1 .. n -> SomeHops] : n \in 1 .. 2} \cup
              [1 .. 3 -> {hop \in SomeHops : hop.https /\ hop.redirects}]

EdgeAddresses == Plain \cup Embedded \cup Native
=============================================================================
