------------------------------- MODULE Access -------------------------------
(***************************************************************************)
(* Who may do what: the operator's login links and sessions               *)
(* (src/src/server/routes/auth.ts, server/auth.ts), API keys and their     *)
(* scopes, where they are minted (routes/apiKeys.ts, hostedSignup.ts and   *)
(* the CLI's init) and revoked, the confinement of keys to a merchant and  *)
(* an event (routes/invoices.ts, events.ts, webhooksAdmin.ts), and webhook *)
(* endpoints (webhooks-ui.ts).                                             *)
(*                                                                         *)
(* A request is authenticated when it arrives and acts some awaits later,  *)
(* when its key may be revoked and its session gone.  Expiry is an event   *)
(* of its own.  Hashing, cookies, decoys and validation of bodies decide   *)
(* nothing here; the rate limiter, which every route asks first, is a      *)
(* module of its own; a merchant's session opens the store form and the    *)
(* merchant's dashboard only, and is not kept.                             *)
(***************************************************************************)
EXTENDS Naturals, FiniteSets

CONSTANTS
    Tokens,         \* LoginToken rows
    Sessions,       \* ids of operator sessions
    Keys,           \* ApiKey ids
    Endpoints,      \* WebhookEndpoint ids
    Requests,       \* handlers of the API server
    Events,         \* Event rows
    Merchants,      \* merchantId values
    MerchantOf,     \* merchantId of each event, or None
    None            \* null

ASSUME NoneAssumption ==
    None \notin Tokens \cup Sessions \cup Keys \cup Events \cup Merchants

ASSUME MerchantAssumption == MerchantOf \in [Events -> Merchants \cup {None}]

ASSUME DistinctAssumption == Sessions \cap Keys = {}

ASSUME RequestsAssumption == IsFiniteSet(Requests)

VARIABLES
    tokens,     \* usedAt and expiresAt of each token
    sessions,   \* InMemorySessionStore
    keys,       \* ApiKey rows
    endpoints,  \* WebhookEndpoint rows: their event
    request,    \* where each handler stands
    \* history
    opened,     \* the token each session was opened with
    atWork,     \* requests let in by a key and at work when it was revoked
    ended       \* requests let in by a key that ended after it was revoked

accessVars ==
    <<tokens, sessions, keys, endpoints, request, opened, atWork, ended>>

Scopes == {"readonly", "merchant", "admin"}

KeyRow == [scope : Scopes, merchant : Merchants \cup {None},
           event : Events \cup {None}, revoked : BOOLEAN]

NoKey == [scope |-> "none"]

NoEndpoint == [event |-> "none"]

\* usedAt and expiresAt of a LoginToken row.
LinkState == {"none", "fresh", "used", "expired"}

\* redeemed: a token is consumed and the operator being looked up.
\* granted: authenticated for a route that needs that much.
Request == [pc : {"idle", "redeemed", "granted"}, token : Tokens \cup {None},
            by : Keys \cup Sessions \cup {None},
            need : Scopes \cup {"session", "none"}]

Idle == [pc |-> "idle", token |-> None, by |-> None, need |-> "none"]

Redeemed(t) == [pc |-> "redeemed", token |-> t, by |-> None, need |-> "none"]

Granted(by, need) == [pc |-> "granted", token |-> None, by |-> by, need |-> need]

TypeOK ==
    /\ tokens \in [Tokens -> LinkState]
    /\ sessions \in [Sessions -> {"none", "live", "gone"}]
    /\ keys \in [Keys -> KeyRow \cup {NoKey}]
    /\ endpoints \in [Endpoints -> [event : Events \cup {None}] \cup {NoEndpoint}]
    /\ request \in [Requests -> Request]
    /\ opened \in [Sessions -> Tokens \cup {None}]
    /\ atWork \in [Keys -> Nat]
    /\ ended \in [Keys -> Nat]

Init ==
    /\ tokens = [t \in Tokens |-> "none"]
    /\ sessions = [s \in Sessions |-> "none"]
    /\ keys = [k \in Keys |-> NoKey]
    /\ endpoints = [p \in Endpoints |-> NoEndpoint]
    /\ request = [r \in Requests |-> Idle]
    /\ opened = [s \in Sessions |-> None]
    /\ atWork = [k \in Keys |-> 0]
    /\ ended = [k \in Keys |-> 0]

Revoked(k) == keys[k] # NoKey /\ keys[k].revoked

\* The requests that a key let in and that have not ended.
LetInBy(k) == {r \in Requests : request[r].by = k}

Ends(r) ==
    /\ request' = [request EXCEPT ![r] = Idle]
    /\ ended' = [k \in Keys |-> IF r \in LetInBy(k) /\ Revoked(k) THEN ended[k] + 1
                                                                ELSE ended[k]]

-----------------------------------------------------------------------------
(* Login links and sessions *)

\* mintLoginLink, in the CLI: init and operator login-link.
MintLink(t) ==
    /\ tokens[t] = "none"
    /\ tokens' = [tokens EXCEPT ![t] = "fresh"]
    /\ UNCHANGED <<sessions, keys, endpoints, request, opened, atWork, ended>>

\* LOGIN_TOKEN_TTL_MS have passed.
ExpireLink(t) ==
    /\ tokens[t] = "fresh"
    /\ tokens' = [tokens EXCEPT ![t] = "expired"]
    /\ UNCHANGED <<sessions, keys, endpoints, request, opened, atWork, ended>>

\* Slip: whether it was used is not part of the condition.
SlipUsable(t) == tokens[t] \in {"fresh", "used"}

\* The guard of consume's updateMany: usedAt null, not expired.
Usable(t) == tokens[t] = "fresh"

\* GET /auth/magic: the guarded update.  A link that is not usable is
\* answered 403 and changes nothing.
Consume(r, t) ==
    /\ request[r].pc = "idle"
    /\ Usable(t)
    /\ tokens' = [tokens EXCEPT ![t] = "used"]
    /\ request' = [request EXCEPT ![r] = Redeemed(t)]
    /\ UNCHANGED <<sessions, keys, endpoints, opened, atWork, ended>>

\* The operator is found: a fresh session.
OpenSession(r, s) ==
    /\ request[r].pc = "redeemed"
    /\ sessions[s] = "none"
    /\ sessions' = [sessions EXCEPT ![s] = "live"]
    /\ opened' = [opened EXCEPT ![s] = request[r].token]
    /\ Ends(r)
    /\ UNCHANGED <<tokens, keys, endpoints, atWork>>

\* POST /v1/auth/login: the operator is looked up, the password verified.
PasswordLogin(r, s) ==
    /\ request[r].pc = "idle"
    /\ sessions[s] = "none"
    /\ sessions' = [sessions EXCEPT ![s] = "live"]
    /\ UNCHANGED <<tokens, keys, endpoints, request, opened, atWork, ended>>

\* InMemorySessionStore.get deletes what is older than the TTL.
ExpireSession(s) ==
    /\ sessions[s] = "live"
    /\ sessions' = [sessions EXCEPT ![s] = "gone"]
    /\ UNCHANGED <<tokens, keys, endpoints, request, opened, atWork, ended>>

-----------------------------------------------------------------------------
(* Authentication *)

\* SCOPE_LEVEL
Level(scope) ==
    CASE scope = "readonly" -> 0 [] scope = "merchant" -> 1 [] scope = "admin" -> 2

\* Slip: a key that exists is a valid key.
SlipValid(k) == keys[k] # NoKey

Valid(k) == keys[k] # NoKey /\ ~keys[k].revoked

Suffices(k, need) == Level(keys[k].scope) >= Level(need)

\* requireScope: the row is read once.  Otherwise 401 or 403.
Authenticate(r, k, need) ==
    /\ request[r].pc = "idle"
    /\ Valid(k) /\ Suffices(k, need)
    /\ request' = [request EXCEPT ![r] = Granted(k, need)]
    /\ UNCHANGED <<tokens, sessions, keys, endpoints, opened, atWork, ended>>

\* extractSession, gateSession: the operator's pages and POST /v1/api-keys.
EnterWithSession(r, s) ==
    /\ request[r].pc = "idle"
    /\ sessions[s] = "live"
    /\ request' = [request EXCEPT ![r] = Granted(s, "session")]
    /\ UNCHANGED <<tokens, sessions, keys, endpoints, opened, atWork, ended>>

\* An admin key or an operator's session.
AsOperator(r) == request[r].pc = "granted" /\ request[r].need \in {"admin", "session"}

AsAdmin(r) == request[r].pc = "granted" /\ request[r].need = "admin"

-----------------------------------------------------------------------------
(* API keys and webhook endpoints *)

\* POST /v1/api-keys.  An event must exist; that it is the merchant's is not
\* asked.  Admin keys are of no merchant.
MintKey(r, k) ==
    /\ AsOperator(r)
    /\ keys[k] = NoKey
    /\ \E row \in KeyRow :
          /\ ~row.revoked
          /\ row.scope = "admin" => row.merchant = None
          /\ keys' = [keys EXCEPT ![k] = row]
    /\ Ends(r)
    /\ UNCHANGED <<tokens, sessions, endpoints, opened, atWork>>

\* POST /signup/store, in a merchant's session: the keys of the store it has
\* made, two inserts at once, so that one may fail.
StoreMints(k, e, scope) ==
    /\ MerchantOf[e] # None /\ scope # "admin"
    /\ keys[k] = NoKey
    /\ keys' = [keys EXCEPT ![k] = [scope |-> scope, merchant |-> MerchantOf[e],
                                    event |-> e, revoked |-> FALSE]]
    /\ UNCHANGED <<tokens, sessions, endpoints, request, opened, atWork, ended>>

\* init, in the CLI: the first keys (Provisioning has its steps).
InitMints(k, scope) ==
    /\ scope # "merchant"
    /\ keys[k] = NoKey
    /\ keys' = [keys EXCEPT ![k] = [scope |-> scope, merchant |-> None,
                                    event |-> None, revoked |-> FALSE]]
    /\ UNCHANGED <<tokens, sessions, endpoints, request, opened, atWork, ended>>

\* DELETE /v1/api-keys/:id
RevokeKey(r, k) ==
    /\ AsAdmin(r)
    /\ keys[k] # NoKey
    /\ keys' = [keys EXCEPT ![k] = [keys[k] EXCEPT !.revoked = TRUE]]
    /\ atWork' = [atWork EXCEPT ![k] = IF Revoked(k) THEN @
                                       ELSE Cardinality(LetInBy(k) \ {r})]
    /\ Ends(r)
    /\ UNCHANGED <<tokens, sessions, endpoints, opened>>

\* POST /v1/webhooks and POST /webhooks.
AddEndpoint(r, p) ==
    /\ AsOperator(r)
    /\ endpoints[p] = NoEndpoint
    /\ \E e \in Events \cup {None} :
          endpoints' = [endpoints EXCEPT ![p] = [event |-> e]]
    /\ Ends(r)
    /\ UNCHANGED <<tokens, sessions, keys, opened, atWork>>

\* DELETE /v1/webhooks/:id and POST /webhooks/:id/delete.
RemoveEndpoint(r, p) ==
    /\ AsOperator(r)
    /\ endpoints[p] # NoEndpoint
    /\ endpoints' = [endpoints EXCEPT ![p] = NoEndpoint]
    /\ Ends(r)
    /\ UNCHANGED <<tokens, sessions, keys, opened, atWork>>

\* Any other end of a handler: a read is answered, an invoice made or
\* canceled (InvoiceCreation, Watcher), a query throws.
Answer(r) ==
    /\ request[r].pc # "idle"
    /\ Ends(r)
    /\ UNCHANGED <<tokens, sessions, keys, endpoints, opened, atWork>>

\* The server restarts: sessions are in memory only.
Restart ==
    /\ sessions' = [s \in Sessions |-> IF sessions[s] = "live" THEN "gone"
                                                               ELSE sessions[s]]
    /\ request' = [r \in Requests |-> Idle]
    /\ UNCHANGED <<tokens, keys, endpoints, opened, atWork, ended>>

-----------------------------------------------------------------------------
(* What a key may reach.  Every route finds it its own way. *)

\* tenantOf and matchesTenant: an admin's tenant is undefined and matches all.
MatchesTenant(k, merchant) ==
    keys[k].scope = "admin" \/ keys[k].merchant = merchant

\* isEventAllowed
IsEventAllowed(k, e) == keys[k].event = None \/ keys[k].event = e

\* POST /v1/invoices, POST :id/cancel and GET :id look at the event's row.
TouchesInvoicesOf(k) ==
    {e \in Events : IsEventAllowed(k, e) /\ MatchesTenant(k, MerchantOf[e])}

\* list, of the repository: the filters a caller gives, on the event and on
\* the merchant of the event.  A merchant of null is a filter too.
ListedFor(asked, tenants) ==
    {e \in Events : (asked = None \/ asked = e) /\ MerchantOf[e] \in tenants}

\* No tenant filter for an admin.
TenantsOf(k) == IF keys[k].scope = "admin" THEN Merchants \cup {None}
                                           ELSE {keys[k].merchant}

\* Slip: the event of the key is only a default.
SlipListsInvoicesOf(k) == ListedFor(None, TenantsOf(k))

\* GET /v1/invoices narrows the query: eventId, and merchantId if not admin.
ListsInvoicesOf(k) == ListedFor(keys[k].event, TenantsOf(k))

\* GET /m/dashboard, to a session of merchant m: its invoices, and its keys.
DashboardShows(m) == ListedFor(None, {m})

DashboardKeys(m) ==
    {k \in Keys : keys[k] # NoKey /\ keys[k].merchant = m /\ ~keys[k].revoked}

\* GET /v1/events and GET /v1/events/:id: the tenant alone.
SeesEvents(k) == {e \in Events : MatchesTenant(k, MerchantOf[e])}

\* GET /v1/sweeps/:id: the tenant of the event swept; the event of the key is
\* asked when a sweep is prepared, not here.
SeesSweepsOf(k) == {e \in Events : MatchesTenant(k, MerchantOf[e])}

\* GET /v1/webhooks: the loop over all rows.
SeesEndpoint(k, p) ==
    LET e == endpoints[p].event
    IN  /\ keys[k].event # None => e = keys[k].event
        /\ \/ keys[k].scope = "admin"
           \/ e = None /\ keys[k].merchant = None
           \/ e # None /\ MatchesTenant(k, MerchantOf[e])

-----------------------------------------------------------------------------

Handle(r) ==
    \/ \E t \in Tokens : Consume(r, t)
    \/ \E s \in Sessions : OpenSession(r, s) \/ PasswordLogin(r, s)
                               \/ EnterWithSession(r, s)
    \/ \E k \in Keys, need \in Scopes : Authenticate(r, k, need)
    \/ \E k \in Keys : MintKey(r, k) \/ RevokeKey(r, k)
    \/ \E p \in Endpoints : AddEndpoint(r, p) \/ RemoveEndpoint(r, p)
    \/ Answer(r)

Next ==
    \/ \E t \in Tokens : MintLink(t) \/ ExpireLink(t)
    \/ \E s \in Sessions : ExpireSession(s)
    \/ \E r \in Requests : Handle(r)
    \/ \E k \in Keys, e \in Events, scope \in Scopes : StoreMints(k, e, scope)
    \/ \E k \in Keys, scope \in Scopes : InitMints(k, scope)
    \/ Restart

Spec == Init /\ [][Next]_accessVars

-----------------------------------------------------------------------------
(* Properties *)

\* A login link opens one session at most, though it is followed twice at
\* once, and none if the server dies or the lookup fails after it was
\* consumed.
OneSessionPerLink ==
    /\ \A s, z \in Sessions : opened[s] = opened[z] /\ opened[s] # None => s = z
    /\ \A r \in Requests, s \in Sessions :
          request[r].pc = "redeemed" => opened[s] # request[r].token
    /\ \A r, q \in Requests :
          request[r].pc = "redeemed" /\ request[q].token = request[r].token => q = r

\* A revoked key runs out: a key is looked at once, when a request arrives,
\* and the handler mints, revokes or registers some awaits later, so that
\* requests still act after their key was revoked; but no more than were at
\* work at that moment, each of them once, and whatever is minted or revoked
\* in between adds none.
RevokedKeyRunsOut ==
    \A k \in Keys : Revoked(k) => ended[k] + Cardinality(LetInBy(k)) <= atWork[k]

\* The routes agree on what a key may reach, whatever an operator minted (a
\* key of one merchant for an event of another reaches nothing): what it
\* lists it may touch and the other way round, and it sees an endpoint only
\* of an event it sees, or one of all events if it has no merchant itself.
\* The dashboard of a merchant shows what its keys reach, and all of it to a
\* key that is of no event.
RoutesAgree ==
    /\ \A m \in Merchants : \A k \in DashboardKeys(m) :
          IF keys[k].event = None
            THEN TouchesInvoicesOf(k) = DashboardShows(m)
            ELSE TouchesInvoicesOf(k) \subseteq DashboardShows(m)
    /\ \A k \in Keys : keys[k] # NoKey =>
          /\ ListsInvoicesOf(k) = TouchesInvoicesOf(k)
          /\ TouchesInvoicesOf(k) \subseteq SeesEvents(k) \cap SeesSweepsOf(k)
          /\ \A p \in Endpoints : endpoints[p] # NoEndpoint /\ SeesEndpoint(k, p) =>
                IF endpoints[p].event = None
                  THEN keys[k].merchant = None /\ keys[k].event = None
                  ELSE endpoints[p].event \in TouchesInvoicesOf(k)
=============================================================================
