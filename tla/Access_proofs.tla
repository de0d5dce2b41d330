---------------------------- MODULE Access_proofs ----------------------------
(***************************************************************************)
(* What Access promises, for any numbers of tokens, sessions, keys,        *)
(* endpoints and handlers, and any events of any merchants.                *)
(***************************************************************************)
EXTENDS Access, FiniteSetTheorems, TLAPS

\* What a handler holds while it waits: a consumed link, or the key or session
\* that let it in, never both.
RequestsInOrder ==
    \A r \in Requests :
        /\ request[r].pc = "redeemed" => request[r].token \in Tokens
        /\ request[r].pc # "redeemed" => request[r].token = None
        /\ request[r].token # None => tokens[request[r].token] = "used"
        /\ request[r].pc # "granted" => request[r].by = None

\* A session goes back to a link only once it exists, and the link is used.
SessionsInOrder ==
    \A s \in Sessions : opened[s] # None =>
        sessions[s] # "none" /\ tokens[opened[s]] = "used"

AdminsHaveNoMerchant ==
    \A k \in Keys : keys[k] # NoKey /\ keys[k].scope = "admin"
        => keys[k].merchant = None

\* Every request let in by a key that was revoked since is one of those that
\* were at work then; none has been counted before.
RunningOut ==
    \A k \in Keys :
        IF Revoked(k) THEN ended[k] + Cardinality(LetInBy(k)) <= atWork[k]
                      ELSE ended[k] = 0

IInv ==
    /\ TypeOK
    /\ RequestsInOrder
    /\ SessionsInOrder
    /\ AdminsHaveNoMerchant
    /\ OneSessionPerLink
    /\ RunningOut

-----------------------------------------------------------------------------
(* Rows *)

LEMMA NoKeyIsNoRow == NoKey \notin KeyRow
BY DEF NoKey, KeyRow, Scopes

LEMMA RowOfKey ==
    ASSUME TypeOK, NEW k \in Keys, keys[k] # NoKey
    PROVE  keys[k] \in KeyRow
BY DEF TypeOK

-----------------------------------------------------------------------------
(* Types *)

LEMMA InitTypes == Init => TypeOK
BY DEF Init, TypeOK, LinkState, Idle, Request

LEMMA NextTypes == TypeOK /\ [Next]_accessVars => TypeOK'
<1> SUFFICES ASSUME TypeOK, [Next]_accessVars PROVE TypeOK'
  OBVIOUS
<1> USE DEF TypeOK, LinkState, Idle, Request, Ends
<1>1. ASSUME NEW t \in Tokens, MintLink(t) \/ ExpireLink(t) PROVE TypeOK'
  BY <1>1 DEF MintLink, ExpireLink
<1>2. ASSUME NEW s \in Sessions, ExpireSession(s) PROVE TypeOK'
  BY <1>2 DEF ExpireSession
<1>3. ASSUME NEW r \in Requests, NEW t \in Tokens, Consume(r, t) PROVE TypeOK'
  BY <1>3 DEF Consume, Redeemed
<1>4. ASSUME NEW r \in Requests, NEW s \in Sessions,
             OpenSession(r, s) \/ PasswordLogin(r, s) \/ EnterWithSession(r, s)
      PROVE  TypeOK'
  <2>1. CASE OpenSession(r, s)     BY <2>1 DEF OpenSession
  <2>2. CASE PasswordLogin(r, s)   BY <2>2 DEF PasswordLogin
  <2>3. CASE EnterWithSession(r, s)
    BY <2>3 DEF EnterWithSession, Granted
  <2> QED BY <1>4, <2>1, <2>2, <2>3
<1>5. ASSUME NEW r \in Requests, NEW k \in Keys, NEW need \in Scopes,
             Authenticate(r, k, need)
      PROVE  TypeOK'
  BY <1>5 DEF Authenticate, Granted
<1>6. ASSUME NEW r \in Requests, NEW k \in Keys, MintKey(r, k) PROVE TypeOK'
  BY <1>6 DEF MintKey
<1>7. ASSUME NEW k \in Keys, NEW e \in Events, NEW scope \in Scopes, StoreMints(k, e, scope)
       PROVE  TypeOK'
  <2>1. [scope |-> scope, merchant |-> MerchantOf[e], event |-> e, revoked |-> FALSE] \in KeyRow
    BY MerchantAssumption DEF KeyRow
  <2> QED BY <1>7, <2>1 DEF StoreMints
<1>8. ASSUME NEW k \in Keys, NEW scope \in Scopes, InitMints(k, scope) PROVE TypeOK'
  <2>1. [scope |-> scope, merchant |-> None, event |-> None, revoked |-> FALSE] \in KeyRow
    BY DEF KeyRow
  <2> QED BY <1>8, <2>1 DEF InitMints
<1>9. ASSUME NEW r \in Requests, NEW k \in Keys, RevokeKey(r, k) PROVE TypeOK'
  <2>1. [keys[k] EXCEPT !.revoked = TRUE] \in KeyRow
    BY <1>9, RowOfKey DEF RevokeKey, KeyRow
  <2>2. Cardinality(LetInBy(k) \ {r}) \in Nat
    BY RequestsAssumption, FS_Subset, FS_CardinalityType DEF LetInBy
  <2> QED BY <1>9, <2>1, <2>2 DEF RevokeKey
<1>10. ASSUME NEW r \in Requests, NEW p \in Endpoints,
             AddEndpoint(r, p) \/ RemoveEndpoint(r, p)
      PROVE  TypeOK'
  <2>1. CASE AddEndpoint(r, p)
    BY <2>1 DEF AddEndpoint
  <2>2. CASE RemoveEndpoint(r, p)
    BY <2>2 DEF RemoveEndpoint
  <2> QED BY <1>10, <2>1, <2>2
<1>11. ASSUME NEW r \in Requests, Answer(r) PROVE TypeOK'
  BY <1>11 DEF Answer
<1>12. CASE Restart
  BY <1>12 DEF Restart
<1>13. CASE UNCHANGED accessVars
  BY <1>13 DEF accessVars
<1> QED
  BY <1>1, <1>2, <1>3, <1>4, <1>5, <1>6, <1>9, <1>10, <1>11, <1>12, <1>13, <1>7,
     <1>8 DEF Next, Handle

-----------------------------------------------------------------------------
(* Steps *)

LEMMA InitInv == Init => IInv
<1> SUFFICES ASSUME Init PROVE IInv
  OBVIOUS
<1>1. TypeOK
  BY InitTypes
<1>2. /\ \A r \in Requests : request[r].pc = "idle" /\ request[r].token = None
                               /\ request[r].by = None
      /\ \A s \in Sessions : opened[s] = None
      /\ \A k \in Keys : keys[k] = NoKey /\ ended[k] = 0
  BY DEF Init, Idle
<1>3. RequestsInOrder /\ RunningOut
  BY <1>2, NoneAssumption DEF RequestsInOrder, RunningOut, Revoked
<1>4. SessionsInOrder /\ AdminsHaveNoMerchant /\ OneSessionPerLink
  BY <1>2 DEF SessionsInOrder, AdminsHaveNoMerchant, OneSessionPerLink
<1> QED BY <1>1, <1>3, <1>4 DEF IInv

LEMMA LetInIsFinite ==
    ASSUME NEW k \in Keys
    PROVE  IsFiniteSet(LetInBy(k)) /\ Cardinality(LetInBy(k)) \in Nat
BY RequestsAssumption, FS_Subset, FS_CardinalityType DEF LetInBy

\* A request that ends goes from those a key has let in to those that ended,
\* if its key was revoked, and changes nothing for the others.
LEMMA EndsCounts ==
    ASSUME IInv, NEW r \in Requests, Ends(r), NEW k \in Keys
    PROVE  /\ LetInBy(k)' = LetInBy(k) \ {r}
           /\ Revoked(k) => ended'[k] + Cardinality(LetInBy(k)') = ended[k] + Cardinality(LetInBy(k))
           /\ ~Revoked(k) => ended'[k] = ended[k]
<1>1. \A q \in Requests : request'[q] = IF q = r THEN Idle ELSE request[q]
  BY DEF Ends, IInv, TypeOK
<1>2. LetInBy(k)' = LetInBy(k) \ {r}
  BY <1>1, NoneAssumption DEF LetInBy, Idle
<1>3. ended'[k] = IF r \in LetInBy(k) /\ Revoked(k) THEN ended[k] + 1 ELSE ended[k]
  BY DEF Ends
<1>4. ended[k] \in Nat
  BY DEF IInv, TypeOK
<1>5. CASE r \in LetInBy(k)
  <2>1. Cardinality(LetInBy(k) \ {r}) = Cardinality(LetInBy(k)) - 1
    BY <1>5, LetInIsFinite, FS_RemoveElement
  <2> QED BY <1>2, <1>3, <1>4, <1>5, <2>1, LetInIsFinite
<1>6. CASE r \notin LetInBy(k)
  <2>1. LetInBy(k) \ {r} = LetInBy(k)
    BY <1>6
  <2> QED BY <1>2, <1>3, <1>6, <2>1
<1> QED BY <1>5, <1>6

\* A step that ends a handler disturbs none of the others.
LEMMA EndsKeepsOrder ==
    ASSUME IInv, NEW r \in Requests, Ends(r), UNCHANGED <<tokens, keys, atWork>>
    PROVE  RequestsInOrder' /\ RunningOut'
<1>1. \A q \in Requests : request'[q] = IF q = r THEN Idle ELSE request[q]
  BY DEF Ends, IInv, TypeOK
<1>2. RequestsInOrder'
  BY <1>1, NoneAssumption DEF IInv, RequestsInOrder, Idle
<1>3. RunningOut'
  <2>1. SUFFICES ASSUME NEW k \in Keys
                 PROVE  IF Revoked(k) THEN ended'[k] + Cardinality(LetInBy(k)') <= atWork[k]
                                      ELSE ended'[k] = 0
    BY DEF RunningOut, Revoked
  <2>2. IF Revoked(k) THEN ended[k] + Cardinality(LetInBy(k)) <= atWork[k] ELSE ended[k] = 0
    BY DEF IInv, RunningOut
  <2> QED BY <2>2, EndsCounts
<1> QED BY <1>2, <1>3

\* Steps that neither let a request in nor end one, and that revoke no key.
LEMMA RunningOutKept ==
    ASSUME IInv, \A k \in Keys : Revoked(k)' => Revoked(k),
           \A k \in Keys : Revoked(k) => Revoked(k)',
           UNCHANGED <<request, atWork, ended>>
    PROVE  RunningOut'
BY DEF IInv, RunningOut, LetInBy

\* Nothing but the following three reads opened, tokens and sessions.
LEMMA LinksUntouched ==
    ASSUME IInv, UNCHANGED <<tokens, opened>>,
           \A s \in Sessions : sessions[s] # "none" => sessions'[s] # "none",
           \A q \in Requests :
              \/ request'[q] = request[q]
              \/ request'[q].pc # "redeemed" /\ request'[q].token = None
    PROVE  SessionsInOrder' /\ OneSessionPerLink'
<1>1. SessionsInOrder'
  BY DEF IInv, SessionsInOrder
<1>2. ASSUME NEW r \in Requests, NEW s \in Sessions, request'[r].pc = "redeemed"
      PROVE  opened'[s] # request'[r].token
  BY <1>2 DEF IInv, OneSessionPerLink
<1>3. ASSUME NEW r \in Requests, NEW q \in Requests, request'[r].pc = "redeemed",
             request'[q].token = request'[r].token
      PROVE  q = r
  <2>1. request'[r] = request[r] /\ request[r].token # None
    BY <1>3, NoneAssumption DEF IInv, RequestsInOrder
  <2>2. request'[q] = request[q]
    BY <1>3, <2>1
  <2> QED BY <1>3, <2>1, <2>2 DEF IInv, OneSessionPerLink
<1> QED BY <1>1, <1>2, <1>3 DEF IInv, OneSessionPerLink

LEMMA KeysUntouched ==
    ASSUME IInv, UNCHANGED keys
    PROVE  AdminsHaveNoMerchant'
BY DEF IInv, AdminsHaveNoMerchant

LEMMA NextInv == IInv /\ [Next]_accessVars => IInv'
<1> SUFFICES ASSUME IInv, [Next]_accessVars PROVE IInv'
  OBVIOUS
<1> DEFINE Rest == /\ RequestsInOrder' /\ SessionsInOrder' /\ AdminsHaveNoMerchant'
                   /\ OneSessionPerLink' /\ RunningOut'
<1>0. TypeOK'
  BY NextTypes DEF IInv
<1>1. ASSUME NEW t \in Tokens, MintLink(t) \/ ExpireLink(t) PROVE Rest
  <2>1. /\ UNCHANGED <<sessions, keys, request, opened, atWork, ended>>
        /\ \A u \in Tokens : tokens[u] = "used" => tokens'[u] = "used"
    BY <1>1 DEF MintLink, ExpireLink, IInv, TypeOK
  <2>2. RequestsInOrder' /\ RunningOut'
    BY <2>1, RunningOutKept DEF IInv, TypeOK, RequestsInOrder, Request, Revoked
  <2>3. SessionsInOrder' /\ OneSessionPerLink'
    BY <2>1 DEF IInv, TypeOK, SessionsInOrder, OneSessionPerLink
  <2> QED BY <2>1, <2>2, <2>3, KeysUntouched
<1>2. ASSUME NEW s \in Sessions, ExpireSession(s) PROVE Rest
  <2>1. /\ UNCHANGED <<tokens, keys, request, opened, atWork, ended>>
        /\ \A z \in Sessions : sessions[z] # "none" => sessions'[z] # "none"
    BY <1>2 DEF ExpireSession, IInv, TypeOK
  <2>2. RequestsInOrder' /\ RunningOut'
    BY <2>1, RunningOutKept DEF IInv, RequestsInOrder, Revoked
  <2> QED BY <2>1, <2>2, LinksUntouched, KeysUntouched
<1>3. ASSUME NEW r \in Requests, NEW t \in Tokens, Consume(r, t) PROVE Rest
  <2> DEFINE held == Redeemed(t)
  <2>1. /\ UNCHANGED <<sessions, keys, opened, atWork, ended>>
        /\ request[r].pc = "idle" /\ tokens[t] = "fresh"
        /\ \A q \in Requests : request'[q] = IF q = r THEN held ELSE request[q]
        /\ \A u \in Tokens : tokens'[u] = IF u = t THEN "used" ELSE tokens[u]
    BY <1>3 DEF Consume, Usable, IInv, TypeOK
  <2>2. held.pc = "redeemed" /\ held.token = t /\ held.by = None
    BY DEF Redeemed
  <2>3. \A q \in Requests : request[q].token # t
    BY <2>1, NoneAssumption DEF IInv, RequestsInOrder
  <2>4. \A s \in Sessions : opened[s] # t
    BY <2>1, NoneAssumption DEF IInv, SessionsInOrder
  <2> HIDE DEF held
  <2>5. RequestsInOrder' /\ RunningOut'
    <3>1. RequestsInOrder'
      BY <2>1, <2>2, <2>3, NoneAssumption
         DEF IInv, TypeOK, Request, RequestsInOrder
    <3>2. \A k \in Keys : LetInBy(k)' = LetInBy(k)
      BY <2>1, <2>2, NoneAssumption DEF IInv, RequestsInOrder, LetInBy
    <3>3. RunningOut'
      BY <2>1, <3>2 DEF IInv, RunningOut, Revoked
    <3> QED BY <3>1, <3>3
  <2>6. SessionsInOrder'
    BY <2>1, <2>4 DEF IInv, TypeOK, SessionsInOrder
  <2>7. OneSessionPerLink'
    BY <2>1, <2>2, <2>3, <2>4 DEF IInv, OneSessionPerLink
  <2> QED BY <2>1, <2>5, <2>6, <2>7, KeysUntouched
<1>4. ASSUME NEW r \in Requests, NEW s \in Sessions, OpenSession(r, s) PROVE Rest
  <2> DEFINE t == request[r].token
  <2>1. /\ UNCHANGED <<tokens, keys, atWork>>
        /\ request[r].pc = "redeemed" /\ sessions[s] = "none"
        /\ request' = [request EXCEPT ![r] = Idle] /\ Ends(r)
        /\ \A z \in Sessions : sessions'[z] = IF z = s THEN "live" ELSE sessions[z]
        /\ \A z \in Sessions : opened'[z] = IF z = s THEN t ELSE opened[z]
    BY <1>4 DEF OpenSession, Ends, IInv, TypeOK
  <2>2. \A q \in Requests : request'[q] = IF q = r THEN Idle ELSE request[q]
    BY <2>1 DEF IInv, TypeOK
  <2>3. t \in Tokens /\ t # None /\ tokens[t] = "used"
    BY <2>1, NoneAssumption DEF IInv, RequestsInOrder
  <2>4. (\A z \in Sessions : opened[z] # t)
        /\ \A q \in Requests \ {r} : request[q].token # t
    BY <2>1 DEF IInv, OneSessionPerLink
  <2> HIDE DEF t
  <2>5. RequestsInOrder' /\ RunningOut'
    BY <2>1, EndsKeepsOrder
  <2>6. SessionsInOrder'
    BY <2>1, <2>3 DEF IInv, SessionsInOrder
  <2>7. OneSessionPerLink'
    <3>1. \A q \in Requests : request'[q].pc = "redeemed" =>
             q # r /\ request'[q] = request[q] /\ request[q].token # t
      BY <2>2, <2>4 DEF Idle
    <3>2. \A z, y \in Sessions :
             opened'[z] = opened'[y] /\ opened'[z] # None => z = y
      BY <2>1, <2>4 DEF IInv, OneSessionPerLink
    <3>3. \A q \in Requests, z \in Sessions :
             request'[q].pc = "redeemed" => opened'[z] # request'[q].token
      BY <2>1, <3>1 DEF IInv, OneSessionPerLink
    <3>4. \A q \in Requests : request'[q].token # None
                => q # r /\ request'[q] = request[q]
      BY <2>2 DEF Idle
    <3>5. \A q \in Requests : request'[q].pc = "redeemed" => request'[q].token # None
      BY <3>1, NoneAssumption DEF IInv, RequestsInOrder
    <3>6. \A p, q \in Requests :
             request'[p].pc = "redeemed" /\ request'[q].token = request'[p].token => q = p
      BY <3>1, <3>4, <3>5 DEF IInv, OneSessionPerLink
    <3> QED BY <3>2, <3>3, <3>6 DEF OneSessionPerLink
  <2> QED BY <2>1, <2>5, <2>6, <2>7, KeysUntouched
<1>5. ASSUME NEW r \in Requests, NEW s \in Sessions, PasswordLogin(r, s) PROVE Rest
  <2>1. /\ UNCHANGED <<tokens, keys, request, opened, atWork, ended>>
        /\ \A z \in Sessions : sessions[z] # "none" => sessions'[z] # "none"
    BY <1>5 DEF PasswordLogin, IInv, TypeOK
  <2>2. RequestsInOrder' /\ RunningOut'
    BY <2>1, RunningOutKept DEF IInv, RequestsInOrder, Revoked
  <2> QED BY <2>1, <2>2, LinksUntouched, KeysUntouched
<1>6. ASSUME NEW r \in Requests, NEW by \in Keys \cup Sessions,
             NEW need \in Scopes \cup {"session"},
             by \in Keys => Valid(by),
             request[r].pc = "idle",
             request' = [request EXCEPT ![r] = Granted(by, need)],
             UNCHANGED <<tokens, sessions, keys, opened, atWork, ended>>
      PROVE  Rest
  <2> DEFINE held == Granted(by, need)
  <2>1. \A q \in Requests : request'[q] = IF q = r THEN held ELSE request[q]
    BY <1>6 DEF IInv, TypeOK
  <2>2. held.pc = "granted" /\ held.token = None /\ held.by = by /\ held.need = need
    BY DEF Granted
  <2> HIDE DEF held
  <2>3. RequestsInOrder'
    BY <1>6, <2>1, <2>2 DEF IInv, RequestsInOrder
  <2>4. RunningOut'
    <3>1. SUFFICES ASSUME NEW k \in Keys
                   PROVE  IF Revoked(k) THEN ended[k] + Cardinality(LetInBy(k)') <= atWork[k]
                                        ELSE ended[k] = 0
      BY <1>6 DEF RunningOut, Revoked
    <3>2. CASE Revoked(k)
      <4>1. by # k /\ request[r].by # k
        BY <1>6, <3>2, NoneAssumption DEF Revoked, Valid, IInv, RequestsInOrder
      <4>2. LetInBy(k)' = LetInBy(k)
        BY <4>1, <2>1, <2>2 DEF LetInBy
      <4> QED BY <3>2, <4>2 DEF IInv, RunningOut
    <3>3. CASE ~Revoked(k)
      BY <3>3 DEF IInv, RunningOut
    <3> QED BY <3>2, <3>3
  <2>5. SessionsInOrder' /\ OneSessionPerLink'
    BY <1>6, <2>1, <2>2, LinksUntouched
  <2> QED BY <1>6, <2>3, <2>4, <2>5, KeysUntouched
<1>7. ASSUME NEW r \in Requests, NEW s \in Sessions, EnterWithSession(r, s) PROVE Rest
  <2>1. /\ request[r].pc = "idle" /\ s \notin Keys
        /\ request' = [request EXCEPT ![r] = Granted(s, "session")]
        /\ UNCHANGED <<tokens, sessions, keys, opened, atWork, ended>>
    BY <1>7, DistinctAssumption DEF EnterWithSession
  <2> HIDE DEF Rest
  <2> QED BY <1>6, <2>1
<1>8. ASSUME NEW r \in Requests, NEW k \in Keys, NEW need \in Scopes,
             Authenticate(r, k, need)
      PROVE  Rest
  <2>1. /\ Valid(k) /\ request[r].pc = "idle"
        /\ request' = [request EXCEPT ![r] = Granted(k, need)]
        /\ UNCHANGED <<tokens, sessions, keys, opened, atWork, ended>>
    BY <1>8 DEF Authenticate
  <2> HIDE DEF Rest
  <2> QED BY <1>6, <2>1
\* A key is minted, by a handler that ends or by nobody who was let in.
<1>9. ASSUME NEW k \in Keys, NEW row \in KeyRow,
              ~row.revoked, row.scope = "admin" => row.merchant = None,
              keys[k] = NoKey, keys' = [keys EXCEPT ![k] = row],
              UNCHANGED <<tokens, sessions, opened, atWork>>,
              UNCHANGED <<request, ended>> \/ \E r \in Requests : Ends(r)
       PROVE  Rest
  <2>1. \A j \in Keys : keys'[j] = IF j = k THEN row ELSE keys[j]
    BY <1>9 DEF IInv, TypeOK
  <2>2. \A j \in Keys : Revoked(j)' <=> Revoked(j)
    BY <1>9, <2>1 DEF Revoked
  <2>3. AdminsHaveNoMerchant'
    BY <1>9, <2>1 DEF IInv, AdminsHaveNoMerchant
  <2>4. CASE UNCHANGED <<request, ended>>
    <3>1. RequestsInOrder'
      BY <1>9, <2>4 DEF IInv, RequestsInOrder
    <3>2. RunningOut'
      BY <1>9, <2>2, <2>4, RunningOutKept
    <3>3. SessionsInOrder' /\ OneSessionPerLink'
      BY <1>9, <2>4, LinksUntouched
    <3> QED BY <2>3, <3>1, <3>2, <3>3
  <2>5. ASSUME NEW r \in Requests, Ends(r) PROVE Rest
    <3>1. \A q \in Requests : request'[q] = IF q = r THEN Idle ELSE request[q]
      BY <2>5 DEF Ends, IInv, TypeOK
    <3>2. RequestsInOrder'
      BY <1>9, <3>1, NoneAssumption DEF IInv, RequestsInOrder, Idle
    <3>3. RunningOut'
      <4>1. SUFFICES ASSUME NEW j \in Keys
                     PROVE  IF Revoked(j) THEN ended'[j] + Cardinality(LetInBy(j)') <= atWork[j]
                                          ELSE ended'[j] = 0
        BY <1>9, <2>2 DEF RunningOut
      <4>2. IF Revoked(j) THEN ended[j] + Cardinality(LetInBy(j)) <= atWork[j] ELSE ended[j] = 0
        BY DEF IInv, RunningOut
      <4> QED BY <2>5, <4>2, EndsCounts
    <3>4. SessionsInOrder' /\ OneSessionPerLink'
      BY <1>9, <3>1, LinksUntouched DEF Idle
    <3> QED BY <2>3, <3>2, <3>3, <3>4
  <2> HIDE DEF Rest
  <2> QED BY <1>9, <2>4, <2>5
<1>10. ASSUME NEW r \in Requests, NEW k \in Keys, MintKey(r, k) PROVE Rest
  <2>1. PICK row \in KeyRow :
          /\ ~row.revoked
          /\ row.scope = "admin" => row.merchant = None
          /\ keys' = [keys EXCEPT ![k] = row]
    BY <1>10 DEF MintKey
  <2>2. keys[k] = NoKey /\ Ends(r) /\ UNCHANGED <<tokens, sessions, opened, atWork>>
    BY <1>10 DEF MintKey
  <2> HIDE DEF Rest
  <2> QED BY <1>9, <2>1, <2>2
<1>11. ASSUME NEW k \in Keys, NEW e \in Events, NEW scope \in Scopes, StoreMints(k, e, scope)
       PROVE  Rest
  <2> DEFINE row == [scope |-> scope, merchant |-> MerchantOf[e], event |-> e,
                     revoked |-> FALSE]
  <2>1. row \in KeyRow /\ ~row.revoked /\ row.scope # "admin"
    BY <1>11, MerchantAssumption DEF StoreMints, KeyRow
  <2>2. /\ keys[k] = NoKey /\ keys' = [keys EXCEPT ![k] = row]
        /\ UNCHANGED <<tokens, sessions, opened, atWork>> /\ UNCHANGED <<request, ended>>
    BY <1>11 DEF StoreMints
  <2> HIDE DEF Rest, row
  <2> QED BY <1>9, <2>1, <2>2
<1>12. ASSUME NEW k \in Keys, NEW scope \in Scopes, InitMints(k, scope) PROVE Rest
  <2> DEFINE row == [scope |-> scope, merchant |-> None, event |-> None, revoked |-> FALSE]
  <2>1. row \in KeyRow /\ ~row.revoked /\ row.merchant = None
    BY DEF KeyRow
  <2>2. /\ keys[k] = NoKey /\ keys' = [keys EXCEPT ![k] = row]
        /\ UNCHANGED <<tokens, sessions, opened, atWork>> /\ UNCHANGED <<request, ended>>
    BY <1>12 DEF InitMints
  <2> HIDE DEF Rest, row
  <2> QED BY <1>9, <2>1, <2>2
<1>13. ASSUME NEW r \in Requests, NEW k \in Keys, RevokeKey(r, k) PROVE Rest
  <2> DEFINE row == [keys[k] EXCEPT !.revoked = TRUE]
  <2>1. keys[k] \in KeyRow
    BY <1>13, RowOfKey DEF RevokeKey, IInv
  <2>2. /\ row \in KeyRow /\ row.revoked
        /\ row.scope = keys[k].scope /\ row.merchant = keys[k].merchant
    BY <2>1 DEF KeyRow
  <2>3. row # NoKey
    BY <2>2, NoKeyIsNoRow
  <2>4. /\ UNCHANGED <<tokens, sessions, opened>>
        /\ keys[k] # NoKey
        /\ Ends(r)
        /\ \A j \in Keys : keys'[j] = IF j = k THEN row ELSE keys[j]
        /\ \A j \in Keys : atWork'[j] = IF j = k /\ ~Revoked(k)
                                          THEN Cardinality(LetInBy(k) \ {r}) ELSE atWork[j]
    BY <1>13 DEF RevokeKey, IInv, TypeOK
  <2>5. \A q \in Requests : request'[q] = IF q = r THEN Idle ELSE request[q]
    BY <2>4 DEF Ends, IInv, TypeOK
  <2> HIDE DEF row
  <2>6. RequestsInOrder'
    BY <2>4, <2>5, NoneAssumption DEF IInv, RequestsInOrder, Idle
  <2>7. RunningOut'
    <3>1. SUFFICES ASSUME NEW j \in Keys
                   PROVE  IF Revoked(j)' THEN ended'[j] + Cardinality(LetInBy(j)') <= atWork'[j]
                                         ELSE ended'[j] = 0
      BY DEF RunningOut
    <3>2. Revoked(j)' <=> j = k \/ Revoked(j)
      BY <2>2, <2>3, <2>4 DEF Revoked
    <3>3. IF Revoked(j) THEN ended[j] + Cardinality(LetInBy(j)) <= atWork[j] ELSE ended[j] = 0
      BY DEF IInv, RunningOut
    <3>4. CASE j = k /\ ~Revoked(k)
      <4>1. ended'[k] = 0 /\ LetInBy(k)' = LetInBy(k) \ {r}
        BY <2>4, <3>3, <3>4, EndsCounts
      <4>2. atWork'[k] = Cardinality(LetInBy(k)') /\ atWork'[k] \in Nat
        BY <2>4, <3>4, <4>1, <1>0 DEF TypeOK
      <4> QED BY <3>2, <3>4, <4>1, <4>2
    <3>5. CASE ~(j = k /\ ~Revoked(k))
      <4>1. atWork'[j] = atWork[j] /\ (Revoked(j)' <=> Revoked(j))
        BY <2>4, <3>2, <3>5
      <4> QED BY <2>4, <3>3, <4>1, EndsCounts
    <3> QED BY <3>4, <3>5
  <2>8. SessionsInOrder' /\ OneSessionPerLink'
    BY <2>4, <2>5, LinksUntouched DEF Idle
  <2>9. AdminsHaveNoMerchant'
    BY <2>2, <2>3, <2>4 DEF IInv, AdminsHaveNoMerchant
  <2> QED BY <2>6, <2>7, <2>8, <2>9
<1>14. ASSUME NEW r \in Requests, Ends(r),
              UNCHANGED <<tokens, sessions, keys, opened, atWork>>
       PROVE  Rest
  <2>1. \A q \in Requests : request'[q] = IF q = r THEN Idle ELSE request[q]
    BY <1>14 DEF Ends, IInv, TypeOK
  <2>2. SessionsInOrder' /\ OneSessionPerLink'
    BY <1>14, <2>1, LinksUntouched DEF Idle
  <2>3. RequestsInOrder' /\ RunningOut'
    BY <1>14, EndsKeepsOrder
  <2> QED BY <1>14, <2>2, <2>3, KeysUntouched
<1>15. ASSUME NEW r \in Requests, NEW p \in Endpoints,
              AddEndpoint(r, p) \/ RemoveEndpoint(r, p)
       PROVE  Rest
  <2> HIDE DEF Rest
  <2> QED BY <1>14, <1>15 DEF AddEndpoint, RemoveEndpoint
<1>16. ASSUME NEW r \in Requests, Answer(r) PROVE Rest
  <2> HIDE DEF Rest
  <2> QED BY <1>14, <1>16 DEF Answer
<1>17. ASSUME Restart PROVE Rest
  <2>1. /\ UNCHANGED <<tokens, keys, opened, atWork, ended>>
        /\ \A q \in Requests : request'[q] = Idle
        /\ \A s \in Sessions : sessions[s] # "none" => sessions'[s] # "none"
    BY <1>17 DEF Restart, IInv, TypeOK
  <2>2. RequestsInOrder'
    BY <2>1, NoneAssumption DEF RequestsInOrder, Idle
  <2>4. RunningOut'
    <3>1. SUFFICES ASSUME NEW k \in Keys
                   PROVE  IF Revoked(k) THEN ended[k] + Cardinality(LetInBy(k)') <= atWork[k]
                                        ELSE ended[k] = 0
      BY <2>1 DEF RunningOut, Revoked
    <3>2. LetInBy(k)' = {}
      BY <2>1, NoneAssumption DEF LetInBy, Idle
    <3>3. Cardinality(LetInBy(k)') = 0 /\ Cardinality(LetInBy(k)) \in Nat
      BY <3>2, LetInIsFinite, FS_EmptySet
    <3>4. ended[k] \in Nat /\ atWork[k] \in Nat
      BY DEF IInv, TypeOK
    <3>5. IF Revoked(k) THEN ended[k] + Cardinality(LetInBy(k)) <= atWork[k] ELSE ended[k] = 0
      BY DEF IInv, RunningOut
    <3> QED BY <3>3, <3>4, <3>5
  <2>3. SessionsInOrder' /\ OneSessionPerLink'
    BY <2>1, LinksUntouched DEF Idle
  <2> QED BY <2>1, <2>2, <2>3, <2>4, KeysUntouched
<1>18. ASSUME UNCHANGED accessVars PROVE Rest
  <2>1. UNCHANGED <<tokens, sessions, keys, request, opened, atWork, ended>>
    BY <1>18 DEF accessVars
  <2>2. RequestsInOrder' /\ RunningOut'
    BY <2>1, RunningOutKept DEF IInv, RequestsInOrder, Revoked
  <2> QED BY <2>1, <2>2, LinksUntouched, KeysUntouched
<1>19. ASSUME NEW r \in Requests, Handle(r) PROVE Rest
  <2> HIDE DEF Rest
  <2> QED BY <1>3, <1>4, <1>5, <1>7, <1>8, <1>10, <1>13, <1>15, <1>16, <1>19 DEF Handle
<1>20. Rest
  <2> HIDE DEF Rest
  <2> QED BY <1>1, <1>2, <1>17, <1>18, <1>19, <1>11, <1>12 DEF Next
<1> QED BY <1>0, <1>20 DEF IInv

\* The routes agree in every state whose rows have their types: each finds the
\* same events by way of the key's event, its merchant and its scope.
LEMMA RoutesAgreeAlways == TypeOK /\ AdminsHaveNoMerchant => RoutesAgree
<1> SUFFICES ASSUME TypeOK, AdminsHaveNoMerchant, NEW k \in Keys, keys[k] # NoKey
             PROVE  /\ \A m \in Merchants : k \in DashboardKeys(m) =>
                          IF keys[k].event = None
                            THEN TouchesInvoicesOf(k) = DashboardShows(m)
                            ELSE TouchesInvoicesOf(k) \subseteq DashboardShows(m)
                    /\ ListsInvoicesOf(k) = TouchesInvoicesOf(k)
                    /\ TouchesInvoicesOf(k) \subseteq SeesEvents(k) \cap SeesSweepsOf(k)
                    /\ \A p \in Endpoints : endpoints[p] # NoEndpoint /\ SeesEndpoint(k, p) =>
                          IF endpoints[p].event = None
                            THEN keys[k].merchant = None /\ keys[k].event = None
                            ELSE endpoints[p].event \in TouchesInvoicesOf(k)
  BY DEF RoutesAgree, DashboardKeys
<1>1. keys[k].event \in Events \cup {None}
  BY RowOfKey DEF KeyRow
<1>2. keys[k].scope = "admin" => keys[k].merchant = None
  BY DEF AdminsHaveNoMerchant
<1>3. ListsInvoicesOf(k) = TouchesInvoicesOf(k)
  <2>1. \A e \in Events : MerchantOf[e] \in TenantsOf(k) <=> MatchesTenant(k, MerchantOf[e])
    BY MerchantAssumption DEF TenantsOf, MatchesTenant
  <2> QED BY <1>1, <2>1, NoneAssumption
             DEF ListsInvoicesOf, ListedFor, TouchesInvoicesOf, IsEventAllowed
<1>6. ASSUME NEW m \in Merchants, k \in DashboardKeys(m)
      PROVE  IF keys[k].event = None
               THEN TouchesInvoicesOf(k) = DashboardShows(m)
               ELSE TouchesInvoicesOf(k) \subseteq DashboardShows(m)
  <2>1. keys[k].merchant = m /\ keys[k].scope # "admin"
    BY <1>2, <1>6, NoneAssumption DEF DashboardKeys
  <2> QED BY <1>1, <2>1, NoneAssumption
             DEF TouchesInvoicesOf, DashboardShows, ListedFor, IsEventAllowed, MatchesTenant
<1>4. TouchesInvoicesOf(k) \subseteq SeesEvents(k) \cap SeesSweepsOf(k)
  BY DEF TouchesInvoicesOf, SeesEvents, SeesSweepsOf
<1>5. ASSUME NEW p \in Endpoints, endpoints[p] # NoEndpoint, SeesEndpoint(k, p)
      PROVE  IF endpoints[p].event = None
               THEN keys[k].merchant = None /\ keys[k].event = None
               ELSE endpoints[p].event \in TouchesInvoicesOf(k)
  <2>1. endpoints[p].event \in Events \cup {None}
    BY <1>5 DEF TypeOK
  <2> QED BY <1>1, <1>2, <1>5, <2>1, NoneAssumption
             DEF SeesEndpoint, TouchesInvoicesOf, IsEventAllowed, MatchesTenant
<1> QED BY <1>3, <1>4, <1>5, <1>6

-----------------------------------------------------------------------------
(* Theorems *)

\* The invariant is one.
LEMMA AlwaysIInv == Spec => []IInv
BY InitInv, NextInv, PTL DEF Spec

\* Rows, requests and the history keep their types.
THEOREM TypeCorrect == Spec => []TypeOK
<1>1. IInv => TypeOK
  BY DEF IInv
<1> QED BY AlwaysIInv, <1>1, PTL

\* A login link opens one session at most: LoginToken's guarded update is
\* what decides, however many handlers follow the link at once.
THEOREM LinksOpenOnce == Spec => []OneSessionPerLink
<1>1. IInv => OneSessionPerLink
  BY DEF IInv
<1> QED BY AlwaysIInv, <1>1, PTL

\* After a key was revoked no more requests act with it than were at work at
\* that moment, each once, however many handlers, keys and revocations cross.
THEOREM RevocationHolds == Spec => []RevokedKeyRunsOut
<1>1. IInv => RevokedKeyRunsOut
  BY DEF IInv, RunningOut, RevokedKeyRunsOut
<1> QED BY AlwaysIInv, <1>1, PTL

\* What a key may list, touch and see agree, for any events and merchants.
THEOREM ConfinementAgrees == Spec => []RoutesAgree
<1>1. IInv => RoutesAgree
  BY RoutesAgreeAlways DEF IInv
<1> QED BY AlwaysIInv, <1>1, PTL
=============================================================================
