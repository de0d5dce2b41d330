------------------------- MODULE WebhookDelivery_proofs -------------------------
(***************************************************************************)
(* Theorems about WebhookDelivery for every set of rows and workers, every *)
(* batch size and schedule, any number of claims and replays, and any      *)
(* addresses and chains of redirects.                                      *)
(***************************************************************************)
EXTENDS Contacts, FiniteSetTheorems, WellFoundedInduction, TLAPS

\* A row whose claim is released.
LEMMA ReleasedType ==
    ASSUME NEW row \in Row, NEW status \in Status
    PROVE  /\ Released(row, status) \in Row
           /\ Released(row, status).token = 0
           /\ Released(row, status).leaseOver = FALSE
           /\ Released(row, status).status = status
  <1>1. 0 \in Tokens
    BY DeliveryBoundsAssumption DEF Tokens
  <1>. QED  BY <1>1 DEF Released, Row

\* A row whose attempt is counted.
LEMMA AttemptType ==
    ASSUME NEW row \in Row, NEW due \in BOOLEAN
    PROVE  /\ [row EXCEPT !.attempts = @ + 1] \in Row
           /\ [row EXCEPT !.attempts = @ + 1, !.due = due] \in Row
  <1>1. row.attempts + 1 \in Nat
    BY DEF Row
  <1>2. \A n \in Nat : /\ [row EXCEPT !.attempts = n] \in Row
                       /\ [row EXCEPT !.attempts = n, !.due = due] \in Row
    BY DEF Row
  <1>. QED  BY <1>1, <1>2

\* What a step that marks a row writes there.
LEMMA MarkedType ==
    ASSUME NEW row \in Row, NEW w \in Workers, NEW d \in Deliveries
    PROVE  /\ Marked(row, w, d) \in Row
           /\ Marked(row, w, d).token = 0
           /\ Marked(row, w, d).leaseOver = FALSE
           /\ Marked(row, w, d).status # "pending"
           /\ Marked(row, w, d).status = "delivered" => worker[w].ok
  <1>1. {"delivered", "failed", "dead"} \subseteq Status
    BY DEF Status
  <1>2. CASE worker[w].ok
    <2> DEFINE released == Released(row, "delivered")
    <2>1. /\ released \in Row /\ released.token = 0
          /\ released.leaseOver = FALSE /\ released.status = "delivered"
      BY <1>1, ReleasedType
    <2>2. Marked(row, w, d) = [released EXCEPT !.attempts = @ + 1]
      BY <1>2 DEF Marked
    <2>. HIDE DEF released
    <2>3. Marked(row, w, d) \in Row
      BY <2>1, <2>2, AttemptType
    <2>4. /\ Marked(row, w, d).token = 0 /\ Marked(row, w, d).leaseOver = FALSE
          /\ Marked(row, w, d).status = "delivered"
      BY <2>1, <2>2 DEF Row
    <2>. QED  BY <1>2, <2>3, <2>4
  <1>3. CASE /\ ~worker[w].ok /\ d \notin Inactive
             /\ RetryLeft(worker[w].seen[d].attempts + 1)
    <2> DEFINE released == Released(row, "failed")
    <2>1. /\ released \in Row /\ released.token = 0
          /\ released.leaseOver = FALSE /\ released.status = "failed"
      BY <1>1, ReleasedType
    <2>2. Marked(row, w, d) = [released EXCEPT !.attempts = @ + 1, !.due = FALSE]
      BY <1>3 DEF Marked
    <2>. HIDE DEF released
    <2>3. Marked(row, w, d) \in Row
      BY <2>1, <2>2, AttemptType
    <2>4. /\ Marked(row, w, d).token = 0 /\ Marked(row, w, d).leaseOver = FALSE
          /\ Marked(row, w, d).status = "failed"
      BY <2>1, <2>2 DEF Row
    <2>. QED  BY <2>3, <2>4
  <1>4. CASE /\ ~worker[w].ok
             /\ ~(d \notin Inactive /\ RetryLeft(worker[w].seen[d].attempts + 1))
    <2>1. Marked(row, w, d) = Released(row, "dead")
      BY <1>4 DEF Marked
    <2>2. /\ Released(row, "dead") \in Row /\ Released(row, "dead").token = 0
          /\ Released(row, "dead").leaseOver = FALSE
          /\ Released(row, "dead").status = "dead"
      BY <1>1, ReleasedType
    <2>. QED  BY <2>1, <2>2
  <1>. QED  BY <1>2, <1>3, <1>4

\* What a step does to the locals of a worker leaves the others alone.
LEMMA BecomesType ==
    ASSUME TypeOK, NEW w \in Workers, NEW locals \in Locals, Becomes(w, locals)
    PROVE  /\ worker' \in [Workers -> Locals]
           /\ worker'[w] = locals
           /\ \A v \in Workers : v # w => worker'[v] = worker[v]
  BY DEF TypeOK, Becomes

\* claimPending leaves every field but token and leaseOver of a row alone,
\* and those of rows it did not pick.
LEMMA ClaimEffect ==
    ASSUME TypeOK, NEW w \in Workers, Claim(w)
    PROVE  \E ids \in SUBSET Claimable :
              /\ rows' \in [Deliveries -> Row]
              /\ \A d \in Deliveries :
                    /\ rows'[d].status = rows[d].status
                    /\ d \notin ids => rows'[d] = rows[d]
                    /\ d \in ids => /\ rows'[d].token = claims + 1
                                    /\ rows'[d].leaseOver = FALSE
              /\ worker' \in [Workers -> Locals]
              /\ \A v \in Workers : v # w => worker'[v] = worker[v]
              /\ worker'[w].pc = "loading" /\ worker'[w].todo = ids
              /\ worker'[w].claimToken = claims + 1
              /\ worker'[w].current = worker[w].current
              /\ worker'[w].ok = worker[w].ok
              /\ claims + 1 \in Tokens \ {0} /\ claims' = claims + 1
  <1>1. PICK ids \in SUBSET Claimable \ {{}} :
          /\ rows' = [d \in Deliveries |->
                IF d \in ids
                  THEN [rows[d] EXCEPT !.token = claims + 1, !.leaseOver = FALSE]
                  ELSE rows[d]]
          /\ Becomes(w, [worker[w] EXCEPT !.pc = "loading", !.todo = ids,
                                          !.claimToken = claims + 1])
    BY DEF Claim
  <1>2. claims + 1 \in Tokens \ {0} /\ claims' = claims + 1
    <2>1. claims < MaxClaims /\ claims' = claims + 1 /\ claims \in 0 .. MaxClaims
      BY DEF Claim, TypeOK, Tokens
    <2>. QED  BY <2>1, DeliveryBoundsAssumption DEF Tokens
  <1>3. ids \subseteq Deliveries
    BY DEF Claimable
  <1> DEFINE locals == [worker[w] EXCEPT !.pc = "loading", !.todo = ids,
                                         !.claimToken = claims + 1]
  <1>4. worker[w] \in Locals
    BY DEF TypeOK
  <1>5. /\ locals \in Locals
        /\ locals.pc = "loading" /\ locals.todo = ids
        /\ locals.claimToken = claims + 1
        /\ locals.current = worker[w].current /\ locals.ok = worker[w].ok
    BY <1>2, <1>3, <1>4 DEF Locals
  <1>. HIDE DEF locals
  <1>6. /\ worker' \in [Workers -> Locals] /\ worker'[w] = locals
        /\ \A v \in Workers : v # w => worker'[v] = worker[v]
    BY <1>1, <1>5, BecomesType DEF locals
  <1>7. rows' \in [Deliveries -> Row]
    BY <1>1, <1>2 DEF TypeOK, Row
  <1>8. \A d \in Deliveries :
            /\ rows'[d].status = rows[d].status
            /\ d \notin ids => rows'[d] = rows[d]
            /\ d \in ids => /\ rows'[d].token = claims + 1
                            /\ rows'[d].leaseOver = FALSE
    BY <1>1, <1>2 DEF TypeOK, Row
  <1>. QED  BY <1>1, <1>2, <1>5, <1>6, <1>7, <1>8

\* A mark changes the row in hand or none, and takes it out of hand.
LEMMA MarkEffect ==
    ASSUME TypeOK, NEW w \in Workers, NEW d \in Deliveries, Mark(w, d)
    PROVE  /\ rows' \in [Deliveries -> Row]
           /\ \A x \in Deliveries : x # d => rows'[x] = rows[x]
           /\ rows'[d] = IF Fits(w, d) THEN Marked(rows[d], w, d) ELSE rows[d]
           /\ worker' \in [Workers -> Locals]
           /\ \A v \in Workers : v # w => worker'[v] = worker[v]
           /\ worker'[w].pc = "drain" /\ worker'[w].current = {}
           /\ worker'[w].todo = worker[w].todo
           /\ worker'[w].claimToken = worker[w].claimToken
           /\ ~worker'[w].ok
  <1>1. Marked(rows[d], w, d) \in Row
    BY MarkedType DEF TypeOK
  <1>2. /\ rows' \in [Deliveries -> Row]
        /\ \A x \in Deliveries : x # d => rows'[x] = rows[x]
        /\ rows'[d] = IF Fits(w, d) THEN Marked(rows[d], w, d) ELSE rows[d]
    BY <1>1 DEF Mark, TypeOK
  <1> DEFINE locals == [worker[w] EXCEPT !.pc = "drain", !.current = {},
                                         !.ok = FALSE, !.seen[d] = Unread]
  <1>3. worker[w] \in Locals /\ Unread \in Snapshot
    BY DeliveryBoundsAssumption DEF TypeOK, Unread, Snapshot, Tokens
  <1>4. /\ locals \in Locals
        /\ locals.pc = "drain" /\ locals.current = {} /\ ~locals.ok
        /\ locals.todo = worker[w].todo
        /\ locals.claimToken = worker[w].claimToken
    BY <1>3 DEF Locals
  <1>5. Becomes(w, locals)
    BY DEF Mark
  <1>. HIDE DEF locals
  <1>. QED  BY <1>2, <1>4, <1>5, BecomesType

\* Taking a row puts it in hand.
LEMMA TakeEffect ==
    ASSUME TypeOK, NEW w \in Workers, NEW d \in Deliveries, Take(w, d)
    PROVE  /\ worker' \in [Workers -> Locals]
           /\ \A v \in Workers : v # w => worker'[v] = worker[v]
           /\ worker'[w].pc \in {"sending", "marking"}
           /\ worker'[w].todo = worker[w].todo \ {d}
           /\ worker'[w].current = {d}
           /\ worker'[w].claimToken = worker[w].claimToken
           /\ ~worker'[w].ok
  <1> DEFINE locals == [worker[w] EXCEPT
                !.pc = IF d \in Inactive THEN "marking" ELSE "sending",
                !.todo = @ \ {d}, !.current = {d}, !.ok = FALSE]
  <1>1. worker[w] \in Locals
    BY DEF TypeOK
  <1>2. /\ locals \in Locals
        /\ locals.pc \in {"sending", "marking"}
        /\ locals.todo = worker[w].todo \ {d} /\ locals.current = {d}
        /\ locals.claimToken = worker[w].claimToken /\ ~locals.ok
    BY <1>1 DEF Locals
  <1>3. Becomes(w, locals)
    BY DEF Take
  <1>. HIDE DEF locals
  <1>. QED  BY <1>2, <1>3, BecomesType

\* Loading and posting change nothing of what is in hand.
LEMMA LoadEffect ==
    ASSUME TypeOK, NEW w \in Workers, Load(w)
    PROVE  /\ worker' \in [Workers -> Locals]
           /\ \A v \in Workers : v # w => worker'[v] = worker[v]
           /\ worker'[w].pc = "drain"
           /\ worker'[w].todo = worker[w].todo
           /\ worker'[w].current = worker[w].current
           /\ worker'[w].claimToken = worker[w].claimToken
           /\ worker'[w].ok = worker[w].ok
  <1> DEFINE read == ReadRows(worker[w].todo)
             locals == [worker[w] EXCEPT !.pc = "drain", !.seen = read]
  <1>1. worker[w] \in Locals /\ Unread \in Snapshot
    BY DeliveryBoundsAssumption DEF TypeOK, Unread, Snapshot, Tokens
  <1>2. read \in [Deliveries -> Snapshot]
    BY <1>1 DEF ReadRows, TypeOK, Row, Snapshot
  <1>. HIDE DEF read
  <1>3. /\ locals \in Locals /\ locals.pc = "drain"
        /\ locals.todo = worker[w].todo /\ locals.current = worker[w].current
        /\ locals.claimToken = worker[w].claimToken
        /\ locals.ok = worker[w].ok
    BY <1>1, <1>2 DEF Locals
  <1>4. Becomes(w, locals)
    BY DEF Load, read
  <1>. HIDE DEF locals
  <1>. QED  BY <1>3, <1>4, BecomesType

LEMMA PostEffect ==
    ASSUME TypeOK, NEW w \in Workers, Post(w)
    PROVE  /\ worker' \in [Workers -> Locals]
           /\ \A v \in Workers : v # w => worker'[v] = worker[v]
           /\ worker'[w].pc = "marking"
           /\ worker'[w].todo = worker[w].todo
           /\ worker'[w].current = worker[w].current
           /\ worker'[w].claimToken = worker[w].claimToken
           /\ acked' \in {acked, acked \cup worker[w].current}
           /\ worker'[w].ok => worker[w].current \subseteq acked'
  <1>1. PICK ok \in BOOLEAN :
          /\ Becomes(w, [worker[w] EXCEPT !.pc = "marking", !.ok = ok])
          /\ acked' = IF ok THEN acked \cup worker[w].current ELSE acked
    BY DEF Post
  <1> DEFINE locals == [worker[w] EXCEPT !.pc = "marking", !.ok = ok]
  <1>2. worker[w] \in Locals
    BY DEF TypeOK
  <1>3. /\ locals \in Locals /\ locals.pc = "marking"
        /\ locals.todo = worker[w].todo /\ locals.current = worker[w].current
        /\ locals.claimToken = worker[w].claimToken
        /\ locals.ok = ok
    BY <1>2 DEF Locals
  <1>. HIDE DEF locals
  <1>4. /\ worker' \in [Workers -> Locals] /\ worker'[w] = locals
        /\ \A v \in Workers : v # w => worker'[v] = worker[v]
    BY <1>1, <1>3, BecomesType DEF locals
  <1>. QED  BY <1>1, <1>3, <1>4

\* A worker that ends its drain, or whose process dies, has nothing in hand.
LEMMA IdleEffect ==
    ASSUME TypeOK, NEW w \in Workers, EndDrain(w) \/ DrainDies(w)
    PROVE  \A v \in Workers : worker'[v] = IF v = w THEN Idle ELSE worker[v]
  BY DEF EndDrain, DrainDies, Becomes, TypeOK

\* An operator's replay makes the row pending and free.
LEMMA ReplayEffect ==
    ASSUME TypeOK, NEW d \in Deliveries, ReplayWrite(d)
    PROVE  /\ \A x \in Deliveries : x # d => rows'[x] = rows[x]
           /\ rows'[d].status = "pending"
           /\ rows'[d].token = 0 /\ ~rows'[d].leaseOver
  <1>1. rows[d] \in Row /\ "pending" \in Status
    BY DEF TypeOK, Status
  <1>2. /\ Replayed(rows[d]).status = "pending"
        /\ Replayed(rows[d]).token = 0 /\ ~Replayed(rows[d]).leaseOver
    BY <1>1, ReleasedType DEF Replayed, Row
  <1>. QED  BY <1>2 DEF ReplayWrite, TypeOK

\* Rows and locals keep their types.
THEOREM TypeCorrect == Spec => []TypeOK
  <1> USE DeliveriesAssumption, DeliveryBoundsAssumption
  <1>0. Idle \in Locals /\ Unread \in Snapshot
    BY DEF Idle, Unread, Locals, Snapshot, Tokens
  <1>1. Init => TypeOK
    BY <1>0 DEF Init, TypeOK, Row, Status, Tokens
  <1>2. TypeOK /\ [Next]_deliveryVars => TypeOK'
    <2> SUFFICES ASSUME TypeOK, [Next]_deliveryVars
                 PROVE  TypeOK'
      OBVIOUS
    <2>1. ASSUME NEW d \in Deliveries, ComesDue(d) \/ LeaseExpires(d)
          PROVE  TypeOK'
      <3>1. rows[d] \in Row
        BY DEF TypeOK
      <3>2. /\ [rows[d] EXCEPT !.due = TRUE] \in Row
            /\ [rows[d] EXCEPT !.leaseOver = TRUE] \in Row
        BY <3>1 DEF Row
      <3>3. rows' = [rows EXCEPT ![d] = [rows[d] EXCEPT !.due = TRUE]]
              \/ rows' = [rows EXCEPT ![d] = [rows[d] EXCEPT !.leaseOver = TRUE]]
        BY <2>1 DEF ComesDue, LeaseExpires
      <3>4. rows' \in [Deliveries -> Row]
        BY <3>2, <3>3 DEF TypeOK
      <3>. QED  BY <2>1, <3>4 DEF ComesDue, LeaseExpires, TypeOK
    <2>2. ASSUME NEW w \in Workers, Claim(w)
          PROVE  TypeOK'
      BY <2>2, ClaimEffect DEF Claim, TypeOK
    <2>3. ASSUME NEW w \in Workers, Load(w)
          PROVE  TypeOK'
      BY <2>3, LoadEffect DEF Load, TypeOK
    <2>4. ASSUME NEW w \in Workers, Post(w)
          PROVE  TypeOK'
      <3>1. worker[w].current \subseteq Deliveries
        BY DEF TypeOK, Locals
      <3>. QED  BY <2>4, <3>1, PostEffect DEF Post, TypeOK
    <2>5. ASSUME NEW w \in Workers, EndDrain(w) \/ DrainDies(w)
          PROVE  TypeOK'
      BY <1>0, <2>5, BecomesType DEF EndDrain, DrainDies, TypeOK
    <2>6. ASSUME NEW w \in Workers, NEW d \in Deliveries, Take(w, d)
          PROVE  TypeOK'
      BY <2>6, TakeEffect DEF Take, TypeOK
    <2>7. ASSUME NEW w \in Workers, NEW d \in Deliveries, Mark(w, d)
          PROVE  TypeOK'
      BY <2>7, MarkEffect DEF Mark, TypeOK
    <2>8. ASSUME NEW d \in Deliveries, ReplayRead(d)
          PROVE  TypeOK'
      BY <2>8 DEF ReplayRead, TypeOK
    <2>9. ASSUME NEW d \in Deliveries, ReplayWrite(d)
          PROVE  TypeOK'
      <3>1. Replayed(rows[d]) \in Row
        <4>1. rows[d] \in Row /\ "pending" \in Status
          BY DEF TypeOK, Status
        <4>2. Released(rows[d], "pending") \in Row
          BY <4>1, ReleasedType
        <4>. QED  BY <4>2, AttemptType DEF Replayed
      <3>2. rows' \in [Deliveries -> Row]
        BY <2>9, <3>1 DEF ReplayWrite, TypeOK
      <3>. QED  BY <2>9, <3>2 DEF ReplayWrite, TypeOK
    <2>10. CASE UNCHANGED deliveryVars
      BY <2>10 DEF deliveryVars, TypeOK
    <2>. QED
      BY <2>1, <2>2, <2>3, <2>4, <2>5, <2>6, <2>7, <2>8, <2>9, <2>10
      DEF Next, Clock, Drain
  <1>. QED  BY <1>1, <1>2, PTL DEF Spec

-----------------------------------------------------------------------------
(* Acknowledgements *)

\* A worker that is about to mark a success posted it successfully.
AckInv ==
    /\ DeliveredWasAcknowledged
    /\ \A w \in Workers : worker[w].ok => worker[w].current \subseteq acked

LEMMA AckStep ==
    ASSUME TypeOK, AckInv, [Next]_deliveryVars
    PROVE  AckInv'
  <1> USE DEF AckInv, DeliveredWasAcknowledged
  <1>1. acked \subseteq acked'
    BY DEF Next, Clock, Drain, deliveryVars, ComesDue, LeaseExpires, Claim, Load,
           Take, Post, Mark, EndDrain, DrainDies, ReplayRead, ReplayWrite
  <1>2. ASSUME NEW d \in Deliveries, ComesDue(d) \/ LeaseExpires(d)
        PROVE  AckInv'
    <2>1. \A x \in Deliveries : rows'[x].status = rows[x].status
      BY <1>2 DEF ComesDue, LeaseExpires, TypeOK, Row
    <2>. QED  BY <1>1, <1>2, <2>1 DEF ComesDue, LeaseExpires
  <1>3. ASSUME NEW w \in Workers, Claim(w)
        PROVE  AckInv'
    BY <1>1, <1>3, ClaimEffect
  <1>4. ASSUME NEW w \in Workers, Load(w)
        PROVE  AckInv'
    BY <1>1, <1>4, LoadEffect DEF Load
  <1>5. ASSUME NEW w \in Workers, NEW d \in Deliveries, Take(w, d)
         PROVE  AckInv'
    BY <1>1, <1>5, TakeEffect DEF Take
  <1>6. ASSUME NEW w \in Workers, EndDrain(w) \/ DrainDies(w)
         PROVE  AckInv'
    <2>1. ~Idle.ok
      BY DEF Idle
    <2>. QED  BY <1>1, <1>6, <2>1, IdleEffect DEF EndDrain, DrainDies
  <1>7. ASSUME NEW w \in Workers, Post(w)
        PROVE  AckInv'
    <2>1. rows' = rows
      BY <1>7 DEF Post
    <2>. QED  BY <1>1, <1>7, <2>1, PostEffect
  <1>8. ASSUME NEW w \in Workers, NEW d \in Deliveries, Mark(w, d)
        PROVE  AckInv'
    <2>1. Marked(rows[d], w, d).status = "delivered" => d \in acked
      BY <1>8, MarkedType DEF Mark, TypeOK
    <2>. QED  BY <1>1, <1>8, <2>1, MarkEffect
  <1>9. ASSUME NEW d \in Deliveries, ReplayRead(d)
        PROVE  AckInv'
    BY <1>9 DEF ReplayRead
  <1>10. ASSUME NEW d \in Deliveries, ReplayWrite(d)
        PROVE  AckInv'
    BY <1>1, <1>10, ReplayEffect DEF ReplayWrite
  <1>11. CASE UNCHANGED deliveryVars
    BY <1>11 DEF deliveryVars
  <1>. QED
    BY <1>2, <1>3, <1>4, <1>5, <1>6, <1>7, <1>8, <1>9, <1>10, <1>11
    DEF Next, Clock, Drain

\* Nothing is marked delivered that its receiver did not acknowledge, with
\* any number of workers and however leases lapse.
THEOREM DeliveredMeansAcknowledged == Spec => []DeliveredWasAcknowledged
  <1>1. Init => AckInv
    BY DEF Init, AckInv, DeliveredWasAcknowledged, Idle
  <1>2. TypeOK /\ AckInv /\ [Next]_deliveryVars => AckInv'
    BY AckStep
  <1>3. AckInv => DeliveredWasAcknowledged
    BY DEF AckInv
  <1>. QED  BY <1>1, <1>2, <1>3, TypeCorrect, PTL DEF Spec

-----------------------------------------------------------------------------
(* Leases *)

\* A worker has rows in hand only between claim and mark, each once.
HandInv ==
    \A w \in Workers :
        /\ worker[w].pc = "idle" => worker[w].todo = {}
        /\ worker[w].pc \in {"idle", "loading", "drain"} => worker[w].current = {}
        /\ worker[w].todo \cap worker[w].current = {}

LEMMA HandStep ==
    ASSUME TypeOK, HandInv, [Next]_deliveryVars
    PROVE  HandInv'
  <1>1. ASSUME NEW w \in Workers, Claim(w)
        PROVE  HandInv'
    <2>1. worker[w].pc = "idle"
      BY <1>1 DEF Claim
    <2>2. /\ \A v \in Workers : v # w => worker'[v] = worker[v]
          /\ worker'[w].pc = "loading" /\ worker'[w].current = worker[w].current
      BY <1>1, ClaimEffect
    <2>. QED  BY <2>1, <2>2 DEF HandInv
  <1>2. ASSUME NEW w \in Workers, Load(w)
        PROVE  HandInv'
    <2>1. worker[w].pc = "loading"
      BY <1>2 DEF Load
    <2>. QED  BY <1>2, <2>1, LoadEffect DEF HandInv
  <1>3. ASSUME NEW w \in Workers, NEW d \in Deliveries, Take(w, d)
        PROVE  HandInv'
    BY <1>3, TakeEffect DEF HandInv
  <1>4. ASSUME NEW w \in Workers, EndDrain(w) \/ DrainDies(w)
        PROVE  HandInv'
    BY <1>4, IdleEffect DEF HandInv, Idle
  <1>5. ASSUME NEW w \in Workers, Post(w)
        PROVE  HandInv'
    BY <1>5, PostEffect DEF HandInv
  <1>6. ASSUME NEW w \in Workers, NEW d \in Deliveries, Mark(w, d)
        PROVE  HandInv'
    BY <1>6, MarkEffect DEF HandInv
  <1>7. ASSUME UNCHANGED worker
        PROVE  HandInv'
    BY <1>7 DEF HandInv
  <1>. QED
    BY <1>1, <1>2, <1>3, <1>4, <1>5, <1>6, <1>7
    DEF Next, Clock, Drain, ComesDue, LeaseExpires, ReplayRead, ReplayWrite,
        deliveryVars

\* While a lease lasts, the row is claimed by the one who has it in hand.
LeaseInv ==
    \A d \in Deliveries \ lapsed :
        /\ ~rows[d].leaseOver
        /\ \A w \in Workers : Holds(w, d) => rows[d].token # 0
        /\ \A v, w \in Workers : Holds(v, d) /\ Holds(w, d) => v = w

LEMMA LeaseStep ==
    ASSUME TypeOK, HandInv, LeaseInv, [Next]_deliveryVars
    PROVE  LeaseInv'
  <1>1. ASSUME NEW d \in Deliveries, ComesDue(d)
        PROVE  LeaseInv'
    <2>1. \A x \in Deliveries : /\ rows'[x].token = rows[x].token
                                /\ rows'[x].leaseOver = rows[x].leaseOver
      BY <1>1 DEF ComesDue, TypeOK, Row
    <2>. QED  BY <1>1, <2>1 DEF ComesDue, LeaseInv, Holds
  <1>2. ASSUME NEW d \in Deliveries, LeaseExpires(d)
        PROVE  LeaseInv'
    <2>1. \A x \in Deliveries : x # d => rows'[x] = rows[x]
      BY <1>2 DEF LeaseExpires, TypeOK
    <2>. QED  BY <1>2, <2>1 DEF LeaseExpires, LeaseInv, Holds
  <1>3. ASSUME NEW w \in Workers, Claim(w)
        PROVE  LeaseInv'
    <2>1. PICK ids \in SUBSET Claimable :
              /\ rows' \in [Deliveries -> Row]
              /\ \A d \in Deliveries :
                    /\ rows'[d].status = rows[d].status
                    /\ d \notin ids => rows'[d] = rows[d]
                    /\ d \in ids => /\ rows'[d].token = claims + 1
                                    /\ rows'[d].leaseOver = FALSE
              /\ worker' \in [Workers -> Locals]
              /\ \A v \in Workers : v # w => worker'[v] = worker[v]
              /\ worker'[w].pc = "loading" /\ worker'[w].todo = ids
              /\ worker'[w].claimToken = claims + 1
              /\ worker'[w].current = worker[w].current
              /\ worker'[w].ok = worker[w].ok
              /\ claims + 1 \in Tokens \ {0} /\ claims' = claims + 1
      BY <1>3, ClaimEffect
    <2>2. worker[w].pc = "idle" /\ lapsed' = lapsed
      BY <1>3 DEF Claim
    <2>3. worker[w].current = {} /\ worker[w].todo = {}
      BY <2>2 DEF HandInv
    <2>4. \A d \in ids \ lapsed : \A v \in Workers : ~Holds(v, d)
      BY <2>1 DEF Claimable, LeaseInv
    <2>5. \A d \in Deliveries, v \in Workers :
              Holds(v, d)' => \/ v = w /\ d \in ids
                              \/ v # w /\ Holds(v, d)
      BY <2>1, <2>3 DEF Holds
    <2>6. \A d \in Deliveries \ lapsed :
              /\ ~rows'[d].leaseOver
              /\ d \in ids => rows'[d].token # 0
              /\ d \notin ids => rows'[d] = rows[d]
      BY <2>1 DEF LeaseInv
    <2>. QED  BY <2>2, <2>4, <2>5, <2>6 DEF LeaseInv
  <1>4. ASSUME NEW w \in Workers, Load(w)
        PROVE  LeaseInv'
    <2>1. UNCHANGED <<rows, lapsed>>
      BY <1>4 DEF Load
    <2>2. \A v \in Workers, x \in Deliveries : Holds(v, x)' => Holds(v, x)
      BY <1>4, LoadEffect DEF Holds
    <2>. QED  BY <2>1, <2>2 DEF LeaseInv
  <1>5. ASSUME NEW w \in Workers, NEW d \in Deliveries, Take(w, d)
        PROVE  LeaseInv'
    <2>1. UNCHANGED <<rows, lapsed>> /\ d \in worker[w].todo
      BY <1>5 DEF Take
    <2>2. \A v \in Workers, x \in Deliveries : Holds(v, x)' => Holds(v, x)
      BY <1>5, <2>1, TakeEffect DEF Holds
    <2>. QED  BY <2>1, <2>2 DEF LeaseInv
  <1>6. ASSUME NEW w \in Workers, EndDrain(w) \/ DrainDies(w)
        PROVE  LeaseInv'
    <2>1. UNCHANGED <<rows, lapsed>>
      BY <1>6 DEF EndDrain, DrainDies
    <2>2. Idle.todo = {} /\ Idle.current = {}
      BY DEF Idle
    <2>3. \A v \in Workers, x \in Deliveries : Holds(v, x)' => Holds(v, x)
      BY <1>6, <2>2, IdleEffect DEF Holds
    <2>. QED  BY <2>1, <2>3 DEF LeaseInv
  <1>7. ASSUME NEW w \in Workers, Post(w)
        PROVE  LeaseInv'
    <2>1. UNCHANGED <<rows, lapsed>>
      BY <1>7 DEF Post
    <2>2. \A v \in Workers, x \in Deliveries : Holds(v, x)' => Holds(v, x)
      BY <1>7, PostEffect DEF Holds
    <2>. QED  BY <2>1, <2>2 DEF LeaseInv
  <1>8. ASSUME NEW w \in Workers, NEW d \in Deliveries, Mark(w, d)
        PROVE  LeaseInv'
    <2>1. worker[w].current = {d} /\ lapsed' = lapsed
      BY <1>8 DEF Mark
    <2>2. ~Marked(rows[d], w, d).leaseOver
      BY MarkedType DEF TypeOK
    <2>3. /\ \A x \in Deliveries : x # d => rows'[x] = rows[x]
          /\ rows'[d] = IF Fits(w, d) THEN Marked(rows[d], w, d) ELSE rows[d]
      BY <1>8, MarkEffect
    <2>4. d \notin worker[w].todo
      BY <2>1 DEF HandInv
    <2>5. \A v \in Workers, x \in Deliveries :
              Holds(v, x)' => Holds(v, x) /\ (v # w \/ x # d)
      BY <1>8, <2>1, <2>4, MarkEffect DEF Holds
    <2>6. Holds(w, d)
      BY <2>1 DEF Holds
    <2>. QED  BY <2>1, <2>2, <2>3, <2>5, <2>6 DEF LeaseInv
  <1>9. ASSUME NEW d \in Deliveries, ReplayRead(d)
        PROVE  LeaseInv'
    BY <1>9 DEF ReplayRead, LeaseInv, Holds
  <1>10. ASSUME NEW d \in Deliveries, ReplayWrite(d)
         PROVE  LeaseInv'
    <2>1. \A x \in Deliveries : x # d => rows'[x] = rows[x]
      BY <1>10, ReplayEffect
    <2>. QED  BY <1>10, <2>1 DEF ReplayWrite, LeaseInv, Holds
  <1>11. CASE UNCHANGED deliveryVars
    BY <1>11 DEF deliveryVars, LeaseInv, Holds
  <1>. QED
    BY <1>1, <1>2, <1>3, <1>4, <1>5, <1>6, <1>7, <1>8, <1>9, <1>10, <1>11
    DEF Next, Clock, Drain

\* Of any number of workers, at most one has a row in hand until a lease of
\* the row runs out or is revoked.
THEOREM OneSender == Spec => []OneSenderPerLease
  <1>1. Init => HandInv /\ LeaseInv
    BY DEF Init, HandInv, LeaseInv, Holds, Idle
  <1>2. TypeOK /\ HandInv /\ LeaseInv /\ [Next]_deliveryVars => HandInv' /\ LeaseInv'
    BY HandStep, LeaseStep
  <1>3. LeaseInv => OneSenderPerLease
    BY DEF LeaseInv, OneSenderPerLease
  <1>. QED  BY <1>1, <1>2, <1>3, TypeCorrect, PTL DEF Spec

-----------------------------------------------------------------------------
(* Finality *)

\* A row that is not pending has no token, and a drain has one: the token a
\* worker claimed with never fits a row that was settled.
TokenInv ==
    /\ \A d \in Deliveries : rows[d].status # "pending" => rows[d].token = 0
    /\ \A w \in Workers : worker[w].pc # "idle" => worker[w].claimToken # 0

LEMMA TokenStep ==
    ASSUME TypeOK, TokenInv, [Next]_deliveryVars
    PROVE  TokenInv'
  <1>1. ASSUME NEW d \in Deliveries, ComesDue(d) \/ LeaseExpires(d)
        PROVE  TokenInv'
    <2>1. \A x \in Deliveries : /\ rows'[x].token = rows[x].token
                                /\ rows'[x].status = rows[x].status
      BY <1>1 DEF ComesDue, LeaseExpires, TypeOK, Row
    <2>. QED  BY <1>1, <2>1 DEF ComesDue, LeaseExpires, TokenInv
  <1>2. ASSUME NEW w \in Workers, Claim(w)
        PROVE  TokenInv'
    <2>1. PICK ids \in SUBSET Claimable :
              /\ \A d \in Deliveries :
                    /\ rows'[d].status = rows[d].status
                    /\ d \notin ids => rows'[d] = rows[d]
              /\ \A v \in Workers : v # w => worker'[v] = worker[v]
              /\ worker'[w].claimToken = claims + 1
              /\ claims + 1 \in Tokens \ {0}
      BY <1>2, ClaimEffect
    <2>2. \A d \in ids : rows[d].status = "pending"
      BY DEF Claimable
    <2>3. \A d \in Deliveries : rows'[d].status # "pending" => rows'[d].token = 0
      BY <2>1, <2>2 DEF TokenInv
    <2>4. \A v \in Workers : worker'[v].pc # "idle" => worker'[v].claimToken # 0
      BY <2>1 DEF TokenInv
    <2>. QED  BY <2>3, <2>4 DEF TokenInv
  <1>3. ASSUME NEW w \in Workers, Load(w)
        PROVE  TokenInv'
    <2>1. rows' = rows /\ worker[w].pc # "idle"
      BY <1>3 DEF Load
    <2>. QED  BY <1>3, <2>1, LoadEffect DEF TokenInv
  <1>4. ASSUME NEW w \in Workers, NEW d \in Deliveries, Take(w, d)
        PROVE  TokenInv'
    <2>1. rows' = rows /\ worker[w].pc # "idle"
      BY <1>4 DEF Take
    <2>. QED  BY <1>4, <2>1, TakeEffect DEF TokenInv
  <1>5. ASSUME NEW w \in Workers, EndDrain(w) \/ DrainDies(w)
        PROVE  TokenInv'
    <2>1. rows' = rows /\ Idle.pc = "idle"
      BY <1>5 DEF EndDrain, DrainDies, Idle
    <2>. QED  BY <1>5, <2>1, IdleEffect DEF TokenInv
  <1>6. ASSUME NEW w \in Workers, Post(w)
        PROVE  TokenInv'
    <2>1. rows' = rows /\ worker[w].pc # "idle"
      BY <1>6 DEF Post
    <2>. QED  BY <1>6, <2>1, PostEffect DEF TokenInv
  <1>7. ASSUME NEW w \in Workers, NEW d \in Deliveries, Mark(w, d)
        PROVE  TokenInv'
    <2>1. Marked(rows[d], w, d).token = 0 /\ worker[w].pc # "idle"
      BY <1>7, MarkedType DEF Mark, TypeOK
    <2>. QED  BY <1>7, <2>1, MarkEffect DEF TokenInv
  <1>8. ASSUME NEW d \in Deliveries, ReplayRead(d)
        PROVE  TokenInv'
    BY <1>8 DEF ReplayRead, TokenInv
  <1>9. ASSUME NEW d \in Deliveries, ReplayWrite(d)
        PROVE  TokenInv'
    BY <1>9, ReplayEffect DEF ReplayWrite, TokenInv
  <1>10. CASE UNCHANGED deliveryVars
    BY <1>10 DEF deliveryVars, TokenInv
  <1>. QED
    BY <1>1, <1>2, <1>3, <1>4, <1>5, <1>6, <1>7, <1>8, <1>9, <1>10
    DEF Next, Clock, Drain

\* A delivered row comes back through the two holes only.
LEMMA FinalStep ==
    ASSUME TypeOK, TokenInv, [Next]_deliveryVars,
           NEW d \in Deliveries, rows[d].status = "delivered"
    PROVE  \/ rows'[d].status = "delivered"
           \/ d \in replaying
           \/ \E w \in Workers : Misread(w, d)
  <1>1. ASSUME NEW x \in Deliveries, ComesDue(x) \/ LeaseExpires(x)
        PROVE  rows'[d].status = rows[d].status
    BY <1>1 DEF ComesDue, LeaseExpires, TypeOK, Row
  <1>2. ASSUME NEW w \in Workers, Claim(w)
        PROVE  rows'[d].status = rows[d].status
    BY <1>2, ClaimEffect
  <1>3. ASSUME NEW w \in Workers, NEW x \in Deliveries, Mark(w, x),
               rows'[d].status # "delivered"
        PROVE  Misread(w, d)
    <2>1. x = d /\ Fits(w, d)
      BY <1>3, MarkEffect
    <2>2. rows[d].token = 0
      BY DEF TokenInv
    <2>3. worker[w].seen[d].token = 0
      BY <2>1, <2>2 DEF Fits
    <2>4. /\ worker[w].pc = "marking" /\ worker[w].current = {d}
          /\ worker[w].claimToken # 0
      BY <1>3, <2>1 DEF Mark, TokenInv
    <2>. QED  BY <2>3, <2>4 DEF Misread, Holds
  <1>4. ASSUME NEW x \in Deliveries, ReplayWrite(x),
               rows'[d].status # "delivered"
        PROVE  d \in replaying
    BY <1>4, ReplayEffect DEF ReplayWrite
  <1>5. CASE UNCHANGED rows
    BY <1>5
  <1>. QED
    BY <1>1, <1>2, <1>3, <1>4, <1>5
    DEF Next, Clock, Drain, Load, Take, Post, EndDrain, DrainDies, ReplayRead,
        deliveryVars

\* With any number of workers and however leases lapse, a delivered row is
\* brought back by nothing but a replay that had read it before, or a worker
\* that loaded it with a token not its own.
THEOREM DeliveredForGood == Spec => DeliveredIsFinal
  <1>1. Init => TokenInv
    BY DEF Init, TokenInv, Idle
  <1>2. TypeOK /\ TokenInv /\ [Next]_deliveryVars => TokenInv'
    BY TokenStep
  <1>3. TypeOK /\ TokenInv /\ [Next]_deliveryVars
           => [\A d \in Deliveries :
                  rows[d].status = "delivered" =>
                     \/ rows'[d].status = "delivered"
                     \/ d \in replaying
                     \/ \E w \in Workers : Misread(w, d)]_deliveryVars
    BY FinalStep
  <1>. QED  BY <1>1, <1>2, <1>3, TypeCorrect, PTL DEF Spec, DeliveredIsFinal

-----------------------------------------------------------------------------
(* Contacts *)

LEMMA CidrIsRange ==
    ASSUME NEW hi \in Group
    PROVE  BlockedIPv4(hi) <=> Denied(hi)
  <1>1. /\ hi \div 256 = 2560 \div 256 <=> hi \in 2560 .. 2815
        /\ hi \div 16 = 44048 \div 16 <=> hi \in 44048 .. 44063
        /\ hi \div 1 = 49320 \div 1 <=> hi = 49320
        /\ hi \div 256 = 32512 \div 256 <=> hi \in 32512 .. 32767
        /\ hi \div 1 = 43518 \div 1 <=> hi = 43518
        /\ hi \div 256 = 0 \div 256 <=> hi \in 0 .. 255
    <2>1. hi \in Int /\ 0 <= hi
      BY DEF Group
    <2>. QED  BY <2>1, Z3
  <1>2. BlockedIPv4(hi) <=>
           \/ hi \div 256 = 2560 \div 256 \/ hi \div 16 = 44048 \div 16
           \/ hi \div 1 = 49320 \div 1    \/ hi \div 256 = 32512 \div 256
           \/ hi \div 1 = 43518 \div 1    \/ hi \div 256 = 0 \div 256
    BY DEF BlockedIPv4, DenyRanges, InCidr
  <1>. QED  BY <1>1, <1>2 DEF Denied

\* The guard refuses exactly the addresses on its deny list: its masks are the
\* ranges, also where an IPv4 address is embedded in another.
THEOREM GuardKnowsDenied ==
    ASSUME NEW addr \in Address
    PROVE  Blocked(addr) <=> ~Permitted(addr)
  <1>1. CASE addr \in [v : {4}, q : [1 .. 2 -> Group]]
    <2>1. addr.v = 4 /\ addr.q[1] \in Group
      BY <1>1
    <2>. QED  BY <2>1, CidrIsRange DEF Blocked, Permitted
  <1>2. CASE addr \in [v : {6}, q : [1 .. 8 -> Group]]
    <2> DEFINE q == addr.q
    <2>1. addr.v = 6 /\ \A i \in 1 .. 8 : q[i] \in Group
      BY <1>2
    <2>2. Blocked(addr) <=> BlockedIPv6(q)
      BY <2>1 DEF Blocked
    <2>3. Permitted(addr) <=> /\ q[1] \notin 64512 .. 65023 \cup 65152 .. 65215
                              /\ (\A i \in 1 .. 7 : q[i] = 0) => q[8] > 1
                              /\ Embeds(q) => ~Denied(q[7])
      BY <2>1 DEF Permitted
    <2> HIDE DEF q
    <2>4. q[1] \in Nat /\ q[8] \in Nat /\ q[7] \in Group
      <3>1. q[1] \in Group /\ q[7] \in Group /\ q[8] \in Group
        BY <2>1
      <3>2. Group \subseteq Nat
        BY DEF Group
      <3>. QED  BY <3>1, <3>2
    <2>5. /\ q[1] \div 64 = 1018 <=> q[1] \in 65152 .. 65215
          /\ q[1] \div 512 = 126 <=> q[1] \in 64512 .. 65023
      BY <2>4
    <2>6. q[8] \in {0, 1} <=> ~(q[8] > 1)
      BY <2>4
    <2>7. Embeds(q) <=> Mapped(q) \/ Nat64(q)
      <3>1. (\A i \in 1 .. 6 : q[i] = IF i = 6 THEN 65535 ELSE 0) <=> Mapped(q)
        BY DEF Mapped
      <3>2. (\A i \in 1 .. 6 : q[i] = CASE i = 1 -> 100 [] i = 2 -> 65435 [] OTHER -> 0)
              <=> Nat64(q)
        BY DEF Nat64
      <3>. QED  BY <3>1, <3>2 DEF Embeds
    <2>8. BlockedIPv4(q[7]) <=> Denied(q[7])
      BY <2>4, CidrIsRange
    <2>9. BlockedIPv6(q) <=> \/ (\A i \in 1 .. 7 : q[i] = 0) /\ q[8] \in {0, 1}
                             \/ q[1] \div 64  = 1018
                             \/ q[1] \div 512 = 126
                             \/ (Mapped(q) \/ Nat64(q)) /\ BlockedIPv4(q[7])
      BY DEF BlockedIPv6
    <2>. QED  BY <2>2, <2>3, <2>5, <2>6, <2>7, <2>8, <2>9
  <1>. QED  BY <1>1, <1>2 DEF Address

\* The first of some hops.
LEMMA FirstOf ==
    ASSUME NEW S \in SUBSET Nat, S # {}
    PROVE  \E k \in S : \A j \in S : k <= j
  <1> DEFINE Less == OpToRel(<, Nat)
  <1>1. IsWellFoundedOn(Less, Nat)
    BY NatLessThanWellFounded
  <1>2. \A x, y \in Nat : <<x, y>> \in Less <=> x < y
    BY DEF OpToRel
  <1> HIDE DEF Less
  <1>3. \E k \in S : \A j \in S : <<j, k>> \notin Less
    BY <1>1, WFMin
  <1>4. PICK k \in S : \A j \in S : <<j, k>> \notin Less
    BY <1>3
  <1>5. \A j \in S : k <= j
    <2>1. SUFFICES ASSUME NEW j \in S PROVE k <= j
      OBVIOUS
    <2>2. j \in Nat /\ k \in Nat /\ ~(j < k)
      BY <1>2, <1>4
    <2>. QED  BY <2>2
  <1>. QED  BY <1>5

LEMMA HopsOf ==
    ASSUME NEW hops \in Seq(Hop), NEW k \in DOMAIN hops
    PROVE  /\ k \in Nat \ {0} /\ k <= Len(hops) /\ Len(hops) \in Nat
           /\ \A j \in 1 .. k : j \in DOMAIN hops
           /\ hops[k] \in Hop
  OBVIOUS

\* What is requested passes the guard, and what it connects to is one of the
\* addresses that passed it.
THEOREM RequestsStayPermitted ==
    ASSUME NEW hops \in Seq(Hop), NEW k \in Requested(hops)
    PROVE  Permitted(Pinned(hops[k]))
  <1>1. k \in DOMAIN hops /\ Admitted(hops[k])
    <2>1. k \in DOMAIN hops /\ \A j \in 1 .. k : Admitted(hops[j])
      BY DEF Requested
    <2>2. k \in 1 .. k
      BY <2>1, HopsOf
    <2>. QED  BY <2>1, <2>2
  <1>2. hops[k].answers \in Seq(Address) /\ hops[k].answers # <<>>
    BY <1>1, HopsOf DEF Hop, Admitted
  <1>3. 1 \in DOMAIN hops[k].answers /\ Pinned(hops[k]) = hops[k].answers[1]
    BY <1>2 DEF Pinned
  <1>4. ~Blocked(hops[k].answers[1]) /\ hops[k].answers[1] \in Address
    BY <1>1, <1>2, <1>3 DEF Admitted
  <1>. QED  BY <1>3, <1>4, GuardKnowsDenied

\* The guard refuses no chain that never leaves permitted hosts and ends within
\* the limit.
THEOREM SoundChainsPass ==
    ASSUME NEW hops \in Seq(Hop), Sound(hops)
    PROVE  Outcome(hops) = "answered"
  <1> DEFINE ends == {k \in DOMAIN hops : ~hops[k].redirects}
  <1>1. \A k \in DOMAIN hops : Admitted(hops[k])
    <2>1. SUFFICES ASSUME NEW k \in DOMAIN hops PROVE Admitted(hops[k])
      OBVIOUS
    <2>2. /\ hops[k].https /\ hops[k].answers # <<>>
          /\ \A i \in DOMAIN hops[k].answers : Permitted(hops[k].answers[i])
      BY DEF Sound
    <2>3. hops[k].answers \in Seq(Address)
      BY HopsOf DEF Hop
    <2>4. \A i \in DOMAIN hops[k].answers : hops[k].answers[i] \in Address
      BY <2>3
    <2>. QED  BY <2>2, <2>4, GuardKnowsDenied DEF Admitted
  <1>2. Len(hops) \in DOMAIN hops /\ ~hops[Len(hops)].redirects /\ Len(hops) <= MaxRedirects + 1
    BY DEF Sound
  <1>3. ends # {} /\ ends \in SUBSET Nat
    BY <1>2
  <1>4. PICK k \in ends : \A j \in ends : k <= j
    BY <1>3, FirstOf
  <1>5. k \in DOMAIN hops /\ ~hops[k].redirects
    BY <1>4
  <1>6. k \in Nat /\ k <= MaxRedirects + 1
    BY <1>2, <1>5, HopsOf, RedirectsAssumption
  <1>7. \A j \in 1 .. k : Admitted(hops[j])
    BY <1>1, <1>5, HopsOf
  <1>8. \A j \in 1 .. k - 1 : hops[j].redirects
    <2>1. SUFFICES ASSUME NEW j \in 1 .. k - 1, ~hops[j].redirects PROVE FALSE
      OBVIOUS
    <2>2. j \in DOMAIN hops /\ j < k
      BY <1>5, <1>6, HopsOf
    <2>. QED  BY <2>1, <2>2, <1>4, <1>6
  <1>9. k \in Requested(hops)
    BY <1>5, <1>6, <1>7, <1>8 DEF Requested
  <1>. QED  BY <1>5, <1>9 DEF Outcome

\* Whatever names resolve to and wherever redirects lead, no address on
\* the deny list is contacted.
THEOREM NoDeniedContacts == Spec => []NoDeniedIsContacted
<1>1. NoDeniedIsContacted
  <2>1. \A addr \in Addresses : Blocked(addr) <=> ~Permitted(addr)
    BY ChainsAssumption, GuardKnowsDenied
  <2>2. \A hops \in Chains : \A k \in Requested(hops) : Permitted(Pinned(hops[k]))
    BY ChainsAssumption, RequestsStayPermitted
  <2>3. \A hops \in Chains : Sound(hops) => Outcome(hops) = "answered"
    BY ChainsAssumption, SoundChainsPass
  <2> QED BY <2>1, <2>2, <2>3 DEF NoDeniedIsContacted
<1> QED BY <1>1, PTL
=============================================================================
