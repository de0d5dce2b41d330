---------------------------- MODULE Watcher_proofs ----------------------------
(***************************************************************************)
(* Theorems about Watcher for every set of transfers and endpoints, every  *)
(* price, amount and tolerance, and every bound, and about any answers of  *)
(* its providers.                                                          *)
(***************************************************************************)
EXTENDS Receipts, Lifecycle_proofs

-----------------------------------------------------------------------------
(* Operators *)

\* A decision of the right type, which reports the amount already stored, or
\* zero, or the total given.
Reports(inv, total, r) ==
    /\ r.newStatus \in InvoiceStatus
    /\ r.changed \in BOOLEAN
    /\ r.webhookEvent \in Event \cup {"none"}
    /\ r.settled \in BOOLEAN
    /\ r.amountReceived \in {inv.amountReceived, 0, total}

LEMMA TerminalReports ==
    ASSUME NEW inv \in InvoiceRow, NEW total \in Nat
    PROVE  Reports(inv, total, TransitionTerminal(inv, total))
  BY DEF Reports, TransitionTerminal, NoChange, Result, InvoiceRow, Event,
         InvoiceStatus, Terminal

LEMMA SolidReports ==
    ASSUME NEW inv \in InvoiceRow, NEW total \in Nat, NEW band,
           NEW isExpired \in BOOLEAN
    PROVE  Reports(inv, total, TransitionSolid(inv, total, band, isExpired))
  <1> DEFINE decision == Decision(total, band)
             r == TransitionSolid(inv, total, band, isExpired)
  <1>1. CASE decision \in {"paid", "overpaid"}
    <2>1. r = Result(decision, TRUE, decision, total, TRUE)
      BY <1>1 DEF TransitionSolid
    <2>. QED
      BY <1>1, <2>1 DEF Reports, Result, Event, InvoiceStatus, Terminal
  <1>2. CASE decision \notin {"paid", "overpaid"} /\ isExpired
    <2>1. r = Result("underpaid", TRUE, "underpaid", total, FALSE)
      BY <1>2 DEF TransitionSolid
    <2>. QED  BY <2>1 DEF Reports, Result, Event, InvoiceStatus, Terminal
  <1>3. CASE decision \notin {"paid", "overpaid"} /\ ~isExpired
    <2>1. r = Result("payment_detected", inv.status # "payment_detected",
                     IF inv.status = "payment_detected"
                       THEN "none" ELSE "payment_detected",
                     total, FALSE)
      BY <1>3 DEF TransitionSolid
    <2>. QED  BY <2>1 DEF Reports, Result, Event, InvoiceStatus, NonTerminal
  <1>. QED  BY <1>1, <1>2, <1>3

LEMMA UnsolidReports ==
    ASSUME NEW inv \in InvoiceRow, NEW total, NEW hasDetected \in BOOLEAN,
           NEW isExpired \in BOOLEAN
    PROVE  Reports(inv, total, TransitionUnsolid(inv, hasDetected, isExpired))
  BY DEF Reports, TransitionUnsolid, NoChange, Result, InvoiceRow, Event,
         InvoiceStatus, Terminal, NonTerminal

LEMMA TransitionReports ==
    ASSUME NEW inv \in InvoiceRow, NEW pays, NEW solid, NEW band,
           NEW isExpired \in BOOLEAN
    PROVE  Reports(inv, TotalMicro(ConfirmedSolid(pays, solid)),
                   TransitionInvoice(inv, pays, solid, band, isExpired))
  <1> DEFINE total == TotalMicro(ConfirmedSolid(pays, solid))
  <1>1. total \in Nat
    BY TotalIsNat DEF ConfirmedSolid
  <1>. QED
    BY <1>1, TerminalReports, SolidReports, UnsolidReports
    DEF TransitionInvoice

\* Every endpoint that has rows has one of highest version.
HasLatest(ds) ==
    \A e \in Endpoints :
        Versions(ds, e) # {} =>
            \E v \in Versions(ds, e) : \A u \in Versions(ds, e) : u <= v

LEMMA MaxVersionType ==
    ASSUME NEW ds \in SUBSET Delivery, HasLatest(ds), NEW e \in Endpoints
    PROVE  /\ MaxVersion(ds, e) \in Nat
           /\ \A u \in Versions(ds, e) : u <= MaxVersion(ds, e)
  <1>1. Versions(ds, e) \subseteq Nat
    BY DEF Versions, Delivery
  <1>. QED  BY <1>1 DEF MaxVersion, HasLatest

LEMMA EnqueueType ==
    ASSUME NEW ds \in SUBSET Delivery, HasLatest(ds),
           NEW event \in Event, NEW received \in Nat,
           endpoints \subseteq Endpoints
    PROVE  /\ Enqueue(ds, event, received) \subseteq Delivery
           /\ HasLatest(Enqueue(ds, event, received))
  <1> DEFINE row(e) == NewRow(ds, e, event, received)
             new == Enqueue(ds, event, received)
  <1>1. new = ds \cup {row(e) : e \in endpoints}
    BY DEF Enqueue
  <1>2. \A e \in endpoints : row(e) \in Delivery
    BY MaxVersionType DEF Delivery, NewRow
  <1>3. \A e \in endpoints : /\ row(e).endpoint = e
                             /\ row(e).version = MaxVersion(ds, e) + 1
    BY DEF NewRow
  <1>. HIDE DEF row, new
  <1>4. ASSUME NEW e \in Endpoints, Versions(new, e) # {}
        PROVE  \E v \in Versions(new, e) : \A u \in Versions(new, e) : u <= v
    <2>1. CASE e \in endpoints
      <3>1. Versions(new, e) = Versions(ds, e) \cup {MaxVersion(ds, e) + 1}
        BY <1>1, <1>3, <2>1 DEF Versions
      <3>2. /\ MaxVersion(ds, e) \in Nat
            /\ \A u \in Versions(ds, e) : u <= MaxVersion(ds, e)
        BY MaxVersionType
      <3>3. \A u \in Versions(ds, e) : u \in Nat
        BY DEF Versions, Delivery
      <3>4. \A u \in Versions(new, e) : u <= MaxVersion(ds, e) + 1
        BY <3>1, <3>2, <3>3
      <3>. QED  BY <3>1, <3>4
    <2>2. CASE e \notin endpoints
      <3>1. Versions(new, e) = Versions(ds, e)
        BY <1>1, <1>3, <2>2 DEF Versions
      <3>. QED  BY <3>1, <1>4 DEF HasLatest
    <2>. QED  BY <2>1, <2>2
  <1>. QED  BY <1>1, <1>2, <1>4 DEF HasLatest, new

-----------------------------------------------------------------------------
(* One credit transaction *)

LEMMA UpsertedType ==
    ASSUME TypeOK, NEW t \in Tx
    PROVE  Upserted(t) \in PaymentRow
  <1>1. /\ payments[t] \in PaymentRow
        /\ tick.agreed[t] \in 0 .. Sentinel
        /\ tick.hashes[t] \in Hashes
    BY BoundsAssumption DEF TypeOK, Tick, Sentinel
  <1>2. /\ payments[t].status \in PaymentStatus
        /\ payments[t].blockNumber \in 0 .. Sentinel
        /\ payments[t].blockHash \in Hashes
        /\ payments[t] = [status |-> payments[t].status,
                          blockNumber |-> payments[t].blockNumber,
                          blockHash |-> payments[t].blockHash]
    BY <1>1 DEF PaymentRow
  <1>3. CASE payments[t].status = "none"
    BY <1>1, <1>3 DEF Upserted, Upsert, PaymentRow, PaymentStatus
  <1>4. CASE payments[t].status = "detected"
    BY <1>1, <1>2, <1>4 DEF Upserted, Upsert, PaymentRow
  <1>5. CASE payments[t].status \notin {"none", "detected"}
    BY <1>1, <1>2, <1>5 DEF Upserted, Upsert, PaymentRow, PaymentStatus
  <1>. QED  BY <1>3, <1>4, <1>5

LEMMA WrittenType ==
    ASSUME TypeOK, NEW t \in Tx
    PROVE  Written(t) \in [Tx -> PaymentRow]
  <1>1. payments \in [Tx -> PaymentRow]
    BY DEF TypeOK
  <1>2. Upserted(t) \in PaymentRow
    BY UpsertedType
  <1>3. [Upserted(t) EXCEPT !.status = "orphaned"] \in PaymentRow
    BY <1>2 DEF PaymentRow, PaymentStatus
  <1>. QED  BY <1>1, <1>2, <1>3 DEF Written

LEMMA PromotedType ==
    ASSUME NEW pays \in [Tx -> PaymentRow]
    PROVE  Promoted(pays) \in [Tx -> PaymentRow]
  <1>1. ASSUME NEW t \in Tx
        PROVE  [pays[t] EXCEPT !.status = "confirmed"] \in PaymentRow
    BY DEF PaymentRow, PaymentStatus
  <1>. QED  BY <1>1 DEF Promoted

\* Neither upsert nor reorg detection nor promotion changes a confirmed row.
LEMMA CreditKeepsConfirmed ==
    ASSUME TypeOK, NEW t \in Tx, NEW u \in Confirmed
    PROVE  /\ Written(t)[u] = payments[u]
           /\ Promoted(Written(t))[u] = payments[u]
  <1>1. u \in Tx /\ payments[u].status = "confirmed"
    BY DEF Confirmed
  <1>2. Written(t)[u] = payments[u]
    <2>1. CASE u # t
      BY <2>1 DEF Written, TypeOK
    <2>2. CASE u = t
      <3>1. Upserted(u) = payments[u]
        BY <1>1 DEF Upserted, Upsert
      <3>2. ~Orphans(u)
        BY <1>1, <3>1 DEF Orphans, Reorged
      <3>. QED  BY <2>2, <3>1, <3>2 DEF Written, TypeOK
    <2>. QED  BY <2>1, <2>2
  <1>. QED  BY <1>1, <1>2 DEF Promoted

\* The two outcomes of a credit transaction.
LEMMA CreditOutcome ==
    ASSUME NEW t \in Tx, Credit(t)
    PROVE  \/ TransitionAndEnqueue(Written(t))
           \/ /\ payments' = Written(t)
              /\ deliveries' = ReplayMissingWebhook(Written(t))
              /\ invoice' = invoice
  BY DEF Credit, CreditTransfer

-----------------------------------------------------------------------------
(* Types *)

TypeInv == TypeOK /\ HasLatest(deliveries)

LEMMA SentinelType == Sentinel \in Nat /\ MaxHeight < Sentinel
  BY BoundsAssumption DEF Sentinel

LEMMA NoTickType == NoTick \in Tick
  BY BoundsAssumption DEF NoTick, Tick, Hashes

LEMMA InitType == Init => TypeInv
  <1> SUFFICES ASSUME Init PROVE TypeInv
    OBVIOUS
  <1>1. TypeOK
    <2>1. placed \in [Tx -> Placement]
      BY BoundsAssumption DEF Init, Placement, Hashes
    <2>2. payments \in [Tx -> PaymentRow]
      BY BoundsAssumption
      DEF Init, PaymentRow, NoRow, PaymentStatus, Sentinel, Hashes
    <2>3. invoice \in InvoiceRow
      BY DEF Init, InvoiceRow, InvoiceStatus, NonTerminal
    <2>4. solidHeight \in 0 .. MaxHeight /\ cancels \in 0 .. MaxCancels
      BY BoundsAssumption DEF Init
    <2>. QED  BY <2>1, <2>2, <2>3, <2>4, NoTickType DEF Init, TypeOK
  <1>2. HasLatest(deliveries)
    BY DEF Init, HasLatest, Versions
  <1>. QED  BY <1>1, <1>2 DEF TypeInv

LEMMA CreditType ==
    ASSUME TypeInv, NEW t \in Tx, Credit(t)
    PROVE  /\ payments' \in [Tx -> PaymentRow]
           /\ invoice' \in InvoiceRow
           /\ deliveries' \subseteq Delivery
           /\ HasLatest(deliveries')
  <1> DEFINE after == Written(t)
             r == Decided(Promoted(after))
  <1>1. after \in [Tx -> PaymentRow] /\ Promoted(after) \in [Tx -> PaymentRow]
    BY WrittenType, PromotedType DEF TypeInv
  <1>2. /\ invoice \in InvoiceRow /\ tick.expired \in BOOLEAN
        /\ deliveries \in SUBSET Delivery /\ HasLatest(deliveries)
        /\ endpoints \subseteq Endpoints
    BY DEF TypeInv, TypeOK, Tick
  <1>3. CASE TransitionAndEnqueue(after)
    <2>1. Reports(invoice,
                  TotalMicro(ConfirmedSolid(Promoted(after), tick.latestSolid)),
                  r)
      BY <1>2, TransitionReports DEF Decided
    <2>2. TotalMicro(ConfirmedSolid(Promoted(after), tick.latestSolid)) \in Nat
      BY TotalIsNat DEF ConfirmedSolid
    <2>3. /\ r.newStatus \in InvoiceStatus /\ r.amountReceived \in Nat
          /\ r.settled \in BOOLEAN /\ r.webhookEvent \in Event \cup {"none"}
      BY <2>1, <2>2, <1>2 DEF Reports, InvoiceRow
    <2>4. invoice' \in InvoiceRow
      BY <1>2, <1>3, <2>3 DEF TransitionAndEnqueue, InvoiceRow
    <2>5. deliveries' \subseteq Delivery /\ HasLatest(deliveries')
      BY <1>2, <1>3, <2>3, EnqueueType DEF TransitionAndEnqueue
    <2>6. payments' \in [Tx -> PaymentRow]
      BY <1>1, <1>3 DEF TransitionAndEnqueue
    <2>. QED  BY <2>4, <2>5, <2>6
  <1>4. CASE /\ payments' = after
             /\ deliveries' = ReplayMissingWebhook(after)
             /\ invoice' = invoice
    <2> DEFINE received == TransitionInvoice(invoice, after, Sentinel, Band,
                                             tick.expired).amountReceived
    <2>1. received \in Nat
      <3>1. Reports(invoice, TotalMicro(ConfirmedSolid(after, Sentinel)),
                    TransitionInvoice(invoice, after, Sentinel, Band,
                                      tick.expired))
        BY <1>2, TransitionReports
      <3>2. TotalMicro(ConfirmedSolid(after, Sentinel)) \in Nat
        BY TotalIsNat DEF ConfirmedSolid
      <3>. QED  BY <3>1, <3>2, <1>2 DEF Reports, InvoiceRow
    <2>2. ASSUME invoice.status \in DOMAIN ReplayedEvent
          PROVE  ReplayedEvent[invoice.status] \in Event
      BY <2>2 DEF ReplayedEvent, Event
    <2>3. deliveries' = IF /\ invoice.status \in DOMAIN ReplayedEvent
                           /\ deliveries = {}
                          THEN Enqueue(deliveries,
                                       ReplayedEvent[invoice.status], received)
                          ELSE deliveries
      BY <1>4 DEF ReplayMissingWebhook, Band
    <2>. HIDE DEF received
    <2>4. deliveries' \subseteq Delivery /\ HasLatest(deliveries')
      BY <1>2, <2>1, <2>2, <2>3, EnqueueType
    <2>. QED  BY <1>1, <1>2, <1>4, <2>4
  <1>. QED  BY <1>3, <1>4, CreditOutcome

\* Each other action, in the order of Next.
LEMMA ChainType ==
    ASSUME TypeInv,
           \/ \E t \in Tx : Mine(t) \/ Reorg(t)
           \/ AdvanceSolid
    PROVE  TypeInv'
  <1> USE BoundsAssumption DEF TypeInv, TypeOK, HasLatest, Versions
  <1>1. ASSUME NEW t \in Tx, Mine(t)
        PROVE  TypeInv'
    <2>1. placed' \in [Tx -> Placement]
      <3>1. placed[t].blockHash + 1 \in Hashes
        BY <1>1 DEF Mine, Placement, Hashes
      <3>2. PICK b \in solidHeight + 1 .. MaxHeight :
               placed' = [placed EXCEPT ![t] =
                   [blockNumber |-> b,
                    blockHash |-> placed[t].blockHash + 1]]
        BY <1>1 DEF Mine
      <3>3. b \in 0 .. MaxHeight
        OBVIOUS
      <3>. QED  BY <3>1, <3>2, <3>3 DEF Placement
    <2>. QED  BY <2>1, <1>1 DEF Mine, clockVars, cancelVars
  <1>2. ASSUME NEW t \in Tx, Reorg(t)
        PROVE  TypeInv'
    <2>1. placed' \in [Tx -> Placement]
      BY <1>2 DEF Reorg, Placement
    <2>. QED  BY <2>1, <1>2 DEF Reorg, clockVars, cancelVars
  <1>3. CASE AdvanceSolid
    <2>1. solidHeight' \in 0 .. MaxHeight
      BY <1>3 DEF AdvanceSolid
    <2>2. UNCHANGED <<placed, expired, graceOver, invoice, payments, deliveries,
                      endpoints, hasCursor, pc, tick, cancelPc, cancels>>
      BY <1>3 DEF AdvanceSolid, clockVars, cancelVars
    <2>3. TypeOK'
      BY <2>1, <2>2
    <2>4. HasLatest(deliveries')
      BY <2>2
    <2>. QED  BY <2>3, <2>4
  <1>. QED  BY <1>1, <1>2, <1>3

LEMMA ClockAndEndpointsType ==
    ASSUME TypeInv,
           \/ TtlElapses \/ GraceElapses
           \/ \E e \in Endpoints : RegisterEndpoint(e) \/ DeleteEndpoint(e)
    PROVE  TypeInv'
  <1> USE DEF TypeInv, TypeOK, HasLatest, Versions
  <1>1. CASE TtlElapses
    BY <1>1 DEF TtlElapses, chainVars, cancelVars
  <1>2. CASE GraceElapses
    BY <1>2 DEF GraceElapses, chainVars, cancelVars
  <1>3. ASSUME NEW e \in Endpoints, RegisterEndpoint(e)
        PROVE  TypeInv'
    BY <1>3 DEF RegisterEndpoint, chainVars, clockVars, cancelVars
  <1>4. ASSUME NEW e \in Endpoints, DeleteEndpoint(e)
        PROVE  TypeInv'
    BY <1>4 DEF DeleteEndpoint, chainVars, clockVars, cancelVars
  <1>. QED  BY <1>1, <1>2, <1>3, <1>4

\* The steps of a tick up to the sweep only write its locals and the cursor.
LEMMA ScanType ==
    ASSUME TypeInv,
           \/ StartTick \/ Discover \/ DiscoverFails
           \/ \E t \in Tx : \/ FetchPrimary(t) \/ FetchSecondary(t)
                            \/ SkipCandidate(t)
           \/ EndTick \/ Crash
    PROVE  TypeInv'
  <1> USE BoundsAssumption DEF chainVars, clockVars, cancelVars
  <1>1. SUFFICES /\ tick' \in Tick
                 /\ pc' \in {"idle", "discover", "receipts", "credit"}
                 /\ hasCursor' \in BOOLEAN
    BY DEF TypeInv, TypeOK, HasLatest, Versions, StartTick, Discover,
           DiscoverFails, FetchPrimary, FetchSecondary, SkipCandidate, EndTick,
           Crash
  <1>2. /\ tick \in Tick /\ hasCursor \in BOOLEAN
        /\ pc \in {"idle", "discover", "receipts", "credit"}
        /\ placed \in [Tx -> Placement]
        /\ solidHeight \in 0 .. MaxHeight /\ expired \in BOOLEAN
    BY DEF TypeInv, TypeOK
  <1>3. CASE StartTick
    <2>1. PICK s \in {h \in 0 .. solidHeight : h + MaxLag >= solidHeight} :
             \/ /\ hasCursor' = TRUE
                /\ UNCHANGED <<pc, tick>>
             \/ /\ pc' = "discover"
                /\ tick' = [NoTick EXCEPT
                       !.latestSolid = s, !.expired = expired,
                       !.fullReplay = NeedsUnresolvedFundsReplay(invoice.status)
                                      \/ ~hasCursor]
                /\ UNCHANGED hasCursor
      BY <1>3 DEF StartTick
    <2>2. s \in 0 .. MaxHeight
      BY <1>2
    <2>3. (NeedsUnresolvedFundsReplay(invoice.status) \/ ~hasCursor) \in BOOLEAN
      OBVIOUS
    <2>. QED  BY <1>2, <2>1, <2>2, <2>3, NoTickType DEF Tick
  <1>4. CASE Discover
    <2>1. PICK found \in SUBSET {t \in Tx : placed[t].blockHash > 0},
               reported \in BOOLEAN :
             tick' = [tick EXCEPT
                !.remaining = found,
                !.hashes = [t \in Tx |-> IF reported /\ t \in found
                                         THEN placed[t].blockHash ELSE 0]]
      BY <1>4 DEF Discover
    <2>2. [t \in Tx |-> IF reported /\ t \in found
                        THEN placed[t].blockHash ELSE 0] \in [Tx -> Hashes]
      BY <1>2 DEF Placement, Hashes
    <2>. QED  BY <1>2, <1>4, <2>1, <2>2 DEF Discover, Tick
  <1>5. ASSUME NEW t \in Tx, FetchPrimary(t)
        PROVE  tick' \in Tick
    BY <1>2, <1>5 DEF FetchPrimary, Tick, Placement
  <1>6. ASSUME NEW t \in Tx, FetchSecondary(t)
        PROVE  tick' \in Tick
    <2> DEFINE agreed == [tick.agreed EXCEPT ![t] =
                            IF tick.primary[t] > placed[t].blockNumber
                              THEN tick.primary[t] ELSE placed[t].blockNumber]
               primary == [tick.primary EXCEPT ![t] = 0]
    <2>1. tick' = [tick EXCEPT !.agreed = agreed, !.primary = primary,
                               !.remaining = @ \ {t}]
      BY <1>6 DEF FetchSecondary
    <2>2. agreed \in [Tx -> 0 .. MaxHeight] /\ primary \in [Tx -> 0 .. MaxHeight]
      BY <1>2 DEF Tick, Placement
    <2>. HIDE DEF agreed, primary
    <2>. QED  BY <1>2, <2>1, <2>2 DEF Tick
  <1>7. ASSUME NEW t \in Tx, SkipCandidate(t)
        PROVE  tick' \in Tick
    <2> DEFINE hashes == [tick.hashes EXCEPT ![t] = 0]
               primary == [tick.primary EXCEPT ![t] = 0]
    <2>1. tick' = [tick EXCEPT !.primary = primary, !.hashes = hashes,
                               !.remaining = @ \ {t}]
      BY <1>7 DEF SkipCandidate
    <2>2. hashes \in [Tx -> Hashes] /\ primary \in [Tx -> 0 .. MaxHeight]
      BY <1>2 DEF Tick, Hashes
    <2>. HIDE DEF hashes, primary
    <2>. QED  BY <1>2, <2>1, <2>2 DEF Tick
  <1>8. CASE DiscoverFails \/ EndTick \/ Crash
    BY <1>2, <1>8, NoTickType DEF DiscoverFails, EndTick, Crash
  <1>9. CASE \E t \in Tx : \/ FetchPrimary(t) \/ FetchSecondary(t)
                          \/ SkipCandidate(t)
    BY <1>2, <1>5, <1>6, <1>7, <1>9
    DEF FetchPrimary, FetchSecondary, SkipCandidate
  <1>. QED  BY <1>3, <1>4, <1>8, <1>9

LEMMA SweepType ==
    ASSUME TypeInv, SentinelSweep
    PROVE  TypeInv'
  <1> USE DEF TypeInv, TypeOK
  <1>1. payments' \in [Tx -> PaymentRow]
    <2>1. ASSUME NEW t \in Tx
          PROVE  MarkUnconfirmed(payments[t]) \in PaymentRow
      BY SentinelType DEF PaymentRow, MarkUnconfirmed
    <2>. QED  BY <2>1 DEF SentinelSweep
  <1>2. tick' \in Tick
    BY DEF SentinelSweep, Tick, AgreedKeys
  <1>. QED
    BY <1>1, <1>2
    DEF SentinelSweep, chainVars, clockVars, cancelVars, HasLatest, Versions

LEMMA CancelType ==
    ASSUME TypeInv, CancelRead \/ CancelWrite
    PROVE  TypeInv'
  <1> USE BoundsAssumption
      DEF TypeInv, TypeOK, HasLatest, Versions, chainVars, clockVars
  <1>1. CASE CancelRead
    <2>1. cancels' \in 0 .. MaxCancels /\ cancelPc' \in {"idle", "checked"}
      BY <1>1 DEF CancelRead
    <2>. QED  BY <1>1, <2>1 DEF CancelRead
  <1>2. CASE CancelWrite
    <2>1. invoice' \in InvoiceRow
      BY <1>2 DEF CancelWrite, InvoiceRow, InvoiceStatus, Terminal
    <2>. QED  BY <1>2, <2>1 DEF CancelWrite
  <1>. QED  BY <1>1, <1>2

LEMMA NextType == TypeInv /\ [Next]_vars => TypeInv'
  <1> SUFFICES ASSUME TypeInv, [Next]_vars PROVE TypeInv'
    OBVIOUS
  <1>1. ASSUME NEW t \in Tx, Credit(t)
        PROVE  TypeInv'
    <2>1. tick' \in Tick
      <3> DEFINE hashes == [tick.hashes EXCEPT ![t] = 0]
      <3>1. tick' = [tick EXCEPT !.hashes = hashes, !.remaining = @ \ {t}]
        BY <1>1 DEF Credit
      <3>2. tick \in Tick
        BY DEF TypeInv, TypeOK
      <3>3. hashes \in [Tx -> Hashes]
        BY <3>2, BoundsAssumption DEF Tick, Hashes
      <3>. HIDE DEF hashes
      <3>. QED  BY <3>1, <3>2, <3>3 DEF Tick
    <2>. QED
      BY <1>1, <2>1, CreditType
      DEF Credit, TypeInv, TypeOK, chainVars, clockVars, cancelVars
  <1>2. CASE UNCHANGED vars
    BY <1>2
    DEF vars, chainVars, clockVars, cancelVars, TypeInv, TypeOK, HasLatest,
        Versions
  <1>. QED
    BY <1>1, <1>2, ChainType, ClockAndEndpointsType, ScanType, SweepType,
       CancelType
    DEF Next, Environment, Poll

\* Every state of the watcher has the types of its rows and locals, for any
\* number of transfers and endpoints and any bound.
THEOREM TypeCorrect == Spec => []TypeOK
  <1>1. TypeInv => TypeOK
    BY DEF TypeInv
  <1>. QED  BY <1>1, InitType, NextType, PTL DEF Spec

-----------------------------------------------------------------------------
(* Only agreed transfers are confirmed, and for good *)

\* While a tick credits, every detected payment it did not prove on the chain
\* is at the sentinel height, beyond the reach of promotion: the sweep ran
\* first, on a full listing, and nothing since has undone it.
SweptBeforeCredit ==
    /\ pc # "idle" => tick.fullReplay
    /\ pc = "credit" =>
          /\ tick.remaining \subseteq AgreedKeys
          /\ \A t \in Tx : Unproven(t) => payments[t].blockNumber = Sentinel

Inv == TypeInv /\ SweptBeforeCredit

\* A row other than the credited one keeps its value or is promoted.
LEMMA OtherRows ==
    ASSUME TypeInv, NEW t \in Tx, Credit(t), NEW u \in Tx, u # t
    PROVE  \/ payments'[u] = payments[u]
           \/ /\ payments[u].status = "detected"
              /\ payments[u].blockNumber <= tick.latestSolid
  <1>1. Written(t)[u] = payments[u]
    BY DEF Written, TypeInv, TypeOK
  <1>2. CASE TransitionAndEnqueue(Written(t))
    BY <1>1, <1>2 DEF TransitionAndEnqueue, Promoted
  <1>3. CASE payments' = Written(t)
    BY <1>1, <1>3
  <1>. QED  BY <1>2, <1>3, CreditOutcome

\* No other step of the system than a credit or the sweep writes payments.
LEMMA PaymentWriters ==
    ASSUME [Next]_vars
    PROVE  \/ payments' = payments
           \/ SentinelSweep
           \/ \E t \in Tx : Credit(t)
  BY DEF Next, Environment, Poll, Mine, Reorg, AdvanceSolid, TtlElapses,
         GraceElapses, RegisterEndpoint, DeleteEndpoint, StartTick, Discover,
         DiscoverFails, FetchPrimary, FetchSecondary, SkipCandidate, EndTick,
         Crash, CancelRead, CancelWrite, vars

LEMMA SweptInit == Init => SweptBeforeCredit
  BY DEF Init, SweptBeforeCredit

LEMMA SweptStep == Inv /\ [Next]_vars => SweptBeforeCredit'
  <1> SUFFICES ASSUME Inv, [Next]_vars PROVE SweptBeforeCredit'
    OBVIOUS
  <1> USE DEF Inv, SweptBeforeCredit
  <1>1. CASE StartTick
    <2>1. pc' # "idle" => tick'.fullReplay
      BY <1>1
      DEF StartTick, NeedsUnresolvedFundsReplay, TypeInv, TypeOK, InvoiceRow,
          InvoiceStatus, Terminal, NonTerminal, NoTick
    <2>2. pc' # "credit"
      BY <1>1 DEF StartTick, TypeInv, TypeOK
    <2>. QED  BY <2>1, <2>2
  <1>2. CASE Discover
    BY <1>2 DEF Discover, TypeInv, TypeOK, Tick
  <1>3. CASE \E t \in Tx : \/ FetchPrimary(t) \/ FetchSecondary(t)
                          \/ SkipCandidate(t)
    BY <1>3
    DEF FetchPrimary, FetchSecondary, SkipCandidate, TypeInv, TypeOK, Tick
  <1>4. CASE DiscoverFails \/ EndTick \/ Crash
    BY <1>4 DEF DiscoverFails, EndTick, Crash
  <1>5. CASE SentinelSweep
    <2>1. tick'.fullReplay /\ tick'.remaining = AgreedKeys /\ AgreedKeys' = AgreedKeys
      BY <1>5 DEF SentinelSweep, TypeInv, TypeOK, Tick, AgreedKeys
    <2>2. ASSUME NEW t \in Tx, Unproven(t)'
          PROVE  payments'[t].blockNumber = Sentinel
      <3>1. payments'[t] = IF Unproven(t) THEN MarkUnconfirmed(payments[t])
                                          ELSE payments[t]
        BY <1>5 DEF SentinelSweep
      <3>2. /\ payments[t] \in PaymentRow
            /\ MarkUnconfirmed(payments[t]).status = payments[t].status
        BY DEF TypeInv, TypeOK, PaymentRow, MarkUnconfirmed
      <3>3. Unproven(t)
        BY <2>1, <2>2, <3>1, <3>2 DEF Unproven
      <3>. QED  BY <3>1, <3>2, <3>3 DEF PaymentRow, Unproven, MarkUnconfirmed
    <2>. QED  BY <2>1, <2>2
  <1>6. ASSUME NEW t \in Tx, Credit(t)
        PROVE  SweptBeforeCredit'
    <2>1. /\ pc = "credit" /\ pc' = pc
          /\ tick'.fullReplay = tick.fullReplay
          /\ tick'.remaining = tick.remaining \ {t}
          /\ t \in tick.remaining
          /\ tick'.agreed = tick.agreed
      BY <1>6 DEF Credit, TypeInv, TypeOK, Tick
    <2>2. AgreedKeys' = AgreedKeys
      BY <2>1 DEF AgreedKeys
    <2>3. ASSUME NEW u \in Tx, Unproven(u)'
          PROVE  payments'[u].blockNumber = Sentinel
      <3>1. u # t
        BY <2>1, <2>2, <2>3 DEF Unproven
      <3>2. CASE payments'[u] = payments[u]
        BY <2>1, <2>2, <2>3, <3>2 DEF Unproven
      <3>3. CASE /\ payments[u].status = "detected"
                 /\ payments[u].blockNumber <= tick.latestSolid
        <4>1. payments[u].blockNumber = Sentinel
          BY <2>1, <2>2, <2>3, <3>3 DEF Unproven
        <4>. QED
          BY <3>3, <4>1, SentinelType, BoundsAssumption
          DEF TypeInv, TypeOK, Tick
      <3>. QED  BY <1>6, <3>1, <3>2, <3>3, OtherRows
    <2>. QED  BY <2>1, <2>2, <2>3
  <1>7. CASE Environment \/ CancelRead \/ CancelWrite \/ UNCHANGED vars
    BY <1>7
    DEF Environment, Mine, Reorg, AdvanceSolid, TtlElapses, GraceElapses,
        RegisterEndpoint, DeleteEndpoint, CancelRead, CancelWrite, vars,
        Unproven, AgreedKeys
  <1>. QED
    BY <1>1, <1>2, <1>3, <1>4, <1>5, <1>6, <1>7 DEF Next, Poll

LEMMA Invariance == Spec => []Inv
  <1>1. Init => Inv
    BY InitType, SweptInit DEF Inv
  <1>2. Inv /\ [Next]_vars => Inv'
    BY NextType, SweptStep DEF Inv
  <1>. QED  BY <1>1, <1>2, PTL DEF Spec

\* Every credit is preceded by a complete sweep of the payments it could
\* promote by mistake.
THEOREM SweepPrecedesCredit == Spec => []SweptBeforeCredit
  BY Invariance, PTL DEF Inv

\* No payment becomes confirmed in a tick that did not prove it at both
\* providers, whatever the chain, the providers and the crashes do.
THEOREM OnlyAgreedConfirmed == Spec => ConfirmOnlyAgreed
  <1>1. ASSUME Inv, [Next]_vars, NEW u \in Tx, u \in Confirmed' \ Confirmed
        PROVE  u \in AgreedKeys
    <2>1. /\ payments'[u].status = "confirmed"
          /\ payments[u].status # "confirmed"
      BY <1>1 DEF Confirmed
    <2>2. CASE payments' = payments
      BY <2>1, <2>2
    <2>3. CASE SentinelSweep
      BY <2>1, <2>3
         DEF SentinelSweep, MarkUnconfirmed, Inv, TypeInv, TypeOK, PaymentRow
    <2>4. ASSUME NEW t \in Tx, Credit(t)
          PROVE  u \in AgreedKeys
      <3>1. pc = "credit" /\ t \in AgreedKeys
        BY <1>1, <2>4 DEF Credit, Inv, SweptBeforeCredit
      <3>2. CASE u = t
        BY <3>1, <3>2
      <3>3. CASE u # t
        <4>1. /\ payments[u].status = "detected"
              /\ payments[u].blockNumber <= tick.latestSolid
          BY <1>1, <2>1, <2>4, <3>3, OtherRows DEF Inv
        <4>2. payments[u].blockNumber # Sentinel
          BY <1>1, <4>1, SentinelType, BoundsAssumption
          DEF Inv, TypeInv, TypeOK, Tick
        <4>. QED
          BY <1>1, <3>1, <4>1, <4>2 DEF Inv, SweptBeforeCredit, Unproven
      <3>. QED  BY <3>2, <3>3
    <2>. QED  BY <1>1, <2>2, <2>3, <2>4, PaymentWriters
  <1>2. Inv /\ [Next]_vars
          => [\A t \in Tx : t \in Confirmed' \ Confirmed => t \in AgreedKeys]_vars
    BY <1>1
  <1>. QED  BY <1>2, Invariance, PTL DEF Spec, ConfirmOnlyAgreed

\* A confirmed payment row is never written again.
THEOREM ConfirmedForGood == Spec => ConfirmedIsImmutable
  <1>1. ASSUME Inv, [Next]_vars, NEW u \in Confirmed
        PROVE  payments'[u] = payments[u]
    <2>1. u \in Tx /\ payments[u].status = "confirmed"
      BY DEF Confirmed
    <2>2. CASE payments' = payments
      BY <2>2
    <2>3. CASE SentinelSweep
      BY <2>1, <2>3 DEF SentinelSweep, Unproven
    <2>4. ASSUME NEW t \in Tx, Credit(t)
          PROVE  payments'[u] = payments[u]
      <3>1. /\ Written(t)[u] = payments[u]
            /\ Promoted(Written(t))[u] = payments[u]
        BY <1>1, CreditKeepsConfirmed DEF Inv, TypeInv
      <3>. QED  BY <2>4, <3>1, CreditOutcome DEF TransitionAndEnqueue
    <2>. QED  BY <1>1, <2>2, <2>3, <2>4, PaymentWriters
  <1>2. Inv /\ [Next]_vars
          => [\A t \in Confirmed : payments'[t] = payments[t]]_vars
    BY <1>1
  <1>. QED  BY <1>2, Invariance, PTL DEF Spec, ConfirmedIsImmutable

-----------------------------------------------------------------------------
(* The invoice never claims more than was confirmed *)

LEMMA ConfirmedGrows ==
    ASSUME Inv, [Next]_vars
    PROVE  Confirmed \subseteq Confirmed'
  <1>1. ASSUME NEW u \in Confirmed
        PROVE  u \in Confirmed'
    <2>1. u \in Tx /\ payments[u].status = "confirmed"
      BY DEF Confirmed
    <2>2. CASE payments' = payments
      BY <2>1, <2>2 DEF Confirmed
    <2>3. CASE SentinelSweep
      BY <2>1, <2>3 DEF SentinelSweep, Unproven, Confirmed
    <2>4. ASSUME NEW t \in Tx, Credit(t)
          PROVE  u \in Confirmed'
      <3>1. /\ Written(t)[u] = payments[u]
            /\ Promoted(Written(t))[u] = payments[u]
        BY CreditKeepsConfirmed DEF Inv, TypeInv
      <3>2. payments'[u] = payments[u]
        BY <2>4, <3>1, CreditOutcome DEF TransitionAndEnqueue
      <3>. QED  BY <2>1, <3>2 DEF Confirmed
    <2>. QED  BY <2>2, <2>3, <2>4, PaymentWriters
  <1>. QED  BY <1>1

\* An invoice claims no more money than its confirmed payments moved, even
\* with providers whose solid height goes back and with racing cancels.
THEOREM ClaimsAreBacked == Spec => []ReceivedIsBacked
  <1>1. Init => ReceivedIsBacked
    BY TotalIsNat DEF Init, ReceivedIsBacked, Confirmed
  <1>2. ASSUME Inv, ReceivedIsBacked, [Next]_vars
        PROVE  ReceivedIsBacked'
    <2>1. /\ invoice.amountReceived \in Nat
          /\ TotalMicro(Confirmed) \in Nat /\ TotalMicro(Confirmed') \in Nat
          /\ TotalMicro(Confirmed) <= TotalMicro(Confirmed')
      <3>1. Confirmed' \subseteq Tx
        BY DEF Confirmed
      <3>. QED
        BY <1>2, <3>1, ConfirmedGrows, TotalIsNat, TotalMonotone
        DEF Inv, TypeInv, TypeOK, InvoiceRow, Confirmed
    <2>2. CASE invoice'.amountReceived = invoice.amountReceived
      BY <1>2, <2>1, <2>2 DEF ReceivedIsBacked
    <2>3. ASSUME NEW t \in Tx, Credit(t)
          PROVE  ReceivedIsBacked'
      <3>1. CASE TransitionAndEnqueue(Written(t))
        <4> DEFINE pays == Promoted(Written(t))
                   counted == ConfirmedSolid(pays, tick.latestSolid)
                   r == Decided(pays)
        <4>1. payments' = pays
          BY <3>1 DEF TransitionAndEnqueue
        <4>2. counted \subseteq Confirmed'
          BY <4>1 DEF ConfirmedSolid, Confirmed
        <4>3. TotalMicro(counted) <= TotalMicro(Confirmed')
          <5>1. Confirmed' \in SUBSET Tx /\ counted \in SUBSET Confirmed'
            BY <4>2 DEF Confirmed
          <5>. HIDE DEF counted
          <5>. QED  BY <5>1, TotalMonotone
        <4>4. r.amountReceived \in
                 {invoice.amountReceived, 0, TotalMicro(counted)}
          <5>1. Reports(invoice, TotalMicro(counted), r)
            BY <1>2, TransitionReports
            DEF Decided, Inv, TypeInv, TypeOK, Tick
          <5>. QED  BY <5>1 DEF Reports
        <4>5. invoice'.amountReceived \in
                 {invoice.amountReceived, r.amountReceived}
          BY <3>1 DEF TransitionAndEnqueue
        <4>. HIDE DEF counted, r, pays
        <4>. QED
          BY <1>2, <2>1, <4>3, <4>4, <4>5 DEF ReceivedIsBacked
      <3>2. CASE invoice' = invoice
        BY <2>2, <3>2
      <3>. QED  BY <2>3, <3>1, <3>2, CreditOutcome
    <2>4. CASE CancelWrite
      BY <1>2, <2>2, <2>4 DEF CancelWrite, Inv, TypeInv, TypeOK, InvoiceRow
    <2>5. CASE invoice' = invoice
      BY <2>2, <2>5
    <2>. QED
      BY <1>2, <2>3, <2>4, <2>5
      DEF Next, Environment, Poll, Mine, Reorg, AdvanceSolid, TtlElapses,
          GraceElapses, RegisterEndpoint, DeleteEndpoint, StartTick, Discover,
          DiscoverFails, FetchPrimary, FetchSecondary, SkipCandidate,
          SentinelSweep, EndTick, Crash, CancelRead, vars
  <1>. QED  BY <1>1, <1>2, Invariance, PTL DEF Spec

-----------------------------------------------------------------------------
(* With providers that never lag, the invoice claims no less either         *)

\* What a decision is, given the total it was taken on: a change is told by
\* the event of the new status; a closed invoice changes only for more money
\* than it has; an open one always reports the total.
Judged(inv, total, r) ==
    /\ r.newStatus \in InvoiceStatus
    /\ r.changed => r.webhookEvent = EventOf[r.newStatus]
                    /\ r.webhookEvent \in Event
    /\ ~r.changed => r.newStatus = inv.status
    /\ inv.status \in Terminal =>
          /\ r.changed <=> total > inv.amountReceived
          /\ r.changed => r.newStatus = "overdue" /\ r.amountReceived = total
          /\ ~r.changed => r.amountReceived = inv.amountReceived
    /\ inv.status \in NonTerminal => r.amountReceived = total

LEMMA EventOfChange ==
    /\ EventOf["overdue"] = "late_funds"
    /\ \A s \in {"paid", "overpaid", "underpaid", "expired",
                 "payment_detected"} : EventOf[s] = s
  BY DEF EventOf, InvoiceStatus, Terminal, NonTerminal

LEMMA TerminalJudged ==
    ASSUME NEW inv \in InvoiceRow, NEW total \in Nat,
           inv.status \in Terminal
    PROVE  Judged(inv, total, TransitionTerminal(inv, total))
  BY EventOfChange
  DEF Judged, TransitionTerminal, NoChange, Result, InvoiceRow, Event,
      InvoiceStatus, Terminal, NonTerminal

LEMMA SolidJudged ==
    ASSUME NEW inv \in InvoiceRow, NEW total \in Nat, NEW band,
           NEW isExpired \in BOOLEAN, inv.status \in NonTerminal
    PROVE  Judged(inv, total, TransitionSolid(inv, total, band, isExpired))
  <1> DEFINE decision == Decision(total, band)
             r == TransitionSolid(inv, total, band, isExpired)
  <1> USE EventOfChange
      DEF Judged, Result, Event, InvoiceStatus, Terminal, NonTerminal
  <1>1. CASE decision \in {"paid", "overpaid"}
    <2>1. r = Result(decision, TRUE, decision, total, TRUE)
      BY <1>1 DEF TransitionSolid
    <2>. QED  BY <1>1, <2>1
  <1>2. CASE decision \notin {"paid", "overpaid"} /\ isExpired
    <2>1. r = Result("underpaid", TRUE, "underpaid", total, FALSE)
      BY <1>2 DEF TransitionSolid
    <2>. QED  BY <2>1
  <1>3. CASE decision \notin {"paid", "overpaid"} /\ ~isExpired
    <2>1. r = Result("payment_detected", inv.status # "payment_detected",
                     IF inv.status = "payment_detected"
                       THEN "none" ELSE "payment_detected",
                     total, FALSE)
      BY <1>3 DEF TransitionSolid
    <2>2. CASE inv.status = "payment_detected"
      <3>1. r = Result("payment_detected", FALSE, "none", total, FALSE)
        BY <2>1, <2>2
      <3>. QED  BY <2>2, <3>1
    <2>3. CASE inv.status # "payment_detected"
      <3>1. r = Result("payment_detected", TRUE, "payment_detected", total,
                       FALSE)
        BY <2>1, <2>3
      <3>. QED  BY <2>3, <3>1
    <2>. QED  BY <2>2, <2>3
  <1>. QED  BY <1>1, <1>2, <1>3

LEMMA UnsolidJudged ==
    ASSUME NEW inv \in InvoiceRow, NEW hasDetected \in BOOLEAN,
           NEW isExpired \in BOOLEAN, inv.status \in NonTerminal
    PROVE  Judged(inv, 0, TransitionUnsolid(inv, hasDetected, isExpired))
  BY EventOfChange
  DEF Judged, TransitionUnsolid, NoChange, Result, InvoiceRow, Event,
      InvoiceStatus, Terminal, NonTerminal

LEMMA TransitionJudged ==
    ASSUME NEW inv \in InvoiceRow, NEW pays, NEW solid, NEW band,
           NEW isExpired \in BOOLEAN
    PROVE  Judged(inv, TotalMicro(ConfirmedSolid(pays, solid)),
                  TransitionInvoice(inv, pays, solid, band, isExpired))
  <1> DEFINE counted == ConfirmedSolid(pays, solid)
             r == TransitionInvoice(inv, pays, solid, band, isExpired)
             hasDetected == \E t \in Tx : pays[t].status = "detected"
  <1>1. TotalMicro(counted) \in Nat
    BY TotalIsNat DEF ConfirmedSolid
  <1>2. inv.status \in Terminal \/ inv.status \in NonTerminal
    BY DEF InvoiceRow, InvoiceStatus
  <1>3. CASE inv.status \in Terminal
    BY <1>1, <1>3, TerminalJudged DEF TransitionInvoice
  <1>4. CASE inv.status \in NonTerminal /\ counted # {}
    <2>1. r = TransitionSolid(inv, TotalMicro(counted), band, isExpired)
      BY <1>4 DEF TransitionInvoice, Terminal, NonTerminal
    <2>. QED  BY <1>1, <1>4, <2>1, SolidJudged
  <1>5. CASE inv.status \in NonTerminal /\ counted = {}
    <2>1. r = TransitionUnsolid(inv, hasDetected, isExpired)
      BY <1>5 DEF TransitionInvoice, Terminal, NonTerminal
    <2>. QED  BY <1>5, <2>1, TotalOfNone, UnsolidJudged
  <1>. QED  BY <1>2, <1>3, <1>4, <1>5

\* The two outcomes of a credit transaction, and when the second is taken.
LEMMA CreditCases ==
    ASSUME NEW t \in Tx, Credit(t)
    PROVE  \/ TransitionAndEnqueue(Written(t))
           \/ /\ Known(t) /\ ~Orphans(t) /\ ~Ripe(t)
              /\ payments' = Written(t)
              /\ deliveries' = ReplayMissingWebhook(Written(t))
              /\ invoice' = invoice
  BY DEF Credit, CreditTransfer

\* upsert never makes a row that was there already a confirmed one.
LEMMA UpsertConfirms ==
    ASSUME TypeOK, NEW t \in Tx, Upserted(t).status = "confirmed"
    PROVE  \/ t \in Confirmed /\ Upserted(t) = payments[t]
           \/ ~Known(t) /\ Upserted(t).blockNumber <= tick.latestSolid
  <1>1. payments[t] \in PaymentRow
    BY DEF TypeOK
  <1>2. CASE payments[t].status = "none"
    BY <1>2 DEF Upserted, Upsert, Known
  <1>3. CASE payments[t].status = "detected"
    BY <1>1, <1>3 DEF Upserted, Upsert, PaymentRow
  <1>4. CASE payments[t].status \notin {"none", "detected"}
    BY <1>1, <1>4 DEF Upserted, Upsert, Confirmed
  <1>. QED  BY <1>2, <1>3, <1>4

\* A row confirmed by a credit transaction is at or below the tick's fence.
LEMMA NewlyConfirmed ==
    ASSUME TypeOK, NEW t \in Tx, TransitionAndEnqueue(Written(t)),
           NEW u \in Confirmed' \ Confirmed
    PROVE  payments'[u].blockNumber <= tick.latestSolid
  <1> DEFINE row == Written(t)[u]
  <1>1. /\ u \in Tx /\ payments'[u] = Promoted(Written(t))[u]
        /\ payments'[u].status = "confirmed"
        /\ payments[u].status # "confirmed"
    BY DEF Confirmed, TransitionAndEnqueue
  <1>2. row \in PaymentRow
    BY <1>1, WrittenType
  <1>3. CASE row.status = "detected" /\ row.blockNumber <= tick.latestSolid
    BY <1>1, <1>2, <1>3 DEF Promoted, PaymentRow
  <1>4. CASE ~(row.status = "detected" /\ row.blockNumber <= tick.latestSolid)
    <2>1. payments'[u] = row /\ row.status = "confirmed"
      BY <1>1, <1>4 DEF Promoted
    <2>2. u = t
      BY <1>1, <2>1 DEF Written, TypeOK
    <2>3. row = Upserted(t)
      <3>1. Upserted(t) \in PaymentRow
        BY UpsertedType
      <3>2. Orphans(t) => row.status = "orphaned"
        BY <2>2, <3>1 DEF Written, TypeOK, PaymentRow
      <3>. QED  BY <2>1, <2>2, <3>2 DEF Written, TypeOK
    <2>. QED  BY <1>1, <2>1, <2>2, <2>3, UpsertConfirms DEF Confirmed
  <1>. QED  BY <1>3, <1>4

\* A credit that does not re-decide the invoice confirms nothing.
LEMMA QuietCredit ==
    ASSUME TypeOK, NEW t \in Tx, Known(t), ~Orphans(t), ~Ripe(t),
           payments' = Written(t)
    PROVE  Confirmed' = Confirmed
  <1>1. ASSUME NEW u \in Tx
        PROVE  u \in Confirmed' <=> u \in Confirmed
    <2>1. CASE u # t
      BY <2>1 DEF Written, TypeOK, Confirmed
    <2>2. CASE u = t
      <3>1. payments'[u] = Upserted(t)
        BY <2>2 DEF Written, TypeOK
      <3>2. t \in Confirmed => Upserted(t) = payments[t]
        BY DEF Confirmed, Upserted, Upsert
      <3>. QED  BY <2>2, <3>1, <3>2, UpsertConfirms DEF Confirmed
    <2>. QED  BY <2>1, <2>2
  <1>. QED  BY <1>1 DEF Confirmed

LEMMA SweepKeepsConfirmed ==
    ASSUME TypeOK, SentinelSweep
    PROVE  Confirmed' = Confirmed
  <1>1. ASSUME NEW u \in Tx
        PROVE  payments'[u].status = payments[u].status
    BY DEF SentinelSweep, MarkUnconfirmed, TypeOK, PaymentRow
  <1>. QED  BY <1>1 DEF Confirmed

\* The steps of a tick between its first read and its first write leave the
\* rows alone, and the fence and clock that were read; no candidate found
\* later changes them.
LEMMA ScanSteps ==
    ASSUME TypeOK,
           \/ Discover
           \/ \E t \in Tx : \/ FetchPrimary(t) \/ FetchSecondary(t)
                            \/ SkipCandidate(t)
    PROVE  /\ pc # "idle" /\ pc' = "receipts"
           /\ tick'.latestSolid = tick.latestSolid
           /\ tick'.expired = tick.expired
           /\ UNCHANGED <<chainVars, clockVars, invoice, payments, deliveries,
                          endpoints, cancelVars>>
  <1>1. tick \in Tick
    BY DEF TypeOK
  <1>2. CASE Discover
    BY <1>1, <1>2 DEF Discover, Tick
  <1>3. ASSUME NEW t \in Tx, FetchPrimary(t)
        PROVE  /\ pc = "receipts" /\ pc' = pc
               /\ tick'.latestSolid = tick.latestSolid
               /\ tick'.expired = tick.expired
               /\ UNCHANGED <<chainVars, clockVars, invoice, payments,
                              deliveries, endpoints, cancelVars>>
    BY <1>1, <1>3 DEF FetchPrimary, Tick
  <1>4. ASSUME NEW t \in Tx, FetchSecondary(t) \/ SkipCandidate(t)
        PROVE  /\ pc = "receipts" /\ pc' = pc
               /\ tick'.latestSolid = tick.latestSolid
               /\ tick'.expired = tick.expired
               /\ UNCHANGED <<chainVars, clockVars, invoice, payments,
                              deliveries, endpoints, cancelVars>>
    BY <1>1, <1>4 DEF FetchSecondary, SkipCandidate, Tick
  <1>. QED  BY <1>2, <1>3, <1>4

\* However a tick ends, it only forgets.
LEMMA TickEnds ==
    ASSUME DiscoverFails \/ EndTick \/ Crash
    PROVE  /\ pc' = "idle" /\ tick' = NoTick
           /\ NoTick.latestSolid = 0 /\ NoTick.expired = FALSE
           /\ UNCHANGED <<chainVars, clockVars, invoice, payments, deliveries,
                          endpoints, cancelVars>>
  <1>1. NoTick.latestSolid = 0 /\ NoTick.expired = FALSE
    BY DEF NoTick
  <1>. QED  BY <1>1 DEF DiscoverFails, EndTick, Crash

\* Confirmed payments stay below the solid height, and below the height the
\* current tick was fenced with: a fence never falls behind an earlier one.
FencesRise ==
    /\ tick.latestSolid <= solidHeight
    /\ \A t \in Confirmed : payments[t].blockNumber <= solidHeight
    /\ pc # "idle" =>
          \A t \in Confirmed : payments[t].blockNumber <= tick.latestSolid

LEMMA FencesInit == Init => FencesRise
  BY BoundsAssumption DEF Init, FencesRise, NoTick, Confirmed, NoRow

LEMMA FencesStep ==
    ASSUME MaxLag = 0, Inv, FencesRise, [Next]_vars
    PROVE  FencesRise'
  <1> USE DEF FencesRise
  <1>1. /\ solidHeight \in Nat /\ tick.latestSolid \in Nat
        /\ \A t \in Confirmed : payments[t].blockNumber \in Nat
    BY SentinelType, BoundsAssumption
    DEF Inv, TypeInv, TypeOK, Tick, PaymentRow, Confirmed
  <1>2. ASSUME NEW t \in Tx, Credit(t)
        PROVE  FencesRise'
    <2>1. /\ solidHeight' = solidHeight /\ pc = "credit" /\ pc' = pc
          /\ tick'.latestSolid = tick.latestSolid
      BY <1>2 DEF Credit, chainVars, Inv, TypeInv, TypeOK, Tick
    <2>2. ASSUME NEW u \in Confirmed'
          PROVE  payments'[u].blockNumber <= tick.latestSolid
      <3>1. CASE u \in Confirmed
        <4>1. /\ Written(t)[u] = payments[u]
              /\ Promoted(Written(t))[u] = payments[u]
          BY <3>1, CreditKeepsConfirmed DEF Inv, TypeInv
        <4>2. payments'[u] = payments[u]
          BY <1>2, <4>1, CreditOutcome DEF TransitionAndEnqueue
        <4>. QED  BY <2>1, <3>1, <4>2
      <3>2. CASE u \notin Confirmed
        <4>1. TransitionAndEnqueue(Written(t))
          BY <1>2, <2>2, <3>2, CreditCases, QuietCredit DEF Inv, TypeInv
        <4>. QED  BY <2>2, <3>2, <4>1, NewlyConfirmed DEF Inv, TypeInv
      <3>. QED  BY <3>1, <3>2
    <2>3. \A u \in Confirmed' : payments'[u].blockNumber \in Nat
      BY <1>2, CreditType, SentinelType DEF Inv, PaymentRow, Confirmed
    <2>. QED  BY <1>1, <2>1, <2>2, <2>3
  <1>3. CASE SentinelSweep
    <2>1. Confirmed' = Confirmed
      BY <1>3, SweepKeepsConfirmed DEF Inv, TypeInv
    <2>2. \A u \in Confirmed : payments'[u] = payments[u]
      BY <1>3 DEF SentinelSweep, Unproven, Confirmed
    <2>. QED
      BY <1>3, <2>1, <2>2
      DEF SentinelSweep, chainVars, Inv, TypeInv, TypeOK, Tick
  <1>4. CASE StartTick
    <2>1. PICK s \in {h \in 0 .. solidHeight : h + MaxLag >= solidHeight} :
             \/ UNCHANGED <<pc, tick>>
             \/ pc' = "discover" /\ tick'.latestSolid = s
      BY <1>4 DEF StartTick, NoTick
    <2>2. s = solidHeight
      BY <1>1
    <2>3. solidHeight' = solidHeight /\ payments' = payments
      BY <1>4 DEF StartTick, chainVars
    <2>. QED  BY <1>1, <2>1, <2>2, <2>3 DEF Confirmed
  <1>5. CASE AdvanceSolid
    BY <1>1, <1>5 DEF AdvanceSolid, Confirmed
  <1>6. CASE DiscoverFails \/ EndTick \/ Crash
    <2>1. /\ pc' = "idle" /\ tick'.latestSolid = 0
          /\ solidHeight' = solidHeight /\ payments' = payments
      BY <1>6, TickEnds DEF chainVars
    <2>. QED  BY <1>1, <2>1 DEF Confirmed
  <1>7. CASE \/ Discover
             \/ \E t \in Tx : \/ FetchPrimary(t) \/ FetchSecondary(t)
                              \/ SkipCandidate(t)
    <2>1. /\ pc # "idle" /\ tick'.latestSolid = tick.latestSolid
          /\ solidHeight' = solidHeight /\ payments' = payments
      BY <1>7, ScanSteps DEF Inv, TypeInv, chainVars
    <2>. QED  BY <2>1 DEF Confirmed
  <1>8. CASE \/ \E t \in Tx : Mine(t) \/ Reorg(t)
             \/ TtlElapses \/ GraceElapses
             \/ \E e \in Endpoints : RegisterEndpoint(e) \/ DeleteEndpoint(e)
             \/ CancelRead \/ CancelWrite \/ UNCHANGED vars
    <2>1. UNCHANGED <<solidHeight, payments, pc, tick>>
      BY <1>8
      DEF Mine, Reorg, TtlElapses, GraceElapses, RegisterEndpoint,
          DeleteEndpoint, CancelRead, CancelWrite, vars, chainVars
    <2>. QED  BY <2>1 DEF Confirmed
  <1>. QED
    BY <1>2, <1>3, <1>4, <1>5, <1>6, <1>7, <1>8 DEF Next, Environment, Poll

\* Under a fence that never falls behind, a decision counts every confirmed
\* payment and none else.
LEMMA CountsConfirmed ==
    ASSUME Inv, FencesRise, NEW t \in Tx, pc = "credit",
           TransitionAndEnqueue(Written(t))
    PROVE  ConfirmedSolid(Promoted(Written(t)), tick.latestSolid) = Confirmed'
  <1>1. payments' = Promoted(Written(t))
    BY DEF TransitionAndEnqueue
  <1>2. ASSUME NEW u \in Confirmed'
        PROVE  payments'[u].blockNumber <= tick.latestSolid
    <2>1. CASE u \in Confirmed
      <3>1. payments'[u] = payments[u]
        BY <1>1, <2>1, CreditKeepsConfirmed DEF Inv, TypeInv
      <3>. QED  BY <2>1, <3>1 DEF FencesRise
    <2>2. CASE u \notin Confirmed
      BY <2>2, NewlyConfirmed DEF Inv, TypeInv
    <2>. QED  BY <2>1, <2>2
  <1>. QED  BY <1>1, <1>2 DEF ConfirmedSolid, Confirmed

\* The verdict a credit transaction stores, as a judgement on the money that
\* is confirmed once it has committed.
LEMMA CreditJudged ==
    ASSUME Inv, FencesRise, NEW t \in Tx, pc = "credit",
           TransitionAndEnqueue(Written(t))
    PROVE  LET r == Decided(Promoted(Written(t)))
           IN  /\ Judged(invoice, TotalMicro(Confirmed'), r)
               /\ TotalMicro(Confirmed') \in Nat
               /\ invoice'.status = r.newStatus
               /\ invoice'.amountReceived = r.amountReceived
               /\ deliveries' =
                     IF r.changed
                       THEN Enqueue(deliveries, EventOf[r.newStatus],
                                    r.amountReceived)
                       ELSE deliveries
  <1> DEFINE r == Decided(Promoted(Written(t)))
  <1>1. Judged(invoice, TotalMicro(Confirmed'), r)
    BY CountsConfirmed, TransitionJudged
    DEF Decided, Inv, TypeInv, TypeOK, Tick
  <1>2. TotalMicro(Confirmed') \in Nat
    BY TotalIsNat DEF Confirmed
  <1>. HIDE DEF r
  <1>3. /\ invoice'.status = r.newStatus
        /\ invoice'.amountReceived = r.amountReceived
    <2>1. CASE r.changed \/ r.amountReceived # invoice.amountReceived
      BY <2>1 DEF TransitionAndEnqueue, r
    <2>2. CASE ~r.changed /\ r.amountReceived = invoice.amountReceived
      BY <1>1, <2>2 DEF TransitionAndEnqueue, r, Judged
    <2>. QED  BY <2>1, <2>2
  <1>4. deliveries' = IF r.changed THEN Enqueue(deliveries,
                                               EventOf[r.newStatus],
                                               r.amountReceived)
                                   ELSE deliveries
    <2>1. CASE r.changed
      <3>1. r.webhookEvent = EventOf[r.newStatus] /\ r.webhookEvent # "none"
        BY <1>1, <2>1 DEF Judged, Event
      <3>. QED  BY <2>1, <3>1 DEF TransitionAndEnqueue, r
    <2>2. CASE ~r.changed
      BY <2>2 DEF TransitionAndEnqueue, r
    <2>. QED  BY <2>1, <2>2
  <1>. QED  BY <1>1, <1>2, <1>3, <1>4 DEF r

\* A step that is no credit writes neither the amount nor a confirmed row.
LEMMA QuietSteps ==
    ASSUME Inv, [Next]_vars, ~\E t \in Tx : Credit(t)
    PROVE  /\ Confirmed' = Confirmed
           /\ deliveries' = deliveries
           /\ invoice'.amountReceived = invoice.amountReceived
           /\ ~CancelWrite => invoice' = invoice
           /\ CancelWrite => invoice'.status = "canceled"
  <1>1. CASE SentinelSweep
    <2>1. Confirmed' = Confirmed
      BY <1>1, SweepKeepsConfirmed DEF Inv, TypeInv
    <2>2. UNCHANGED <<invoice, deliveries>> /\ pc = "receipts"
      BY <1>1 DEF SentinelSweep
    <2>3. CancelWrite => invoice'.status = "canceled"
      BY DEF CancelWrite, Inv, TypeInv, TypeOK, InvoiceRow
    <2>. QED  BY <2>1, <2>2, <2>3
  <1>2. CASE CancelWrite
    BY <1>2 DEF CancelWrite, Inv, TypeInv, TypeOK, InvoiceRow, Confirmed
  <1>3. CASE ~SentinelSweep /\ ~CancelWrite
    <2>1. UNCHANGED <<invoice, payments, deliveries>>
      BY <1>3
      DEF Next, Environment, Poll, Mine, Reorg, AdvanceSolid, TtlElapses,
          GraceElapses, RegisterEndpoint, DeleteEndpoint, StartTick, Discover,
          DiscoverFails, FetchPrimary, FetchSecondary, SkipCandidate, EndTick,
          Crash, CancelRead, vars
    <2>. QED  BY <1>3, <2>1 DEF Confirmed
  <1>. QED  BY <1>1, <1>2, <1>3

LEMMA ExactStep ==
    ASSUME Inv, FencesRise, ReceivedIsExact, [Next]_vars
    PROVE  ReceivedIsExact'
  <1>1. ASSUME NEW t \in Tx, Credit(t)
        PROVE  ReceivedIsExact'
    <2>1. pc = "credit"
      BY <1>1 DEF Credit
    <2>2. CASE TransitionAndEnqueue(Written(t))
      <3> DEFINE r == Decided(Promoted(Written(t)))
      <3>1. /\ Judged(invoice, TotalMicro(Confirmed'), r)
            /\ TotalMicro(Confirmed') \in Nat
            /\ invoice'.amountReceived = r.amountReceived
        BY <2>1, <2>2, CreditJudged
      <3>2. /\ TotalMicro(Confirmed) <= TotalMicro(Confirmed')
            /\ TotalMicro(Confirmed) \in Nat
        BY ConfirmedGrows, TotalMonotone, TotalIsNat DEF Confirmed
      <3>3. invoice.status \in Terminal \/ invoice.status \in NonTerminal
        BY DEF Inv, TypeInv, TypeOK, InvoiceRow, InvoiceStatus
      <3>. HIDE DEF r
      <3>4. r.amountReceived = TotalMicro(Confirmed')
        BY <3>1, <3>2, <3>3 DEF Judged, ReceivedIsExact
      <3>. QED  BY <3>1, <3>4 DEF ReceivedIsExact
    <2>3. CASE /\ Known(t) /\ ~Orphans(t) /\ ~Ripe(t)
               /\ payments' = Written(t) /\ invoice' = invoice
      BY <2>3, QuietCredit DEF Inv, TypeInv, ReceivedIsExact
    <2>. QED  BY <1>1, <2>2, <2>3, CreditCases
  <1>2. CASE ~\E t \in Tx : Credit(t)
    BY <1>2, QuietSteps DEF ReceivedIsExact
  <1>. QED  BY <1>1, <1>2

LEMMA ExactInvariance ==
    ASSUME MaxLag = 0
    PROVE  Spec => [](Inv /\ FencesRise /\ ReceivedIsExact)
  <1>1. Init => FencesRise /\ ReceivedIsExact
    BY FencesInit, TotalOfNone DEF Init, ReceivedIsExact, Confirmed, NoRow
  <1>2. Inv /\ FencesRise /\ ReceivedIsExact /\ [Next]_vars
          => FencesRise' /\ ReceivedIsExact'
    BY FencesStep, ExactStep
  <1>. QED  BY <1>1, <1>2, Invariance, PTL DEF Spec

\* When no provider reports a solid height lower than it did before, every
\* micro-USDT that was confirmed is in the amount received, in every state:
\* between two transactions, after a crash, and whatever the API cancels.
THEOREM ClaimsAreExact ==
    ASSUME MaxLag = 0
    PROVE  Spec => []ReceivedIsExact
  BY ExactInvariance, PTL

-----------------------------------------------------------------------------
(* The watcher implements the ledger                                       *)

\* The vocabulary of the ledger is the watcher's.
LEMMA LedgerWords ==
    /\ Ledger!Terminal = Terminal /\ Ledger!NonTerminal = NonTerminal
    /\ Ledger!InvoiceStatus = InvoiceStatus
    /\ \A S : Ledger!TotalMicro(S) = TotalMicro(S)
    /\ Ledger!Enough = Band.lowerBound /\ Ledger!TooMuch = Band.upperBound
  <1>1. ASSUME NEW S
        PROVE  Ledger!TotalMicro(S) = TotalMicro(S)
    BY DEF Ledger!TotalMicro, TotalMicro, Ledger!Units, Units,
           Ledger!Cardinality, Cardinality
  <1>. QED
    BY <1>1
    DEF Ledger!Terminal, Terminal, Ledger!NonTerminal, NonTerminal,
        Ledger!InvoiceStatus, InvoiceStatus, Ledger!Enough, Ledger!TooMuch,
        Band, Ledger!ComputeToleranceBand, ComputeToleranceBand

\* Nobody cancels, and a tick that saw the window closed was right.
NoCancels == cancelPc = "idle" /\ cancels = 0

WindowSeen == tick.expired => expired

LEMMA NoCancelsStep ==
    ASSUME MaxCancels = 0, NoCancels, [Next]_vars
    PROVE  NoCancels' /\ ~CancelRead /\ ~CancelWrite
  <1>1. ~CancelRead /\ ~CancelWrite
    BY DEF NoCancels, CancelRead, CancelWrite
  <1>. QED
    BY <1>1
    DEF NoCancels, Next, Environment, Poll, Mine, Reorg, AdvanceSolid,
        TtlElapses, GraceElapses, RegisterEndpoint, DeleteEndpoint, StartTick,
        Discover, DiscoverFails, FetchPrimary, FetchSecondary, SkipCandidate,
        SentinelSweep, Credit, EndTick, Crash, cancelVars, vars

LEMMA WindowSeenStep ==
    ASSUME Inv, WindowSeen, [Next]_vars
    PROVE  WindowSeen'
  <1> USE DEF WindowSeen
  <1>1. CASE StartTick
    <2>1. expired' = expired
      BY <1>1 DEF StartTick, clockVars
    <2>2. tick' = tick \/ tick'.expired = expired
      BY <1>1 DEF StartTick, NoTick
    <2>. QED  BY <2>1, <2>2
  <1>2. CASE DiscoverFails \/ EndTick \/ Crash
    <2>1. tick'.expired = FALSE
      BY <1>2, TickEnds
    <2>. QED  BY <2>1
  <1>3. CASE \/ Discover
             \/ \E t \in Tx : \/ FetchPrimary(t) \/ FetchSecondary(t)
                              \/ SkipCandidate(t)
    <2>1. tick'.expired = tick.expired /\ expired' = expired
      BY <1>3, ScanSteps DEF Inv, TypeInv, clockVars
    <2>. QED  BY <2>1
  <1>4. CASE SentinelSweep \/ \E t \in Tx : Credit(t)
    <2>1. tick'.expired = tick.expired /\ expired' = expired
      BY <1>4
      DEF SentinelSweep, Credit, clockVars, Inv, TypeInv, TypeOK, Tick
    <2>. QED  BY <2>1
  <1>5. CASE Environment \/ CancelRead \/ CancelWrite \/ UNCHANGED vars
    <2>1. tick' = tick /\ (expired' = expired \/ expired' = TRUE)
      BY <1>5
      DEF Environment, Mine, Reorg, AdvanceSolid, TtlElapses, GraceElapses,
          RegisterEndpoint, DeleteEndpoint, CancelRead, CancelWrite, vars,
          clockVars
    <2>. QED  BY <2>1
  <1>. QED  BY <1>1, <1>2, <1>3, <1>4, <1>5 DEF Next, Poll

\* An open invoice becomes what the ledger's verdict on its total allows, or
\* nothing happens to it.
LEMMA OpenVerdict ==
    ASSUME Inv, FencesRise, ReceivedIsExact, WindowSeen, NEW t \in Tx,
           pc = "credit", TransitionAndEnqueue(Written(t)),
           invoice.status \in NonTerminal, Confirmed \subseteq Confirmed'
    PROVE  \/ invoice'.status \in Ledger!Verdict(TotalMicro(Confirmed'))
           \/ Confirmed' = Confirmed /\ invoice'.status = invoice.status
  <1> DEFINE total == TotalMicro(Confirmed')
             r == Decided(Promoted(Written(t)))
             hasDetected ==
                \E u \in Tx : Promoted(Written(t))[u].status = "detected"
  <1>1. invoice'.status = r.newStatus /\ total \in Nat
    BY CreditJudged
  <1>2. /\ Band.lowerBound \in Nat /\ Band.upperBound \in Nat
    BY PriceAssumption, BandBracketsQuote DEF Band
  <1>3. tick.expired \in BOOLEAN /\ (tick.expired => expired)
    BY DEF Inv, TypeInv, TypeOK, Tick, WindowSeen
  <1>4. invoice.status \notin Terminal
    BY DEF Terminal, NonTerminal
  <1>5. ConfirmedSolid(Promoted(Written(t)), tick.latestSolid) = Confirmed'
    BY CountsConfirmed
  <1>6. CASE Confirmed' # {}
    <2>1. r = TransitionSolid(invoice, total, Band, tick.expired)
      BY <1>4, <1>5, <1>6 DEF Decided, TransitionInvoice, Band
    <2>2. total > 0
      BY <1>1, <1>6, TotalStrict, TotalOfNone DEF Confirmed
    <2> DEFINE decision == Decision(total, Band)
    <2>. HIDE DEF total
    <2>3. \/ decision = "overpaid" /\ total > Band.upperBound
          \/ decision = "paid" /\ total \in Band.lowerBound .. Band.upperBound
          \/ decision = "underpaid" /\ total < Band.lowerBound
      BY <1>1, <1>2, <2>2 DEF Decision
    <2>4. CASE decision \in {"paid", "overpaid"}
      <3>1. r.newStatus = decision
        BY <2>1, <2>4 DEF TransitionSolid, Result
      <3>. QED
        BY <1>1, <2>2, <2>3, <2>4, <3>1, LedgerWords
        DEF Ledger!Verdict, InvoiceStatus, Terminal, total
    <2>5. CASE decision = "underpaid" /\ tick.expired
      <3>1. r.newStatus = "underpaid"
        BY <2>1, <2>5 DEF TransitionSolid, Result
      <3>. QED
        BY <1>1, <1>3, <2>2, <2>3, <2>5, <3>1, LedgerWords
        DEF Ledger!Verdict, InvoiceStatus, Terminal, total
    <2>6. CASE decision = "underpaid" /\ ~tick.expired
      <3>1. r.newStatus = "payment_detected"
        BY <2>1, <2>6 DEF TransitionSolid, Result
      <3>. QED
        BY <1>1, <2>3, <2>6, <3>1, LedgerWords
        DEF Ledger!Verdict, InvoiceStatus, NonTerminal, total
    <2>. QED  BY <1>3, <2>3, <2>4, <2>5, <2>6
  <1>7. CASE Confirmed' = {}
    <2>1. r = TransitionUnsolid(invoice, hasDetected, tick.expired)
      BY <1>4, <1>5, <1>7 DEF Decided, TransitionInvoice
    <2>2. total = 0 /\ Confirmed' = Confirmed
      BY <1>7, TotalOfNone
    <2>3. \/ r.newStatus = "expired" /\ tick.expired
          \/ r.newStatus = "payment_detected"
          \/ r.newStatus = invoice.status
      BY <2>1 DEF TransitionUnsolid, NoChange, Result
    <2>. QED
      BY <1>1, <1>3, <2>2, <2>3, LedgerWords
      DEF Ledger!Verdict, InvoiceStatus, Terminal, NonTerminal
  <1>. QED  BY <1>6, <1>7

\* Each credit transaction is one acceptance of the ledger, or none.
LEMMA CreditIsAcceptance ==
    ASSUME Inv, FencesRise, ReceivedIsExact, WindowSeen, [Next]_vars,
           NEW t \in Tx, Credit(t)
    PROVE  [Ledger!LedgerNext]_(Ledger!ledgerVars)
  <1> DEFINE new == Confirmed' \ Confirmed
  <1>1. /\ Confirmed \subseteq Confirmed' /\ Confirmed' \subseteq Tx
        /\ new \in SUBSET (Tx \ Confirmed) /\ Confirmed' = Confirmed \cup new
    BY ConfirmedGrows DEF Confirmed
  <1>2. expired' = expired /\ pc = "credit"
    BY DEF Credit, clockVars
  <1>3. invoice'.amountReceived = TotalMicro(Confirmed')
    BY ExactStep DEF ReceivedIsExact
  <1>4. invoice.amountReceived = TotalMicro(Confirmed)
    BY DEF ReceivedIsExact
  <1>5. CASE Confirmed' = Confirmed /\ invoice'.status = invoice.status
    BY <1>2, <1>3, <1>4, <1>5 DEF Ledger!ledgerVars
  <1>6. CASE TransitionAndEnqueue(Written(t)) /\ invoice.status \in NonTerminal
    <2>1. CASE invoice'.status \in Ledger!Verdict(TotalMicro(Confirmed'))
      <3>1. Ledger!Accept(new)
        BY <1>1, <1>2, <1>3, <1>6, <2>1, LedgerWords DEF Ledger!Accept
      <3>. QED  BY <1>1, <3>1 DEF Ledger!LedgerNext
    <2>. QED  BY <1>1, <1>2, <1>5, <1>6, <2>1, OpenVerdict
  <1>7. CASE TransitionAndEnqueue(Written(t)) /\ invoice.status \in Terminal
    <2> DEFINE r == Decided(Promoted(Written(t)))
    <2>1. /\ Judged(invoice, TotalMicro(Confirmed'), r)
          /\ invoice'.status = r.newStatus
      BY <1>2, <1>7, CreditJudged
    <2>2. /\ TotalMicro(Confirmed) \in Nat /\ TotalMicro(Confirmed') \in Nat
      BY <1>1, TotalIsNat DEF Confirmed
    <2>. HIDE DEF r
    <2>3. CASE Confirmed' = Confirmed
      <3>1. ~r.changed
        BY <1>4, <1>7, <2>1, <2>2, <2>3 DEF Judged
      <3>. QED  BY <1>5, <2>1, <2>3, <3>1 DEF Judged
    <2>4. CASE Confirmed' # Confirmed
      <3>1. TotalMicro(Confirmed') > invoice.amountReceived
        BY <1>1, <1>4, <2>2, <2>4, TotalStrict
      <3>2. invoice'.status = "overdue"
        BY <1>7, <2>1, <3>1 DEF Judged
      <3>3. Ledger!AcceptLate(new)
        BY <1>1, <1>2, <1>3, <1>7, <2>4, <3>2, LedgerWords
        DEF Ledger!AcceptLate
      <3>. QED  BY <1>1, <3>3 DEF Ledger!LedgerNext
    <2>. QED  BY <2>3, <2>4
  <1>8. CASE /\ Known(t) /\ ~Orphans(t) /\ ~Ripe(t)
             /\ payments' = Written(t) /\ invoice' = invoice
    BY <1>5, <1>8, QuietCredit DEF Inv, TypeInv
  <1>9. invoice.status \in Terminal \/ invoice.status \in NonTerminal
    BY DEF Inv, TypeInv, TypeOK, InvoiceRow, InvoiceStatus
  <1>. QED  BY <1>6, <1>7, <1>8, <1>9, CreditCases

\* Any other step is the closing of the window or nothing to the ledger.
LEMMA OtherStepsOfLedger ==
    ASSUME Inv, [Next]_vars, ~CancelWrite, ~\E t \in Tx : Credit(t)
    PROVE  [Ledger!LedgerNext]_(Ledger!ledgerVars)
  <1>1. Confirmed' = Confirmed /\ invoice' = invoice
    BY QuietSteps
  <1>2. expired' = expired \/ expired' = TRUE
    BY DEF Next, Environment, Poll, Mine, Reorg, AdvanceSolid, TtlElapses,
           GraceElapses, RegisterEndpoint, DeleteEndpoint, StartTick, Discover,
           DiscoverFails, FetchPrimary, FetchSecondary, SkipCandidate,
           SentinelSweep, EndTick, Crash, CancelRead, CancelWrite, clockVars,
           vars
  <1>. QED
    BY <1>1, <1>2
    DEF Ledger!LedgerNext, Ledger!CloseWindow, Ledger!ledgerVars

\* The watcher, with its chain, its two providers, its crashes and its webhook
\* rows, implements the ledger: every step accepts confirmed transfers and
\* judges the invoice on them at once, or leaves both alone.
THEOREM ImplementsLedger ==
    ASSUME MaxLag = 0, MaxCancels = 0
    PROVE  Spec => KeepsLedger
  <1>1. Init => Ledger!LedgerInit
    BY DEF Init, Ledger!LedgerInit, Confirmed, NoRow
  <1>2. Init => NoCancels /\ WindowSeen
    BY DEF Init, NoCancels, WindowSeen, NoTick
  <1>3. NoCancels /\ WindowSeen /\ Inv /\ [Next]_vars
          => NoCancels' /\ WindowSeen'
    BY NoCancelsStep, WindowSeenStep
  <1>4. ASSUME Inv, FencesRise, ReceivedIsExact, NoCancels, WindowSeen,
               [Next]_vars
        PROVE  [Ledger!LedgerNext]_(Ledger!ledgerVars)
    <2>1. CASE \E t \in Tx : Credit(t)
      BY <1>4, <2>1, CreditIsAcceptance
    <2>2. CASE ~\E t \in Tx : Credit(t)
      BY <1>4, <2>2, NoCancelsStep, OtherStepsOfLedger
    <2>. QED  BY <2>1, <2>2
  <1>. QED
    BY <1>1, <1>2, <1>3, <1>4, ExactInvariance, Invariance, PTL
    DEF Spec, KeepsLedger, Ledger!LedgerSpec

-----------------------------------------------------------------------------
(* What an endpoint is told                                                *)

LEMMA RowBelowMax ==
    ASSUME NEW ds \in SUBSET Delivery, HasLatest(ds), NEW d \in ds
    PROVE  /\ d.version \in Nat /\ MaxVersion(ds, d.endpoint) \in Nat
           /\ d.version <= MaxVersion(ds, d.endpoint)
  <1>1. d \in Delivery /\ d.version \in Versions(ds, d.endpoint)
    BY DEF Versions
  <1>. QED  BY <1>1, MaxVersionType DEF Delivery

LEMMA EnqueuedRow ==
    ASSUME NEW ds, NEW event, NEW received,
           NEW d \in Enqueue(ds, event, received), d \notin ds
    PROVE  /\ d.endpoint \in endpoints
           /\ d = NewRow(ds, d.endpoint, event, received)
           /\ d.version = MaxVersion(ds, d.endpoint) + 1
           /\ d.event = event /\ d.amountReceived = received
  BY DEF Enqueue, NewRow

\* An announcement gives every registered endpoint a new highest version.
LEMMA EnqueueRaises ==
    ASSUME NEW ds \in SUBSET Delivery, HasLatest(ds),
           NEW event \in Event, NEW received \in Nat,
           endpoints \subseteq Endpoints, NEW e \in endpoints
    PROVE  MaxVersion(ds, e) < MaxVersion(Enqueue(ds, event, received), e)
  <1> DEFINE new == Enqueue(ds, event, received)
             row == NewRow(ds, e, event, received)
  <1>1. row \in new /\ row.endpoint = e /\ row.version = MaxVersion(ds, e) + 1
    BY DEF Enqueue, NewRow
  <1>2. new \in SUBSET Delivery /\ HasLatest(new)
    BY EnqueueType
  <1>3. MaxVersion(ds, e) \in Nat
    BY MaxVersionType
  <1>. HIDE DEF new, row
  <1>4. MaxVersion(ds, e) < MaxVersion(new, e)
    BY <1>1, <1>2, <1>3, RowBelowMax
  <1>. QED  BY <1>4 DEF new

\* Rows exist for registered endpoints only: the foreign key keeps an
\* endpoint that was told something.
RowsAreRegistered == \A d \in deliveries : d.endpoint \in endpoints

LEMMA RegisteredStep ==
    ASSUME Inv, RowsAreRegistered, [Next]_vars
    PROVE  RowsAreRegistered'
  <1> USE DEF RowsAreRegistered
  <1>1. ASSUME NEW t \in Tx, Credit(t)
        PROVE  RowsAreRegistered'
    <2>1. \/ deliveries' = deliveries
          \/ \E event, received :
                deliveries' = Enqueue(deliveries, event, received)
      BY <1>1, CreditOutcome DEF TransitionAndEnqueue, ReplayMissingWebhook
    <2>2. endpoints' = endpoints
      BY <1>1 DEF Credit
    <2>. QED  BY <2>1, <2>2, EnqueuedRow
  <1>2. ASSUME NEW e \in Endpoints, RegisterEndpoint(e) \/ DeleteEndpoint(e)
        PROVE  RowsAreRegistered'
    BY <1>2 DEF RegisterEndpoint, DeleteEndpoint
  <1>3. CASE /\ ~\E t \in Tx : Credit(t)
             /\ ~\E e \in Endpoints : RegisterEndpoint(e) \/ DeleteEndpoint(e)
    <2>1. UNCHANGED <<deliveries, endpoints>>
      BY <1>3
      DEF Next, Environment, Poll, Mine, Reorg, AdvanceSolid, TtlElapses,
          GraceElapses, StartTick, Discover, DiscoverFails, FetchPrimary,
          FetchSecondary, SkipCandidate, SentinelSweep, EndTick, Crash,
          CancelRead, CancelWrite, vars
    <2>. QED  BY <2>1
  <1>. QED  BY <1>1, <1>2, <1>3

\* What a credit tells the endpoints: nothing, if status and, once closed,
\* amount stay; else the new status and amount, all endpoints at once.  A
\* closed invoice that was announced is announced again only for more money.
Quiet ==
    /\ deliveries' = deliveries
    /\ invoice'.status = invoice.status
    /\ invoice.status \in Terminal =>
          invoice'.amountReceived = invoice.amountReceived

Announcement ==
    /\ EventOf[invoice'.status] \in Event
    /\ deliveries' = Enqueue(deliveries, EventOf[invoice'.status],
                             invoice'.amountReceived)
    /\ invoice.status \in Terminal =>
          /\ invoice'.status \in Terminal
          /\ invoice.amountReceived <= invoice'.amountReceived
          /\ deliveries # {} => invoice'.status = "overdue"

LEMMA ReplayAnnounces ==
    ASSUME Inv, ReceivedIsExact, NEW t \in Tx, Confirmed' = Confirmed,
           payments' = Written(t), invoice' = invoice,
           deliveries' = ReplayMissingWebhook(Written(t))
    PROVE  Quiet \/ Announcement
  <1> DEFINE r == TransitionInvoice(invoice, Written(t), Sentinel, Band,
                                    tick.expired)
  <1>1. CASE deliveries' = deliveries
    BY <1>1 DEF Quiet
  <1>2. CASE deliveries' # deliveries
    <2>1. /\ invoice.status \in DOMAIN ReplayedEvent /\ deliveries = {}
          /\ deliveries' = Enqueue(deliveries, ReplayedEvent[invoice.status],
                                   r.amountReceived)
      BY <1>2 DEF ReplayMissingWebhook, Band
    <2>2. /\ ReplayedEvent[invoice.status] = EventOf[invoice.status]
          /\ EventOf[invoice.status] \in Event
      BY <2>1, EventOfChange DEF ReplayedEvent, Event
    <2>3. ConfirmedSolid(Written(t), Sentinel) = Confirmed
      <3>1. \A u \in Tx : Written(t)[u].blockNumber <= Sentinel
        BY WrittenType, SentinelType DEF Inv, TypeInv, PaymentRow
      <3>. QED  BY <3>1 DEF ConfirmedSolid, Confirmed
    <2>4. Judged(invoice, invoice.amountReceived, r)
      BY <2>3, TransitionJudged
      DEF ReceivedIsExact, Inv, TypeInv, TypeOK, Tick
    <2>5. invoice.status \in Terminal \/ invoice.status \in NonTerminal
      BY DEF Inv, TypeInv, TypeOK, InvoiceRow, InvoiceStatus
    <2>6. invoice.amountReceived \in Nat
      BY DEF Inv, TypeInv, TypeOK, InvoiceRow
    <2>. HIDE DEF r
    <2>7. r.amountReceived = invoice.amountReceived
      BY <2>4, <2>5, <2>6 DEF Judged
    <2>. QED  BY <2>1, <2>2, <2>6, <2>7 DEF Announcement
  <1>. QED  BY <1>1, <1>2

LEMMA CreditAnnounces ==
    ASSUME Inv, FencesRise, ReceivedIsExact, NEW t \in Tx, Credit(t)
    PROVE  Quiet \/ Announcement
  <1>1. CASE TransitionAndEnqueue(Written(t))
    <2> DEFINE r == Decided(Promoted(Written(t)))
    <2>1. pc = "credit"
      BY DEF Credit
    <2>2. /\ Judged(invoice, TotalMicro(Confirmed'), r)
          /\ TotalMicro(Confirmed') \in Nat
          /\ invoice'.status = r.newStatus
          /\ invoice'.amountReceived = r.amountReceived
          /\ deliveries' = IF r.changed
                             THEN Enqueue(deliveries, EventOf[r.newStatus],
                                          r.amountReceived)
                             ELSE deliveries
      BY <1>1, <2>1, CreditJudged
    <2>3. invoice.amountReceived \in Nat
      BY DEF Inv, TypeInv, TypeOK, InvoiceRow
    <2>. HIDE DEF r
    <2>4. CASE r.changed
      <3>1. EventOf[invoice'.status] \in Event
        BY <2>2, <2>4 DEF Judged
      <3>2. invoice.status \in Terminal =>
               /\ invoice'.status = "overdue"
               /\ invoice.amountReceived <= invoice'.amountReceived
        BY <2>2, <2>3, <2>4 DEF Judged
      <3>. QED  BY <2>2, <2>4, <3>1, <3>2 DEF Announcement, Terminal
    <2>5. CASE ~r.changed
      BY <2>2, <2>5 DEF Quiet, Judged
    <2>. QED  BY <2>4, <2>5
  <1>2. CASE /\ Known(t) /\ ~Orphans(t) /\ ~Ripe(t)
             /\ payments' = Written(t)
             /\ deliveries' = ReplayMissingWebhook(Written(t))
             /\ invoice' = invoice
    BY <1>2, QuietCredit, ReplayAnnounces DEF Inv, TypeInv
  <1>. QED  BY <1>1, <1>2, CreditCases

\* What an endpoint was told beyond the detection of a payment is told of a
\* closed invoice, and the invoice has at least the amount told.
ToldOfClosed ==
    \A d \in deliveries :
        d.event # "payment_detected" =>
            /\ invoice.status \in Terminal
            /\ d.amountReceived <= invoice.amountReceived

\* The event of an announcement closes the invoice, or detects a payment.
LEMMA AnnouncedStatus ==
    ASSUME invoice' \in InvoiceRow, EventOf[invoice'.status] \in Event,
           EventOf[invoice'.status] # "payment_detected"
    PROVE  invoice'.status \in Terminal
  BY DEF EventOf, Event, InvoiceRow, InvoiceStatus, Terminal, NonTerminal

LEMMA ToldStep ==
    ASSUME Inv, FencesRise, ReceivedIsExact, ToldOfClosed, [Next]_vars
    PROVE  ToldOfClosed'
  <1>1. /\ invoice.amountReceived \in Nat /\ invoice'.amountReceived \in Nat
        /\ invoice' \in InvoiceRow
        /\ \A d \in deliveries : d.amountReceived \in Nat
    BY NextType DEF Inv, TypeInv, TypeOK, InvoiceRow, Delivery
  <1>2. ASSUME NEW t \in Tx, Credit(t)
        PROVE  ToldOfClosed'
    <2>1. CASE Quiet
      BY <2>1 DEF Quiet, ToldOfClosed
    <2>2. CASE Announcement
      <3>1. ASSUME NEW d \in deliveries', d.event # "payment_detected"
            PROVE  /\ invoice'.status \in Terminal
                   /\ d.amountReceived <= invoice'.amountReceived
        <4>1. CASE d \in deliveries
          BY <1>1, <2>2, <3>1, <4>1 DEF Announcement, ToldOfClosed
        <4>2. CASE d \notin deliveries
          <5>1. /\ d.event = EventOf[invoice'.status]
                /\ d.amountReceived = invoice'.amountReceived
            BY <2>2, <4>2, EnqueuedRow DEF Announcement
          <5>. QED
            BY <1>1, <2>2, <3>1, <5>1, AnnouncedStatus DEF Announcement
        <4>. QED  BY <4>1, <4>2
      <3>. QED  BY <3>1 DEF ToldOfClosed
    <2>. QED  BY <1>2, <2>1, <2>2, CreditAnnounces
  <1>3. CASE ~\E t \in Tx : Credit(t)
    <2>1. /\ deliveries' = deliveries
          /\ invoice'.amountReceived = invoice.amountReceived
          /\ invoice'.status \in {invoice.status, "canceled"}
      BY <1>3, QuietSteps
    <2>. QED  BY <2>1 DEF ToldOfClosed, Terminal
  <1>. QED  BY <1>2, <1>3

LEMMA OneClosingStep ==
    ASSUME Inv, FencesRise, ReceivedIsExact, ToldOfClosed, OneClosingEvent,
           [Next]_vars
    PROVE  OneClosingEvent'
  <1>1. CASE deliveries' = deliveries
    BY <1>1 DEF OneClosingEvent
  <1>2. ASSUME Announcement
        PROVE  OneClosingEvent'
    <2> DEFINE event == EventOf[invoice'.status]
               received == invoice'.amountReceived
    <2>1. /\ deliveries' = Enqueue(deliveries, event, received)
          /\ deliveries \in SUBSET Delivery /\ HasLatest(deliveries)
          /\ received \in Nat /\ invoice.amountReceived \in Nat
      BY <1>2, NextType DEF Announcement, Inv, TypeInv, TypeOK, InvoiceRow
    <2>2. EventOf["overdue"] = "late_funds"
      BY EventOfChange
    <2>3. ASSUME NEW d1 \in deliveries', NEW d2 \in deliveries',
                 d1.endpoint = d2.endpoint
          PROVE  /\ d1.version = d2.version => d1 = d2
                 /\ d1.version < d2.version /\ d1.event # "payment_detected" =>
                       /\ d2.event = "late_funds"
                       /\ d1.amountReceived <= d2.amountReceived
      <3>1. CASE d1 \in deliveries /\ d2 \in deliveries
        BY <2>3, <3>1 DEF OneClosingEvent
      <3>2. CASE d1 \in deliveries /\ d2 \notin deliveries
        <4>1. /\ d1.version <= MaxVersion(deliveries, d1.endpoint)
              /\ d1.version \in Nat
              /\ MaxVersion(deliveries, d1.endpoint) \in Nat
          BY <2>1, <3>2, RowBelowMax
        <4>2. /\ d2.version = MaxVersion(deliveries, d2.endpoint) + 1
              /\ d2.event = event /\ d2.amountReceived = received
          BY <2>1, <3>2, EnqueuedRow
        <4>3. ASSUME d1.event # "payment_detected"
              PROVE  /\ invoice'.status = "overdue"
                     /\ d1.amountReceived <= received
          <5>1. /\ invoice.status \in Terminal /\ deliveries # {}
                /\ d1.amountReceived <= invoice.amountReceived
                /\ d1.amountReceived \in Nat
            BY <2>1, <3>2, <4>3 DEF ToldOfClosed, Delivery
          <5>. QED  BY <1>2, <2>1, <5>1 DEF Announcement
        <4>. QED  BY <2>2, <2>3, <4>1, <4>2, <4>3
      <3>3. CASE d1 \notin deliveries /\ d2 \in deliveries
        <4>1. /\ d2.version <= MaxVersion(deliveries, d2.endpoint)
              /\ d2.version \in Nat
              /\ MaxVersion(deliveries, d2.endpoint) \in Nat
          BY <2>1, <3>3, RowBelowMax
        <4>2. d1.version = MaxVersion(deliveries, d1.endpoint) + 1
          BY <2>1, <3>3, EnqueuedRow
        <4>. QED  BY <2>3, <4>1, <4>2
      <3>4. CASE d1 \notin deliveries /\ d2 \notin deliveries
        <4>1. /\ d1 = NewRow(deliveries, d1.endpoint, event, received)
              /\ d2 = NewRow(deliveries, d2.endpoint, event, received)
              /\ d1.version = MaxVersion(deliveries, d1.endpoint) + 1
              /\ d1.endpoint \in endpoints
          BY <2>1, <3>4, EnqueuedRow
        <4>2. d1 = d2
          BY <2>3, <4>1
        <4>3. MaxVersion(deliveries, d1.endpoint) \in Nat
          BY <2>1, <4>1, MaxVersionType DEF Inv, TypeInv, TypeOK
        <4>. QED  BY <4>1, <4>2, <4>3
      <3>. QED  BY <3>1, <3>2, <3>3, <3>4
    <2>. QED  BY <2>3 DEF OneClosingEvent
  <1>. QED  BY <1>1, <1>2, CreditAnnounces, QuietSteps DEF Quiet

LEMMA LatestStep ==
    ASSUME Inv, FencesRise, ReceivedIsExact, RowsAreRegistered,
           LatestRowIsCurrent, [Next]_vars
    PROVE  LatestRowIsCurrent'
  <1>1. CASE Quiet
    BY <1>1 DEF Quiet, LatestRowIsCurrent
  <1>2. ASSUME Announcement
        PROVE  LatestRowIsCurrent'
    <2> DEFINE event == EventOf[invoice'.status]
               received == invoice'.amountReceived
    <2>1. /\ deliveries' = Enqueue(deliveries, event, received)
          /\ deliveries \in SUBSET Delivery /\ HasLatest(deliveries)
          /\ received \in Nat /\ event \in Event
          /\ endpoints \subseteq Endpoints
      BY <1>2, NextType DEF Announcement, Inv, TypeInv, TypeOK, InvoiceRow
    <2>2. ASSUME NEW d \in deliveries',
                 d.version = MaxVersion(deliveries', d.endpoint)
          PROVE  d.event = event /\ d.amountReceived = received
      <3>1. CASE d \in deliveries
        <4>1. d.endpoint \in endpoints
          BY <3>1 DEF RowsAreRegistered
        <4>2. MaxVersion(deliveries, d.endpoint)
                 < MaxVersion(deliveries', d.endpoint)
          BY <2>1, <4>1, EnqueueRaises
        <4>3. /\ d.version <= MaxVersion(deliveries, d.endpoint)
              /\ d.version \in Nat
              /\ MaxVersion(deliveries, d.endpoint) \in Nat
          BY <2>1, <3>1, RowBelowMax
        <4>. QED  BY <2>2, <4>2, <4>3
      <3>2. CASE d \notin deliveries
        BY <2>1, <3>2, EnqueuedRow
      <3>. QED  BY <3>1, <3>2
    <2>. QED  BY <2>2 DEF LatestRowIsCurrent
  <1>3. CASE ~\E t \in Tx : Credit(t)
    <2>1. /\ deliveries' = deliveries
          /\ invoice'.status = "canceled" \/ invoice' = invoice
      BY <1>3, QuietSteps
    <2>. QED  BY <2>1 DEF LatestRowIsCurrent
  <1>. QED  BY <1>1, <1>2, <1>3, CreditAnnounces

LEMMA ToldInvariance ==
    ASSUME MaxLag = 0
    PROVE  Spec => [](/\ RowsAreRegistered /\ ToldOfClosed
                      /\ OneClosingEvent /\ LatestRowIsCurrent)
  <1>1. Init => /\ RowsAreRegistered /\ ToldOfClosed
                /\ OneClosingEvent /\ LatestRowIsCurrent
    BY DEF Init, RowsAreRegistered, ToldOfClosed, OneClosingEvent,
           LatestRowIsCurrent
  <1>2. /\ Inv /\ FencesRise /\ ReceivedIsExact
        /\ RowsAreRegistered /\ ToldOfClosed
        /\ OneClosingEvent /\ LatestRowIsCurrent
        /\ [Next]_vars
        => /\ RowsAreRegistered' /\ ToldOfClosed'
           /\ OneClosingEvent' /\ LatestRowIsCurrent'
    BY RegisteredStep, ToldStep, OneClosingStep, LatestStep
  <1>. QED  BY <1>1, <1>2, ExactInvariance, PTL DEF Spec

\* An endpoint learns of at most one closing of the invoice; all it learns
\* afterwards is late money, with amounts that never shrink, for any number of
\* endpoints, transfers and cancels.
THEOREM OneClosingIsTold ==
    ASSUME MaxLag = 0
    PROVE  Spec => []OneClosingEvent
  BY ToldInvariance, PTL

\* The last row of an endpoint is the current state of the invoice: no change
\* of status slips past an endpoint that was told anything before.
THEOREM LatestRowIsTrue ==
    ASSUME MaxLag = 0
    PROVE  Spec => []LatestRowIsCurrent
  BY ToldInvariance, PTL

-----------------------------------------------------------------------------
(* Money that closes an invoice is solid, unless a height can go stale     *)

\* A receipt at or below the tick's fence is about a transfer no
\* reorganisation moves any more.
ProvenIsFinal ==
    /\ tick.latestSolid <= solidHeight
    /\ \A t \in Tx :
          /\ tick.primary[t] \in 1 .. tick.latestSolid =>
                placed[t].blockNumber = tick.primary[t]
          /\ tick.agreed[t] \in 1 .. tick.latestSolid =>
                placed[t].blockNumber = tick.agreed[t]

LEMMA ProvenStep ==
    ASSUME Inv, ProvenIsFinal, [Next]_vars
    PROVE  ProvenIsFinal'
  <1> USE DEF ProvenIsFinal
  <1>1. /\ solidHeight \in Nat /\ tick \in Tick /\ placed \in [Tx -> Placement]
        /\ \A t \in Tx : /\ placed[t].blockNumber \in Nat
                         /\ tick.primary[t] \in Nat /\ tick.agreed[t] \in Nat
        /\ tick.latestSolid \in Nat
    BY BoundsAssumption DEF Inv, TypeInv, TypeOK, Tick, Placement
  <1>2. ASSUME NEW t \in Tx, Mine(t) \/ Reorg(t)
        PROVE  ProvenIsFinal'
    <2>1. /\ tick' = tick /\ solidHeight' = solidHeight
          /\ \A u \in Tx : u # t => placed'[u] = placed[u]
      BY <1>1, <1>2 DEF Mine, Reorg
    <2>2. ~(placed[t].blockNumber \in 1 .. tick.latestSolid)
      BY <1>1, <1>2 DEF Mine, Reorg
    <2>. QED  BY <1>1, <2>1, <2>2
  <1>3. CASE AdvanceSolid
    BY <1>1, <1>3 DEF AdvanceSolid
  <1>4. CASE StartTick
    <2>1. UNCHANGED <<placed, solidHeight>>
      BY <1>4 DEF StartTick, chainVars
    <2>2. CASE tick' = tick
      BY <2>1, <2>2
    <2>3. CASE tick' # tick
      <3>1. /\ tick'.latestSolid \in 0 .. solidHeight
            /\ \A t \in Tx : tick'.primary[t] = 0 /\ tick'.agreed[t] = 0
        <4>1. PICK s \in 0 .. solidHeight :
                 tick' = [NoTick EXCEPT !.latestSolid = s,
                                        !.expired = expired,
                                        !.fullReplay =
                                           NeedsUnresolvedFundsReplay(invoice.status)
                                           \/ ~hasCursor]
          BY <1>4, <2>3 DEF StartTick
        <4>. QED  BY <4>1 DEF NoTick
      <3>. QED  BY <1>1, <2>1, <3>1
    <2>. QED  BY <2>2, <2>3
  <1>5. CASE DiscoverFails \/ EndTick \/ Crash
    <2>1. /\ UNCHANGED <<placed, solidHeight>> /\ tick' = NoTick
          /\ NoTick.latestSolid = 0
      BY <1>5, TickEnds DEF chainVars
    <2>. QED  BY <1>1, <2>1 DEF NoTick
  <1>6. CASE Discover \/ SentinelSweep \/ \E t \in Tx : Credit(t)
    <2>1. /\ UNCHANGED <<placed, solidHeight>>
          /\ tick'.latestSolid = tick.latestSolid
          /\ tick'.primary = tick.primary /\ tick'.agreed = tick.agreed
      BY <1>1, <1>6 DEF Discover, SentinelSweep, Credit, chainVars, Tick
    <2>. QED  BY <2>1
  <1>7. ASSUME NEW t \in Tx, FetchPrimary(t)
        PROVE  ProvenIsFinal'
    <2>1. /\ UNCHANGED <<placed, solidHeight>>
          /\ tick'.latestSolid = tick.latestSolid /\ tick'.agreed = tick.agreed
          /\ tick'.primary = [tick.primary EXCEPT ![t] = placed[t].blockNumber]
          /\ tick.primary \in [Tx -> 0 .. MaxHeight]
      BY <1>1, <1>7 DEF FetchPrimary, chainVars, Tick
    <2>. QED  BY <1>1, <2>1
  <1>8. ASSUME NEW t \in Tx, FetchSecondary(t)
        PROVE  ProvenIsFinal'
    <2> DEFINE higher == IF tick.primary[t] > placed[t].blockNumber
                           THEN tick.primary[t] ELSE placed[t].blockNumber
    <2>1. /\ UNCHANGED <<placed, solidHeight>>
          /\ tick'.latestSolid = tick.latestSolid
          /\ tick'.agreed = [tick.agreed EXCEPT ![t] = higher]
          /\ tick'.primary = [tick.primary EXCEPT ![t] = 0]
          /\ tick.primary[t] > 0
          /\ tick.primary \in [Tx -> 0 .. MaxHeight]
          /\ tick.agreed \in [Tx -> 0 .. MaxHeight]
      BY <1>1, <1>8 DEF FetchSecondary, chainVars, Tick
    <2>2. higher \in 1 .. tick.latestSolid => placed[t].blockNumber = higher
      BY <1>1, <2>1
    <2>. HIDE DEF higher
    <2>. QED  BY <1>1, <2>1, <2>2
  <1>9. ASSUME NEW t \in Tx, SkipCandidate(t)
        PROVE  ProvenIsFinal'
    <2>1. /\ UNCHANGED <<placed, solidHeight>>
          /\ tick'.latestSolid = tick.latestSolid /\ tick'.agreed = tick.agreed
          /\ tick'.primary = [tick.primary EXCEPT ![t] = 0]
          /\ tick.primary \in [Tx -> 0 .. MaxHeight]
      BY <1>1, <1>9 DEF SkipCandidate, chainVars, Tick
    <2>. QED  BY <1>1, <2>1
  <1>10. CASE \/ TtlElapses \/ GraceElapses
              \/ \E e \in Endpoints : RegisterEndpoint(e) \/ DeleteEndpoint(e)
              \/ CancelRead \/ CancelWrite \/ UNCHANGED vars
    <2>1. UNCHANGED <<placed, solidHeight, tick>>
      BY <1>10
      DEF TtlElapses, GraceElapses, RegisterEndpoint, DeleteEndpoint,
          CancelRead, CancelWrite, vars, chainVars
    <2>. QED  BY <2>1
  <1>. QED
    BY <1>2, <1>3, <1>4, <1>5, <1>6, <1>7, <1>8, <1>9, <1>10
    DEF Next, Environment, Poll

\* When no transfer is placed in a block twice, whatever was read or stored of
\* its height is the height it had or the sentinel.
OneHeight ==
    \A t \in Tx :
        /\ placed[t].blockHash = 0 =>
              /\ placed[t].blockNumber = 0
              /\ tick.primary[t] = 0 /\ tick.agreed[t] = 0
              /\ payments[t].status # "detected"
        /\ \E h \in Heights :
              /\ placed[t].blockNumber \in {0, h}
              /\ tick.primary[t] \in {0, h} /\ tick.agreed[t] \in {0, h}
              /\ payments[t].status = "detected" =>
                    payments[t].blockNumber \in {h, Sentinel}

LEMMA HeightType ==
    ASSUME Inv
    PROVE  /\ \A t \in Tx : /\ placed[t].blockNumber \in 0 .. MaxHeight
                            /\ placed[t].blockHash \in Nat
                            /\ payments[t].blockNumber \in 0 .. Sentinel
                            /\ tick.primary[t] \in 0 .. MaxHeight
                            /\ tick.agreed[t] \in 0 .. MaxHeight
           /\ tick.latestSolid \in 0 .. MaxHeight
           /\ solidHeight \in 0 .. MaxHeight
           /\ MaxHeight \in Nat \ {0} /\ Sentinel = MaxHeight + 1
  BY BoundsAssumption
  DEF Inv, TypeInv, TypeOK, Tick, Placement, PaymentRow, Hashes, Sentinel

\* A credit leaves a detected row at the height that was agreed, or alone.
LEMMA DetectedAfterCredit ==
    ASSUME Inv, NEW t \in Tx, Credit(t), NEW u \in Tx,
           payments'[u].status = "detected"
    PROVE  \/ u = t /\ payments'[u].blockNumber = tick.agreed[u]
           \/ /\ payments[u].status = "detected"
              /\ payments'[u].blockNumber = payments[u].blockNumber
  <1> DEFINE row == Written(t)[u]
  <1>1. payments[u] \in PaymentRow /\ row \in PaymentRow
    BY WrittenType DEF Inv, TypeInv, TypeOK
  <1>2. payments'[u] = row
    <2>1. payments'[u] = row \/ payments'[u].status = "confirmed"
      BY <1>1, CreditOutcome DEF TransitionAndEnqueue, Promoted, PaymentRow
    <2>. QED  BY <2>1
  <1>3. CASE u # t
    BY <1>2, <1>3 DEF Written, Inv, TypeInv, TypeOK
  <1>4. CASE u = t
    <2>1. ~Orphans(t) /\ row = Upserted(t)
      <3>1. Upserted(t) \in PaymentRow
        BY UpsertedType DEF Inv, TypeInv
      <3>2. Orphans(t) => row.status = "orphaned"
        BY <1>4, <3>1 DEF Written, Inv, TypeInv, TypeOK, PaymentRow
      <3>. QED
        BY <1>2, <1>4, <3>2 DEF Written, Inv, TypeInv, TypeOK
    <2>2. CASE payments[t].status = "none"
      BY <1>2, <1>4, <2>1, <2>2 DEF Upserted, Upsert
    <2>3. CASE payments[t].status = "detected"
      BY <1>1, <1>2, <1>4, <2>1, <2>3 DEF Upserted, Upsert, PaymentRow
    <2>4. CASE payments[t].status \notin {"none", "detected"}
      BY <1>2, <1>4, <2>1, <2>4 DEF Upserted, Upsert
    <2>. QED  BY <2>2, <2>3, <2>4
  <1>. QED  BY <1>3, <1>4

LEMMA OneHeightStep ==
    ASSUME MaxForks = 1, Inv, OneHeight, [Next]_vars
    PROVE  OneHeight'
  <1>1. /\ tick \in Tick /\ placed \in [Tx -> Placement]
        /\ payments \in [Tx -> PaymentRow]
    BY DEF Inv, TypeInv, TypeOK
  <1>2. ASSUME NEW t \in Tx, Mine(t)
        PROVE  OneHeight'
    <2>1. /\ UNCHANGED <<tick, payments>>
          /\ \A u \in Tx : u # t => placed'[u] = placed[u]
          /\ placed[t].blockHash = 0
          /\ placed'[t].blockHash = 1
          /\ placed'[t].blockNumber \in Heights
      BY <1>1, <1>2, HeightType DEF Mine, Heights, Placement
    <2>. QED  BY <2>1 DEF OneHeight
  <1>3. ASSUME NEW t \in Tx, Reorg(t)
        PROVE  OneHeight'
    <2>1. /\ UNCHANGED <<tick, payments>>
          /\ \A u \in Tx : u # t => placed'[u] = placed[u]
          /\ placed'[t].blockHash = placed[t].blockHash
          /\ placed'[t].blockNumber = 0
      BY <1>1, <1>3 DEF Reorg, Placement
    <2>. QED  BY <2>1 DEF OneHeight
  <1>4. CASE StartTick \/ DiscoverFails \/ EndTick \/ Crash
    <2>1. UNCHANGED <<placed, payments>>
      BY <1>4, TickEnds DEF StartTick, chainVars
    <2>2. \/ tick' = tick
          \/ \A t \in Tx : tick'.primary[t] = 0 /\ tick'.agreed[t] = 0
      <3>1. CASE StartTick
        <4>1. SUFFICES ASSUME tick' # tick
                       PROVE  \A t \in Tx : /\ tick'.primary[t] = 0
                                            /\ tick'.agreed[t] = 0
          OBVIOUS
        <4>2. PICK s \in 0 .. solidHeight :
                 tick' = [NoTick EXCEPT !.latestSolid = s,
                                        !.expired = expired,
                                        !.fullReplay =
                                           NeedsUnresolvedFundsReplay(invoice.status)
                                           \/ ~hasCursor]
          BY <3>1, <4>1 DEF StartTick
        <4>. QED  BY <4>2 DEF NoTick
      <3>2. CASE DiscoverFails \/ EndTick \/ Crash
        BY <3>2, TickEnds DEF NoTick
      <3>. QED  BY <1>4, <3>1, <3>2
    <2>. QED  BY <2>1, <2>2 DEF OneHeight
  <1>5. ASSUME NEW t \in Tx,
               FetchPrimary(t) \/ FetchSecondary(t) \/ SkipCandidate(t)
        PROVE  OneHeight'
    <2>1. UNCHANGED <<placed, payments>>
      BY <1>5 DEF FetchPrimary, FetchSecondary, SkipCandidate, chainVars
    <2>2. \A u \in Tx : u # t => /\ tick'.primary[u] = tick.primary[u]
                                 /\ tick'.agreed[u] = tick.agreed[u]
      BY <1>1, <1>5 DEF FetchPrimary, FetchSecondary, SkipCandidate, Tick
    <2>3. /\ tick'.primary[t] \in {0, placed[t].blockNumber}
          /\ tick'.agreed[t] \in {tick.agreed[t], tick.primary[t],
                                  placed[t].blockNumber}
      <3>1. CASE FetchPrimary(t)
        BY <1>1, <3>1 DEF FetchPrimary, Tick
      <3>2. CASE FetchSecondary(t)
        BY <1>1, <3>2 DEF FetchSecondary, Tick
      <3>3. CASE SkipCandidate(t)
        BY <1>1, <3>3 DEF SkipCandidate, Tick
      <3>. QED  BY <1>5, <3>1, <3>2, <3>3
    <2>4. ASSUME NEW u \in Tx
          PROVE  /\ placed[u].blockHash = 0 =>
                       tick'.primary[u] = 0 /\ tick'.agreed[u] = 0
                 /\ \E h \in Heights :
                       /\ placed[u].blockNumber \in {0, h}
                       /\ tick'.primary[u] \in {0, h}
                       /\ tick'.agreed[u] \in {0, h}
                       /\ payments[u].status = "detected" =>
                             payments[u].blockNumber \in {h, Sentinel}
      <3>1. CASE u # t
        BY <2>2, <3>1 DEF OneHeight
      <3>2. CASE u = t
        BY <2>3, <3>2 DEF OneHeight
      <3>. QED  BY <3>1, <3>2
    <2>. QED  BY <2>1, <2>4 DEF OneHeight
  <1>6. CASE SentinelSweep
    <2>1. /\ placed' = placed /\ tick'.primary = tick.primary
          /\ tick'.agreed = tick.agreed
      BY <1>1, <1>6 DEF SentinelSweep, chainVars, Tick
    <2>2. ASSUME NEW t \in Tx
          PROVE  /\ payments'[t].status = payments[t].status
                 /\ payments'[t].blockNumber
                       \in {payments[t].blockNumber, Sentinel}
      BY <1>1, <1>6 DEF SentinelSweep, MarkUnconfirmed, PaymentRow
    <2>. QED  BY <2>1, <2>2 DEF OneHeight
  <1>7. ASSUME NEW t \in Tx, Credit(t)
        PROVE  OneHeight'
    <2>1. /\ placed' = placed /\ tick'.primary = tick.primary
          /\ tick'.agreed = tick.agreed
      BY <1>1, <1>7 DEF Credit, chainVars, Tick
    <2>2. tick.agreed[t] > 0
      BY <1>7 DEF Credit, Inv, SweptBeforeCredit, AgreedKeys
    <2>3. ASSUME NEW u \in Tx, payments'[u].status = "detected"
          PROVE  \/ /\ payments[u].status = "detected"
                    /\ payments'[u].blockNumber = payments[u].blockNumber
                 \/ /\ payments'[u].blockNumber = tick.agreed[u]
                    /\ tick.agreed[u] > 0
      BY <1>7, <2>2, <2>3, DetectedAfterCredit
    <2>4. ASSUME NEW u \in Tx
          PROVE  /\ placed[u].blockHash = 0 =>
                       /\ placed[u].blockNumber = 0
                       /\ tick.primary[u] = 0 /\ tick.agreed[u] = 0
                       /\ payments'[u].status # "detected"
                 /\ \E h \in Heights :
                       /\ placed[u].blockNumber \in {0, h}
                       /\ tick.primary[u] \in {0, h}
                       /\ tick.agreed[u] \in {0, h}
                       /\ payments'[u].status = "detected" =>
                             payments'[u].blockNumber \in {h, Sentinel}
      BY <2>3 DEF OneHeight
    <2>. QED  BY <2>1, <2>4 DEF OneHeight
  <1>8. CASE \/ AdvanceSolid \/ TtlElapses \/ GraceElapses
             \/ \E e \in Endpoints : RegisterEndpoint(e) \/ DeleteEndpoint(e)
             \/ Discover \/ CancelRead \/ CancelWrite \/ UNCHANGED vars
    <2>1. /\ UNCHANGED <<placed, payments>>
          /\ tick'.primary = tick.primary /\ tick'.agreed = tick.agreed
      BY <1>1, <1>8
      DEF AdvanceSolid, TtlElapses, GraceElapses, RegisterEndpoint,
          DeleteEndpoint, Discover, CancelRead, CancelWrite, vars, chainVars,
          Tick
    <2>. QED  BY <2>1 DEF OneHeight
  <1>. QED
    BY <1>2, <1>3, <1>4, <1>5, <1>6, <1>7, <1>8 DEF Next, Environment, Poll

\* The restriction of this section: a stored height cannot go stale, or no
\* other transfer's credit can promote by it.
NoStaleHeight == MaxForks = 1 \/ \A t, u \in Tx : t = u

ConfirmedIsFinal == Confirmed \subseteq Final

\* A row is confirmed at a height below the fence that both providers proved.
LEMMA ConfirmedWhereProven ==
    ASSUME NoStaleHeight, Inv, OneHeight \/ \A x, y \in Tx : x = y,
           NEW t \in Tx, Credit(t), NEW u \in Confirmed' \ Confirmed
    PROVE  tick.agreed[u] \in 1 .. tick.latestSolid
  <1>1. /\ u \in Tx /\ payments'[u].status = "confirmed"
        /\ payments[u].status # "confirmed"
    BY DEF Confirmed
  <1>2. TransitionAndEnqueue(Written(t))
    BY CreditCases, QuietCredit DEF Inv, TypeInv
  <1>3. payments'[u].blockNumber <= tick.latestSolid
    BY <1>2, NewlyConfirmed DEF Inv, TypeInv
  <1>4. t \in AgreedKeys /\ pc = "credit"
    BY DEF Credit, Inv, SweptBeforeCredit
  <1>5. CASE u = t
    <2>1. payments[t] \in PaymentRow /\ Upserted(t) \in PaymentRow
      BY UpsertedType DEF Inv, TypeInv, TypeOK
    <2>2. /\ payments'[t] = Promoted(Written(t))[t]
          /\ Written(t)[t] = IF Orphans(t)
                               THEN [Upserted(t) EXCEPT !.status = "orphaned"]
                               ELSE Upserted(t)
      BY <1>2 DEF TransitionAndEnqueue, Written, Inv, TypeInv, TypeOK
    <2>3. /\ payments'[t].blockNumber = Upserted(t).blockNumber
          /\ Upserted(t).status \in {"detected", "confirmed"}
      BY <1>1, <1>5, <2>1, <2>2 DEF Promoted, PaymentRow
    <2>4. Upserted(t).blockNumber = tick.agreed[t]
      <3>1. CASE payments[t].status = "none"
        BY <3>1 DEF Upserted, Upsert
      <3>2. CASE payments[t].status = "detected"
        BY <2>1, <3>2 DEF Upserted, Upsert, PaymentRow
      <3>3. CASE payments[t].status \notin {"none", "detected"}
        BY <1>1, <1>5, <2>3, <3>3 DEF Upserted, Upsert
      <3>. QED  BY <3>1, <3>2, <3>3
    <2>. QED
      BY <1>3, <1>4, <1>5, <2>3, <2>4, HeightType DEF AgreedKeys
  <1>6. CASE u # t
    <2>1. /\ payments[u].status = "detected"
          /\ payments[u].blockNumber <= tick.latestSolid
      BY <1>1, <1>6, OtherRows DEF Inv
    <2>2. payments[u].blockNumber # Sentinel
      BY <1>1, <2>1, HeightType
    <2>3. tick.agreed[u] > 0
      BY <1>1, <1>4, <2>1, <2>2
      DEF Inv, SweptBeforeCredit, Unproven, AgreedKeys
    <2>4. OneHeight
      BY <1>1, <1>6
    <2>5. tick.agreed[u] = payments[u].blockNumber
      BY <1>1, <2>1, <2>2, <2>3, <2>4 DEF OneHeight
    <2>. QED  BY <1>1, <2>1, <2>3, <2>5, HeightType
  <1>. QED  BY <1>5, <1>6

LEMMA FinalStep ==
    ASSUME NoStaleHeight, Inv, ProvenIsFinal,
           OneHeight \/ \A x, y \in Tx : x = y,
           ConfirmedIsFinal, [Next]_vars
    PROVE  ConfirmedIsFinal'
  <1>1. /\ solidHeight \in Nat
        /\ \A t \in Tx : placed[t].blockNumber \in Nat
    BY HeightType
  <1>2. ASSUME NEW u \in Final
        PROVE  u \in Final'
    <2>1. u \in Tx /\ placed[u].blockNumber \in 1 .. solidHeight
      BY DEF Final
    <2>2. ASSUME NEW t \in Tx, Mine(t) \/ Reorg(t)
          PROVE  placed'[u] = placed[u] /\ solidHeight' = solidHeight
      <3>1. u # t
        BY <1>1, <2>1, <2>2 DEF Mine, Reorg
      <3>. QED  BY <2>1, <2>2, <3>1 DEF Mine, Reorg, Inv, TypeInv, TypeOK
    <2>3. CASE AdvanceSolid
      BY <1>1, <2>1, <2>3 DEF AdvanceSolid, Final
    <2>4. CASE ~AdvanceSolid /\ ~\E t \in Tx : Mine(t) \/ Reorg(t)
      <3>1. UNCHANGED <<placed, solidHeight>>
        BY <2>4
        DEF Next, Environment, Poll, TtlElapses, GraceElapses,
            RegisterEndpoint, DeleteEndpoint, StartTick, Discover,
            DiscoverFails, FetchPrimary, FetchSecondary, SkipCandidate,
            SentinelSweep, Credit, EndTick, Crash, CancelRead, CancelWrite,
            chainVars, vars
      <3>. QED  BY <2>1, <3>1 DEF Final
    <2>. QED  BY <2>1, <2>2, <2>3, <2>4 DEF Final
  <1>3. ASSUME NEW t \in Tx, Credit(t), NEW u \in Confirmed' \ Confirmed
        PROVE  u \in Final'
    <2>1. u \in Tx /\ UNCHANGED <<placed, solidHeight>>
      BY <1>3 DEF Confirmed, Credit, chainVars
    <2>2. tick.agreed[u] \in 1 .. tick.latestSolid
      BY <1>3, ConfirmedWhereProven
    <2>3. placed[u].blockNumber \in 1 .. solidHeight
      BY <1>1, <2>1, <2>2, HeightType DEF ProvenIsFinal
    <2>. QED  BY <2>1, <2>3 DEF Final
  <1>4. CASE ~\E t \in Tx : Credit(t)
    BY <1>2, <1>4, QuietSteps DEF ConfirmedIsFinal
  <1>. QED  BY <1>2, <1>3, <1>4 DEF ConfirmedIsFinal

\* An invoice that was closed as paid has at least the lower bound of its band.
PaidIsEnough ==
    invoice.status \in {"paid", "overpaid"} =>
        Band.lowerBound <= invoice.amountReceived

LEMMA DecisionIsEnough ==
    ASSUME NEW inv \in InvoiceRow, NEW pays, NEW solid,
           NEW isExpired \in BOOLEAN
    PROVE  LET r == TransitionInvoice(inv, pays, solid, Band, isExpired)
           IN  r.newStatus \in {"paid", "overpaid"} =>
                  \/ Band.lowerBound <= r.amountReceived
                  \/ /\ ~r.changed /\ r.newStatus = inv.status
                     /\ r.amountReceived = inv.amountReceived
  <1> DEFINE counted == ConfirmedSolid(pays, solid)
             total == TotalMicro(counted)
             hasDetected == \E t \in Tx : pays[t].status = "detected"
             r == TransitionInvoice(inv, pays, solid, Band, isExpired)
  <1>1. total \in Nat
    BY TotalIsNat DEF ConfirmedSolid
  <1>2. /\ Band.lowerBound \in Nat /\ Band.upperBound \in Nat
        /\ Band.lowerBound <= Price /\ Price <= Band.upperBound
        /\ Price \in Nat
    BY PriceAssumption, BandBracketsQuote DEF Band
  <1>3. CASE inv.status \in Terminal
    <2>1. r = TransitionTerminal(inv, total)
      BY <1>3 DEF TransitionInvoice
    <2>. QED  BY <2>1 DEF TransitionTerminal, NoChange, Result
  <1>4. CASE inv.status \notin Terminal /\ counted # {}
    <2>1. r = TransitionSolid(inv, total, Band, isExpired)
      BY <1>4 DEF TransitionInvoice
    <2> DEFINE decision == Decision(total, Band)
    <2>. HIDE DEF total
    <2>2. CASE decision \in {"paid", "overpaid"}
      <3>1. r.amountReceived = total
        BY <2>1, <2>2 DEF TransitionSolid, Result
      <3>2. Band.lowerBound <= total
        BY <1>1, <1>2, <2>2 DEF Decision
      <3>. QED  BY <3>1, <3>2
    <2>3. CASE decision \notin {"paid", "overpaid"}
      <3>1. r.newStatus \in {"underpaid", "payment_detected"}
        BY <2>1, <2>3 DEF TransitionSolid, Result
      <3>. QED  BY <3>1
    <2>. QED  BY <2>2, <2>3
  <1>5. CASE inv.status \notin Terminal /\ counted = {}
    <2>1. r = TransitionUnsolid(inv, hasDetected, isExpired)
      BY <1>5 DEF TransitionInvoice
    <2>2. r.newStatus \in {"expired", "payment_detected", inv.status}
      BY <2>1 DEF TransitionUnsolid, NoChange, Result
    <2>. QED  BY <1>5, <2>2 DEF Terminal
  <1>. QED  BY <1>3, <1>4, <1>5

LEMMA PaidStep ==
    ASSUME Inv, PaidIsEnough, [Next]_vars
    PROVE  PaidIsEnough'
  <1>1. ASSUME NEW t \in Tx, TransitionAndEnqueue(Written(t))
        PROVE  PaidIsEnough'
    <2> DEFINE r == Decided(Promoted(Written(t)))
    <2>1. r.newStatus \in {"paid", "overpaid"} =>
             \/ Band.lowerBound <= r.amountReceived
             \/ /\ ~r.changed /\ r.newStatus = invoice.status
                /\ r.amountReceived = invoice.amountReceived
      BY DecisionIsEnough DEF Decided, Band, Inv, TypeInv, TypeOK, Tick
    <2>2. CASE r.changed \/ r.amountReceived # invoice.amountReceived
      <3>1. /\ invoice'.status = r.newStatus
            /\ invoice'.amountReceived = r.amountReceived
        BY <1>1, <2>2 DEF TransitionAndEnqueue
      <3>. HIDE DEF r
      <3>. QED  BY <2>1, <2>2, <3>1 DEF PaidIsEnough
    <2>3. CASE ~r.changed /\ r.amountReceived = invoice.amountReceived
      <3>1. invoice' = invoice
        BY <1>1, <2>3 DEF TransitionAndEnqueue
      <3>. QED  BY <3>1 DEF PaidIsEnough
    <2>. QED  BY <2>2, <2>3
  <1>2. CASE invoice' = invoice
    BY <1>2 DEF PaidIsEnough
  <1>3. CASE invoice'.status = "canceled"
    BY <1>3 DEF PaidIsEnough
  <1>. QED  BY <1>1, <1>2, <1>3, CreditOutcome, QuietSteps

\* If no transfer is placed in a block twice, or there is a single transfer,
\* the money that closed an invoice as paid is on the chain for good, even
\* with lagging providers and racing cancels.  Without either, a height stored
\* before a reorganisation promotes by another transfer's credit.
THEOREM PaidIsSolid ==
    ASSUME NoStaleHeight
    PROVE  Spec => []PaidOnlyAtSolid
  <1>1. Init => ProvenIsFinal /\ OneHeight /\ ConfirmedIsFinal /\ PaidIsEnough
    <2>1. ASSUME Init
          PROVE  ProvenIsFinal /\ OneHeight
      <3>1. 1 \in Heights
        BY BoundsAssumption DEF Heights
      <3>. QED  BY <2>1, <3>1 DEF Init, ProvenIsFinal, OneHeight, NoTick, NoRow
    <2>2. Init => ConfirmedIsFinal /\ PaidIsEnough
      BY DEF Init, ConfirmedIsFinal, Confirmed, NoRow, PaidIsEnough
    <2>. QED  BY <2>1, <2>2
  <1>2. /\ Inv /\ ProvenIsFinal /\ PaidIsEnough /\ [Next]_vars
        => ProvenIsFinal' /\ PaidIsEnough'
    BY ProvenStep, PaidStep
  <1> DEFINE Heighted == OneHeight \/ \A x, y \in Tx : x = y
  <1>3. Inv /\ Heighted /\ [Next]_vars => Heighted'
    <2>1. CASE MaxForks = 1
      BY <2>1, OneHeightStep
    <2>2. CASE \A x, y \in Tx : x = y
      BY <2>2
    <2>. QED  BY <2>1, <2>2 DEF NoStaleHeight
  <1>4. /\ Inv /\ ProvenIsFinal /\ Heighted /\ ConfirmedIsFinal /\ [Next]_vars
        => ConfirmedIsFinal'
    BY FinalStep
  <1>5. ReceivedIsBacked /\ ConfirmedIsFinal /\ PaidIsEnough /\ Inv
        => PaidOnlyAtSolid
    <2> SUFFICES ASSUME ReceivedIsBacked, ConfirmedIsFinal, PaidIsEnough, Inv,
                        invoice.status \in {"paid", "overpaid"}
                 PROVE  TotalMicro(Final) >= Band.lowerBound
      BY DEF PaidOnlyAtSolid
    <2>1. /\ TotalMicro(Confirmed) \in Nat /\ TotalMicro(Final) \in Nat
          /\ TotalMicro(Confirmed) <= TotalMicro(Final)
      <3>1. Final \in SUBSET Tx /\ Confirmed \in SUBSET Final
        BY DEF Final, ConfirmedIsFinal
      <3>. HIDE DEF Final, Confirmed
      <3>. QED  BY <3>1, TotalIsNat, TotalMonotone
    <2>2. Band.lowerBound \in Nat /\ invoice.amountReceived \in Nat
      BY PriceAssumption, BandBracketsQuote
      DEF Band, Inv, TypeInv, TypeOK, InvoiceRow
    <2>. QED  BY <2>1, <2>2 DEF ReceivedIsBacked, PaidIsEnough
  <1>6. OneHeight => Heighted
    OBVIOUS
  <1>. HIDE DEF Heighted
  <1>. QED
    BY <1>1, <1>2, <1>3, <1>4, <1>5, <1>6, Invariance, ClaimsAreBacked, PTL
    DEF Spec

-----------------------------------------------------------------------------
(* Receipts *)

\* What may be credited of a real receipt is what it moves.
LEMMA ParsedMoves ==
    ASSUME NEW real \in Receipt, HasReceipt(real), NEW i
    PROVE  i \in Parsed(real)
             <=> /\ i \in DOMAIN real.log /\ real.succeeded
                 /\ real.log[i] = Payment(real.log[i].from, real.log[i].amount)
                 /\ real.log[i].amount > Dust
  <1>1. ASSUME NEW j \in DOMAIN real.log
        PROVE  Creditable(real.log[j])
                 <=> /\ real.log[j] = Payment(real.log[j].from, real.log[j].amount)
                     /\ real.log[j].amount > Dust
    <2> DEFINE e == real.log[j]
    <2>1. e \in Entry
      <3>1. real.log \in Seq(Entry)
        BY DEF Receipt
      <3>. QED  BY <3>1
    <2> HIDE DEF e
    <2>2. ASSUME Creditable(e)
          PROVE  e = Payment(e.from, e.amount)
      BY <2>1, <2>2 DEF Creditable, Payment, Entry
    <2>3. ASSUME e = Payment(e.from, e.amount), e.amount > Dust
          PROVE  Creditable(e)
      <3>1. /\ e.wellFormed = TRUE /\ e.contract = Usdt /\ e.event = "Transfer"
            /\ e.to = Deposit
        BY <2>3 DEF Payment
      <3>. QED  BY <2>3, <3>1 DEF Creditable
    <2>4. Creditable(e) => e.amount > Dust
      BY DEF Creditable
    <2>5. Creditable(e) <=> e = Payment(e.from, e.amount) /\ e.amount > Dust
      BY <2>2, <2>3, <2>4
    <2>. QED  BY <2>5 DEF e
  <1>2. i \in Parsed(real) <=> real.succeeded /\ i \in DOMAIN real.log /\ Creditable(real.log[i])
    BY DEF Parsed
  <1>. QED  BY <1>1, <1>2

LEMMA MovesAre ==
    ASSUME NEW real \in Receipt, HasReceipt(real)
    PROVE  Moved(real) = {[index |-> i, from |-> real.log[i].from,
                           amount |-> real.log[i].amount] : i \in Parsed(real)}
  <1> DEFINE I == {i \in DOMAIN real.log :
                      /\ real.block > 0 /\ real.succeeded
                      /\ real.log[i] = Payment(real.log[i].from, real.log[i].amount)
                      /\ real.log[i].amount > Dust}
  <1>1. \A i : i \in I <=> i \in Parsed(real)
    BY ParsedMoves DEF HasReceipt
  <1>2. I = Parsed(real)
    BY <1>1
  <1>. QED  BY <1>2 DEF Moved

LEMMA AgreedAre ==
    ASSUME NEW primary \in Receipt, NEW secondary \in Receipt,
           NEW credit \in Agreed(primary, secondary)
    PROVE  /\ HasReceipt(primary) /\ HasReceipt(secondary)
           /\ credit.index \in Parsed(primary) /\ credit.index \in Parsed(secondary)
           /\ credit.from = primary.log[credit.index].from
           /\ credit.from = secondary.log[credit.index].from
           /\ credit.amount = primary.log[credit.index].amount
           /\ credit.amount = secondary.log[credit.index].amount
           /\ credit.block >= primary.block /\ credit.block >= secondary.block
  <1>1. HasReceipt(primary) /\ HasReceipt(secondary)
    BY DEF Agreed
  <1>2. PICK i \in Parsed(primary) \cap Parsed(secondary) :
           /\ primary.log[i].from = secondary.log[i].from
           /\ primary.log[i].amount = secondary.log[i].amount
           /\ credit = [index |-> i, from |-> primary.log[i].from,
                        amount |-> primary.log[i].amount,
                        block |-> IF primary.block > secondary.block THEN primary.block
                                  ELSE secondary.block]
    BY <1>1 DEF Agreed
  <1>3. primary.block \in Nat /\ secondary.block \in Nat
    BY DEF Receipt
  <1>4. credit.index = i /\ credit.from = primary.log[i].from
        /\ credit.amount = primary.log[i].amount
    BY <1>2
  <1>5. credit.block = IF primary.block > secondary.block THEN primary.block
                       ELSE secondary.block
    BY <1>2
  <1>. QED  BY <1>1, <1>2, <1>3, <1>4, <1>5

\* Beside one provider that tells the truth the other cannot have a credit made
\* that the transaction does not back, of whatever log.
THEOREM OneTrueReceiptGuards ==
    ASSUME NEW real \in Receipt, NEW other \in Receipt
    PROVE  Guards(real, other)
  <1>1. SUFFICES ASSUME NEW credit \in Agreed(real, other) \cup Agreed(other, real)
                 PROVE  /\ [index |-> credit.index, from |-> credit.from,
                            amount |-> credit.amount] \in Moved(real)
                        /\ credit.block >= real.block
    BY DEF Guards
  <1>2. /\ HasReceipt(real) /\ credit.index \in Parsed(real)
        /\ credit.from = real.log[credit.index].from
        /\ credit.amount = real.log[credit.index].amount
        /\ credit.block >= real.block
    BY <1>1, AgreedAre
  <1>. QED  BY <1>2, MovesAre

\* Every page of a full listing is read.
LEMMA FullIsRead ==
    ASSUME NEW pages \in Seq(Page), FullListing(pages)
    PROVE  Candidates(pages) = Transactions(pages)
  <1>1. PagesRead(pages) = DOMAIN pages
    <2>1. SUFFICES ASSUME NEW k \in DOMAIN pages PROVE k \in PagesRead(pages)
      BY DEF PagesRead
    <2>2. k \in Nat \ {0} /\ Len(pages) \in Nat /\ k <= Len(pages)
      OBVIOUS
    <2>3. MaxPages \in Nat /\ k <= MaxPages
      BY <2>2, PagesAssumption DEF FullListing
    <2>4. \A j \in 1 .. k - 1 : pages[j].more /\ pages[j].rows # {}
      <3>1. SUFFICES ASSUME NEW j \in 1 .. k - 1 PROVE pages[j].more /\ pages[j].rows # {}
        OBVIOUS
      <3>2. j \in DOMAIN pages /\ j < Len(pages)
        BY <2>2
      <3>. QED  BY <3>2 DEF FullListing
    <2>. QED  BY <2>3, <2>4 DEF PagesRead
  <1>. QED  BY <1>1 DEF Candidates, Transactions

\* Nothing that a full listing names is lost, however many pages and entries.
THEOREM FullListingCompletes ==
    ASSUME NEW pages \in Seq(Page), FullListing(pages),
           NEW receipts \in [Transactions(pages) -> Receipt]
    PROVE  Completes(pages, receipts)
  <1>1. SUFFICES ASSUME NEW hash \in Transactions(pages), NEW move \in Moved(receipts[hash])
                 PROVE  \E credit \in Credits(pages, receipts, receipts) :
                           /\ credit.index = move.index /\ credit.from = move.from
                           /\ credit.amount = move.amount
                           /\ credit.block = receipts[hash].block
    BY DEF Completes
  <1> DEFINE real == receipts[hash]
  <1>2. real \in Receipt /\ HasReceipt(real)
    BY <1>1 DEF Moved, HasReceipt
  <1>3. PICK i \in Parsed(real) : move = [index |-> i, from |-> real.log[i].from,
                                          amount |-> real.log[i].amount]
    BY <1>1, <1>2, MovesAre
  <1> DEFINE credit == [index |-> i, from |-> real.log[i].from, amount |-> real.log[i].amount,
                        block |-> real.block]
  <1>4. credit \in Agreed(real, real)
    BY <1>2 DEF Agreed
  <1>5. credit \in Credits(pages, receipts, receipts)
    BY <1>4, FullIsRead DEF Credits
  <1>. QED  BY <1>3, <1>5

\* A provider that errs beside one that does not has nothing credited that is
\* not there, and of two that do not nothing is missed.
THEOREM AgreementSuffices == Spec => []OneRealReceiptSuffices
<1>1. OneRealReceiptSuffices
  <2>1. \A real, other \in GivenReceipts : Guards(real, other)
    BY AnswersAssumption, OneTrueReceiptGuards
  <2>2. ASSUME NEW pages \in Listings, FullListing(pages),
               NEW receipts \in [Transactions(pages) -> GivenReceipts]
        PROVE  Completes(pages, receipts)
    <3>1. receipts \in [Transactions(pages) -> Receipt]
      BY AnswersAssumption
    <3> QED BY <3>1, <2>2, AnswersAssumption, FullListingCompletes
  <2> QED BY <2>1, <2>2 DEF OneRealReceiptSuffices
<1> QED BY <1>1, PTL
=============================================================================
