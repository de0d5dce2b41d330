------------------------------- MODULE Watcher -------------------------------
(***************************************************************************)
(* The watcher worker (src/src/workers/watcher.ts) crediting the transfers *)
(* to one invoice's deposit address, against a chain that reorganises      *)
(* above its solid height, two providers it must hear the same from, the   *)
(* database rows it keeps, and the API's cancel handler, which runs in     *)
(* another process.                                                        *)
(*                                                                         *)
(* One poll tick is several steps, because the chain and the API move      *)
(* between its awaits: the solid heights are read first, then the          *)
(* candidates, then two receipts per candidate, then the sentinel sweep,   *)
(* then one credit transaction per agreed transfer.  A transaction is one  *)
(* step: runInCredit holds the invoice row FOR UPDATE until it commits.    *)
(* Invoices share no row of this state (a payment belongs to one deposit   *)
(* address), so one invoice is modelled.                                   *)
(***************************************************************************)
EXTENDS Lifecycle

CONSTANTS
    Price,          \* amountUsdt of the invoice, in micro-USDT
    Endpoints,      \* webhook endpoints that may be registered
    MaxHeight,      \* bound: highest block of the modelled chain
    MaxForks,       \* bound: times one transfer is placed in a block
    MaxLag,         \* how far a provider's solid height may trail the chain's
    MaxCancels      \* bound: cancel requests the API receives

ASSUME PriceAssumption == Price \in Nat \ {0}
ASSUME EndpointsAssumption == IsFiniteSet(Endpoints)
ASSUME BoundsAssumption ==
    /\ MaxHeight \in Nat \ {0}
    /\ MaxForks \in Nat \ {0}
    /\ MaxLag \in Nat
    /\ MaxCancels \in Nat

VARIABLES
    \* the chain, seen only through the providers
    placed,         \* placed[t]: the block holding t (blockNumber 0: none)
    solidHeight,    \* blocks at or below it are never reorganised
    \* wall-clock facts about the invoice
    expired,        \* now >= expiresAt
    graceOver,      \* closed longer ago than LATE_FUNDS_GRACE_DAYS
    \* database rows
    invoice,
    payments,
    deliveries,     \* WebhookDelivery rows of this invoice
    endpoints,      \* active WebhookEndpoint rows for its event
    hasCursor,      \* a ChainCursor row exists
    \* the watcher process and the locals of its current tick
    pc, tick,
    \* the cancel handler
    cancelPc, cancels

chainVars  == <<placed, solidHeight>>
clockVars  == <<expired, graceOver>>
cancelVars == <<cancelPc, cancels>>
vars == <<chainVars, clockVars, invoice, payments, deliveries, endpoints,
          hasCursor, pc, tick, cancelVars>>

Heights == 1 .. MaxHeight

\* UNCONFIRMED_BLOCK_SENTINEL: a block number above every solid height.
Sentinel == MaxHeight + 1

\* Block hashes are the count of a transfer's placements; 0 is the empty
\* string /v1 leaves when it does not report block_hash.
Hashes == 0 .. MaxForks

Placement  == [blockNumber : 0 .. MaxHeight, blockHash : Hashes]
PaymentRow == [status : PaymentStatus, blockNumber : 0 .. Sentinel,
               blockHash : Hashes]
InvoiceRow == [status : InvoiceStatus, amountReceived : Nat, paid : BOOLEAN]
Delivery   == [endpoint : Endpoints, version : Nat \ {0}, event : Event,
               amountReceived : Nat]

\* What a tick has read so far; a local no later step reads is reset.
\* remaining: candidates still to fetch, then agreed transfers still to
\* credit.  primary: the height the primary's receipt gave for the current
\* candidate (0: none yet).
Tick == [latestSolid : 0 .. MaxHeight, expired : BOOLEAN,
         fullReplay : BOOLEAN, hashes : [Tx -> Hashes], remaining : SUBSET Tx,
         primary : [Tx -> 0 .. MaxHeight], agreed : [Tx -> 0 .. MaxHeight]]

NoRow == [status |-> "none", blockNumber |-> 0, blockHash |-> 0]
NoTick == [latestSolid |-> 0, expired |-> FALSE, fullReplay |-> FALSE,
           hashes |-> [t \in Tx |-> 0], remaining |-> {},
           primary |-> [t \in Tx |-> 0], agreed |-> [t \in Tx |-> 0]]

TypeOK ==
    /\ placed \in [Tx -> Placement]
    /\ solidHeight \in 0 .. MaxHeight
    /\ expired \in BOOLEAN /\ graceOver \in BOOLEAN
    /\ invoice \in InvoiceRow
    /\ payments \in [Tx -> PaymentRow]
    /\ deliveries \subseteq Delivery
    /\ endpoints \subseteq Endpoints
    /\ hasCursor \in BOOLEAN
    /\ pc \in {"idle", "discover", "receipts", "credit"}
    /\ tick \in Tick
    /\ cancelPc \in {"idle", "checked"}
    /\ cancels \in 0 .. MaxCancels

Init ==
    /\ placed = [t \in Tx |-> [blockNumber |-> 0, blockHash |-> 0]]
    /\ solidHeight = 0
    /\ expired = FALSE /\ graceOver = FALSE
    /\ invoice = [status |-> "pending", amountReceived |-> 0, paid |-> FALSE]
    /\ payments = [t \in Tx |-> NoRow]
    /\ deliveries = {}
    /\ endpoints \in SUBSET Endpoints
    /\ hasCursor = FALSE
    /\ pc = "idle" /\ tick = NoTick
    /\ cancelPc = "idle" /\ cancels = 0

-----------------------------------------------------------------------------
(* The chain and the clock *)

\* A payer's transfer enters a block above the solid height, for the first
\* time or again after a reorganisation dropped it.
Mine(t) ==
    /\ placed[t].blockNumber = 0
    /\ placed[t].blockHash < MaxForks
    /\ \E b \in solidHeight + 1 .. MaxHeight :
          placed' = [placed EXCEPT ![t] =
                        [blockNumber |-> b, blockHash |-> @.blockHash + 1]]
    /\ UNCHANGED <<solidHeight, clockVars, invoice, payments, deliveries,
                   endpoints, hasCursor, pc, tick, cancelVars>>

Reorg(t) ==
    /\ placed[t].blockNumber > solidHeight
    /\ placed' = [placed EXCEPT ![t].blockNumber = 0]
    /\ UNCHANGED <<solidHeight, clockVars, invoice, payments, deliveries,
                   endpoints, hasCursor, pc, tick, cancelVars>>

AdvanceSolid ==
    /\ solidHeight < MaxHeight
    /\ solidHeight' = solidHeight + 1
    /\ UNCHANGED <<placed, clockVars, invoice, payments, deliveries,
                   endpoints, hasCursor, pc, tick, cancelVars>>

TtlElapses ==
    /\ ~expired
    /\ expired' = TRUE
    /\ UNCHANGED <<chainVars, graceOver, invoice, payments, deliveries,
                   endpoints, hasCursor, pc, tick, cancelVars>>

\* The grace window of listActiveForWatch runs from paidAt, expiresAt and
\* createdAt; it outlasts the TTL by far.
GraceElapses ==
    /\ expired /\ ~graceOver
    /\ invoice.status \in Terminal
    /\ graceOver' = TRUE
    /\ UNCHANGED <<chainVars, expired, invoice, payments, deliveries,
                   endpoints, hasCursor, pc, tick, cancelVars>>

\* POST /v1/webhooks and DELETE /v1/webhooks/:id.  The foreign key of
\* WebhookDelivery refuses to delete an endpoint that has deliveries, and
\* no code clears the active flag.
RegisterEndpoint(e) ==
    /\ e \notin endpoints
    /\ endpoints' = endpoints \cup {e}
    /\ UNCHANGED <<chainVars, clockVars, invoice, payments, deliveries,
                   hasCursor, pc, tick, cancelVars>>

DeleteEndpoint(e) ==
    /\ e \in endpoints
    /\ \A d \in deliveries : d.endpoint # e
    /\ endpoints' = endpoints \ {e}
    /\ UNCHANGED <<chainVars, clockVars, invoice, payments, deliveries,
                   hasCursor, pc, tick, cancelVars>>

-----------------------------------------------------------------------------
(* Webhook rows *)

Versions(ds, e) == {d.version : d \in {x \in ds : x.endpoint = e}}

\* maxVersionForInvoiceEndpoint
MaxVersion(ds, e) ==
    IF Versions(ds, e) = {} THEN 0
    ELSE CHOOSE v \in Versions(ds, e) : \A u \in Versions(ds, e) : u <= v

\* enqueue: a row with a fresh eventUid, in the caller's transaction.
NewRow(ds, e, event, received) ==
    [endpoint |-> e, version |-> MaxVersion(ds, e) + 1, event |-> event,
     amountReceived |-> received]

\* enqueueWebhookForInvoice: one row per active endpoint, each under that
\* endpoint's own next version.
Enqueue(ds, event, received) ==
    ds \cup {NewRow(ds, e, event, received) : e \in endpoints}

\* Slip: rows that exist already are not looked for.
SlipReplayAlways(pays) ==
    IF invoice.status \in {"paid", "overpaid", "underpaid"}
      THEN Enqueue(deliveries, invoice.status, invoice.amountReceived)
      ELSE deliveries

\* replayMissingWebhook: the status is announced only if no row was ever
\* written for the invoice, to any endpoint.
ReplayedEvent ==
    [s \in {"paid", "overpaid", "underpaid", "overdue", "payment_detected"} |->
        IF s = "overdue" THEN "late_funds" ELSE s]

ReplayMissingWebhook(pays) ==
    IF invoice.status \in DOMAIN ReplayedEvent /\ deliveries = {}
      THEN Enqueue(deliveries, ReplayedEvent[invoice.status],
                   TransitionInvoice(invoice, pays, Sentinel,
                                     ComputeToleranceBand(Price),
                                     tick.expired).amountReceived)
      ELSE deliveries

-----------------------------------------------------------------------------
(* The watcher's tick *)

\* listActiveForWatch
Listed == \/ invoice.status \in {"pending", "payment_detected", "overdue"}
          \/ ~graceOver

\* Slip: closed invoices in their grace window are not replayed in full.
SlipOpenOnly(status) == status \in {"pending", "payment_detected", "overdue"}

\* needsUnresolvedFundsReplay
NeedsUnresolvedFundsReplay(status) ==
    status \in {"pending", "payment_detected", "overdue", "paid", "overpaid",
                "underpaid", "expired", "canceled"}

\* pollOnce up to the invoice loop: now, both solid heights (the smaller one
\* fences the tick; a provider may trail by MaxLag, and not by the same each
\* time), the cursor, the list.  An invoice that is not listed only lets the
\* cursor be written.  A tick that cannot read a solid height, or finds the
\* watcher paused, does nothing: it is no step.
StartTick ==
    /\ pc = "idle"
    /\ \E s \in {h \in 0 .. solidHeight : h + MaxLag >= solidHeight} :
          IF Listed
            THEN /\ pc' = "discover"
                 /\ tick' = [NoTick EXCEPT
                       !.latestSolid = s, !.expired = expired,
                       !.fullReplay = NeedsUnresolvedFundsReplay(invoice.status)
                                      \/ ~hasCursor]
                 /\ UNCHANGED hasCursor
            ELSE /\ hasCursor' = TRUE
                 /\ UNCHANGED <<pc, tick>>
    /\ UNCHANGED <<chainVars, clockVars, invoice, payments, deliveries,
                   endpoints, cancelVars>>

\* Step 1, the primary's /v1 listing: untrusted, it only yields candidates
\* and, where the provider reports it, the hash of a candidate's block.  It
\* may still name a transfer that a reorganisation has just dropped.  A scan
\* that is no full replay may leave any transfer out.
OnChain == {t \in Tx : placed[t].blockNumber > 0}

Discover ==
    /\ pc = "discover"
    /\ \E found \in SUBSET {t \in Tx : placed[t].blockHash > 0},
          reported \in BOOLEAN :
          /\ tick.fullReplay => OnChain \subseteq found
          /\ tick' = [tick EXCEPT
                !.remaining = found,
                !.hashes = [t \in Tx |-> IF reported /\ t \in found
                                         THEN placed[t].blockHash ELSE 0]]
    /\ pc' = "receipts"
    /\ UNCHANGED <<chainVars, clockVars, invoice, payments, deliveries,
                   endpoints, hasCursor, cancelVars>>

\* The listing failed: the invoice is skipped, the tick still ends.
DiscoverFails ==
    /\ pc = "discover"
    /\ pc' = "idle" /\ tick' = NoTick /\ hasCursor' = TRUE
    /\ UNCHANGED <<chainVars, clockVars, invoice, payments, deliveries,
                   endpoints, cancelVars>>

\* Step 2: the two receipts of a candidate, one after the other.  Either
\* being an error or empty drops the candidate for this tick.
NoCandidateOpen == \A t \in Tx : tick.primary[t] = 0

FetchPrimary(t) ==
    /\ pc = "receipts" /\ NoCandidateOpen
    /\ t \in tick.remaining
    /\ placed[t].blockNumber > 0
    /\ tick' = [tick EXCEPT !.primary[t] = placed[t].blockNumber]
    /\ UNCHANGED <<chainVars, clockVars, invoice, payments, deliveries,
                   endpoints, hasCursor, pc, cancelVars>>

\* Step 3: both receipts agree on the transfer (its fields are those of the
\* same transaction); the later of the two heights is the one believed.
FetchSecondary(t) ==
    /\ pc = "receipts"
    /\ tick.primary[t] > 0
    /\ placed[t].blockNumber > 0
    /\ tick' = [tick EXCEPT
          !.agreed[t] = IF tick.primary[t] > placed[t].blockNumber
                        THEN tick.primary[t] ELSE placed[t].blockNumber,
          !.primary[t] = 0,
          !.remaining = @ \ {t}]
    /\ UNCHANGED <<chainVars, clockVars, invoice, payments, deliveries,
                   endpoints, hasCursor, pc, cancelVars>>

SkipCandidate(t) ==
    /\ pc = "receipts"
    /\ t \in tick.remaining
    /\ NoCandidateOpen \/ tick.primary[t] > 0
    /\ tick' = [tick EXCEPT !.primary[t] = 0, !.hashes[t] = 0,
                          !.remaining = @ \ {t}]
    /\ UNCHANGED <<chainVars, clockVars, invoice, payments, deliveries,
                   endpoints, hasCursor, pc, cancelVars>>

AgreedKeys == {t \in Tx : tick.agreed[t] > 0}

Unproven(t) == payments[t].status = "detected" /\ t \notin AgreedKeys

\* markUnconfirmed: only a row still detected is changed.
MarkUnconfirmed(row) ==
    [row EXCEPT !.blockNumber = IF row.status = "detected" THEN Sentinel ELSE @]

\* Step 4, before any credit: every detected payment this tick did not prove
\* is reset.  Only a full replay may conclude that from absence.
SentinelSweep ==
    /\ pc = "receipts" /\ tick.remaining = {}
    /\ payments' = IF tick.fullReplay
                     THEN [t \in Tx |-> IF Unproven(t)
                             THEN MarkUnconfirmed(payments[t])
                             ELSE payments[t]]
                     ELSE payments
    /\ pc' = "credit"
    /\ tick' = [tick EXCEPT !.remaining = AgreedKeys]
    /\ UNCHANGED <<chainVars, clockVars, invoice, deliveries, endpoints,
                   hasCursor, cancelVars>>

-----------------------------------------------------------------------------
(* Step 5: one credit transaction per agreed transfer *)

\* Slip: an orphan never comes back.
SlipNoRevival(row, bn, hash) ==
    CASE row.status = "none" ->
            [status |-> IF bn <= tick.latestSolid THEN "confirmed"
                                                  ELSE "detected",
             blockNumber |-> bn, blockHash |-> hash]
      [] row.status = "detected" -> [row EXCEPT !.blockNumber = bn]
      [] OTHER -> row

\* Slip: the height stays the one first stored.
SlipFirstHeight(row, bn, hash) ==
    CASE row.status = "none" ->
            [status |-> IF bn <= tick.latestSolid THEN "confirmed"
                                                  ELSE "detected",
             blockNumber |-> bn, blockHash |-> hash]
      [] row.status = "orphaned" /\ bn < Sentinel /\ hash # 0 ->
            [status |-> "detected", blockNumber |-> bn, blockHash |-> hash]
      [] OTHER -> row

\* PaymentRepositoryPrisma.upsert.  While detected only the height follows
\* the chain; an orphan comes back as detected, never higher; a confirmed
\* row is immutable.
Upsert(row, bn, hash) ==
    CASE row.status = "none" ->
            [status |-> IF bn <= tick.latestSolid THEN "confirmed"
                                                  ELSE "detected",
             blockNumber |-> bn, blockHash |-> hash]
      [] row.status = "detected" -> [row EXCEPT !.blockNumber = bn]
      [] row.status = "orphaned" /\ bn < Sentinel /\ hash # 0 ->
            [status |-> "detected", blockNumber |-> bn, blockHash |-> hash]
      [] OTHER -> row

\* Slip: only the height protects a row, which lags with the provider.
SlipAnyStatusReorgs(row, hash) ==
    /\ row.blockNumber > tick.latestSolid
    /\ hash # 0 /\ row.blockHash # 0 /\ hash # row.blockHash

\* checkReorg: a detected payment above the fence whose block hash changed.
Reorged(row, hash) ==
    /\ row.blockNumber > tick.latestSolid
    /\ row.status = "detected"
    /\ hash # 0 /\ row.blockHash # 0 /\ hash # row.blockHash

\* transitionAndEnqueue: promote whatever is at or below the fence, decide,
\* persist, announce.  paidAt is written when set, never cleared.
Promoted(pays) ==
    [t \in Tx |-> IF /\ pays[t].status = "detected"
                     /\ pays[t].blockNumber <= tick.latestSolid
                    THEN [pays[t] EXCEPT !.status = "confirmed"]
                    ELSE pays[t]]

Decided(pays) ==
    TransitionInvoice(invoice, pays, tick.latestSolid,
                      ComputeToleranceBand(Price), tick.expired)

\* Slip: an amount that grows without a change of status is not stored.
SlipStatusOnly(pays) ==
    LET r == Decided(Promoted(pays))
    IN  /\ payments' = Promoted(pays)
        /\ invoice' = IF r.changed
                        THEN [status |-> r.newStatus,
                              amountReceived |-> r.amountReceived,
                              paid |-> invoice.paid \/ r.settled]
                        ELSE invoice
        /\ deliveries' = IF r.changed /\ r.webhookEvent # "none"
                           THEN Enqueue(deliveries, r.webhookEvent,
                                        r.amountReceived)
                           ELSE deliveries

TransitionAndEnqueue(pays) ==
    LET r == Decided(Promoted(pays))
    IN  /\ payments' = Promoted(pays)
        /\ invoice' = IF r.changed \/ r.amountReceived # invoice.amountReceived
                        THEN [status |-> r.newStatus,
                              amountReceived |-> r.amountReceived,
                              paid |-> invoice.paid \/ r.settled]
                        ELSE invoice
        /\ deliveries' = IF r.changed /\ r.webhookEvent # "none"
                           THEN Enqueue(deliveries, r.webhookEvent,
                                        r.amountReceived)
                           ELSE deliveries

\* creditTransfer: the row as upsert leaves it, then as checkReorg does.
Known(t) == payments[t].status # "none"

Upserted(t) == Upsert(payments[t], tick.agreed[t], tick.hashes[t])

Orphans(t) == Known(t) /\ Reorged(Upserted(t), tick.hashes[t])

Written(t) ==
    [payments EXCEPT ![t] =
        IF Orphans(t) THEN [Upserted(t) EXCEPT !.status = "orphaned"]
                      ELSE Upserted(t)]

\* The block of a row still detected has become solid.
Ripe(t) == /\ Upserted(t).status = "detected"
           /\ Upserted(t).blockNumber <= tick.latestSolid

\* A row that was there already is only re-decided when a reorganisation
\* orphaned it or its block has become solid.
CreditTransfer(t) ==
    IF ~Known(t) \/ Orphans(t) \/ Ripe(t)
      THEN TransitionAndEnqueue(Written(t))
      ELSE /\ payments' = Written(t)
           /\ deliveries' = ReplayMissingWebhook(Written(t))
           /\ UNCHANGED invoice

Credit(t) ==
    /\ pc = "credit"
    /\ t \in tick.remaining
    /\ CreditTransfer(t)
    /\ tick' = [tick EXCEPT !.hashes[t] = 0, !.remaining = @ \ {t}]
    /\ UNCHANGED <<chainVars, clockVars, endpoints, hasCursor, pc, cancelVars>>

\* The last write of pollOnce: the cursor.
EndTick ==
    /\ pc = "credit" /\ tick.remaining = {}
    /\ pc' = "idle" /\ tick' = NoTick /\ hasCursor' = TRUE
    /\ UNCHANGED <<chainVars, clockVars, invoice, payments, deliveries,
                   endpoints, cancelVars>>

\* The process dies, or a repository call throws and processInvoices moves
\* on: the locals are gone, every committed transaction stays.
Crash ==
    /\ pc # "idle"
    /\ pc' = "idle" /\ tick' = NoTick
    /\ hasCursor' \in {hasCursor, TRUE}
    /\ UNCHANGED <<chainVars, clockVars, invoice, payments, deliveries,
                   endpoints, cancelVars>>

-----------------------------------------------------------------------------
(* The API's cancel handler, cancelInvoiceById: a read, a check, and an     *)
(* update by primary key, without a transaction or a lock around them.     *)

CancelRead ==
    /\ cancelPc = "idle" /\ cancels < MaxCancels
    /\ cancels' = cancels + 1
    /\ cancelPc' = IF MayCancel(invoice) THEN "checked" ELSE "idle"
    /\ UNCHANGED <<chainVars, clockVars, invoice, payments, deliveries,
                   endpoints, hasCursor, pc, tick>>

CancelWrite ==
    /\ cancelPc = "checked"
    /\ invoice' = [invoice EXCEPT !.status = "canceled"]
    /\ cancelPc' = "idle"
    /\ UNCHANGED <<chainVars, clockVars, payments, deliveries, endpoints,
                   hasCursor, pc, tick, cancels>>

-----------------------------------------------------------------------------

Environment ==
    \/ \E t \in Tx : Mine(t) \/ Reorg(t)
    \/ AdvanceSolid \/ TtlElapses \/ GraceElapses
    \/ \E e \in Endpoints : RegisterEndpoint(e) \/ DeleteEndpoint(e)

Poll ==
    \/ StartTick \/ Discover \/ DiscoverFails
    \/ \E t \in Tx : FetchPrimary(t) \/ FetchSecondary(t) \/ SkipCandidate(t)
    \/ SentinelSweep
    \/ \E t \in Tx : Credit(t)
    \/ EndTick

Next == Environment \/ Poll \/ Crash \/ CancelRead \/ CancelWrite

Spec == Init /\ [][Next]_vars

\* The loop of start(): it never stops trying, so a step of the tick that
\* stays possible is taken.
LiveSpec == Spec /\ WF_vars(Poll)

-----------------------------------------------------------------------------
(* Properties *)

Confirmed == {t \in Tx : payments[t].status = "confirmed"}

\* Transfers no reorganisation can take back any more.
Final == {t \in Tx : placed[t].blockNumber \in 1 .. solidHeight}

Band == ComputeToleranceBand(Price)

\* A payment is promoted to confirmed only in a tick in which both providers
\* proved its transfer to be on the chain: a phantom, reorganised out but
\* still stored with a low block number, is never promoted by another
\* transfer's credit (watcher.ts, steps 4 and 5 of processInvoice).
ConfirmOnlyAgreed ==
    [][\A t \in Tx : t \in Confirmed' \ Confirmed => t \in AgreedKeys]_vars

\* Once confirmed a payment row never changes again: neither reorg detection
\* nor the sweep nor a replayed transfer may touch it, even while a provider
\* reports a solid height below the row's block.
ConfirmedIsImmutable ==
    [][\A t \in Confirmed : payments'[t] = payments[t]]_vars

\* The invoice claims no more than the transfers that were confirmed, in
\* whatever order ticks, crashes and cancels fall.
ReceivedIsBacked == invoice.amountReceived <= TotalMicro(Confirmed)

\* With providers that never report a solid height lower than before, it
\* also claims no less: every confirmed micro-USDT is accounted.
ReceivedIsExact == invoice.amountReceived = TotalMicro(Confirmed)

\* An invoice that was paid stays paid until late money makes it overdue:
\* `paid` never reverts (watcher.ts, charter rules), and only an invoice that
\* is still pending is canceled.
PaidNeverReverts ==
    [][invoice.status = "paid" => invoice'.status \in {"paid", "overdue"}]_vars

\* Money that closes an invoice as paid is irreversibly on the chain.
PaidOnlyAtSolid ==
    invoice.status \in {"paid", "overpaid"}
        => TotalMicro(Final) >= Band.lowerBound

\* What one endpoint is told: versions identify its rows, at most one of them
\* closes the invoice, everything after that is late_funds, and the amounts
\* told from then on never shrink.
OneClosingEvent ==
    \A d1, d2 \in deliveries :
        d1.endpoint = d2.endpoint =>
            /\ d1.version = d2.version => d1 = d2
            /\ d1.version < d2.version /\ d1.event # "payment_detected" =>
                  /\ d2.event = "late_funds"
                  /\ d1.amountReceived <= d2.amountReceived

EventOf == [s \in InvoiceStatus |-> IF s = "overdue" THEN "late_funds" ELSE s]

\* An endpoint that was told anything was told the current status, in its
\* row of highest version, with the amount a closed invoice has: no later
\* change slips past it, whatever other endpoints come and go.
LatestRowIsCurrent ==
    \A d \in deliveries :
        /\ d.version = MaxVersion(deliveries, d.endpoint)
        /\ invoice.status # "canceled"
        => /\ d.event = EventOf[invoice.status]
           /\ invoice.status \in Terminal =>
                 d.amountReceived = invoice.amountReceived

\* The watcher keeps the ledger's promise.
Ledger == INSTANCE InvoiceLedger WITH
    windowClosed <- expired, credited <- Confirmed,
    status <- invoice.status, received <- invoice.amountReceived

\* Every step of watcher, chain, crashes and webhook registration is a step
\* of the ledger or leaves it alone: status, amount and confirmed payments
\* always move together, through allowed verdicts only.
KeepsLedger == Ledger!LedgerSpec

\* A step in which a provider fails or lags, or the process dies.
Fault ==
    \/ Crash /\ ~EndTick
    \/ DiscoverFails
    \/ \E t \in OnChain : SkipCandidate(t)
    \/ StartTick /\ tick'.latestSolid < solidHeight
    \/ Discover /\ \E t \in OnChain : tick'.hashes[t] = 0

\* If faults cease, every transfer that is final while the invoice is watched
\* is eventually confirmed: no transfer stays orphaned, detected or swept
\* for ever.
FinalIsCredited ==
    <>[][~Fault]_vars =>
        \A t \in Tx : t \in Final /\ Listed ~> t \in Confirmed \/ ~Listed
=============================================================================
