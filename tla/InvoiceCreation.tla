---------------------------- MODULE InvoiceCreation ----------------------------
(***************************************************************************)
(* POST /v1/invoices (src/src/server/routes/invoices.ts) under an          *)
(* Idempotency-Key: the InvoiceIdempotency row that requests reserve, wait *)
(* for and complete (server/db/adapters.ts), and createInvoice             *)
(* (core/invoices.ts), which allocates the next derivation index of the    *)
(* event in one transaction and inserts the invoice in another.            *)
(*                                                                         *)
(* Rows of different keys and counters of different events are             *)
(* independent, so one key and one event are modelled.  Others make        *)
(* invoices of the same event without a key: POSTs that have no header,    *)
(* among them the demo shop's (routes/demo.ts), and the form of the        *)
(* dashboard (routes/createLink.ts).  Requests are served by several       *)
(* processes; between any two database calls another request may run, the  *)
(* process may die, or a query may throw.  Requests refused before the     *)
(* reservation (paused, rate limit, tenant, TTL) leave no trace here.      *)
(***************************************************************************)
EXTENDS Naturals, FiniteSets

CONSTANTS
    Requests,       \* to make an invoice of the event
    Keyless,        \* those without the key
    Bodies,         \* request hashes
    Body,           \* the hash of each request
    Invalid,        \* those createInvoice rejects with a validation error
    MaxLapses       \* bound: leases and rows that run out

ASSUME RequestsAssumption == /\ IsFiniteSet(Requests) /\ Bodies # {}
                             /\ Keyless \subseteq Requests
                             /\ Body \in [Requests -> Bodies]
ASSUME LapsesAssumption == MaxLapses \in Nat

VARIABLES
    record,             \* the InvoiceIdempotency row of the key
    nextInvoiceIndex,   \* of the Event row
    invoices,
    handler,            \* per request, where its handler stands
    \* history
    lapses              \* times a processing lease or the row ran out

creationVars == <<record, nextInvoiceIndex, invoices, handler, lapses>>

Reply == [code : {"none", "created", "rejected", "conflict", "failed"}, index : Nat]

NoReply  == [code |-> "none", index |-> 0]
Rejected == [code |-> "rejected", index |-> 0]
Conflict == [code |-> "conflict", index |-> 0]
Failed   == [code |-> "failed", index |-> 0]
Created(i) == [code |-> "created", index |-> i]

Invoice == [derivationIndex : Nat, request : Requests]

\* leaseOver: processingExpiresAt has passed.  stale: expiresAt has.
Record == [state : {"absent", "processing", "completed"}, requestHash : Bodies,
           reply : Reply, leaseOver : BOOLEAN, stale : BOOLEAN]

Absent == [state |-> "absent", requestHash |-> CHOOSE b \in Bodies : TRUE,
           reply |-> NoReply, leaseOver |-> FALSE, stale |-> FALSE]

InFlight == {"reserving", "looking", "waiting", "creating", "inserting", "completing"}

TypeOK ==
    /\ record \in Record
    /\ nextInvoiceIndex \in Nat
    /\ invoices \subseteq Invoice
    /\ handler \in [Requests -> [pc : {"new", "answered", "dead"} \cup InFlight,
                                 reply : Reply]]
    /\ lapses \in 0 .. MaxLapses

Init ==
    /\ record = Absent
    /\ nextInvoiceIndex = 0
    /\ invoices = {}
    /\ handler = [r \in Requests |-> [pc |-> "new", reply |-> NoReply]]
    /\ lapses = 0

-----------------------------------------------------------------------------
(* The idempotency row *)

At(r, pc) == handler[r].pc = pc

Goto(r, pc) == handler' = [handler EXCEPT ![r].pc = pc]

Answer(r, reply) ==
    handler' = [handler EXCEPT ![r] = [pc |-> "answered", reply |-> reply]]

\* No key, no row: the handler goes straight to createInvoice.
ArriveKeyless(r) ==
    /\ At(r, "new") /\ r \in Keyless
    /\ Goto(r, "creating")
    /\ UNCHANGED <<record, nextInvoiceIndex, invoices, lapses>>

\* deleteExpired
Arrive(r) ==
    /\ At(r, "new") /\ r \notin Keyless
    /\ record' = IF record.stale THEN Absent ELSE record
    /\ Goto(r, "reserving")
    /\ UNCHANGED <<nextInvoiceIndex, invoices, lapses>>

\* Slip: whoever finds the row in processing takes it.
SlipAnyProcessing == record.state \in {"absent", "processing"} \/ record.stale

\* INSERT .. ON CONFLICT DO UPDATE .. WHERE: whether reserve takes the row.
Reservable ==
    \/ record.state = "absent"
    \/ record.stale
    \/ record.state = "processing" /\ record.leaseOver

Reserve(r) ==
    /\ At(r, "reserving")
    /\ IF Reservable
         THEN /\ record' = [state |-> "processing", requestHash |-> Body[r],
                            reply |-> NoReply, leaseOver |-> FALSE,
                            stale |-> FALSE]
              /\ Goto(r, "creating")
         ELSE /\ Goto(r, "looking")
              /\ UNCHANGED record
    /\ UNCHANGED <<nextInvoiceIndex, invoices, lapses>>

\* findValid
Valid == record.state # "absent" /\ ~record.stale

SameBody(r) == record.requestHash = Body[r]

\* Slip: the hash is compared only while the row is in processing.
SlipServeAnyBody(r) ==
    CASE Valid /\ record.state = "completed" -> record.reply
      [] OTHER -> Conflict

\* What a row that is there answers: its stored response to the same body,
\* a conflict to another.
Cached(r) ==
    CASE Valid /\ SameBody(r) /\ record.state = "completed" -> record.reply
      [] OTHER -> Conflict

InProgress(r) == Valid /\ SameBody(r) /\ record.state = "processing"

\* reserve, when the row was not taken: it reads the row, and starts over if
\* the row is gone by now.
Look(r) ==
    /\ At(r, "looking")
    /\ CASE ~Valid -> Goto(r, "reserving")
         [] InProgress(r) -> Goto(r, "waiting")
         [] OTHER -> Answer(r, Cached(r))
    /\ UNCHANGED <<record, nextInvoiceIndex, invoices, lapses>>

\* waitForCompletedIdempotency.  A row that is gone, and a wait that is over,
\* yield null, and null is answered like a row with another body.
Await(r) ==
    /\ At(r, "waiting")
    /\ ~InProgress(r)
    /\ Answer(r, Cached(r))
    /\ UNCHANGED <<record, nextInvoiceIndex, invoices, lapses>>

WaitEnds(r) ==
    /\ At(r, "waiting")
    /\ Answer(r, Conflict)
    /\ UNCHANGED <<record, nextInvoiceIndex, invoices, lapses>>

\* complete, after createInvoice returned or threw a validation error: an
\* upsert that asks for no owner, then the response.
Complete(r) ==
    /\ At(r, "completing")
    /\ record' = [state |-> "completed", requestHash |-> Body[r],
                  reply |-> handler[r].reply, leaseOver |-> FALSE,
                  stale |-> FALSE]
    /\ Answer(r, handler[r].reply)
    /\ UNCHANGED <<nextInvoiceIndex, invoices, lapses>>

\* The processing lease is 30 s, the row lives for the TTL of the invoice: a
\* minute at least.
LeaseLapses ==
    /\ lapses < MaxLapses
    /\ record.state = "processing" /\ ~record.leaseOver
    /\ record' = [record EXCEPT !.leaseOver = TRUE]
    /\ lapses' = lapses + 1
    /\ UNCHANGED <<nextInvoiceIndex, invoices, handler>>

RowExpires ==
    /\ lapses < MaxLapses
    /\ record.state # "absent" /\ ~record.stale
    /\ record.state = "processing" => record.leaseOver
    /\ record' = [record EXCEPT !.stale = TRUE]
    /\ lapses' = lapses + 1
    /\ UNCHANGED <<nextInvoiceIndex, invoices, handler>>

-----------------------------------------------------------------------------
(* createInvoice *)

\* What is left to do when createInvoice has returned or thrown.
Settled(r) == IF r \in Keyless THEN "answered" ELSE "completing"

\* A validation error is a response like any other, and is stored as one.
Reject(r) ==
    /\ At(r, "creating")
    /\ Body[r] \in Invalid
    /\ handler' = [handler EXCEPT ![r] = [pc |-> Settled(r), reply |-> Rejected]]
    /\ UNCHANGED <<record, nextInvoiceIndex, invoices, lapses>>

\* Slip: the next index is the number of invoices so far.
SlipCountInvoices(r) ==
    /\ At(r, "creating")
    /\ Body[r] \notin Invalid
    /\ handler' = [handler EXCEPT ![r] =
          [pc |-> "inserting", reply |-> Created(Cardinality(invoices))]]
    /\ UNCHANGED <<record, nextInvoiceIndex, invoices, lapses>>

\* allocateNextInvoiceIndex: one serializable transaction under FOR UPDATE.
AllocateNextInvoiceIndex(r) ==
    /\ At(r, "creating")
    /\ Body[r] \notin Invalid
    /\ handler' = [handler EXCEPT ![r] =
          [pc |-> "inserting", reply |-> Created(nextInvoiceIndex)]]
    /\ nextInvoiceIndex' = nextInvoiceIndex + 1
    /\ UNCHANGED <<record, invoices, lapses>>

\* DERIVATION_FAILED: no address can be derived at the index.  It is a
\* validation error to the route, and the index is not used again.
DerivationFails(r) ==
    /\ At(r, "inserting")
    /\ handler' = [handler EXCEPT ![r] = [pc |-> Settled(r), reply |-> Rejected]]
    /\ UNCHANGED <<record, nextInvoiceIndex, invoices, lapses>>

Insert(r) ==
    /\ At(r, "inserting")
    /\ invoices' = invoices \cup {[derivationIndex |-> handler[r].reply.index,
                                   request |-> r]}
    /\ Goto(r, Settled(r))
    /\ UNCHANGED <<record, nextInvoiceIndex, lapses>>

\* A query throws: the response is an internal error, the row stays as it is.
Fail(r) ==
    /\ handler[r].pc \in InFlight
    /\ Answer(r, Failed)
    /\ UNCHANGED <<record, nextInvoiceIndex, invoices, lapses>>

Die(r) ==
    /\ handler[r].pc \in InFlight
    /\ handler' = [handler EXCEPT ![r] = [pc |-> "dead", reply |-> NoReply]]
    /\ UNCHANGED <<record, nextInvoiceIndex, invoices, lapses>>

-----------------------------------------------------------------------------

Handle(r) ==
    \/ ArriveKeyless(r) \/ Arrive(r) \/ Reserve(r) \/ Look(r) \/ Await(r) \/ WaitEnds(r)
    \/ Reject(r) \/ AllocateNextInvoiceIndex(r) \/ DerivationFails(r) \/ Insert(r)
    \/ Complete(r)

Next ==
    \/ \E r \in Requests : Handle(r) \/ Fail(r) \/ Die(r)
    \/ LeaseLapses \/ RowExpires

Spec == Init /\ [][Next]_creationVars

-----------------------------------------------------------------------------
(* Properties *)

\* No two invoices share a derivation index, and so a deposit address, and no
\* index in the hands of a handler is that of an invoice: the counter is
\* never reused, whatever requests race, fail between allocation and insert,
\* or die.
AddressesAreUnique ==
    /\ \A i, j \in invoices : i.derivationIndex = j.derivationIndex => i = j
    /\ \A r \in Requests : At(r, "inserting") =>
          \A i \in invoices : i.derivationIndex # handler[r].reply.index

\* A client that was given an invoice was given one that exists and was made
\* for the body it sent, even where a slow owner and the request that took
\* the key over from it complete the row in turns.
AnswerFitsBody ==
    \A r \in Requests :
        At(r, "answered") /\ handler[r].reply.code = "created" =>
            \E i \in invoices : /\ i.derivationIndex = handler[r].reply.index
                                /\ Body[i.request] = Body[r]

KeyedInvoices == {i \in invoices : i.request \notin Keyless}

\* A key makes one invoice, and one more for every lease or row that ran out
\* since: retries make none.
OneInvoicePerLease == Cardinality(KeyedInvoices) <= 1 + lapses
=============================================================================
