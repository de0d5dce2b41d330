------------------------- MODULE InvoiceCreation_proofs -------------------------
(***************************************************************************)
(* Theorems about InvoiceCreation for every set of requests and bodies,    *)
(* any assignment of one to the other, any number of lapses, and all       *)
(* prices, rates and tolerances.                                           *)
(***************************************************************************)
EXTENDS Quotes, Lifecycle_proofs, FiniteSetTheorems, TLAPS

\* The row keeps its type, and a counter never goes below zero, whatever
\* handlers fail or die.
THEOREM TypeCorrect == Spec => []TypeOK
  <1> USE RequestsAssumption, LapsesAssumption
  <1>1. Init => TypeOK
    BY DEF Init, TypeOK, Record, Absent, NoReply, Reply
  <1>2. TypeOK /\ [Next]_creationVars => TypeOK'
    <2> SUFFICES ASSUME TypeOK, [Next]_creationVars
                 PROVE  TypeOK'
      OBVIOUS
    <2>0. /\ {NoReply, Rejected, Conflict, Failed} \subseteq Reply
          /\ Created(nextInvoiceIndex) \in Reply
          /\ \A reply \in Reply : reply.index \in Nat
      BY DEF TypeOK, Reply, NoReply, Rejected, Conflict, Failed, Created
    <2> USE <2>0 DEF TypeOK, Record, InFlight
    <2>1. ASSUME NEW r \in Requests, Arrive(r)
          PROVE  TypeOK'
      BY <2>1 DEF Arrive, Goto, Absent
    <2>11. ASSUME NEW r \in Requests, ArriveKeyless(r)
           PROVE  TypeOK'
      BY <2>11 DEF ArriveKeyless, Goto
    <2>2. ASSUME NEW r \in Requests, Reserve(r)
          PROVE  TypeOK'
      <3> HIDE DEF TypeOK, Record
      <3>1. /\ record' = record \/ record' = [state |-> "processing",
                  requestHash |-> Body[r], reply |-> NoReply,
                  leaseOver |-> FALSE, stale |-> FALSE]
            /\ Goto(r, "creating") \/ Goto(r, "looking")
            /\ UNCHANGED <<nextInvoiceIndex, invoices, lapses>>
        BY <2>2 DEF Reserve
      <3>2. record \in Record /\ Body[r] \in Bodies
        BY DEF TypeOK
      <3>3. record' \in Record
        <4>1. CASE record' = record
          BY <3>2, <4>1
        <4>2. CASE record' # record
          <5>1. record' = [state |-> "processing", requestHash |-> Body[r],
                           reply |-> NoReply, leaseOver |-> FALSE,
                           stale |-> FALSE]
            BY <3>1, <4>2
          <5>2. NoReply \in Reply
            BY <2>0
          <5>. QED  BY <3>2, <5>1, <5>2 DEF Record
        <4>. QED  BY <4>1, <4>2
      <3>4. handler' \in [Requests -> [pc : {"new", "answered", "dead"} \cup InFlight,
                                      reply : Reply]]
        BY <3>1 DEF TypeOK, Goto
      <3>. QED  BY <3>1, <3>3, <3>4 DEF TypeOK
    <2>3. ASSUME NEW r \in Requests, Look(r) \/ Await(r) \/ WaitEnds(r)
          PROVE  TypeOK'
      <3>1. Cached(r) \in Reply /\ Conflict \in Reply
        BY DEF Cached
      <3>. QED
        BY <2>3, <3>1 DEF Look, Await, WaitEnds, Goto, Answer
    <2>4. ASSUME NEW r \in Requests, Complete(r)
          PROVE  TypeOK'
      BY <2>4 DEF Complete, Answer
    <2>5. ASSUME NEW r \in Requests, Reject(r) \/ DerivationFails(r)
          PROVE  TypeOK'
      BY <2>5 DEF Reject, DerivationFails, Settled
    <2>6. ASSUME NEW r \in Requests, AllocateNextInvoiceIndex(r)
          PROVE  TypeOK'
      BY <2>6 DEF AllocateNextInvoiceIndex
    <2>7. ASSUME NEW r \in Requests, Insert(r)
          PROVE  TypeOK'
      <3>1. handler[r].reply.index \in Nat
        OBVIOUS
      <3>2. invoices' \subseteq Invoice
        BY <2>7, <3>1 DEF Insert, Invoice
      <3>3. handler' \in [Requests -> [pc : {"new", "answered", "dead"} \cup InFlight,
                                      reply : Reply]]
        BY <2>7 DEF Insert, Goto, Settled
      <3>. QED  BY <2>7, <3>2, <3>3 DEF Insert
    <2>8. ASSUME NEW r \in Requests, Fail(r) \/ Die(r)
          PROVE  TypeOK'
      BY <2>8 DEF Fail, Die, Answer
    <2>9. CASE LeaseLapses \/ RowExpires
      <3>1. record' = [record EXCEPT !.leaseOver = TRUE]
              \/ record' = [record EXCEPT !.stale = TRUE]
        BY <2>9 DEF LeaseLapses, RowExpires
      <3>2. record' \in Record
        BY <3>1
      <3>3. lapses' \in 0 .. MaxLapses
        BY <2>9 DEF LeaseLapses, RowExpires
      <3>. QED  BY <2>9, <3>2, <3>3 DEF LeaseLapses, RowExpires
    <2>10. CASE UNCHANGED creationVars
      BY <2>10 DEF creationVars
    <2>. QED
      BY <2>1, <2>2, <2>3, <2>4, <2>5, <2>6, <2>7, <2>8, <2>9, <2>10,
         <2>11 DEF Next, Handle
  <1>. QED  BY <1>1, <1>2, PTL DEF Spec

-----------------------------------------------------------------------------
(* Addresses *)

\* Every index in the world is below the counter, and no two are alike.
IndexInv ==
    /\ \A i, j \in invoices : i.derivationIndex = j.derivationIndex => i = j
    /\ \A i \in invoices : i.derivationIndex < nextInvoiceIndex
    /\ \A r \in Requests : At(r, "inserting") =>
          /\ handler[r].reply = Created(handler[r].reply.index)
          /\ handler[r].reply.index < nextInvoiceIndex
          /\ \A i \in invoices : i.derivationIndex # handler[r].reply.index
          /\ \A s \in Requests : At(s, "inserting") /\ s # r =>
                handler[s].reply.index # handler[r].reply.index

LEMMA IndexStep ==
    ASSUME TypeOK, IndexInv, [Next]_creationVars
    PROVE  IndexInv'
  <1> USE DEF IndexInv, At
  <1>1. ASSUME NEW r \in Requests, AllocateNextInvoiceIndex(r)
        PROVE  IndexInv'
    <2>1. /\ handler' = [handler EXCEPT ![r] =
                [pc |-> "inserting", reply |-> Created(nextInvoiceIndex)]]
          /\ nextInvoiceIndex' = nextInvoiceIndex + 1
          /\ invoices' = invoices
      BY <1>1 DEF AllocateNextInvoiceIndex
    <2>2. /\ nextInvoiceIndex \in Nat
          /\ \A i \in invoices : i.derivationIndex \in Nat
          /\ \A s \in Requests : handler[s].reply.index \in Nat
      BY DEF TypeOK, Invoice, Reply
    <2>3. \A s \in Requests : handler'[s] =
              IF s = r
                THEN [pc |-> "inserting", reply |-> Created(nextInvoiceIndex)]
                ELSE handler[s]
      BY <2>1 DEF TypeOK
    <2>4. /\ Created(nextInvoiceIndex).index = nextInvoiceIndex
          /\ Created(nextInvoiceIndex) = Created(Created(nextInvoiceIndex).index)
      BY DEF Created
    <2>5. \A i, j \in invoices' : i.derivationIndex = j.derivationIndex => i = j
      BY <2>1
    <2>6. \A i \in invoices' : i.derivationIndex < nextInvoiceIndex'
      BY <2>1, <2>2
    <2>7. ASSUME NEW s \in Requests, handler'[s].pc = "inserting"
          PROVE  /\ handler'[s].reply = Created(handler'[s].reply.index)
                 /\ handler'[s].reply.index < nextInvoiceIndex'
                 /\ \A i \in invoices' : i.derivationIndex # handler'[s].reply.index
                 /\ \A u \in Requests : handler'[u].pc = "inserting" /\ u # s =>
                       handler'[u].reply.index # handler'[s].reply.index
      <3>1. CASE s = r
        <4>1. handler'[s].reply.index = nextInvoiceIndex
          BY <2>3, <2>4, <3>1
        <4>2. \A u \in Requests : u # s => handler'[u] = handler[u]
          BY <2>3, <3>1
        <4>. QED  BY <2>1, <2>2, <2>3, <2>4, <3>1, <4>1, <4>2
      <3>2. CASE s # r
        <4>1. handler'[s] = handler[s] /\ handler[s].pc = "inserting"
          BY <2>3, <2>7, <3>2
        <4>2. handler'[r].reply.index = nextInvoiceIndex
          BY <2>3, <2>4
        <4>. QED  BY <2>1, <2>2, <2>3, <4>1, <4>2
      <3>. QED  BY <3>1, <3>2
    <2>. QED  BY <2>5, <2>6, <2>7
  <1>2. ASSUME NEW r \in Requests, Insert(r)
        PROVE  IndexInv'
    <2> DEFINE new == [derivationIndex |-> handler[r].reply.index, request |-> r]
    <2>1. /\ At(r, "inserting")
          /\ invoices' = invoices \cup {new}
          /\ nextInvoiceIndex' = nextInvoiceIndex
          /\ new.derivationIndex = handler[r].reply.index
      BY <1>2 DEF Insert
    <2>2. \A s \in Requests : handler'[s] =
              IF s = r THEN [handler[s] EXCEPT !.pc = Settled(r)] ELSE handler[s]
      BY <1>2 DEF Insert, Goto, TypeOK
    <2>3. handler'[r].pc # "inserting"
      BY <2>2 DEF TypeOK, Settled
    <2>4. \A s \in Requests : s # r => handler'[s] = handler[s]
      BY <2>2
    <2>. HIDE DEF new
    <2>5. \A i, j \in invoices' : i.derivationIndex = j.derivationIndex => i = j
      BY <2>1
    <2>6. \A i \in invoices' : i.derivationIndex < nextInvoiceIndex'
      BY <2>1
    <2>7. ASSUME NEW s \in Requests, handler'[s].pc = "inserting"
          PROVE  /\ handler'[s].reply = Created(handler'[s].reply.index)
                 /\ handler'[s].reply.index < nextInvoiceIndex'
                 /\ \A i \in invoices' : i.derivationIndex # handler'[s].reply.index
                 /\ \A u \in Requests : handler'[u].pc = "inserting" /\ u # s =>
                       handler'[u].reply.index # handler'[s].reply.index
      <3>1. s # r /\ handler'[s] = handler[s]
        BY <2>3, <2>4, <2>7
      <3>2. \A u \in Requests : handler'[u].pc = "inserting" => handler'[u] = handler[u]
        BY <2>3, <2>4
      <3>. QED  BY <2>1, <2>7, <3>1, <3>2
    <2>. QED  BY <2>5, <2>6, <2>7
  <1>3. ASSUME NEW r \in Requests,
               \/ ArriveKeyless(r) \/ Arrive(r) \/ Reserve(r) \/ Look(r)
               \/ Await(r) \/ WaitEnds(r) \/ Reject(r) \/ DerivationFails(r)
               \/ Complete(r) \/ Fail(r) \/ Die(r)
        PROVE  IndexInv'
    <2>1. UNCHANGED <<nextInvoiceIndex, invoices>>
      BY <1>3 DEF ArriveKeyless, Arrive, Reserve, Look, Await, WaitEnds, Reject,
                  DerivationFails, Complete, Fail, Die
    <2>2. \A s \in Requests : /\ s # r => handler'[s] = handler[s]
                              /\ handler'[r].pc # "inserting" \/ handler'[r] = handler[r]
      BY <1>3 DEF ArriveKeyless, Arrive, Reserve, Look, Await, WaitEnds, Reject,
                  DerivationFails, Complete, Fail, Die, Goto, Answer, Settled, TypeOK
    <2>. QED  BY <2>1, <2>2
  <1>4. CASE LeaseLapses \/ RowExpires \/ UNCHANGED creationVars
    BY <1>4 DEF LeaseLapses, RowExpires, creationVars
  <1>. QED  BY <1>1, <1>2, <1>3, <1>4 DEF Next, Handle

\* No two invoices of an event share a derivation index, for any number of
\* concurrent requests.
THEOREM AddressesUnique == Spec => []AddressesAreUnique
  <1>1. Init => IndexInv
    BY DEF Init, IndexInv, At
  <1>2. TypeOK /\ IndexInv /\ [Next]_creationVars => IndexInv'
    BY IndexStep
  <1>3. IndexInv => AddressesAreUnique
    BY DEF IndexInv, AddressesAreUnique
  <1>. QED  BY <1>1, <1>2, <1>3, TypeCorrect, PTL DEF Spec

-----------------------------------------------------------------------------
(* Answers *)

Made(index, hash) ==
    \E i \in invoices : i.derivationIndex = index /\ Body[i.request] = hash

\* What a handler is about to store or has answered, and what the row stores,
\* is an invoice made for the body they stand for.
AnswerInv ==
    /\ \A r \in Requests :
          /\ handler[r].pc \in {"completing", "answered"}
          /\ handler[r].reply.code = "created"
          => Made(handler[r].reply.index, Body[r])
    /\ record.state = "completed" /\ record.reply.code = "created"
          => Made(record.reply.index, record.requestHash)

LEMMA AnswerStep ==
    ASSUME TypeOK, IndexInv, AnswerInv, [Next]_creationVars
    PROVE  AnswerInv'
  <1> USE DEF AnswerInv, At
  <1>1. ASSUME NEW index, NEW hash, Made(index, hash)
        PROVE  Made(index, hash)'
    <2>1. invoices \subseteq invoices'
      BY DEF Next, Handle, creationVars, ArriveKeyless, Arrive, Reserve, Look, Await, WaitEnds,
             Reject, AllocateNextInvoiceIndex, DerivationFails, Insert, Complete, Fail,
             Die, LeaseLapses, RowExpires
    <2>. QED  BY <1>1, <2>1 DEF Made
  <1>2. ASSUME NEW r \in Requests, Insert(r)
        PROVE  AnswerInv'
    <2>1. \A s \in Requests : /\ s # r => handler'[s] = handler[s]
                              /\ handler'[r].reply = handler[r].reply
      BY <1>2 DEF Insert, Goto, TypeOK
    <2> DEFINE new == [derivationIndex |-> handler[r].reply.index, request |-> r]
    <2>2. Made(handler[r].reply.index, Body[r])'
      <3>1. new \in invoices' /\ handler'[r].reply.index = new.derivationIndex
        BY <1>2, <2>1 DEF Insert
      <3>. QED  BY <3>1 DEF Made
    <2>3. record' = record
      BY <1>2 DEF Insert
    <2>. QED  BY <1>1, <2>1, <2>2, <2>3
  <1>3. ASSUME NEW r \in Requests, Complete(r)
        PROVE  AnswerInv'
    <2>1. /\ handler[r].pc = "completing"
          /\ record'.reply = handler[r].reply
          /\ record'.requestHash = Body[r]
      BY <1>3 DEF Complete
    <2>2. \A s \in Requests : /\ s # r => handler'[s] = handler[s]
                              /\ handler'[r].reply = handler[r].reply
      BY <1>3 DEF Complete, Answer, TypeOK
    <2>. QED  BY <1>1, <2>1, <2>2
  <1>4. ASSUME NEW r \in Requests, Look(r) \/ Await(r) \/ WaitEnds(r)
        PROVE  AnswerInv'
    <2>1. UNCHANGED record
      BY <1>4 DEF Look, Await, WaitEnds
    <2>2. \A s \in Requests : s # r => handler'[s] = handler[s]
      BY <1>4 DEF Look, Await, WaitEnds, Goto, Answer, TypeOK
    <2>3. \/ handler'[r].pc \notin {"completing", "answered"}
          \/ handler'[r].reply = Conflict
          \/ handler'[r].reply = Cached(r)
      BY <1>4 DEF Look, Await, WaitEnds, Goto, Answer, TypeOK
    <2>4. Cached(r).code = "created" => Made(Cached(r).index, Body[r])
      BY DEF Cached, SameBody, Conflict
    <2>5. Conflict.code # "created"
      BY DEF Conflict
    <2>. QED  BY <1>1, <2>1, <2>2, <2>3, <2>4, <2>5
  <1>5. ASSUME NEW r \in Requests,
               \/ ArriveKeyless(r) \/ Arrive(r) \/ Reserve(r) \/ Reject(r)
               \/ AllocateNextInvoiceIndex(r) \/ DerivationFails(r) \/ Fail(r) \/ Die(r)
        PROVE  AnswerInv'
    <2>1. record' = record \/ record'.state # "completed"
      BY <1>5 DEF ArriveKeyless, Arrive, Reserve, Reject, AllocateNextInvoiceIndex,
                  DerivationFails, Fail, Die, Absent
    <2>2. \A s \in Requests : s # r => handler'[s] = handler[s]
      BY <1>5 DEF ArriveKeyless, Arrive, Reserve, Reject, AllocateNextInvoiceIndex,
                  DerivationFails, Fail, Die, Goto, Answer, TypeOK
    <2>3. \/ handler'[r].pc \notin {"completing", "answered"}
          \/ handler'[r].reply \in {Rejected, Failed}
      BY <1>5 DEF ArriveKeyless, Arrive, Reserve, Reject, AllocateNextInvoiceIndex,
                  DerivationFails, Fail, Die, Goto, Answer, TypeOK
    <2>4. Rejected.code # "created" /\ Failed.code # "created"
      BY DEF Rejected, Failed
    <2>. QED  BY <1>1, <2>1, <2>2, <2>3, <2>4
  <1>6. CASE LeaseLapses \/ RowExpires \/ UNCHANGED creationVars
    <2>1. /\ record'.state = record.state /\ record'.reply = record.reply
          /\ record'.requestHash = record.requestHash
          /\ handler' = handler
      BY <1>6 DEF LeaseLapses, RowExpires, creationVars, TypeOK, Record
    <2>. QED  BY <1>1, <2>1
  <1>. QED  BY <1>2, <1>3, <1>4, <1>5, <1>6 DEF Next, Handle

\* Whoever was answered with an invoice was answered with one that exists
\* and was made for its body, whoever completed the row.
THEOREM AnswersFit == Spec => []AnswerFitsBody
  <1>1. Init => IndexInv /\ AnswerInv
    BY DEF Init, IndexInv, AnswerInv, At, Absent
  <1>2. TypeOK /\ IndexInv /\ AnswerInv /\ [Next]_creationVars
           => IndexInv' /\ AnswerInv'
    BY IndexStep, AnswerStep
  <1>3. AnswerInv => AnswerFitsBody
    BY DEF AnswerInv, AnswerFitsBody, At, Made
  <1>. QED  BY <1>1, <1>2, <1>3, TypeCorrect, PTL DEF Spec

-----------------------------------------------------------------------------
(* How many invoices *)

\* Requests that hold the key and may still insert an invoice.
Creating ==
    {r \in Requests \ Keyless : handler[r].pc \in {"creating", "inserting"}}

\* Whether the next request takes the key.
Vacancy == IF Reservable THEN 1 ELSE 0

\* Invoices made, invoices that may be on their way, and the one the next
\* request may set out to make are paid for by the first use of the key and
\* by lapses.
CountInv ==
    /\ IsFiniteSet(KeyedInvoices)
    /\ Cardinality(KeyedInvoices) + Cardinality(Creating) + Vacancy <= 1 + lapses

LEMMA CountStep ==
    ASSUME TypeOK, CountInv, [Next]_creationVars
    PROVE  CountInv'
  <1>0. /\ IsFiniteSet(Creating) /\ IsFiniteSet(Creating')
        /\ Cardinality(Creating) \in Nat /\ Cardinality(Creating') \in Nat
        /\ IsFiniteSet(KeyedInvoices) /\ Cardinality(KeyedInvoices) \in Nat
        /\ lapses \in Nat
        /\ Vacancy \in {0, 1} /\ Vacancy' \in {0, 1}
    BY RequestsAssumption, LapsesAssumption, FS_Subset, FS_CardinalityType
    DEF Creating, CountInv, Vacancy, TypeOK
  <1>1. Creating' \subseteq Creating => Cardinality(Creating') <= Cardinality(Creating)
    BY <1>0, FS_Subset
  <1>7. UNCHANGED invoices => KeyedInvoices' = KeyedInvoices
    BY DEF KeyedInvoices
  <1>2. ASSUME NEW r \in Requests, Reserve(r)
        PROVE  CountInv'
    <2>1. \A s \in Requests : s # r => handler'[s] = handler[s]
      BY <1>2 DEF Reserve, Goto, TypeOK
    <2>2. KeyedInvoices' = KeyedInvoices /\ lapses' = lapses
      BY <1>2, <1>7 DEF Reserve
    <2>3. CASE Reservable
      <3>1. Vacancy = 1 /\ Vacancy' = 0
        BY <1>2, <2>3 DEF Reserve, Vacancy, Reservable
      <3>2. Creating' \subseteq Creating \cup {r}
        BY <2>1 DEF Creating
      <3>3. /\ IsFiniteSet(Creating \cup {r})
            /\ Cardinality(Creating \cup {r}) =
                  IF r \in Creating THEN Cardinality(Creating)
                                   ELSE Cardinality(Creating) + 1
        BY <1>0, FS_AddElement
      <3>4. Cardinality(Creating') <= Cardinality(Creating) + 1
        <4>1. Cardinality(Creating') <= Cardinality(Creating \cup {r})
          BY <3>2, <3>3, FS_Subset
        <4>. QED  BY <1>0, <3>3, <4>1
      <3>. QED  BY <1>0, <2>2, <3>1, <3>4 DEF CountInv
    <2>4. CASE ~Reservable
      <3>1. Vacancy' = Vacancy
        BY <1>2, <2>4 DEF Reserve, Vacancy, Reservable
      <3>2. Creating' = Creating
        BY <1>2, <2>1, <2>4 DEF Reserve, Goto, Creating, At, TypeOK
      <3>. QED  BY <1>0, <2>2, <3>1, <3>2 DEF CountInv
    <2>. QED  BY <2>3, <2>4
  <1>3. ASSUME NEW r \in Requests, Insert(r)
        PROVE  CountInv'
    <2> DEFINE new == [derivationIndex |-> handler[r].reply.index, request |-> r]
    <2>1. UNCHANGED <<record, lapses>> /\ invoices' = invoices \cup {new}
      BY <1>3 DEF Insert
    <2>2. /\ \A s \in Requests : s # r => handler'[s] = handler[s]
          /\ handler[r].pc = "inserting" /\ handler'[r].pc = Settled(r)
      BY <1>3 DEF Insert, Goto, At, TypeOK
    <2>3. new.request = r
      OBVIOUS
    <2>4. Vacancy' = Vacancy
      BY <2>1 DEF Vacancy, Reservable
    <2>5. CASE r \in Keyless
      <3>1. KeyedInvoices' = KeyedInvoices
        BY <2>1, <2>3, <2>5 DEF KeyedInvoices
      <3>2. Creating' = Creating
        BY <2>2, <2>5 DEF Creating
      <3>. QED  BY <1>0, <2>1, <2>4, <3>1, <3>2 DEF CountInv
    <2>6. CASE r \notin Keyless
      <3>1. r \in Creating /\ Creating' = Creating \ {r}
        BY <2>2, <2>6 DEF Creating, Settled
      <3>2. Cardinality(Creating') = Cardinality(Creating) - 1
        BY <1>0, <3>1, FS_RemoveElement
      <3>3. KeyedInvoices' = KeyedInvoices \cup {new}
        BY <2>1, <2>3, <2>6 DEF KeyedInvoices
      <3>. HIDE DEF new
      <3>4. /\ IsFiniteSet(KeyedInvoices \cup {new})
            /\ Cardinality(KeyedInvoices \cup {new}) =
                  IF new \in KeyedInvoices THEN Cardinality(KeyedInvoices)
                                           ELSE Cardinality(KeyedInvoices) + 1
        BY <1>0, FS_AddElement
      <3>. QED  BY <1>0, <2>1, <2>4, <3>2, <3>3, <3>4 DEF CountInv
    <2>. QED  BY <2>5, <2>6
  <1>4. ASSUME NEW r \in Requests,
               \/ ArriveKeyless(r) \/ Arrive(r) \/ Look(r) \/ Await(r) \/ WaitEnds(r) \/ Reject(r)
               \/ AllocateNextInvoiceIndex(r) \/ DerivationFails(r) \/ Complete(r)
               \/ Fail(r) \/ Die(r)
        PROVE  CountInv'
    <2>1. KeyedInvoices' = KeyedInvoices /\ lapses' = lapses
      BY <1>4, <1>7 DEF ArriveKeyless, Arrive, Look, Await, WaitEnds, Reject,
                  AllocateNextInvoiceIndex, DerivationFails, Complete, Fail, Die
    <2>2. \A s \in Requests : s # r => handler'[s] = handler[s]
      BY <1>4 DEF ArriveKeyless, Arrive, Look, Await, WaitEnds, Reject,
                  AllocateNextInvoiceIndex, DerivationFails, Complete, Fail, Die,
                  Goto, Answer, TypeOK
    <2>3. r \notin Keyless /\ handler'[r].pc \in {"creating", "inserting"}
             => handler[r].pc \in {"creating", "inserting"}
      BY <1>4 DEF ArriveKeyless, Arrive, Look, Await, WaitEnds, Reject,
                  AllocateNextInvoiceIndex, DerivationFails, Complete, Fail, Die,
                  Goto, Answer, Settled, At, TypeOK
    <2>4. Creating' \subseteq Creating
      BY <2>2, <2>3 DEF Creating
    <2>5. Reservable' => Reservable
      BY <1>4 DEF ArriveKeyless, Arrive, Look, Await, WaitEnds, Reject,
                  AllocateNextInvoiceIndex, DerivationFails, Complete, Fail, Die, Reservable
    <2>6. Vacancy' <= Vacancy
      BY <2>5 DEF Vacancy
    <2>. QED  BY <1>0, <1>1, <2>1, <2>4, <2>6 DEF CountInv
  <1>5. CASE LeaseLapses \/ RowExpires
    <2>1. /\ KeyedInvoices' = KeyedInvoices /\ handler' = handler
          /\ lapses' = lapses + 1
      BY <1>5, <1>7 DEF LeaseLapses, RowExpires
    <2>2. Creating' = Creating
      BY <2>1 DEF Creating
    <2>. QED  BY <1>0, <2>1, <2>2 DEF CountInv
  <1>6. CASE UNCHANGED creationVars
    BY <1>6 DEF creationVars, CountInv, KeyedInvoices, Creating, Vacancy, Reservable
  <1>. QED  BY <1>2, <1>3, <1>4, <1>5, <1>6 DEF Next, Handle

\* However many requests carry a key, it makes one invoice, and one more at
\* most for every lease or row that ran out.
THEOREM OneInvoiceEach == Spec => []OneInvoicePerLease
  <1>1. Init => CountInv
    <2> SUFFICES ASSUME Init PROVE CountInv
      OBVIOUS
    <2>1. Creating = {} /\ KeyedInvoices = {} /\ lapses = 0
      BY DEF Init, Creating, KeyedInvoices
    <2>2. Vacancy \in {0, 1}
      BY DEF Vacancy
    <2>. QED  BY <2>1, <2>2, FS_EmptySet DEF CountInv
  <1>2. TypeOK /\ CountInv /\ [Next]_creationVars => CountInv'
    BY CountStep
  <1>3. TypeOK /\ CountInv => OneInvoicePerLease
    <2> SUFFICES ASSUME TypeOK, CountInv PROVE OneInvoicePerLease
      OBVIOUS
    <2>1. /\ Cardinality(Creating) \in Nat
          /\ Cardinality(KeyedInvoices) \in Nat
      BY RequestsAssumption, FS_Subset, FS_CardinalityType DEF Creating, CountInv
    <2>2. Vacancy \in {0, 1} /\ lapses \in Nat
      BY LapsesAssumption DEF Vacancy, TypeOK
    <2>. QED  BY <2>1, <2>2 DEF CountInv, OneInvoicePerLease
  <1>. QED  BY <1>1, <1>2, <1>3, TypeCorrect, PTL DEF Spec

-----------------------------------------------------------------------------
(* Quotes *)

LEMMA MonotoneTimes ==
    ASSUME NEW x \in Int, NEW y \in Int, NEW z \in Nat, x <= y
    PROVE  x * z <= y * z
  BY Z3

LEMMA CancelTimes ==
    ASSUME NEW x \in Int, NEW y \in Int, NEW z \in Nat \ {0}
    PROVE  /\ x * z <= y * z => x <= y
           /\ x * z < y * z => x < y
  BY Z3

LEMMA Amounts ==
    ASSUME NEW fiat \in Decimal, NEW rate \in Nat
    PROVE  /\ ParseMicro(fiat) \in Nat
           /\ ParseMicro(fiat) * fiat.unit <= fiat.digits * Scale
           /\ fiat.digits * Scale < (ParseMicro(fiat) + 1) * fiat.unit
           /\ FiatToMicroUsdt(fiat, rate) \in Nat
           /\ FiatToMicroUsdt(fiat, rate) * Scale <= ParseMicro(fiat) * rate
           /\ ParseMicro(fiat) * rate < (FiatToMicroUsdt(fiat, rate) + 1) * Scale
  <1> DEFINE n == fiat.digits * Scale
             micro == ParseMicro(fiat)
             product == micro * rate
             amount == FiatToMicroUsdt(fiat, rate)
  <1>1. fiat.digits \in Nat /\ fiat.unit \in Nat \ {0} /\ Scale \in Nat \ {0}
    BY ScaleAssumption DEF Decimal
  <1>2. n \in Nat
    BY <1>1, Z3
  <1>3. micro = n \div fiat.unit
    BY DEF ParseMicro
  <1>4. amount = product \div Scale
    BY DEF FiatToMicroUsdt
  <1> HIDE DEF n, micro
  <1>5. micro \in Int /\ micro * fiat.unit <= n /\ n < (micro + 1) * fiat.unit
    <2> DEFINE u == fiat.unit
    <2>1. n \in Int /\ u \in Nat \ {0} /\ micro = n \div u
      BY <1>1, <1>2, <1>3
    <2> HIDE DEF u
    <2>2. micro \in Int /\ micro * u <= n /\ n < (micro + 1) * u
      BY <2>1, DivBounds
    <2>. QED  BY <2>2 DEF u
  <1>6. 0 <= micro
    <2>1. 0 * fiat.unit <= n
      BY <1>1, <1>2
    <2>. QED  BY <1>1, <1>2, <1>3, <2>1, DivAbove
  <1>7. product \in Nat
    BY <1>5, <1>6, Z3
  <1> HIDE DEF product, amount
  <1>8. amount \in Int /\ amount * Scale <= product /\ product < (amount + 1) * Scale
    BY <1>1, <1>4, <1>7, DivBounds
  <1>9. 0 <= amount
    <2>1. 0 * Scale <= product
      BY <1>1, <1>7
    <2>. QED  BY <1>1, <1>4, <1>7, <2>1, DivAbove
  <1>. QED  BY <1>5, <1>6, <1>8, <1>9 DEF n, micro, product, amount

\* A price and a rate are multiplied exactly but for what one micro-USDT cannot
\* say: computePricing truncates twice and yet never by more.
THEOREM EveryQuoteIsFloored ==
    ASSUME NEW fiat \in Decimal, NEW rate \in Nat
    PROVE  Floored(fiat, rate)
  <1> DEFINE u == fiat.unit
             d == fiat.digits
             p == ParseMicro(fiat)
             a == FiatToMicroUsdt(fiat, rate)
             s == Scale
  <1>1. d \in Nat /\ u \in Nat \ {0} /\ s \in Nat \ {0} /\ p \in Nat /\ a \in Nat
    BY ScaleAssumption, Amounts DEF Decimal
  <1>2. /\ p * u <= d * s
        /\ d * s < (p + 1) * u
        /\ a * s <= p * rate
        /\ p * rate < (a + 1) * s
    BY Amounts
  <1>3. Floored(fiat, rate) <=> a * u <= d * rate /\ (s % u = 0 => d * rate < (a + 1) * u)
    BY DEF Floored
  <1> HIDE DEF u, d, p, a, s
  <1>4. a * u <= d * rate
    <2>1. (a * s) * u <= (p * rate) * u
      <3>1. a * s \in Int /\ p * rate \in Int
        BY <1>1, Z3
      <3>. QED  BY <1>1, <1>2, <3>1, MonotoneTimes
    <2>2. (p * u) * rate <= (d * s) * rate
      <3>1. p * u \in Int /\ d * s \in Int
        BY <1>1, Z3
      <3>. QED  BY <1>1, <1>2, <3>1, MonotoneTimes
    <2>3. (a * u) * s <= (d * rate) * s
      <3>1. (a * u) * s = (a * s) * u /\ (p * rate) * u = (p * u) * rate
            /\ (d * rate) * s = (d * s) * rate
        BY <1>1, Z3
      <3>2. (a * s) * u \in Int /\ (p * u) * rate \in Int /\ (d * s) * rate \in Int
        BY <1>1, Z3
      <3>. QED  BY <2>1, <2>2, <3>1, <3>2
    <2>4. a * u \in Int /\ d * rate \in Int
      BY <1>1, Z3
    <2>. QED  BY <1>1, <2>3, <2>4, CancelTimes
  <1>5. ASSUME s % u = 0 PROVE d * rate < (a + 1) * u
    <2> DEFINE q == s \div u
    <2>1. q \in Nat \ {0} /\ s = q * u
      BY <1>1, <1>5, Z3
    <2> HIDE DEF q
    <2>2. p = d * q
      <3>1. d * s = (d * q) * u /\ d * q \in Int
        BY <1>1, <2>1, Z3
      <3>2. p <= d * q
        BY <1>1, <1>2, <3>1, CancelTimes
      <3>3. (d * q) * u < (p + 1) * u
        BY <1>2, <3>1
      <3>4. d * q < p + 1
        BY <1>1, <3>1, <3>3, CancelTimes
      <3>. QED  BY <1>1, <3>1, <3>2, <3>4
    <2>3. (d * rate) * q < ((a + 1) * u) * q
      <3>1. p * rate = (d * rate) * q /\ (a + 1) * s = ((a + 1) * u) * q
        BY <1>1, <2>1, <2>2, Z3
      <3>. QED  BY <1>2, <3>1
    <2>4. d * rate \in Int /\ (a + 1) * u \in Int
      BY <1>1, Z3
    <2>. QED  BY <2>1, <2>3, <2>4, CancelTimes
  <1>. QED  BY <1>3, <1>4, <1>5

\* formatMicro and parseMicro lose nothing of an amount.
LEMMA StoredIsQuoted ==
    ASSUME NEW m \in Nat
    PROVE  ParseMicro(FormatMicro(m)) = m
  <1>1. ParseMicro(FormatMicro(m)) = (m * Scale) \div Scale
    BY DEF ParseMicro, FormatMicro
  <1>2. Scale \in Nat \ {0}
    BY ScaleAssumption
  <1>3. (m * Scale) \div Scale = m
    <2>1. m * Scale \in Int
      BY <1>2, Z3
    <2>2. (m * Scale) \div Scale \in Int
      BY <1>2, <2>1, DivBounds
    <2>3. (m * Scale) \div Scale <= m
      BY <1>2, <2>1, DivBelow
    <2>4. m <= (m * Scale) \div Scale
      BY <1>2, <2>1, DivAbove
    <2>. QED  BY <2>2, <2>3, <2>4
  <1>. QED  BY <1>1, <1>3

\* What the watcher parses of a stored quote decides as its band was computed:
\* paid from bound to bound, and no further.
THEOREM EveryQuoteIsPayable ==
    ASSUME NEW fiat \in Decimal, NEW rate \in Nat, ComputePricing(fiat, rate).ok
    PROVE  Payable(ComputePricing(fiat, rate))
  <1> DEFINE quote == ComputePricing(fiat, rate)
             amount == FiatToMicroUsdt(fiat, rate)
             band == ComputeToleranceBand(amount)
  <1>1. amount \in Nat
    BY Amounts
  <1>2. /\ amount > 0
        /\ quote.amountUsdt = FormatMicro(amount)
        /\ quote.band = band
    BY <1>1 DEF ComputePricing
  <1>3. ParseMicro(quote.amountUsdt) = amount
    BY <1>1, <1>2, StoredIsQuoted
  <1>4. /\ band.lowerBound \in Nat /\ band.upperBound \in Nat
        /\ band.lowerBound <= amount /\ amount <= band.upperBound
    BY <1>1, BandBracketsQuote
  <1> HIDE DEF quote, amount, band
  <1>5. \A total \in {amount, band.lowerBound, band.upperBound} :
           total > 0 => Decision(total, band) = "paid"
    BY <1>1, <1>2, <1>4 DEF Decision
  <1>6. Decision(band.upperBound + 1, band) = "overpaid"
    BY <1>1, <1>2, <1>4 DEF Decision
  <1>7. band.lowerBound > 1 => Decision(band.lowerBound - 1, band) = "underpaid"
    BY <1>1, <1>4 DEF Decision
  <1>8. Payable(quote)
    <2>1. ComputeToleranceBand(ParseMicro(quote.amountUsdt)) = band
      BY <1>3 DEF band
    <2>. QED  BY <2>1, <1>2, <1>3, <1>5, <1>6, <1>7 DEF Payable
  <1>. QED  BY <1>8 DEF quote

\* No invoice is quoted above its price, nor more than a micro-USDT below it.
THEOREM QuotesAreFloors == Spec => []QuoteIsFloor
<1>1. QuoteIsFloor
  BY EveryQuoteIsFloored, QuoteAssumption DEF QuoteIsFloor
<1> QED BY <1>1, PTL

\* Whoever pays what an invoice says is decided paid.
THEOREM QuotesArePayable == Spec => []QuoteIsPayable
<1>1. QuoteIsPayable
  BY EveryQuoteIsPayable, QuoteAssumption DEF QuoteIsPayable
<1> QED BY <1>1, PTL
=============================================================================
