------------------------- MODULE LeadPipelineProofs -------------------------
(***************************************************************************)
(* Proofs about LeadPipeline, for any messages, batches and number of      *)
(* deliveries and of requests of the owner: one lead per message, what an  *)
(* acknowledged batch stands for, and that quotes wait for an approval of  *)
(* their own lead although metadata are written back from stale reads.     *)
(***************************************************************************)
EXTENDS LeadPipeline, TLAPS

USE ConstantsAssumption

-----------------------------------------------------------------------------
(* The inductive invariant                                                  *)

DeliveryPCs == {"idle", "lookup", "insert", "relookup", "reread", "read", "qualify"}

HandPCs == {"idle", "requalify", "approve", "quote", "record"}

\* The lead a request works on.
Subject(r, j) == IF r \in Deliveries THEN j.batch[j.at] ELSE j.lead

\* A statement of the database has failed.
Failed == "db" \in Faults /\ failures["db"] > 0

\* What a message that was processed has become.
Settled(m) == created[m] > 0 /\ (m \in qualified \/ Failed)

\* The approval of a quote of lead m.
Quote(m) == [lead |-> m, quote |-> TRUE]

Backed(m, quote) == \A h \in quote : Quote(m) \in approvals[h]

\* What a request at statement p with the locals j stands for.
Fits(r, p, j) ==
    /\ p \in IF r \in Deliveries THEN DeliveryPCs ELSE HandPCs
    /\ p \in {"reread", "read", "qualify"} => created[Subject(r, j)] > 0
    /\ r \in Deliveries => \A i \in 1..(j.at - 1) : Settled(j.batch[i])
    /\ p \in {"qualify", "requalify", "approve", "quote", "record"} => Backed(Subject(r, j), j.meta.quote)
    /\ p = "approve" => approvals[r] = {}
    /\ p = "quote" => Quote(j.lead) \in approvals[r]

Placed == \A r \in Requests : Fits(r, pc[r], job[r])

Acknowledged == \A b \in acked : \A i \in 1..Len(b) : Settled(b[i])

IInv == TypeOK /\ Placed /\ Acknowledged /\ OneLeadPerMessage /\ QuoteIsBacked

-----------------------------------------------------------------------------
(* What one request does to its own state, and to the others                *)

\* Settled in the next state, for a message that is known now.
SettledNext(m) == created'[m] > 0 /\ (m \in qualified' \/ Failed')

\* Fits in the next state, for a statement and locals that are known now.
FitsNext(r, p, j) ==
    /\ p \in IF r \in Deliveries THEN DeliveryPCs ELSE HandPCs
    /\ p \in {"reread", "read", "qualify"} => created'[Subject(r, j)] > 0
    /\ r \in Deliveries => \A i \in 1..(j.at - 1) : SettledNext(j.batch[i])
    /\ p \in {"qualify", "requalify", "approve", "quote", "record"} =>
           \A h \in j.meta.quote : Quote(Subject(r, j)) \in approvals'[h]
    /\ p = "approve" => approvals'[r] = {}
    /\ p = "quote" => Quote(j.lead) \in approvals'[r]

\* Leads, qualifications, approvals and failures stay.
Grows ==
    /\ \A m \in Messages : created[m] > 0 => created'[m] > 0
    /\ qualified \subseteq qualified'
    /\ Failed => Failed'
    /\ \A h \in Hands : approvals[h] \subseteq approvals'[h]

\* The stored rows after a step of request r.
StoreNext(r) ==
    /\ mapped' \in BOOLEAN
    /\ created' \in [Messages -> Nat] /\ \A m \in Messages : created'[m] <= 1
    /\ meta' \in [Messages -> Meta]
    /\ approvals' \in [Hands -> SUBSET Approval]
    /\ \A h \in Hands : h # r => approvals'[h] = approvals[h]
    /\ qualified' \subseteq Messages
    /\ failures' \in [Faults -> Nat]
    /\ \A m \in Messages : \A h \in meta'[m].quote : Quote(m) \in approvals'[h]
    /\ Grows

\* Locals that a request may have.
Local(r, j) == j \in Job /\ (r \in Deliveries => j.at \in 1..Len(j.batch))

\* The locals of a request that does not run.
LEMMA IdleIsLocal ==
    /\ Idle \in Job /\ Idle.at = 1 /\ Idle.at \in 1..Len(Idle.batch)
    /\ Idle.meta = NoMeta /\ Idle.batch \in Batches /\ Idle.lead \in Messages
  <1>1. \A b \in Batches : b \in Seq(Messages) /\ Len(b) \in Nat \ {0} /\ b[1] \in Messages
    OBVIOUS
  <1>2. /\ (CHOOSE b \in Batches : TRUE) \in Batches
        /\ (CHOOSE m \in Messages : TRUE) \in Messages
    <2>1. PICK b \in Batches : TRUE
      OBVIOUS
    <2>2. b[1] \in Messages
      BY <1>1
    <2>. QED  BY <2>1, <2>2
  <1>3. NoMeta \in Meta
    BY DEF NoMeta, Meta
  <1>. QED  BY <1>1, <1>2, <1>3 DEF Idle, Job

\* The message a delivery works on is one.
LEMMA SubjectIsMessage ==
    ASSUME NEW r \in Requests, NEW j, Local(r, j)
    PROVE  Subject(r, j) \in Messages
  BY DEF Local, Subject, Job, Requests

\* The program stays typed.
LEMMA CallTyped ==
    ASSUME TypeOK, NEW r \in Requests, NEW p \in PCs, NEW j, Local(r, j), Call(r, p, j)
    PROVE  /\ pc' \in [Requests -> PCs]
           /\ job' \in [Requests -> Job]
           /\ \A d \in Deliveries : job'[d].at \in 1..Len(job'[d].batch)
  <1>1. pc' \in [Requests -> PCs] /\ job' \in [Requests -> Job]
    BY DEF TypeOK, Call, Local
  <1>2. ASSUME NEW d \in Deliveries PROVE job'[d].at \in 1..Len(job'[d].batch)
    <2>1. job[d].at \in 1..Len(job[d].batch) /\ d \in Requests
      BY DEF TypeOK, Requests
    <2>. QED  BY <2>1 DEF TypeOK, Call, Local
  <1>. QED  BY <1>1, <1>2

\* The messages behind a delivery, and the message at it, are messages.
LEMMA BatchIsMessages ==
    ASSUME TypeOK, NEW d \in Deliveries
    PROVE  /\ job[d].batch \in Batches /\ job[d].batch \in Seq(Messages)
           /\ job[d].at \in 1..Len(job[d].batch) /\ Len(job[d].batch) \in Nat
           /\ \A i \in 1..Len(job[d].batch) : job[d].batch[i] \in Messages
           /\ Current(d) = Subject(d, job[d]) /\ Current(d) \in Messages
           /\ job[d] \in Job /\ Local(d, job[d]) /\ d \in Requests
  <1>1. job[d] \in Job /\ job[d].at \in 1..Len(job[d].batch) /\ d \in Requests
    BY DEF TypeOK, Requests
  <1>2. job[d].batch \in Batches
    BY <1>1 DEF Job
  <1>. QED  BY <1>1, <1>2 DEF Current, Batch, Subject, Local

\* What is settled stays settled.
LEMMA SettledStays == ASSUME Grows, NEW m \in Messages, Settled(m) PROVE SettledNext(m)
  BY DEF Grows, Settled, SettledNext

\* The others keep their place, whatever grows.
LEMMA PlacedNext ==
    ASSUME TypeOK, Placed, NEW r \in Requests, NEW p \in PCs, NEW j, Local(r, j),
           Call(r, p, j), FitsNext(r, p, j), StoreNext(r)
    PROVE  Placed'
  <1>. SUFFICES ASSUME NEW q \in Requests PROVE Fits(q, pc[q], job[q])'
    BY DEF Placed
  <1>1. CASE q = r
    <2>1. pc'[q] = p /\ job'[q] = j
      BY <1>1 DEF TypeOK, Call
    <2>. QED  BY <1>1, <2>1 DEF Fits, FitsNext, Backed, Subject, Settled, SettledNext
  <1>2. CASE q # r
    <2>1. pc'[q] = pc[q] /\ job'[q] = job[q]
      BY <1>2 DEF TypeOK, Call
    <2>2. Fits(q, pc[q], job[q])
      BY DEF Placed
    <2>3. Local(q, job[q]) /\ Subject(q, job[q]) \in Messages
      BY SubjectIsMessage DEF TypeOK, Local
    <2>4. ASSUME q \in Deliveries, NEW i \in 1..(job[q].at - 1) PROVE SettledNext(job[q].batch[i])
      <3>1. job[q].batch[i] \in Messages
        BY <2>4, BatchIsMessages
      <3>2. Settled(job[q].batch[i])
        BY <2>2, <2>4 DEF Fits
      <3>. QED  BY <3>1, <3>2, SettledStays DEF StoreNext
    <2>5. job[q].meta.quote \subseteq Hands
      BY <2>3 DEF Local, Job, Meta
    <2>6. pc[q] \in {"approve", "quote"} => q \in Hands
      BY <2>2 DEF Fits, DeliveryPCs, Requests
    <2>7. /\ pc'[q] \in IF q \in Deliveries THEN DeliveryPCs ELSE HandPCs
          /\ pc'[q] \in {"reread", "read", "qualify"} => created'[Subject(q, job'[q])] > 0
      BY <2>1, <2>2, <2>3 DEF Fits, StoreNext, Grows
    <2>8. pc'[q] \in {"qualify", "requalify", "approve", "quote", "record"} =>
             \A h \in job'[q].meta.quote : Quote(Subject(q, job'[q])) \in approvals'[h]
      BY <2>1, <2>2, <2>3, <2>5 DEF Fits, StoreNext, Grows, Backed
    <2>9. /\ pc'[q] = "approve" => approvals'[q] = {}
          /\ pc'[q] = "quote" => Quote(job'[q].lead) \in approvals'[q]
      BY <1>2, <2>1, <2>2, <2>6 DEF Fits, StoreNext
    <2>. QED  BY <2>1, <2>4, <2>7, <2>8, <2>9 DEF Fits, Backed, Subject, Settled, SettledNext
  <1>. QED  BY <1>1, <1>2

\* A step whose request fits, and whose rows are in order, keeps the invariant.
LEMMA Keeps ==
    ASSUME IInv, NEW r \in Requests, NEW p \in PCs, NEW j, Local(r, j),
           Call(r, p, j), FitsNext(r, p, j), StoreNext(r), acked' \subseteq Batches,
           \A b \in acked' : b \in acked \/ \A i \in 1..Len(b) : SettledNext(b[i])
    PROVE  IInv'
  <1>1. TypeOK'
    BY CallTyped DEF IInv, TypeOK, StoreNext
  <1>2. Placed'
    BY PlacedNext DEF IInv
  <1>3. Acknowledged'
    <2>. SUFFICES ASSUME NEW b \in acked', NEW i \in 1..Len(b) PROVE SettledNext(b[i])
      BY DEF Acknowledged, Settled, SettledNext
    <2>1. CASE b \in acked
      <3>1. Settled(b[i]) /\ b \in Seq(Messages)
        BY <2>1 DEF IInv, Acknowledged, TypeOK
      <3>. QED  BY <3>1, SettledStays DEF StoreNext
    <2>. QED  BY <2>1
  <1>4. OneLeadPerMessage' /\ QuoteIsBacked'
    BY DEF OneLeadPerMessage, QuoteIsBacked, Quote, StoreNext
  <1>. QED  BY <1>1, <1>2, <1>3, <1>4 DEF IInv

\* Failures are counted, and remembered.
LEMMA FailuresNext ==
    ASSUME TypeOK, NEW f, Works \/ FailsBy(f)
    PROVE  /\ failures' \in [Faults -> Nat]
           /\ Failed => Failed'
  <1>1. CASE Works
    BY <1>1 DEF TypeOK, Works, Failed
  <1>2. CASE FailsBy(f)
    <2>1. f \in Faults /\ failures[f] \in Nat /\ failures[f] + 1 \in Nat
      BY <1>2 DEF TypeOK, FailsBy
    <2>2. /\ failures' \in [Faults -> Nat]
          /\ \A g \in Faults : failures'[g] = IF g = f THEN failures[g] + 1 ELSE failures[g]
      BY <1>2, <2>1 DEF TypeOK, FailsBy
    <2>. QED  BY <2>1, <2>2 DEF Failed
  <1>. QED  BY <1>1, <1>2

\* A statement that failed is remembered.
LEMMA StatementFailed == ASSUME TypeOK, StatementFails PROVE Failed'
  BY DEF TypeOK, StatementFails, FailsBy, Failed

\* A step that writes no row.
LEMMA SameRows ==
    ASSUME IInv, NEW r \in Requests, UNCHANGED <<rows, qualified>>, mapped' \in BOOLEAN,
           NEW f, Works \/ FailsBy(f)
    PROVE  StoreNext(r)
  <1>1. failures' \in [Faults -> Nat] /\ (Failed => Failed')
    BY FailuresNext DEF IInv
  <1>. QED  BY <1>1 DEF StoreNext, Grows, IInv, TypeOK, rows, OneLeadPerMessage, QuoteIsBacked, Quote

\* A request that ends.
LEMMA ReturnKeeps ==
    ASSUME IInv, NEW r \in Requests, Return(r), UNCHANGED acked, StoreNext(r)
    PROVE  IInv'
  <1>1. Local(r, Idle)
    BY IdleIsLocal DEF Local
  <1>2. FitsNext(r, "idle", Idle)
    BY IdleIsLocal DEF FitsNext, DeliveryPCs, HandPCs
  <1>3. Call(r, "idle", Idle) /\ acked' \subseteq Batches
    BY DEF Return, IInv, TypeOK
  <1>. QED  BY <1>1, <1>2, <1>3, Keeps DEF PCs

\* A delivery that goes on with its next message, or acknowledges its batch.
LEMMA ProcessedKeeps ==
    ASSUME IInv, NEW d \in Deliveries, Processed(d), StoreNext(d), SettledNext(Current(d))
    PROVE  IInv'
  <1>. DEFINE j == [job[d] EXCEPT !.at = @ + 1]
              b == job[d].batch
              n == job[d].at
  <1>0. /\ TypeOK /\ d \in Requests /\ job[d] \in Job /\ b \in Batches /\ b \in Seq(Messages)
        /\ n \in 1..Len(b) /\ Len(b) \in Nat /\ \A i \in 1..Len(b) : b[i] \in Messages
        /\ Current(d) = b[n] /\ acked \subseteq Batches
    BY BatchIsMessages DEF IInv, Current, Batch, TypeOK
  <1>1. \A i \in 1..n : SettledNext(b[i])
    <2>. SUFFICES ASSUME NEW i \in 1..n, i # n PROVE SettledNext(b[i])
      BY <1>0
    <2>1. i \in 1..(job[d].at - 1) /\ i \in 1..Len(b)
      BY <1>0
    <2>2. Settled(b[i])
      BY <1>0, <2>1 DEF IInv, Placed, Fits
    <2>. QED  BY <1>0, <2>1, <2>2, SettledStays DEF StoreNext
  <1>2. CASE n < Len(b)
    <2>1. Call(d, "lookup", j) /\ UNCHANGED acked
      BY <1>2 DEF Processed, Batch
    <2>2. j.at = n + 1 /\ j.batch = b /\ j \in Job
      BY <1>0 DEF Job
    <2>3. Local(d, j)
      BY <1>0, <1>2, <2>2 DEF Local
    <2>4. FitsNext(d, "lookup", j)
      <3>. HIDE DEF j
      <3>1. \A i \in 1..(j.at - 1) : SettledNext(j.batch[i])
        <4>1. j.at - 1 = n
          BY <1>0, <2>2
        <4>. QED  BY <1>1, <2>2, <4>1
      <3>. QED  BY <3>1 DEF FitsNext, DeliveryPCs
    <2>. HIDE DEF j
    <2>. QED  BY <1>0, <2>1, <2>3, <2>4, Keeps DEF PCs
  <1>3. CASE ~(n < Len(b))
    <2>1. Return(d) /\ acked' = acked \cup {b}
      BY <1>3 DEF Processed, Batch
    <2>2. Local(d, Idle) /\ FitsNext(d, "idle", Idle)
      BY IdleIsLocal DEF Local, FitsNext, DeliveryPCs, HandPCs
    <2>3. n = Len(b)
      BY <1>0, <1>3
    <2>. QED  BY <1>0, <1>1, <2>1, <2>2, <2>3, Keeps DEF Return, PCs
  <1>. QED  BY <1>2, <1>3

-----------------------------------------------------------------------------
(* The webhook                                                              *)

\* A delivery that goes to a statement with its locals, and writes no row.
LEMMA DeliveryGoes ==
    ASSUME IInv, NEW d \in Deliveries, NEW p \in DeliveryPCs, Goto(d, p), UNCHANGED acked, StoreNext(d),
           p \notin {"qualify"}, p \in {"reread", "read"} => created'[Current(d)] > 0
    PROVE  IInv'
  <1>1. /\ TypeOK /\ d \in Requests /\ job[d] \in Job /\ Local(d, job[d])
        /\ Current(d) = Subject(d, job[d]) /\ acked \subseteq Batches
    BY BatchIsMessages DEF IInv, TypeOK
  <1>2. Call(d, p, job[d])
    BY <1>1 DEF Goto, Call, TypeOK
  <1>3. \A i \in 1..(job[d].at - 1) : SettledNext(job[d].batch[i])
    <2>. SUFFICES ASSUME NEW i \in 1..(job[d].at - 1) PROVE SettledNext(job[d].batch[i])
      OBVIOUS
    <2>1. job[d].batch[i] \in Messages
      BY <1>1, BatchIsMessages
    <2>2. Settled(job[d].batch[i])
      BY <1>1 DEF IInv, Placed, Fits
    <2>. QED  BY <2>1, <2>2, SettledStays DEF StoreNext
  <1>4. FitsNext(d, p, job[d])
    BY <1>1, <1>3 DEF FitsNext, DeliveryPCs
  <1>. QED  BY <1>1, <1>2, <1>4, Keeps DEF PCs, DeliveryPCs

\* A batch that arrives has nothing processed yet.
LEMMA DeliverKeeps ==
    ASSUME IInv, NEW d \in Deliveries, NEW b \in Batches, Deliver(d, b)
    PROVE  IInv'
  <1>. DEFINE j == [Idle EXCEPT !.batch = b]
  <1>1. j \in Job /\ j.at = 1 /\ j.batch = b
    BY IdleIsLocal DEF Job
  <1>2. Len(b) \in Nat /\ 1 \in 1..Len(b)
    OBVIOUS
  <1>3. Call(d, "lookup", j) /\ UNCHANGED acked /\ d \in Requests /\ acked \subseteq Batches
    BY DEF Deliver, past, IInv, TypeOK, Requests
  <1>4. StoreNext(d)
    BY <1>3, SameRows DEF Deliver, past, IInv, TypeOK, Works
  <1>. HIDE DEF j
  <1>5. Local(d, j) /\ FitsNext(d, "lookup", j)
    BY <1>1, <1>2 DEF Local, FitsNext, DeliveryPCs
  <1>. QED  BY <1>3, <1>4, <1>5, Keeps DEF PCs

\* Configuring the phone number writes no row.
LEMMA ConfigureKeeps == ASSUME IInv, Configure PROVE IInv'
  BY DEF Configure, IInv, TypeOK, Placed, Fits, Acknowledged, Settled, Failed, Subject, Backed,
         OneLeadPerMessage, QuoteIsBacked, Quote, rows, past

\* A lead that exists has been settled once a statement failed.
LEMMA FailedSettles ==
    ASSUME IInv, NEW r \in Requests, StoreNext(r), StatementFails, NEW m \in Messages, created[m] > 0
    PROVE  SettledNext(m)
  BY StatementFailed DEF SettledNext, StoreNext, Grows, IInv

\* The statements of the webhook that read.
LEMMA ReadingKeeps ==
    ASSUME IInv, NEW d \in Deliveries, Lookup(d) \/ Relookup(d) \/ Reread(d)
    PROVE  IInv'
  <1>1. d \in Requests /\ Current(d) \in Messages /\ Current(d) = Subject(d, job[d])
    BY BatchIsMessages DEF IInv
  <1>2. UNCHANGED <<mapped, rows, qualified>> /\ (Works \/ StatementFails)
    BY DEF Lookup, Relookup, Reread, past, Processed, Refuse
  <1>3. StoreNext(d)
    <2>1. mapped' \in BOOLEAN
      BY <1>2 DEF IInv, TypeOK
    <2>. QED  BY <1>1, <1>2, <2>1, SameRows DEF StatementFails
  <1>4. CASE Refuse(d)
    BY <1>1, <1>3, <1>4, ReturnKeeps DEF Refuse
  <1>5. CASE Processed(d) /\ StatementFails /\ created[Current(d)] > 0
    BY <1>1, <1>3, <1>5, FailedSettles, ProcessedKeeps
  <1>6. CASE UNCHANGED acked /\ \E p \in {"insert", "read"} :
                Goto(d, p) /\ (p = "read" => created[Current(d)] > 0)
    <2>1. created' = created
      BY <1>2 DEF rows
    <2>. QED  BY <1>3, <1>6, <2>1, DeliveryGoes DEF DeliveryPCs
  <1>7. pc[d] = "reread" => created[Current(d)] > 0
    BY <1>1 DEF IInv, Placed, Fits
  <1>8. CASE Lookup(d)
    BY <1>4, <1>5, <1>6, <1>8 DEF Lookup
  <1>9. CASE Relookup(d)
    BY <1>4, <1>6, <1>9 DEF Relookup, past
  <1>10. CASE Reread(d)
    BY <1>5, <1>6, <1>7, <1>10 DEF Reread
  <1>. QED  BY <1>8, <1>9, <1>10

\* An inserted lead is the first of its message.
LEMMA InsertKeeps == ASSUME IInv, NEW d \in Deliveries, Insert(d) PROVE IInv'
  <1>. DEFINE m == Current(d)
  <1>1. TypeOK /\ d \in Requests /\ m \in Messages /\ d \notin Hands
    BY BatchIsMessages DEF IInv
  <1>2. UNCHANGED <<mapped, acked, qualified>> /\ (Works \/ StatementFails)
    BY DEF Insert, past
  <1>3. failures' \in [Faults -> Nat] /\ (Failed => Failed')
    BY <1>1, <1>2, FailuresNext DEF StatementFails
  <1>4. CASE Free(m) /\ InsertLead(m)
    <2>1. /\ created' = [created EXCEPT ![m] = 1] /\ meta' = [meta EXCEPT ![m] = NoMeta]
          /\ UNCHANGED approvals
      BY <1>1, <1>4 DEF Free, InsertLead, TypeOK
    <2>2. StoreNext(d)
      <3>1. /\ created' \in [Messages -> Nat] /\ \A n \in Messages : created'[n] <= 1
            /\ \A n \in Messages : created[n] > 0 => created'[n] > 0
        BY <1>1, <2>1 DEF IInv, TypeOK, OneLeadPerMessage
      <3>2. meta' \in [Messages -> Meta] /\ \A n \in Messages : \A h \in meta'[n].quote : Quote(n) \in approvals[h]
        BY <1>1, <2>1 DEF IInv, TypeOK, QuoteIsBacked, Quote, NoMeta, Meta
      <3>. QED  BY <1>1, <1>2, <1>3, <2>1, <3>1, <3>2 DEF StoreNext, Grows, TypeOK
    <2>3. created'[m] > 0
      BY <1>1, <2>1 DEF TypeOK
    <2>4. Goto(d, "reread") \/ Goto(d, "relookup")
      BY DEF Insert
    <2>. QED  BY <1>2, <2>2, <2>3, <2>4, DeliveryGoes DEF DeliveryPCs
  <1>5. CASE UNCHANGED rows /\ Goto(d, "relookup")
    <2>1. mapped' \in BOOLEAN
      BY <1>1, <1>2 DEF TypeOK
    <2>2. StoreNext(d)
      BY <1>1, <1>2, <1>5, <2>1, SameRows DEF StatementFails
    <2>. QED  BY <1>2, <1>5, <2>2, DeliveryGoes DEF DeliveryPCs
  <1>. QED  BY <1>4, <1>5 DEF Insert

\* The metadata are read where the lead exists, and its quote is backed.
LEMMA ReadLeadKeeps == ASSUME IInv, NEW d \in Deliveries, ReadLead(d) PROVE IInv'
  <1>. DEFINE m == Current(d)
              j == [job[d] EXCEPT !.meta = meta[m]]
  <1>1. /\ TypeOK /\ d \in Requests /\ m \in Messages /\ m = Subject(d, job[d]) /\ job[d] \in Job
        /\ Local(d, job[d]) /\ acked \subseteq Batches
    BY BatchIsMessages DEF IInv, TypeOK
  <1>2. created[m] > 0
    BY <1>1 DEF ReadLead, IInv, Placed, Fits
  <1>3. UNCHANGED <<mapped, rows, qualified>> /\ (Works \/ StatementFails)
    BY DEF ReadLead
  <1>4. StoreNext(d)
    <2>1. mapped' \in BOOLEAN
      BY <1>1, <1>3 DEF TypeOK
    <2>. QED  BY <1>1, <1>3, <2>1, SameRows DEF StatementFails
  <1>5. CASE StatementFails /\ Processed(d)
    BY <1>1, <1>2, <1>4, <1>5, FailedSettles, ProcessedKeeps
  <1>6. CASE Call(d, "qualify", j) /\ UNCHANGED acked
    <2>1. j \in Job /\ j.at = job[d].at /\ j.batch = job[d].batch /\ j.meta = meta[m] /\ j.lead = job[d].lead
      BY <1>1 DEF TypeOK, Job
    <2>2. created' = created /\ approvals' = approvals
      BY <1>3 DEF rows
    <2>3. \A i \in 1..(job[d].at - 1) : SettledNext(job[d].batch[i])
      <3>. SUFFICES ASSUME NEW i \in 1..(job[d].at - 1) PROVE SettledNext(job[d].batch[i])
        OBVIOUS
      <3>1. job[d].batch[i] \in Messages
        BY <1>1, BatchIsMessages
      <3>2. Settled(job[d].batch[i])
        BY <1>1 DEF IInv, Placed, Fits
      <3>. QED  BY <3>1, <3>2, <1>4, SettledStays DEF StoreNext
    <2>4. \A h \in meta[m].quote : Quote(m) \in approvals[h]
      BY <1>1 DEF IInv, QuoteIsBacked, Quote
    <2>. HIDE DEF j
    <2>5. Local(d, j) /\ Subject(d, j) = m
      BY <1>1, <2>1 DEF Local, Subject
    <2>6. FitsNext(d, "qualify", j)
      <3>. HIDE DEF m
      <3>. QED  BY <1>2, <2>1, <2>2, <2>3, <2>4, <2>5 DEF FitsNext, DeliveryPCs
    <2>7. Call(d, "qualify", j)
      BY <1>6 DEF j
    <2>. QED  BY <1>1, <1>4, <1>6, <2>5, <2>6, <2>7, Keeps DEF PCs
  <1>. QED  BY <1>5, <1>6 DEF ReadLead

\* Metadata of a lead that are written with a quote that is backed.
LEMMA WriteMetaNext ==
    ASSUME IInv, NEW r \in Requests, NEW m \in Messages, NEW new \in Meta,
           \A h \in new.quote : Quote(m) \in approvals[h],
           WriteMeta(m, new), mapped' = mapped, qualified \subseteq qualified', qualified' \subseteq Messages,
           Works \/ StatementFails
    PROVE  StoreNext(r)
  <1>1. failures' \in [Faults -> Nat] /\ (Failed => Failed')
    BY FailuresNext DEF IInv, StatementFails
  <1>2. /\ meta' \in [Messages -> Meta]
        /\ \A n \in Messages : \A h \in meta'[n].quote : Quote(n) \in approvals[h]
    BY DEF WriteMeta, IInv, TypeOK, QuoteIsBacked, Quote
  <1>3. created' = created /\ approvals' = approvals
    BY DEF WriteMeta
  <1>. QED  BY <1>1, <1>2, <1>3 DEF StoreNext, Grows, IInv, TypeOK, OneLeadPerMessage

\* A qualification keeps the quote that was read.
LEMMA QualificationKeepsQuote ==
    ASSUME NEW read \in Meta, NEW q \in BOOLEAN
    PROVE  Qualification(read, q) \in Meta /\ Qualification(read, q).quote = read.quote
  BY DEF Qualification, Meta

\* What was read is written back: its quote is of this lead.
LEMMA QualifyKeeps == ASSUME IInv, NEW d \in Deliveries, Qualify(d) PROVE IInv'
  <1>. DEFINE m == Current(d)
              new == Qualification(job[d].meta, m \in Quantified)
  <1>1. /\ TypeOK /\ d \in Requests /\ m \in Messages /\ m = Subject(d, job[d]) /\ job[d].meta \in Meta
        /\ mapped' = mapped /\ (Works \/ StatementFails) /\ Processed(d)
    BY BatchIsMessages DEF IInv, Job, Qualify
  <1>2. created[m] > 0 /\ \A h \in job[d].meta.quote : Quote(m) \in approvals[h]
    BY <1>1 DEF Qualify, IInv, Placed, Fits, Backed
  <1>3. CASE WriteMeta(m, new) /\ qualified' = qualified \cup {m}
    <2>1. new \in Meta /\ \A h \in new.quote : Quote(m) \in approvals[h]
      <3>. DEFINE q == m \in Quantified
      <3>1. q \in BOOLEAN
        OBVIOUS
      <3>. HIDE DEF q
      <3>2. Qualification(job[d].meta, q) \in Meta /\ Qualification(job[d].meta, q).quote = job[d].meta.quote
        BY <1>1, <3>1, QualificationKeepsQuote
      <3>. QED  BY <1>2, <3>2 DEF q
    <2>2. qualified \subseteq qualified' /\ qualified' \subseteq Messages
      BY <1>1, <1>3 DEF TypeOK
    <2>3. StoreNext(d)
      <3>. HIDE DEF new, m
      <3>. QED  BY <1>1, <1>3, <2>1, <2>2, WriteMetaNext
    <2>4. SettledNext(m)
      BY <1>1, <1>2, <1>3 DEF SettledNext, WriteMeta
    <2>. QED  BY <1>1, <2>3, <2>4, ProcessedKeeps
  <1>4. CASE StatementFails /\ UNCHANGED <<rows, qualified>>
    <2>1. mapped' \in BOOLEAN
      BY <1>1 DEF TypeOK
    <2>2. StoreNext(d)
      BY <1>1, <1>4, <2>1, SameRows DEF StatementFails
    <2>. QED  BY <1>1, <1>2, <1>4, <2>2, FailedSettles, ProcessedKeeps
  <1>. QED  BY <1>3, <1>4 DEF Qualify

-----------------------------------------------------------------------------
(* The owner                                                                *)

\* A request of the owner is none of Meta's.
LEMMA HandIsHand ==
    ASSUME IInv, NEW h \in Hands
    PROVE  /\ h \in Requests /\ h \notin Deliveries /\ Local(h, job[h]) /\ Subject(h, job[h]) = Lead(h)
           /\ Lead(h) \in Messages /\ job[h].meta \in Meta /\ TypeOK /\ acked \subseteq Batches
  BY DEF IInv, TypeOK, Requests, Local, Subject, Lead, Job

\* A request begins with the metadata of its lead.
LEMMA BeginKeeps ==
    ASSUME IInv, NEW h \in Hands, NEW m \in Messages, NEW p \in {"requalify", "approve", "record"},
           Begin(h, m, p), p = "approve" => approvals[h] = {}
    PROVE  IInv'
  <1>. DEFINE j == [Idle EXCEPT !.lead = m, !.meta = meta[m]]
  <1>1. h \in Requests /\ h \notin Deliveries /\ TypeOK /\ acked \subseteq Batches
    BY HandIsHand
  <1>2. j \in Job /\ j.lead = m /\ j.meta = meta[m]
    BY <1>1, IdleIsLocal DEF Job, TypeOK
  <1>3. Call(h, p, j) /\ UNCHANGED <<mapped, rows, past, failures>>
    BY DEF Begin
  <1>4. StoreNext(h) /\ acked' = acked /\ approvals' = approvals
    BY <1>1, <1>3, SameRows DEF past, rows, TypeOK, Works
  <1>5. \A g \in meta[m].quote : Quote(m) \in approvals[g]
    BY DEF IInv, QuoteIsBacked, Quote
  <1>. HIDE DEF j
  <1>6. Local(h, j) /\ FitsNext(h, p, j)
    BY <1>1, <1>2, <1>4, <1>5 DEF Local, FitsNext, HandPCs, Subject
  <1>. QED  BY <1>1, <1>3, <1>4, <1>6, Keeps DEF PCs

\* What was sent is shown with the approval it was asked for with, which is of its lead.
LEMMA SentKeeps == ASSUME IInv, NEW h \in Hands, NEW g \in Hands, BeginSent(h, g) PROVE IInv'
  <1>1. h \in Requests /\ h \notin Deliveries /\ TypeOK /\ acked \subseteq Batches
    BY HandIsHand
  <1>2. PICK a \in approvals[g] :
           Call(h, "record", [Idle EXCEPT !.lead = a.lead,
                                          !.meta = [meta[a.lead] EXCEPT !.quote = IF a.quote THEN {g} ELSE @]])
    BY DEF BeginSent
  <1>. DEFINE new == [meta[a.lead] EXCEPT !.quote = IF a.quote THEN {g} ELSE @]
              j == [Idle EXCEPT !.lead = a.lead, !.meta = new]
  <1>3. a \in Approval /\ a.lead \in Messages /\ a.quote \in BOOLEAN /\ (a.quote => a = Quote(a.lead))
    BY <1>1 DEF TypeOK, Approval, Quote
  <1>4. new \in Meta /\ \A k \in new.quote : Quote(a.lead) \in approvals[k]
    <2>1. meta[a.lead] \in Meta /\ \A k \in meta[a.lead].quote : Quote(a.lead) \in approvals[k]
      BY <1>1, <1>3 DEF TypeOK, IInv, QuoteIsBacked, Quote
    <2>2. new \in Meta /\ new.quote = IF a.quote THEN {g} ELSE meta[a.lead].quote
      BY <2>1, <1>3 DEF Meta
    <2>. HIDE DEF new
    <2>. QED  BY <1>2, <1>3, <2>1, <2>2
  <1>5. UNCHANGED <<mapped, rows, past, failures>>
    BY DEF BeginSent
  <1>6. StoreNext(h) /\ acked' = acked /\ approvals' = approvals
    BY <1>1, <1>5, SameRows DEF past, rows, TypeOK, Works
  <1>7. Call(h, "record", j)
    BY <1>2
  <1>. HIDE DEF new
  <1>8. j \in Job /\ j.lead = a.lead /\ j.meta = new
    BY <1>3, <1>4, IdleIsLocal DEF Job
  <1>. HIDE DEF j
  <1>9. Local(h, j) /\ FitsNext(h, "record", j)
    BY <1>1, <1>4, <1>6, <1>8 DEF Local, FitsNext, HandPCs, Subject
  <1>. QED  BY <1>1, <1>6, <1>7, <1>9, Keeps DEF PCs

\* A follow-up asks for an approval, and no more.
LEMMA FollowUpKeeps ==
    ASSUME IInv, NEW h \in Hands, NEW m \in Messages, BeginFollowUp(h, m)
    PROVE  IInv'
  <1>1. /\ h \in Requests /\ h \notin Deliveries /\ TypeOK /\ acked \subseteq Batches /\ Local(h, job[h])
    BY HandIsHand
  <1>2. /\ pc[h] = "idle" /\ approvals[h] = {} /\ approvals' = [approvals EXCEPT ![h] = {[lead |-> m, quote |-> FALSE]}]
        /\ UNCHANGED <<mapped, created, meta, pc, job, past, failures>>
    BY DEF BeginFollowUp
  <1>3. StoreNext(h)
    <2>1. /\ approvals' \in [Hands -> SUBSET Approval]
          /\ \A g \in Hands : approvals[g] \subseteq approvals'[g] /\ (g # h => approvals'[g] = approvals[g])
      BY <1>1, <1>2 DEF TypeOK, Approval
    <2>2. \A n \in Messages : \A g \in meta[n].quote : Quote(n) \in approvals'[g]
      <3>1. \A n \in Messages : meta[n].quote \subseteq Hands
        BY <1>1 DEF TypeOK, Meta
      <3>. QED  BY <2>1, <3>1 DEF IInv, QuoteIsBacked, Quote
    <2>. QED  BY <1>1, <1>2, <2>1, <2>2 DEF StoreNext, Grows, IInv, TypeOK, OneLeadPerMessage, past, Failed
  <1>4. Call(h, "idle", job[h]) /\ FitsNext(h, "idle", job[h])
    BY <1>1, <1>2 DEF Call, FitsNext, HandPCs, TypeOK
  <1>. QED  BY <1>1, <1>2, <1>3, <1>4, Keeps DEF PCs, past

\* Metadata that are written back, with a quote that is backed.
LEMMA WriteBackKeeps ==
    ASSUME IInv, NEW h \in Hands, NEW news,
           \A new \in news : new \in Meta /\ \A g \in new.quote : Quote(Lead(h)) \in approvals[g],
           WriteBack(h, news)
    PROVE  IInv'
  <1>1. h \in Requests /\ TypeOK /\ Lead(h) \in Messages
    BY HandIsHand
  <1>2. Return(h) /\ UNCHANGED <<mapped, past>>
    BY DEF WriteBack
  <1>3. CASE (\E new \in news : WriteMeta(Lead(h), new)) /\ (Works \/ StatementFails)
    <2>1. PICK new \in news : WriteMeta(Lead(h), new)
      BY <1>3
    <2>2. StoreNext(h)
      BY <1>1, <1>2, <1>3, <2>1, WriteMetaNext DEF past, TypeOK
    <2>. QED  BY <1>1, <1>2, <2>2, ReturnKeeps DEF past
  <1>4. CASE StatementFails /\ UNCHANGED rows
    <2>1. StoreNext(h)
      BY <1>1, <1>2, <1>4, SameRows DEF StatementFails, past, TypeOK
    <2>. QED  BY <1>1, <1>2, <2>1, ReturnKeeps DEF past
  <1>. QED  BY <1>3, <1>4 DEF WriteBack

\* What the owner's requests write back.
LEMMA WritingKeeps ==
    ASSUME IInv, NEW h \in Hands, Requalify(h) \/ DraftQuote(h) \/ Record(h)
    PROVE  IInv'
  <1>1. h \in Requests /\ TypeOK /\ Lead(h) = Subject(h, job[h]) /\ Lead(h) = job[h].lead /\ job[h].meta \in Meta
    BY HandIsHand DEF Lead
  <1>2. pc[h] \in {"requalify", "quote", "record"}
    BY DEF Requalify, DraftQuote, Record
  <1>3. \A g \in job[h].meta.quote : Quote(Lead(h)) \in approvals[g]
    <2>1. Fits(h, pc[h], job[h])
      BY <1>1 DEF IInv, Placed
    <2>2. Backed(Subject(h, job[h]), job[h].meta.quote)
      BY <1>2, <2>1 DEF Fits
    <2>. QED  BY <1>1, <2>2 DEF Backed
  <1>4. CASE Requalify(h)
    <2>1. \A new \in {Qualification(job[h].meta, q) : q \in BOOLEAN} :
             new \in Meta /\ \A g \in new.quote : Quote(Lead(h)) \in approvals[g]
      BY <1>1, <1>3, QualificationKeepsQuote
    <2>. QED  BY <1>4, <2>1, WriteBackKeeps DEF Requalify
  <1>5. CASE DraftQuote(h)
    <2>. DEFINE new == [job[h].meta EXCEPT !.quote = {h}]
    <2>1. new \in Meta /\ new.quote = {h}
      BY <1>1 DEF Meta
    <2>2. Quote(Lead(h)) \in approvals[h]
      BY <1>1, <1>5 DEF DraftQuote, IInv, Placed, Fits
    <2>3. WriteBack(h, {new})
      BY <1>5 DEF DraftQuote
    <2>. HIDE DEF new
    <2>. QED  BY <2>1, <2>2, <2>3, WriteBackKeeps
  <1>6. CASE Record(h)
    <2>1. \A new \in {job[h].meta} : new \in Meta /\ \A g \in new.quote : Quote(Lead(h)) \in approvals[g]
      BY <1>1, <1>3
    <2>. QED  BY <1>6, <2>1, WriteBackKeeps DEF Record
  <1>. QED  BY <1>4, <1>5, <1>6

\* The approval of a quote: a request of its own, that had none.
LEMMA ApproveKeeps == ASSUME IInv, NEW h \in Hands, ApproveQuote(h) PROVE IInv'
  <1>1. /\ h \in Requests /\ h \notin Deliveries /\ TypeOK /\ acked \subseteq Batches /\ Local(h, job[h])
        /\ Subject(h, job[h]) = Lead(h) /\ Lead(h) = job[h].lead /\ Lead(h) \in Messages
    BY HandIsHand DEF Lead
  <1>2. approvals[h] = {} /\ \A g \in job[h].meta.quote : Quote(Lead(h)) \in approvals[g]
    BY <1>1 DEF ApproveQuote, IInv, Placed, Fits, Backed
  <1>3. /\ UNCHANGED <<mapped, created, meta, past>> /\ (Works \/ StatementFails)
        /\ approvals' = approvals \/ approvals' = [approvals EXCEPT ![h] = {Quote(Lead(h))}]
    BY DEF ApproveQuote, AskForQuote, Quote
  <1>4. /\ approvals' \in [Hands -> SUBSET Approval]
        /\ \A g \in Hands : approvals[g] \subseteq approvals'[g] /\ (g # h => approvals'[g] = approvals[g])
    <2>1. CASE approvals' = approvals
      BY <1>1, <2>1 DEF TypeOK
    <2>2. CASE approvals' = [approvals EXCEPT ![h] = {Quote(Lead(h))}]
      <3>1. approvals' \in [Hands -> SUBSET Approval] /\ approvals'[h] = {Quote(Lead(h))}
        BY <1>1, <2>2 DEF TypeOK, Quote, Approval
      <3>2. \A g \in Hands : g # h => approvals'[g] = approvals[g]
        BY <1>1, <2>2 DEF TypeOK
      <3>. QED  BY <1>2, <3>1, <3>2
    <2>. QED  BY <1>3, <2>1, <2>2
  <1>5. StoreNext(h)
    <2>1. \A n \in Messages : meta[n].quote \subseteq Hands
      BY <1>1 DEF TypeOK, Meta
    <2>2. \A n \in Messages : \A g \in meta[n].quote : Quote(n) \in approvals'[g]
      BY <1>4, <2>1 DEF IInv, QuoteIsBacked, Quote
    <2>3. failures' \in [Faults -> Nat] /\ (Failed => Failed')
      BY <1>1, <1>3, FailuresNext DEF StatementFails
    <2>. QED  BY <1>1, <1>3, <1>4, <2>2, <2>3 DEF StoreNext, Grows, IInv, TypeOK, OneLeadPerMessage, past
  <1>6. CASE Return(h)
    BY <1>1, <1>3, <1>5, <1>6, ReturnKeeps DEF past
  <1>7. CASE approvals' = [approvals EXCEPT ![h] = {Quote(Lead(h))}] /\ Goto(h, "quote")
    <2>1. Call(h, "quote", job[h]) /\ Quote(Lead(h)) \in approvals'[h]
      BY <1>1, <1>7 DEF Goto, Call, TypeOK
    <2>2. job[h].meta.quote \subseteq Hands
      BY HandIsHand DEF Meta
    <2>3. FitsNext(h, "quote", job[h])
      BY <1>1, <1>2, <1>4, <2>1, <2>2 DEF FitsNext, HandPCs
    <2>. QED  BY <1>1, <1>3, <1>5, <2>1, <2>3, Keeps DEF PCs, past
  <1>. QED  BY <1>6, <1>7 DEF ApproveQuote, AskForQuote, Quote

\* A process that dies writes nothing.
LEMMA CrashKeeps == ASSUME IInv, NEW r \in Requests, Crash(r) PROVE IInv'
  <1>1. StoreNext(r)
    BY SameRows DEF Crash, past, IInv, TypeOK
  <1>. QED  BY <1>1, ReturnKeeps DEF Crash, past

-----------------------------------------------------------------------------
(* The theorems                                                             *)

\* The invariant holds at the start.
LEMMA InitHolds == ASSUME Init PROVE IInv
  <1>1. NoMeta \in Meta /\ NoMeta.quote = {}
    BY DEF NoMeta, Meta
  <1>2. TypeOK
    <2>1. /\ mapped \in BOOLEAN /\ created \in [Messages -> Nat] /\ meta \in [Messages -> Meta]
          /\ approvals \in [Hands -> SUBSET Approval] /\ failures \in [Faults -> Nat]
      BY <1>1 DEF Init
    <2>2. pc \in [Requests -> PCs]
      BY DEF Init, PCs
    <2>3. job \in [Requests -> Job] /\ \A d \in Deliveries : job[d].at \in 1..Len(job[d].batch)
      BY IdleIsLocal DEF Init, Requests
    <2>. QED  BY <2>1, <2>2, <2>3 DEF Init, TypeOK
  <1>3. Placed
    BY IdleIsLocal DEF Init, Placed, Fits, DeliveryPCs, HandPCs
  <1>. QED  BY <1>1, <1>2, <1>3 DEF Init, IInv, Acknowledged, OneLeadPerMessage, QuoteIsBacked, Quote

\* Every step keeps it.
LEMMA StepHolds == ASSUME IInv, [Next]_vars PROVE IInv'
  <1>1. ASSUME NEW d \in Deliveries, NEW b \in Batches, Deliver(d, b) PROVE IInv'
    BY <1>1, DeliverKeeps
  <1>2. ASSUME NEW h \in Hands, NEW m \in Messages,
               BeginQualify(h, m) \/ BeginQuote(h, m) \/ BeginDeal(h, m) \/ BeginFollowUp(h, m)
        PROVE  IInv'
    BY <1>2, BeginKeeps, FollowUpKeeps DEF BeginQualify, BeginQuote, BeginDeal
  <1>3. ASSUME NEW r \in Requests, Proceed(r) \/ Crash(r) PROVE IInv'
    <2>1. CASE r \in Deliveries /\ Proceed(r)
      BY <2>1, ReadingKeeps, InsertKeeps, ReadLeadKeeps, QualifyKeeps DEF Proceed
    <2>2. CASE r \notin Deliveries /\ Proceed(r)
      BY <2>2, WritingKeeps, ApproveKeeps DEF Proceed, Requests
    <2>. QED  BY <1>3, <2>1, <2>2, CrashKeeps
  <1>4. ASSUME NEW h \in Hands, NEW g \in Hands, BeginSent(h, g) PROVE IInv'
    BY <1>4, SentKeeps
  <1>5. CASE UNCHANGED vars
    BY <1>5 DEF vars, rows, past, IInv, TypeOK, Placed, Fits, Acknowledged, Settled, Failed, Subject, Backed,
                OneLeadPerMessage, QuoteIsBacked, Quote
  <1>. QED  BY <1>1, <1>2, <1>3, <1>4, <1>5, ConfigureKeeps DEF Next

\* The invariant holds always.
LEMMA Invariant == Spec => []IInv
  <1>1. Init => IInv
    BY InitHolds
  <1>2. IInv /\ [Next]_vars => IInv'
    BY StepHolds
  <1>. QED  BY <1>1, <1>2, PTL DEF Spec

\* Leads, metadata and requests keep their types; no delivery leaves its batch.
THEOREM LeadsTypeCorrect == Spec => []TypeOK
  <1>1. IInv => TypeOK
    BY DEF IInv
  <1>. QED  BY <1>1, Invariant, PTL

\* Deliveries of one message, however many overlap, make one lead.
THEOREM OneLeadPerMessageAlways == Spec => []OneLeadPerMessage
  <1>1. IInv => OneLeadPerMessage
    BY DEF IInv
  <1>. QED  BY <1>1, Invariant, PTL

\* Meta stops posting a batch only when each of its messages has a stored lead.
THEOREM AcknowledgedIsDurableAlways == Spec => []AcknowledgedIsDurable
  <1>1. IInv => AcknowledgedIsDurable
    BY DEF IInv, Acknowledged, Settled, AcknowledgedIsDurable
  <1>. QED  BY <1>1, Invariant, PTL

\* And, where no statement failed, each of them is qualified.
THEOREM AcknowledgedIsQualifiedAlways == Spec => []AcknowledgedIsQualified
  <1>1. IInv => AcknowledgedIsQualified
    BY DEF IInv, Acknowledged, Settled, Failed, AcknowledgedIsQualified
  <1>. QED  BY <1>1, Invariant, PTL

\* Stale metadata that are written back show no quote without its approval.
THEOREM QuoteIsBackedAlways == Spec => []QuoteIsBacked
  <1>1. IInv => QuoteIsBacked
    BY DEF IInv
  <1>. QED  BY <1>1, Invariant, PTL
=============================================================================
