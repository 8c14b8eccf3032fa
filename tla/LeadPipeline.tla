---------------------------- MODULE LeadPipeline ----------------------------
(***************************************************************************)
(* How a WhatsApp message becomes a lead of HAPE BROTHERS, and what the    *)
(* owner makes of it.  Meta posts a batch of messages to the webhook and   *)
(* posts it again until it is acknowledged; the webhook creates a lead per *)
(* message, under an idempotency key, and qualifies it.  The owner         *)
(* qualifies it again, drafts a quote, has what was approved sent and      *)
(* records the deal, beside the webhook: each reads the metadata of the    *)
(* lead and writes them back whole.                                        *)
(*                                                                         *)
(* One tenant; its batches hold text messages only, the others being       *)
(* skipped.  A lead is named after its message, a follow-up and a quote    *)
(* after the request of the owner that asked for it.                       *)
(***************************************************************************)
EXTENDS Naturals, Sequences

CONSTANTS
    Messages,
    Batches,     \* the payloads Meta posts: sequences of messages
    Deliveries,  \* posts that may be under way at the same time
    Hands,       \* requests of the owner
    Quantified,  \* the messages that name a quantity
    MaxFaults,   \* how many failures happen at most
    Faults       \* the failures that may happen; a subset of AllFaults

AllFaults == {"crash",  \* the process dies between two steps
              "db"}     \* a statement fails: unapplied, or applied and unanswered

ASSUME ConstantsAssumption ==
    /\ Batches \subseteq Seq(Messages) \ {<<>>} /\ Batches # {}
    /\ Quantified \subseteq Messages
    /\ Deliveries \cap Hands = {}
    /\ MaxFaults \in Nat
    /\ Faults \subseteq AllFaults

VARIABLES
    mapped,     \* the phone number of the batches has an owner
    created,    \* created[m]: the missions inserted under the key of m
    meta,       \* meta[m]: the metadata of that mission
    approvals,  \* approvals[h]: what h asked an approval for
    pc,         \* pc[r]: the next statement of request r
    job,        \* job[r]: its local variables
    acked,      \* batches that were answered with 200
    qualified,  \* leads the webhook has written a qualification of
    failures    \* how many failures there were, for each kind

vars == <<mapped, created, meta, approvals, pc, job, acked, qualified, failures>>
rows == <<created, meta, approvals>>
past == <<acked, qualified>>

Requests == Deliveries \cup Hands

Meta == [quantity : BOOLEAN,    \* the quantity is known
         quote : SUBSET Hands]  \* the approval_request_id of the quote

Approval == [lead : Messages,
             quote : BOOLEAN]  \* to send a quote, or else a follow-up

NoMeta == [quantity |-> FALSE, quote |-> {}]

Job == [batch : Batches, at : Nat,  \* a delivery: the message it works on
        lead : Messages,            \* the lead a request of the owner works on
        meta : Meta]                \* the metadata it read

PCs == {"idle", "lookup", "insert", "relookup", "reread", "read", "qualify",
        "requalify", "approve", "quote", "record"}

TypeOK ==
    /\ mapped \in BOOLEAN
    /\ created \in [Messages -> Nat]
    /\ meta \in [Messages -> Meta]
    /\ approvals \in [Hands -> SUBSET Approval]
    /\ pc \in [Requests -> PCs]
    /\ job \in [Requests -> Job]
    /\ \A d \in Deliveries : job[d].at \in 1..Len(job[d].batch)
    /\ acked \subseteq Batches
    /\ qualified \subseteq Messages
    /\ failures \in [Faults -> Nat]

Idle == [batch |-> CHOOSE b \in Batches : TRUE, at |-> 1, lead |-> CHOOSE m \in Messages : TRUE, meta |-> NoMeta]

Init ==
    /\ mapped \in BOOLEAN
    /\ created = [m \in Messages |-> 0]
    /\ meta = [m \in Messages |-> NoMeta]
    /\ approvals = [h \in Hands |-> {}]
    /\ pc = [r \in Requests |-> "idle"]
    /\ job = [r \in Requests |-> Idle]
    /\ acked = {} /\ qualified = {}
    /\ failures = [f \in Faults |-> 0]

Goto(r, statement) == pc' = [pc EXCEPT ![r] = statement] /\ UNCHANGED job

Call(r, statement, locals) == pc' = [pc EXCEPT ![r] = statement] /\ job' = [job EXCEPT ![r] = locals]

Return(r) == Call(r, "idle", Idle)

Works == UNCHANGED failures

FailsBy(f) == f \in Faults /\ failures[f] < MaxFaults /\ failures' = [failures EXCEPT ![f] = @ + 1]

StatementFails == FailsBy("db")

-----------------------------------------------------------------------------
(* The webhook                                                              *)

Batch(d) == job[d].batch

Current(d) == Batch(d)[job[d].at]

\* The signature is checked and the owner resolved before anything is written.
Deliver(d, b) ==
    /\ pc[d] = "idle" /\ mapped
    /\ Call(d, "lookup", [Idle EXCEPT !.batch = b])
    /\ UNCHANGED <<mapped, rows, past, failures>>

\* Somebody completes META_PHONE_NUMBER_OWNER_MAP.
Configure ==
    /\ ~mapped /\ mapped' = TRUE
    /\ UNCHANGED <<rows, pc, job, past, failures>>

\* The batch is answered with 503: Meta delivers it again.
Refuse(d) == Return(d) /\ UNCHANGED acked

\* The next message, or the answer 200.
Processed(d) ==
    IF job[d].at < Len(Batch(d))
    THEN Call(d, "lookup", [job[d] EXCEPT !.at = @ + 1]) /\ UNCHANGED acked
    ELSE Return(d) /\ acked' = acked \cup {Batch(d)}

\* Mutant: a message whose lead exists counts as processed.
LookupOnlyNew(d) ==
    /\ pc[d] = "lookup"
    /\ IF created[Current(d)] > 0 THEN Processed(d) ELSE Goto(d, "insert") /\ UNCHANGED acked
    /\ Works
    /\ UNCHANGED <<mapped, rows, qualified>>

\* create_mission looks for the key; one it remembers to be used is only read again.
Lookup(d) ==
    LET exists == created[Current(d)] > 0 IN
    /\ pc[d] = "lookup"
    /\ \/ Goto(d, IF exists THEN "read" ELSE "insert") /\ Works /\ UNCHANGED acked
       \/ StatementFails /\ (Refuse(d) \/ (exists /\ Processed(d)))
    /\ UNCHANGED <<mapped, rows, qualified>>

InsertLead(m) ==
    /\ created' = [created EXCEPT ![m] = @ + 1]
    /\ meta' = [meta EXCEPT ![m] = NoMeta]
    /\ UNCHANGED approvals

\* Mutant: there is no unique index.
InsertAnyway(d) ==
    /\ pc[d] = "insert"
    /\ InsertLead(Current(d)) /\ Goto(d, "reread") /\ Works
    /\ UNCHANGED <<mapped, past>>

\* idx_missions_owner_orchestration_idempotency
Free(m) == created[m] = 0

Insert(d) ==
    /\ pc[d] = "insert"
    /\ \/ Free(Current(d)) /\ InsertLead(Current(d)) /\ Goto(d, "reread") /\ Works
       \/ /\ ~Free(Current(d)) /\ UNCHANGED rows /\ Goto(d, "relookup") /\ Works
       \/ /\ StatementFails
          /\ UNCHANGED rows \/ (Free(Current(d)) /\ InsertLead(Current(d)))
          /\ Goto(d, "relookup")
    /\ UNCHANGED <<mapped, past>>

\* Mutant: a lead that could not be persisted is answered like the others.
RelookupUnchecked(d) ==
    /\ pc[d] = "relookup"
    /\ Processed(d) /\ Works
    /\ UNCHANGED <<mapped, rows, qualified>>

\* After a failed insert the key is looked for once more.
Relookup(d) ==
    /\ pc[d] = "relookup"
    /\ \/ created[Current(d)] > 0 /\ Goto(d, "read") /\ Works
       \/ created[Current(d)] = 0 /\ Refuse(d) /\ Works
       \/ StatementFails /\ Refuse(d)
    /\ UNCHANGED <<mapped, rows, past>>

\* What was inserted is read again; without an answer it has no id to qualify.
Reread(d) ==
    /\ pc[d] = "reread"
    /\ \/ Goto(d, "read") /\ Works /\ UNCHANGED acked
       \/ StatementFails /\ Processed(d)
    /\ UNCHANGED <<mapped, rows, qualified>>

\* qualify_lead reads the metadata.
ReadLead(d) ==
    /\ pc[d] = "read"
    /\ \/ Call(d, "qualify", [job[d] EXCEPT !.meta = meta[Current(d)]]) /\ Works /\ UNCHANGED acked
       \/ StatementFails /\ Processed(d)
    /\ UNCHANGED <<mapped, rows, qualified>>

\* What the text says, or else what the lead said; the quote stays as it was read.
Qualification(read, quantity) == [read EXCEPT !.quantity = @ \/ quantity]

WriteMeta(m, new) == meta' = [meta EXCEPT ![m] = new] /\ UNCHANGED <<created, approvals>>

\* A qualification that could not be written is not tried again.
Qualify(d) ==
    LET m == Current(d) IN
    /\ pc[d] = "qualify"
    /\ \/ /\ WriteMeta(m, Qualification(job[d].meta, m \in Quantified))
          /\ qualified' = qualified \cup {m}
          /\ Works \/ StatementFails
       \/ StatementFails /\ UNCHANGED <<rows, qualified>>
    /\ Processed(d)
    /\ UNCHANGED mapped

-----------------------------------------------------------------------------
(* The owner                                                                *)

\* Each operation reads the lead first; one whose read fails says it is not found.
Begin(h, m, statement) ==
    /\ pc[h] = "idle" /\ created[m] > 0
    /\ Call(h, statement, [Idle EXCEPT !.lead = m, !.meta = meta[m]])
    /\ UNCHANGED <<mapped, rows, past, failures>>

Lead(h) == job[h].lead

BeginQualify(h, m) == Begin(h, m, "requalify")

\* draft_quote: a quantity is required.  A request asks for one approval.
BeginQuote(h, m) == meta[m].quantity /\ approvals[h] = {} /\ Begin(h, m, "approve")

BeginDeal(h, m) == Begin(h, m, "record")

\* suggest_follow_up: the approval is all it writes.
BeginFollowUp(h, m) ==
    /\ pc[h] = "idle" /\ created[m] > 0 /\ approvals[h] = {}
    /\ approvals' = [approvals EXCEPT ![h] = {[lead |-> m, quote |-> FALSE]}]
    /\ UNCHANGED <<mapped, created, meta, pc, job, past, failures>>

\* _handle_publish_content, once WhatsApp has taken the message that g asked for, for
\* the first time or again: the lead is read, to show the approval of its quote.
BeginSent(h, g) ==
    /\ pc[h] = "idle"
    /\ \E a \in approvals[g] :
          LET read == meta[a.lead] IN
          Call(h, "record", [Idle EXCEPT !.lead = a.lead,
                                       !.meta = [read EXCEPT !.quote = IF a.quote THEN {g} ELSE @]])
    /\ UNCHANGED <<mapped, rows, past, failures>>

\* The metadata that were read, changed, are written whole.
WriteBack(h, news) ==
    /\ \/ (\E new \in news : WriteMeta(Lead(h), new)) /\ (Works \/ StatementFails)
       \/ StatementFails /\ UNCHANGED rows
    /\ Return(h)
    /\ UNCHANGED <<mapped, past>>

Requalify(h) == pc[h] = "requalify" /\ WriteBack(h, {Qualification(job[h].meta, q) : q \in BOOLEAN})

\* What draft_quote asks for.
AskForQuote(h) == approvals' = [approvals EXCEPT ![h] = {[lead |-> Lead(h), quote |-> TRUE]}]

\* Mutant: that the approval could not be created is not looked at.
ApproveUnchecked(h) ==
    /\ pc[h] = "approve"
    /\ \/ AskForQuote(h) /\ Works
       \/ StatementFails /\ UNCHANGED approvals
    /\ Goto(h, "quote")
    /\ UNCHANGED <<mapped, created, meta, past>>

\* The approval of a quote is requested before the quote is written.
ApproveQuote(h) ==
    /\ pc[h] = "approve"
    /\ \/ AskForQuote(h) /\ Goto(h, "quote") /\ Works
       \/ /\ StatementFails
          /\ UNCHANGED approvals \/ AskForQuote(h)
          /\ Return(h)
    /\ UNCHANGED <<mapped, created, meta, past>>

DraftQuote(h) ==
    /\ pc[h] = "quote"
    /\ WriteBack(h, {[job[h].meta EXCEPT !.quote = {h}]})

\* What was read is written beside the deal, or the time the message was sent.
Record(h) == pc[h] = "record" /\ WriteBack(h, {job[h].meta})

Crash(r) ==
    /\ pc[r] # "idle" /\ FailsBy("crash")
    /\ Return(r)
    /\ UNCHANGED <<mapped, rows, past>>

Proceed(r) ==
    IF r \in Deliveries
    THEN Lookup(r) \/ Insert(r) \/ Relookup(r) \/ Reread(r) \/ ReadLead(r) \/ Qualify(r)
    ELSE Requalify(r) \/ ApproveQuote(r) \/ DraftQuote(r) \/ Record(r)

Next ==
    \/ Configure
    \/ \E d \in Deliveries, b \in Batches : Deliver(d, b)
    \/ \E h \in Hands, m \in Messages :
          BeginQualify(h, m) \/ BeginQuote(h, m) \/ BeginDeal(h, m) \/ BeginFollowUp(h, m)
    \/ \E h, g \in Hands : BeginSent(h, g)
    \/ \E r \in Requests : Proceed(r) \/ Crash(r)

Spec == Init /\ [][Next]_vars

\* Meta posts a batch again until it is acknowledged.
FairSpec ==
    /\ Spec
    /\ \A r \in Requests : WF_vars(Proceed(r))
    /\ \A b \in Batches : WF_vars(\E d \in Deliveries : b \notin acked /\ Deliver(d, b))

-----------------------------------------------------------------------------
(* Properties                                                               *)

\* However often and however concurrently Meta delivers a message, it has one lead.
OneLeadPerMessage == \A m \in Messages : created[m] <= 1

\* A batch is acknowledged only when each of its messages has a lead that is stored.
AcknowledgedIsDurable == \A b \in acked : \A i \in 1..Len(b) : created[b[i]] > 0

\* A webhook that dies in the middle of a batch leaves no lead behind unqualified:
\* the batch that is posted again qualifies also those it finds.
AcknowledgedIsQualified ==
    \A b \in acked : \A i \in 1..Len(b) :
        b[i] \in qualified \/ ("db" \in Faults /\ failures["db"] > 0)

\* Whatever overwrites whatever, the quote a lead shows waits for an approval that
\* was requested to send a quote to this lead.
QuoteIsBacked ==
    \A m \in Messages : \A h \in meta[m].quote : [lead |-> m, quote |-> TRUE] \in approvals[h]

\* Once the phone number has an owner every message gets its lead, as long as
\* failures do not go on for ever.
EveryMessageBecomesALead ==
    \A b \in Batches : \A i \in 1..Len(b) : mapped ~> created[b[i]] > 0
=============================================================================
