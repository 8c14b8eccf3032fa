---------------------------- MODULE ApprovalFlow ----------------------------
(***************************************************************************)
(* The life of an approval request: ApprovalGateway, the approve and       *)
(* reject handlers, ApprovalResumeService.resume and, under it, the        *)
(* publish ledger of PinPublish.  The keys of the ledger are the approvals. *)
(*                                                                         *)
(* Approvals for Pinterest publish through the ledger.  Approvals for Meta *)
(* (Facebook, WhatsApp) go through the same handlers and the same service, *)
(* whose connector has no ledger.  Pinterest drafts submitted from the chat *)
(* page first look for a pending approval of the same draft.               *)
(*                                                                         *)
(* The chat handlers are plain functions that run on a thread pool, so two *)
(* requests of one user do interleave inside one process.  Approving and   *)
(* rejecting are one statement each (UPDATE ... WHERE status = 'pending'); *)
(* the statement that explains a miss reads a status nobody changes again. *)
(***************************************************************************)
EXTENDS PinPublish

CONSTANTS
    MetaApprovals,  \* the approvals whose platform is "meta"
    Drafts,         \* Pin drafts of the chat page, by their fingerprint
    MaxMessages     \* bound: messages counted per Meta approval

ASSUME FlowAssumption ==
    /\ MetaApprovals \subseteq Keys
    /\ Drafts \cap Keys = {}
    /\ MaxMessages \in Nat

VARIABLES
    approval,  \* approval[k]: the status column of approval_requests
    draft,     \* draft[k]: the draft the approval was created for, if any
    late,      \* late[k]: the clock has passed expires_at
    stage,     \* stage[r]: where request r is before it enters the ledger
    job,       \* job[r]: the approval or the draft request r works on
    messages   \* messages[k]: what Meta delivered for approval k

flow == <<approval, draft, late, stage, job, messages>>

flowVars == <<vars, flow>>

ApprovalStatuses == {"absent", "pending", "approved", "rejected", "expired"}

Stages == {"free", "create", "resume", "guard"}

\* NoDraft is the draft of an approval somebody asked for directly.
NoDraft == "none"

TypeOKFlow ==
    /\ approval \in [Keys -> ApprovalStatuses]
    /\ draft \in [Keys -> Drafts \cup {NoDraft}]
    /\ late \in [Keys -> BOOLEAN]
    /\ stage \in [Requests -> Stages]
    /\ job \in [Requests -> Keys \cup Drafts]
    /\ \A r \in Requests :
        /\ stage[r] = "create" => job[r] \in Drafts
        /\ stage[r] \in {"resume", "guard"} => job[r] \in Keys
        /\ stage[r] # "free" => pc[r] = "idle"
    /\ messages \in [Keys -> 0..MaxMessages]

FlowInit ==
    /\ Init
    /\ approval = [k \in Keys |-> "absent"]
    /\ draft = [k \in Keys |-> NoDraft]
    /\ late = [k \in Keys |-> FALSE]
    /\ stage = [r \in Requests |-> "free"]
    /\ job \in [Requests -> Keys]
    /\ messages = [k \in Keys |-> 0]

Free(r) == stage[r] = "free" /\ pc[r] = "idle"

To(r, s, j) == stage' = [stage EXCEPT ![r] = s] /\ job' = [job EXCEPT ![r] = j]

Finish(r) == stage' = [stage EXCEPT ![r] = "free"] /\ UNCHANGED job

-----------------------------------------------------------------------------
(* Asking for approval                                                      *)

Pending(d) == {k \in Keys : approval[k] = "pending" /\ draft[k] = d}

\* create_request: an INSERT with a fresh id.
Insert(k, d) ==
    /\ approval[k] = "absent"
    /\ approval' = [approval EXCEPT ![k] = "pending"]
    /\ draft' = [draft EXCEPT ![k] = d]

\* The employee and the marketing service ask without looking first.
Ask(k) == Insert(k, NoDraft) /\ UNCHANGED <<vars, late, stage, job, messages>>

\* A draft is submitted: nothing happens if a pending approval of it is found.
\* A listing that fails is an empty list.
Submit(r, d) ==
    /\ Free(r)
    /\ Pending(d) = {} \/ "db" \in Faults
    /\ To(r, "create", d)
    /\ UNCHANGED <<vars, approval, draft, late, messages>>

\* ... and otherwise a new approval is inserted, unless the insert fails.
CreateRequest(r) ==
    /\ stage[r] = "create"
    /\ \/ \E k \in Keys \ MetaApprovals : Insert(k, job[r])
       \/ "db" \in Faults /\ UNCHANGED <<approval, draft>>
    /\ Finish(r)
    /\ UNCHANGED <<vars, late, messages>>

-----------------------------------------------------------------------------
(* Deciding                                                                 *)

\* update_status_if: compare and set.  A failed statement may have been applied.
Decided(k, to) ==
    /\ approval[k] = "pending"
    /\ approval' = [approval EXCEPT ![k] = to]

\* Mutant: the update is not conditional on the status.
ApproveUncompared(r, k) ==
    /\ Free(r)
    /\ approval[k] # "absent"
    /\ approval' = [approval EXCEPT ![k] = "approved"]
    /\ To(r, "resume", k)
    /\ UNCHANGED <<vars, draft, late, messages>>

\* approve: the first one decides, later ones are idempotent successes; both
\* resume.  Any other status is an error, and so is a failed statement.
Approve(r, k) ==
    /\ Free(r)
    /\ \/ Decided(k, "approved") /\ To(r, "resume", k)
       \/ approval[k] = "approved" /\ UNCHANGED approval /\ To(r, "resume", k)
       \/ "db" \in Faults /\ Decided(k, "approved") /\ UNCHANGED <<stage, job>>
    /\ UNCHANGED <<vars, draft, late, messages>>

\* Mutant: a request may be rejected whatever its status.
RejectRequestUncompared(k) ==
    /\ approval[k] # "absent"
    /\ approval' = [approval EXCEPT ![k] = "rejected"]
    /\ UNCHANGED <<vars, draft, late, stage, job, messages>>

RejectRequest(k) == Decided(k, "rejected") /\ UNCHANGED <<vars, draft, late, stage, job, messages>>

\* is_expired: past expires_at a pending request is closed.
Expire(k) ==
    /\ late[k]
    /\ Decided(k, "expired")
    /\ UNCHANGED <<vars, draft, late, stage, job, messages>>

\* The clock passes expires_at.
Lapse(k) ==
    /\ approval[k] # "absent" /\ ~late[k]
    /\ late' = [late EXCEPT ![k] = TRUE]
    /\ UNCHANGED <<vars, approval, draft, stage, job, messages>>

-----------------------------------------------------------------------------
(* Resuming                                                                 *)

\* Mutant: the expiry of an approved request is not looked at again.
LoadIgnoresExpiry(r) ==
    /\ stage[r] = "resume"
    /\ IF approval[job[r]] = "approved" THEN To(r, "guard", job[r]) ELSE Finish(r)
    /\ UNCHANGED <<vars, approval, draft, late, messages>>

\* resume() reads the request again and refuses one that is not approved or is
\* past its expiry.  A failed read is "approval_not_found".
Load(r) ==
    /\ stage[r] = "resume"
    /\ \/ approval[job[r]] = "approved" /\ ~late[job[r]] /\ To(r, "guard", job[r])
       \/ /\ approval[job[r]] # "approved" \/ late[job[r]] \/ "db" \in Faults
          /\ Finish(r)
    /\ UNCHANGED <<vars, approval, draft, late, messages>>

\* Mutant: the service posts without asking the connector to claim first.
GuardSkipsClaim(r) ==
    /\ stage[r] = "guard" /\ job[r] \in Keys \ MetaApprovals
    /\ Goto(r, "board")
    /\ key' = [key EXCEPT ![r] = job[r]]
    /\ Finish(r)
    /\ UNCHANGED <<row, verdict, answer, posts, pins, approval, draft, late, messages>>

\* The state guard of a Pinterest approval hands over to the ledger.
Guard(r) ==
    /\ stage[r] = "guard" /\ job[r] \in Keys \ MetaApprovals
    /\ Resume(r, job[r])
    /\ Finish(r)
    /\ UNCHANGED <<approval, draft, late, messages>>

\* The state guard finds no ledger for Meta and the connector posts at once.
\* The message is delivered, or refused, or nobody knows.
SendToMeta(r) ==
    /\ stage[r] = "guard" /\ job[r] \in MetaApprovals
    /\ \/ messages[job[r]] < MaxMessages
          /\ messages' = [messages EXCEPT ![job[r]] = @ + 1]
       \/ UNCHANGED messages
    /\ Finish(r)
    /\ UNCHANGED <<vars, approval, draft, late>>

\* The process dies before it reaches the ledger.
Stop(r) ==
    /\ "crash" \in Faults
    /\ stage[r] # "free"
    /\ Finish(r)
    /\ UNCHANGED <<vars, approval, draft, late, messages>>

\* What happens inside the ledger.
InLedger ==
    /\ \/ \E r \in Requests : Publish(r) \/ Crash(r)
       \/ Pinterest
    /\ UNCHANGED flow

FlowNext ==
    \/ \E r \in Requests :
          \/ \E d \in Drafts : Submit(r, d)
          \/ \E k \in Keys : Approve(r, k)
          \/ CreateRequest(r) \/ Load(r) \/ Guard(r) \/ SendToMeta(r) \/ Stop(r)
    \/ \E k \in Keys : Ask(k) \/ RejectRequest(k) \/ Expire(k) \/ Lapse(k)
    \/ InLedger

FlowSpec == FlowInit /\ [][FlowNext]_flowVars

-----------------------------------------------------------------------------
(* Properties                                                               *)

\* Requests that are past the checks of resume() for approval k.
Busy(k) == \E r \in Requests :
    \/ stage[r] = "guard" /\ job[r] = k
    \/ pc[r] # "idle" /\ key[r] = k

\* Nothing is published, claimed or sent for a request that was not approved,
\* and an approval is never withdrawn under a publish that is under way.
Touched(k) ==
    \/ row[k].status # "none" \/ pins[k] > 0 \/ messages[k] > 0 \/ Busy(k)
    \/ \E m \in posts : m.key = k

OnlyApprovedPublishes == \A k \in Keys : Touched(k) => approval[k] = "approved"

\* "approved", "rejected" and "expired" are terminal: of an approve, a reject
\* and an expiry that race, one wins for good.
DecisionsAreFinal ==
    [][\A k \in Keys : approval[k] \in {"approved", "rejected", "expired"}
                       => approval'[k] = approval[k]]_flowVars

\* Once an approval has expired and no resume of it is under way, its row and
\* its messages stay as they are, however often it is approved.
LapsedStaysQuiet ==
    [][\A k \in Keys : late[k] /\ ~Busy(k) =>
          row'[k] = row[k] /\ messages'[k] = messages[k] /\ ~Busy(k)']_flowVars

\* The handlers use the ledger the way PinPublish specifies, so all that is
\* proved of PinPublish holds here.
LedgerAsSpecified == Spec

\* approval_gateway.py: a duplicate approve re-runs no side effect.
DuplicateApproveSendsNothing == \A k \in Keys : messages[k] <= 1
=============================================================================
