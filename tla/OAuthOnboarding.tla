-------------------------- MODULE OAuthOnboarding --------------------------
(***************************************************************************)
(* How an owner's Pinterest account is connected.  A start request writes  *)
(* an onboarding workflow and a human-intervention checkpoint that carries *)
(* a fresh OAuth state; Pinterest redirects the browser to the public      *)
(* callback with that state; the callback claims the checkpoint, exchanges *)
(* the code for tokens, saves them in the vault, and lets one database     *)
(* function complete workflow, connection, mission and checkpoint at once. *)
(* Beside it the same rows are written by hand: a checkpoint completed, a  *)
(* workflow resumed, an account connected.                                 *)
(*                                                                         *)
(* One owner, one worker and one mission.  An OAuth state, the checkpoint  *)
(* that carries it and the workflow id its start request proposed are      *)
(* named after that request.  Checkpoints of the later steps carry no      *)
(* state and are read by nothing here: they are left out.  Every statement *)
(* and every call of Pinterest is a step of its own.                       *)
(***************************************************************************)
EXTENDS Naturals, FiniteSets

CONSTANTS
    Starts,     \* requests that begin an onboarding
    Callbacks,  \* redirects from Pinterest
    Hands,      \* requests of the person: complete, resume, connect
    Approvals,  \* approved start_platform_onboarding requests
    WorkerKey,  \* the id payloads name as their worker: "worker", or the owner's own
    Kinds,      \* the entry points in use; a subset of AllKinds
    Faults      \* the failures that may happen; a subset of AllFaults

AllKinds == {"route",     \* POST /oauth/pinterest/start
             "approval",  \* an approved approval is resumed
             "plain",     \* POST /connectors/onboarding/start: no checkpoint
             "runtime"}   \* WorkerRuntime: the state is bound to the worker id

AllFaults == {"crash",  \* the process dies between two steps
              "db",     \* a statement fails: unapplied, or applied and unanswered
              "net"}    \* the token request has no answer

ASSUME ConstantsAssumption ==
    /\ Kinds \subseteq AllKinds /\ Faults \subseteq AllFaults
    /\ WorkerKey \in {"owner", "worker"}
    /\ Starts # {}
    /\ Starts \cap Callbacks = {} /\ Starts \cap Hands = {} /\ Callbacks \cap Hands = {}

VARIABLES
    start,      \* start[s]: the entry point of s, and the approval it resumes
    wf,         \* wf[s]: the row of onboarding_workflows with the id s proposed
    cp,         \* cp[s]: the row of human_intervention_checkpoints with the state of s
    lapsed,     \* OAuth states older than their 15 minutes
    conn,       \* the ids platform_connections shows as connected
    vault,      \* the ids the token vault holds tokens of
    mission,    \* the mission of the workflow, as far as onboarding moves it
    pc,         \* pc[r]: the next statement of request r
    job,        \* job[r]: its local variables
    exchanges,  \* exchanges[s]: how often Pinterest gave tokens for state s
    lost        \* states whose claimed callback ended without settling them

vars == <<start, wf, cp, lapsed, conn, vault, mission, pc, job, exchanges, lost>>
rows == <<wf, cp, conn, vault, mission>>
past == <<exchanges, lost>>

Requests == Starts \cup Callbacks \cup Hands

Owners == {"owner", "worker"}

Workflow == [status : {"none", "awaiting_human", "completed"}, step : 1..3, approval : SUBSET Approvals]

CheckpointStatuses == {"none", "awaiting_human", "processing", "completed", "failed"}

Checkpoint == [status : CheckpointStatuses, workflow : Starts, consumed : BOOLEAN]

Job == [about : Starts,       \* the state, or the workflow, r works on
        consumed : BOOLEAN,   \* the metadata r read
        step : 1..3,          \* current_step when r read it
        approved : BOOLEAN,   \* resumed by an approval, not by the route
        closes : SUBSET Starts]  \* the checkpoint id that came with the request

PCs == {"idle", "create", "checkpoint", "mark", "gone",
        "claim", "exchange", "await", "fail", "deny", "save", "complete",
        "advance", "link", "read", "write"}

TypeOK ==
    /\ start \in [Starts -> [kind : Kinds, approval : SUBSET Approvals]]
    /\ wf \in [Starts -> Workflow]
    /\ cp \in [Starts -> Checkpoint]
    /\ lapsed \subseteq Starts /\ lost \subseteq Starts
    /\ conn \subseteq Owners /\ vault \subseteq Owners
    /\ mission \in {"running", "waiting_human", "pending"}
    /\ pc \in [Requests -> PCs]
    /\ job \in [Requests -> Job]
    /\ exchanges \in [Starts -> Nat]

Fresh(s) == [about |-> s, consumed |-> FALSE, step |-> 1, approved |-> FALSE, closes |-> {}]

\* A request that is not running remembers nothing.
Idle(r) == Fresh(IF r \in Starts THEN r ELSE CHOOSE s \in Starts : TRUE)

\* An approval belongs to the requests that resume it, and to no other.  A
\* request that never comes is gone from the start.
Init ==
    /\ start \in [Starts -> [kind : Kinds, approval : SUBSET Approvals]]
    /\ \A s \in Starts : IF start[s].kind = "approval" THEN \E a \in Approvals : start[s].approval = {a}
                         ELSE start[s].approval = {}
    /\ wf = [s \in Starts |-> [status |-> "none", step |-> 1, approval |-> {}]]
    /\ cp = [s \in Starts |-> [status |-> "none", workflow |-> s, consumed |-> FALSE]]
    /\ lapsed = {} /\ conn = {} /\ vault = {} /\ lost = {}
    /\ mission = "running"
    /\ pc \in [Requests -> {"idle", "gone"}]
    /\ job = [r \in Requests |-> Idle(r)]
    /\ exchanges = [s \in Starts |-> 0]

Of(r) == job[r].about

Goto(r, statement) == pc' = [pc EXCEPT ![r] = statement] /\ UNCHANGED job

Call(r, statement, locals) == pc' = [pc EXCEPT ![r] = statement] /\ job' = [job EXCEPT ![r] = locals]

\* A start request is not used again; the others are.
Answer(r) == Call(r, IF r \in Starts THEN "gone" ELSE "idle", Idle(r))

SetStatus(s, status) == cp' = [cp EXCEPT ![s].status = status]

\* The owner a state is bound to: the connector's default is the worker id.
OwnerOf(s) == IF start[s].kind = "runtime" THEN WorkerKey ELSE "owner"

\* get_account_status: a connection row, or tokens, under the worker id.
AccountConnected == WorkerKey \in conn \cup vault

-----------------------------------------------------------------------------
(* Starting an onboarding                                                   *)

\* Worker and mission are looked up first; that changes nothing.
StartByRoute(s) == pc[s] = "idle" /\ start[s].kind = "route" /\ Goto(s, "create")

StartPlain(s) == pc[s] = "idle" /\ start[s].kind = "plain" /\ Goto(s, "create")

StartByRuntime(s) == pc[s] = "idle" /\ start[s].kind = "runtime" /\ Goto(s, "create")

\* The state guard of a resumed approval; a guard whose read fails proceeds.
StartApproved(s) ==
    /\ pc[s] = "idle" /\ start[s].kind = "approval"
    /\ \/ (~AccountConnected \/ "db" \in Faults) /\ Goto(s, "create")
       \/ AccountConnected /\ Answer(s)

Begin(s) ==
    /\ StartByRoute(s) \/ StartPlain(s) \/ StartByRuntime(s) \/ StartApproved(s)
    /\ UNCHANGED <<start, rows, lapsed, past>>

Insert(s) == wf' = [wf EXCEPT ![s].status = "awaiting_human", ![s].approval = start[s].approval]

\* Mutant: a resumed approval always inserts a workflow of its own.
BoundToNothing(s) == {w \in Starts : w = s /\ wf[w].status # "none"}

\* claim_onboarding_workflow_for_approval returns the workflow of the approval.
Bound(s) == {w \in Starts : start[s].approval # {} /\ wf[w].approval = start[s].approval}

CreateWorkflow(s) ==
    /\ pc[s] = "create"
    /\ \/ /\ Bound(s) = {}
          /\ Insert(s)
          /\ IF start[s].kind = "plain" THEN Answer(s) ELSE Goto(s, "checkpoint")
       \/ /\ \E w \in Bound(s) : Call(s, "checkpoint", Fresh(w))
          /\ UNCHANGED wf
       \/ /\ "db" \in Faults
          /\ UNCHANGED wf \/ (Bound(s) = {} /\ Insert(s))
          /\ Answer(s)
    /\ UNCHANGED <<start, cp, conn, vault, mission, lapsed, past>>

\* The checkpoint carries a new state even when the workflow is an older one.  A
\* row that could not be inserted is kept in memory and reported as created.
CreateCheckpoint(s) ==
    /\ pc[s] = "checkpoint"
    /\ \/ cp' = [cp EXCEPT ![s].status = "awaiting_human", ![s].workflow = Of(s)]
       \/ "db" \in Faults /\ UNCHANGED cp
    /\ IF start[s].kind = "approval" THEN Goto(s, "mark") ELSE Answer(s)
    /\ UNCHANGED <<start, wf, conn, vault, mission, lapsed, past>>

\* The approve route sets the mission waiting, where its status allows that.
MarkWaiting(s) ==
    /\ pc[s] = "mark"
    /\ mission' = IF mission = "running" THEN "waiting_human" ELSE mission
    /\ Answer(s)
    /\ UNCHANGED <<start, wf, cp, conn, vault, lapsed, past>>

-----------------------------------------------------------------------------
(* The callback                                                             *)

\* 15 minutes after it was made a state is no longer accepted.
Lapse(s) ==
    /\ cp[s].status \in {"awaiting_human", "processing"}
    /\ lapsed' = lapsed \cup {s}
    /\ UNCHANGED <<start, rows, pc, job, past>>

ValidState(s) == ~cp[s].consumed /\ s \notin lapsed

\* Callbacks that hold the claim of their checkpoint.
Working == {"exchange", "await", "fail", "save", "complete"}

\* With a code: claim_oauth_callback reads the checkpoint and looks at its status.
Arrive(k, s) ==
    /\ pc[k] = "idle"
    /\ cp[s].status = "awaiting_human"
    /\ Call(k, "claim", Fresh(s))
    /\ UNCHANGED <<start, rows, lapsed, past>>

\* With an error: the person refused; a state that is still valid is failed.
Denied(k, s) ==
    /\ pc[k] = "idle"
    /\ cp[s].status # "none" /\ ValidState(s)
    /\ Call(k, "deny", Fresh(s))
    /\ UNCHANGED <<start, rows, lapsed, past>>

\* Mutant: the update does not ask for the status that was read.
ClaimUnconditionally(k) ==
    /\ pc[k] = "claim"
    /\ SetStatus(Of(k), "processing")
    /\ Goto(k, "exchange")
    /\ UNCHANGED <<start, wf, conn, vault, mission, lapsed, past>>

\* awaiting_human -> processing by compare-and-set, then the state is validated.
\* An unanswered update is taken for an unknown checkpoint; a claimed one whose owner
\* cannot be read from its mission ends the same way, and so would one without a
\* workflow, which the starts do not make.
ClaimCheckpoint(k) ==
    /\ pc[k] = "claim"
    /\ \/ /\ cp[Of(k)].status = "awaiting_human"
          /\ SetStatus(Of(k), "processing")
          /\ \/ Goto(k, IF ValidState(Of(k)) THEN "exchange" ELSE "fail") /\ UNCHANGED lost
             \/ "db" \in Faults /\ Answer(k) /\ lost' = lost \cup {Of(k)}
       \/ /\ cp[Of(k)].status # "awaiting_human" \/ "db" \in Faults
          /\ Answer(k)
          /\ UNCHANGED <<cp, lost>>
    /\ UNCHANGED <<start, wf, conn, vault, mission, lapsed, exchanges>>

\* POST of the code to Pinterest.
Exchange(k) ==
    /\ pc[k] = "exchange"
    /\ Goto(k, "await")
    /\ UNCHANGED <<start, rows, lapsed, past>>

GiveTokens(s) == exchanges' = [exchanges EXCEPT ![s] = @ + 1]

\* Tokens; a refusal, or an answer without a token; or no answer, after which
\* reconcile_oauth_callback only reads.  Tokens that cannot be taken from the answer,
\* since it is no object or its tokens are no strings, raise: the callback ends as if
\* the answer were lost.
TokenAnswer(k) ==
    /\ pc[k] = "await"
    /\ \/ GiveTokens(Of(k)) /\ Goto(k, "save") /\ UNCHANGED lost
       \/ Goto(k, "fail") /\ UNCHANGED <<exchanges, lost>>
       \/ /\ "net" \in Faults
          /\ GiveTokens(Of(k)) \/ UNCHANGED exchanges
          /\ Answer(k)
          /\ lost' = lost \cup {Of(k)}
    /\ UNCHANGED <<start, rows, lapsed>>

\* Mutant: a definite refusal answers without failing the checkpoint.
FailForgotten(k) ==
    /\ pc[k] \in {"fail", "deny"}
    /\ Answer(k)
    /\ UNCHANGED <<start, rows, lapsed, past>>

\* fail_oauth_callback: processing -> failed, if the state's owner has the mission.
Fail(k) ==
    LET s == Of(k)
        mine == OwnerOf(s) = "owner" IN
    /\ pc[k] \in {"fail", "deny"}
    /\ \/ IF mine /\ cp[s].status = "processing" THEN SetStatus(s, "failed") ELSE UNCHANGED cp
       \/ "db" \in Faults /\ UNCHANGED cp
    /\ lost' = IF pc[k] = "fail" /\ cp'[s].status = "processing" THEN lost \cup {s} ELSE lost
    /\ Answer(k)
    /\ UNCHANGED <<start, wf, conn, vault, mission, lapsed, exchanges>>

\* Mutant: the tokens are taken for saved when the statement failed.
SaveTokensUnchecked(k) ==
    /\ pc[k] = "save"
    /\ vault' = vault \cup {OwnerOf(Of(k))} \/ ("db" \in Faults /\ UNCHANGED vault)
    /\ Goto(k, "complete")
    /\ UNCHANGED <<start, wf, cp, conn, mission, lapsed, past>>

SaveTokens(k) ==
    /\ pc[k] = "save"
    /\ \/ vault' = vault \cup {OwnerOf(Of(k))} /\ Goto(k, "complete") /\ UNCHANGED lost
       \/ /\ "db" \in Faults
          /\ UNCHANGED vault \/ vault' = vault \cup {OwnerOf(Of(k))}
          /\ Answer(k)
          /\ lost' = lost \cup {Of(k)}
    /\ UNCHANGED <<start, wf, cp, conn, mission, lapsed, exchanges>>

\* The transaction of complete_oauth_callback.
Connected(s) ==
    /\ wf' = [wf EXCEPT ![cp[s].workflow].status = "completed"]
    /\ conn' = conn \cup {"owner"}
    /\ mission' = IF mission = "waiting_human" THEN "pending" ELSE mission
    /\ cp' = [cp EXCEPT ![s].status = "completed", ![s].consumed = TRUE]

\* Mutant: the function completes a checkpoint in whatever status it is.
CompleteAnyStatus(k) ==
    /\ pc[k] = "complete"
    /\ Connected(Of(k))
    /\ Answer(k)
    /\ UNCHANGED <<start, vault, lapsed, exchanges, lost>>

\* A checkpoint completed meanwhile is answered as a success.
Complete(k) ==
    LET s == Of(k)
        open == cp[s].status = "processing" /\ OwnerOf(s) = "owner" IN
    /\ pc[k] = "complete"
    /\ \/ open /\ Connected(s)
       \/ (~open \/ "db" \in Faults) /\ UNCHANGED <<wf, conn, mission, cp>>
    /\ lost' = IF cp'[s].status = "processing" THEN lost \cup {s} ELSE lost
    /\ Answer(k)
    /\ UNCHANGED <<start, vault, lapsed, exchanges>>

Callback(k) ==
    ClaimCheckpoint(k) \/ Exchange(k) \/ TokenAnswer(k) \/ Fail(k) \/ SaveTokens(k) \/ Complete(k)

-----------------------------------------------------------------------------
(* By hand                                                                  *)

\* POST /checkpoints/{id}/complete, whatever the status of the checkpoint.
CompleteByHand(h, s) ==
    /\ pc[h] = "idle"
    /\ cp[s].status # "none"
    /\ Call(h, "read", [Fresh(s) EXCEPT !.closes = {s}])
    /\ UNCHANGED <<start, rows, lapsed, past>>

\* complete_checkpoint reads the row, then writes it with the metadata it read.
ReadCheckpoint(h) ==
    /\ pc[h] = "read"
    /\ \E s \in job[h].closes :
          IF cp[s].status = "none" THEN Answer(h)
          ELSE Call(h, "write", [job[h] EXCEPT !.consumed = cp[s].consumed])
    /\ UNCHANGED <<start, rows, lapsed, past>>

WriteCheckpoint(h) ==
    /\ pc[h] = "write"
    /\ \/ \E s \in job[h].closes :
             cp' = [cp EXCEPT ![s].status = "completed", ![s].consumed = job[h].consumed]
       \/ "db" \in Faults /\ UNCHANGED cp
    /\ Answer(h)
    /\ UNCHANGED <<start, wf, conn, vault, mission, lapsed, past>>

\* A request to resume w names no checkpoint, or one of w.
CheckpointIds(w) == {{}} \cup {{s} : s \in {c \in Starts : cp[c].workflow = w}}

\* resume_onboarding reads the workflow and its step.
ReadWorkflow(h, w, approved, closes) ==
    /\ pc[h] = "idle"
    /\ Call(h, "advance", [Fresh(w) EXCEPT !.step = wf[w].step, !.approved = approved, !.closes = closes])
    /\ UNCHANGED <<start, rows, lapsed, past>>

\* The route goes on with a completed workflow too.
ResumeByRoute(h, w, closes) == wf[w].status # "none" /\ ReadWorkflow(h, w, FALSE, closes)

\* An approved resume_platform_onboarding looks at the status first.
ResumeApproved(h, w, closes) == wf[w].status = "awaiting_human" /\ ReadWorkflow(h, w, TRUE, closes)

ThenClose(h) == IF job[h].closes # {} THEN Goto(h, "read") ELSE Answer(h)

\* The row after the step that was read, whatever it is by now.
NextStep(w, step) ==
    [wf EXCEPT ![w].status = IF step = 3 THEN "completed" ELSE "awaiting_human",
               ![w].step = IF step = 3 THEN 3 ELSE step + 1]

\* resume_onboarding writes the step after the one it read.  A failed update is
\* noticed at the last step only; an approved resume closes its checkpoint anyway.
Advance(h) ==
    LET w == Of(h)
        last == job[h].step = 3
        next == NextStep(w, job[h].step) IN
    /\ pc[h] = "advance"
    /\ \/ wf' = next /\ IF last THEN Goto(h, "link") ELSE ThenClose(h)
       \/ /\ "db" \in Faults
          /\ UNCHANGED wf \/ wf' = next
          /\ IF last /\ ~job[h].approved THEN Answer(h) ELSE ThenClose(h)
    /\ UNCHANGED <<start, cp, conn, vault, mission, lapsed, past>>

\* PlatformConnectionStore.upsert; its failure falls back to memory unnoticed.
Link(h) ==
    /\ pc[h] = "link"
    /\ conn' = conn \cup {WorkerKey} \/ ("db" \in Faults /\ UNCHANGED conn)
    /\ ThenClose(h)
    /\ UNCHANGED <<start, wf, cp, vault, mission, lapsed, past>>

\* An approved connect_platform: no token is asked for.
ConnectAccount(h) ==
    /\ pc[h] = "idle"
    /\ ~AccountConnected
    /\ Goto(h, "link")
    /\ UNCHANGED <<start, rows, lapsed, past>>

\* The process dies; a token request under way is answered to nobody.
Crash(r) ==
    /\ "crash" \in Faults /\ pc[r] \notin {"idle", "gone"}
    /\ Answer(r)
    /\ lost' = IF pc[r] \in Working THEN lost \cup {Of(r)} ELSE lost
    /\ UNCHANGED exchanges \/ (pc[r] = "await" /\ GiveTokens(Of(r)))
    /\ UNCHANGED <<start, rows, lapsed>>

Starting(s) == Begin(s) \/ CreateWorkflow(s) \/ CreateCheckpoint(s) \/ MarkWaiting(s)

ByHand(h) ==
    \/ ReadCheckpoint(h) \/ WriteCheckpoint(h) \/ Advance(h) \/ Link(h) \/ ConnectAccount(h)
    \/ \E s \in Starts : CompleteByHand(h, s)
    \/ \E w \in Starts : \E closes \in CheckpointIds(w) :
           ResumeByRoute(h, w, closes) \/ ResumeApproved(h, w, closes)

Next ==
    \/ \E s \in Starts : Starting(s) \/ Lapse(s)
    \/ \E k \in Callbacks : Callback(k) \/ \E s \in Starts : Arrive(k, s) \/ Denied(k, s)
    \/ \E h \in Hands : ByHand(h)
    \/ \E r \in Requests : Crash(r)

Spec == Init /\ [][Next]_vars

-----------------------------------------------------------------------------
(* Properties                                                               *)

\* Browsers repeat redirects and the person presses twice: the tokens of a state
\* are still exchanged at most once, by the callback that won the claim.
ExchangedOnce == \A s \in Starts : exchanges[s] <= 1

Holders(s) == {k \in Callbacks : pc[k] \in Working /\ Of(k) = s}

\* A claim has one holder, whose exchange is the first.
OneHolder ==
    \A s \in Starts :
        /\ \A k1, k2 \in Holders(s) : k1 = k2
        /\ Holders(s) # {} => cp[s].status # "awaiting_human"
        /\ \A k \in Holders(s) : pc[k] \in {"exchange", "await"} => exchanges[s] = 0

\* A consumed state stands for the whole of the connection: tokens were given
\* for it and are in the vault, and its owner's account shows as connected.
ConsumedMeansConnected ==
    \A s \in Starts : cp[s].consumed =>
        exchanges[s] = 1 /\ cp[s].status = "completed" /\ OwnerOf(s) = "owner" /\ "owner" \in vault \cap conn

\* However often an approval is resumed, it has one onboarding workflow.
OneWorkflowPerApproval ==
    \A w1, w2 \in Starts :
        wf[w1].approval # {} /\ wf[w1].approval = wf[w2].approval => w1 = w2

\* A checkpoint stays in processing only while its callback works, or after that
\* callback lost an answer or its process: no refusal forgets to settle it.
ClaimsAreSettled ==
    \A s \in Starts : cp[s].status = "processing" => Holders(s) # {} \/ s \in lost

\* A failed checkpoint is never claimed again nor completed by a callback: a
\* refusal, be it in the middle of an exchange, keeps the state unconsumed.
FailedIsNotConnected ==
    [][\A s \in Starts : cp[s].status = "failed" =>
        cp'[s].status \in {"failed", "completed"} /\ cp'[s].consumed = cp[s].consumed]_vars

\* The state of a checkpoint, as an operation done at most once with a provider.
Phase(s) ==
    IF exchanges[s] > 0 THEN "closed"
    ELSE IF \E k \in Holders(s) : pc[k] = "await" THEN "sent"
    ELSE IF \E k \in Holders(s) : pc[k] \in {"exchange", "fail"} THEN "held"
    ELSE IF cp[s].status \in {"none", "awaiting_human"} THEN "open" ELSE "closed"

Once == INSTANCE OncePerKey WITH
    Keys <- Starts, phase <- [s \in Starts |-> Phase(s)], pins <- exchanges

\* The token exchange keeps the promise the publish ledger keeps.
ImplementsOncePerKey == Once!Spec
=============================================================================
