# aea-core in TLA+

Specifications of the part of aea-core that is hard to test: what happens when several
requests, workers and leases meet in the rows of one database, and one of them crashes,
comes late, or does not know whether its last statement was applied. The modules are
written from the Python code under `src/backend/app` and the SQL functions under
`src/supabase/migrations` and `src/database/migrations`, checked with TLC on small instances and, for the properties
named below, proved with TLAPS for every instance.

    tlc -workers 2 -config MCApprovalFlow.cfg MCApprovalFlow
    tlapm PinPublishProofs.tla

## The system

aea-core is a FastAPI application in front of Supabase (PostgreSQL and row-level
security). A user states an objective; it becomes a *mission*; an *employee* turns the
mission into a plan and executes its steps; steps with an outside effect stop at an
*approval request*; when a human approves it, the approved action is *resumed* and a
*connector* calls Pinterest, Meta or Digistore24.

    user -> routers -> MissionOrchestrationService -> EmployeeVerticalSlice -> tools
                              |  missions                |  mission_executions, mission_steps
                              |                          v
                              |                   ApprovalGateway   approval_requests
                              |                          | approve / reject (user)
                              |                          v
                              +-- outcome <---  ApprovalResumeService -> connector -> Pinterest, Meta
                                                         |  published_pins (ledger)
                                                         |  onboarding_workflows, checkpoints
                              Pinterest -> OAuth callback -> token vault, platform_connections
    user -> routers/missions -> EmployeeEngine -> tools  (executions and claims, older runtime)
    Meta -> webhook -> HapeBrothersMarketingOS -> missions (a lead is a mission's metadata)

### Where concurrency comes from

* `async def` handlers run to completion on the event loop of one process. The ChatPlus
  handlers (approve, reject, message, draft approval) are plain `def`: FastAPI runs them
  on a thread pool, so two requests of one user interleave, with each other and with the
  event loop.
* `chat_message` answers first and runs the mission in a background task.
* The stores, the claim RPCs and their tokens and leases are written for several
  processes. `database.py` hands out one client per user; there is no transaction that
  spans two calls, so **every statement is a step of its own** in the models.
* A statement can fail unapplied, or applied and unanswered (`db` in the models).
* Pinterest redirects browsers to the OAuth callback, and a browser may repeat a redirect;
  Meta posts a webhook again until it is answered with 200.

### Inventory

| component | state | operations | what is hard | what must hold |
|---|---|---|---|---|
| Publish ledger (`pin_publish_store.py`, `published_pins`) | one row per operation key: publishing, published, failed, uncertain | create, claim, transition, get | claiming under races; lost answers | a row tells the truth; doubt is final |
| Pinterest connector (`pinterest_connector.py`) | none of its own | publish_content; onboarding; connect | Pinterest has no idempotency key; a Pin may come after a timeout | at most one Pin per approval |
| Approval gateway (`approval_gateway.py`, `approval_requests`) | pending, approved, rejected, expired | create, approve, reject, expire, list | decisions that race; expiry | decisions are final |
| Approval resume (`approval_resume_service.py`) | none that lasts | resume, state guard, one handler per action | repeated approvals; approvals that expire before the resume | only approved, unexpired requests act |
| Approval and draft routes (`routers/approvals.py`, `chatplus.py`, `chatplus_pinterest.py`) | none | approve, reject, draft submission | list, then insert; duplicates | one pending request per draft (it does not: Seen while modelling) |
| Meta connector (`meta_marketing.py`) | none | publish_content | no ledger | - |
| Durable execution (`mission_execution_service.py`, `mission_executions`, `mission_steps`) | execution status; attempts with token and lease | claim_execution, claim_step (RPC, fallback), update_step, load | leases, fencing, stale claims | one live attempt; fencing; completed is final |
| Employee vertical slice (`employee_vertical_slice.py`) | local | run, resume, plan, work, record, decide | several runs of one mission; crashes between statements | no step skipped; execution follows its steps |
| Mission orchestration (`mission_orchestration.py`, `missions`) | status, schedule, retries, dependencies, claim and lease | create, run, transition, pause, resume, schedule, cancel, select | read, check, write; leases of 60 s | one runner; dependencies first; terminal is final |
| OAuth callback and checkpoints (`human_intervention.py`, `routers/connectors.py`, token vault) | checkpoint status and its OAuth state | claim, complete, fail, reconcile; complete by hand | callback twice; no answer to the token request; tokens saved but workflow not completed | one exchange per state; a consumed state is a whole connection |
| Onboarding workflows (`onboarding_workflow_store.py`, connectors) | steps of a workflow, connection | get-or-create per approval, update | read, modify, write | one workflow per approval |
| Employee engine, retry classifier, orchestrator, mission engine (`employee_engine.py`, `retry_classifier.py`, `agent_orchestrator.py`, `mission_engine.py`) | execution rows, claims, mission status | run, resume, retry, resume after approval | RUNNING after a crash; failed statements in the middle of a retry | bounded retries; only what is temporary is retried; completed means done |
| Marketing OS, Meta webhooks (`hape_marketing_os.py`, `meta_webhooks.py`) | a lead in a mission's metadata | receive, create, qualify, quote, deal, follow up | lost updates; redelivered webhooks; half a batch | one lead per message; acknowledged means stored and qualified; a quote has its approval |
| Affiliate jobs | none: a view over missions and published_pins | lifecycle of a job | - | not modelled |
| Decision and action engine, registries, memory, networks, freelancer, workers, start-up | see `PROJECT.json` | | sequential, or append-only, or configuration | not modelled |

## The modules

| module | models | lines of code it stands for |
|---|---|---|
| `OncePerKey` | abstract: an operation that must happen at most once | - |
| `PinPublish` | ledger, publish_content, the state guard, Pinterest | `pin_publish_store`, `pinterest_connector` 793-1114, `approval_resume_service` |
| `ApprovalFlow` (extends `PinPublish`) | gateway, approve/reject/draft handlers, resume, Meta | `approval_gateway`, `routers/approvals`, `chatplus_pinterest` |
| `StepLog` | abstract: a log of attempts for each step of a plan | - |
| `StepClaim` | executions, step attempts, the employee's loop | `mission_execution_service`, `employee_vertical_slice`, migrations 010, 011, 014 |
| `MissionOrchestration` | missions, their claim, everybody who changes their status | `mission_orchestration`, routes, migration 012 |
| `OAuthOnboarding` | starting an onboarding, the OAuth callback, the same rows written by hand | `routers/connectors`, `human_intervention`, `onboarding_workflow_store`, `platform_connection_store`, `pinterest_connector` 165-791, `pinterest_oauth`, the RPC `complete_oauth_callback` |
| `EmployeeEngine` | the engine's four operations, its retries, and the mission status around them | `employee_engine`, `retry_classifier`, `mission_engine`, `agent_orchestrator`, `routers/missions` |
| `LeadPipeline` | the Meta webhook, and what the owner does with a lead | `meta_webhooks`, `hape_marketing_os`, `lead_qualification`, `mission_orchestration` 113-210 |
| `PinPublishProofs`, `PinPublishRefinement`, `ApprovalFlowProofs`, `StepClaimProofs`, `MissionOrchestrationProofs`, `OAuthOnboardingProofs`, `EmployeeEngineProofs`, `LeadPipelineProofs` | theorems | |
| `MC...` | symmetry and the constants that TLC needs | |

Each component keeps a program counter per request or worker: the name of the statement
it executes next. An action is that statement and all the code up to the next one. The
operators whose comment begins with "Mutant" are deliberately wrong versions of the
definition below them; no run uses them, they document what each property would catch.

### PinPublish and OncePerKey

`row[k]` is the row of `published_pins` for the operation key of approval `k`, `posts` are
create requests on their way to Pinterest, `pins[k]` counts what Pinterest created.
`Resume` is the state guard (a failed read counts as no row, as in the code), `Claim` the
insert that ignores duplicates, `ReadExisting` and `Reclaim` the takeover of a failed row
by compare-and-set, `Board` the lookup of the board, `SendPost`, `Timeout`, `Create`,
`Reject`, `Drop` the call of Pinterest, `Settle` the final UPDATE. `Create` may happen
after `Timeout`: the Pin that appears late. A response that is no JSON object raises out
of `publish_content` (`decode`) and leaves the row claimed.

`OncePerKey` is what the ledger promises: a key is *open*, *held*, *sent* or *closed*; it is
sent only by its holder, reopened only after a definite refusal, closed by a Pin or by any
doubt. `Phase` is the refinement mapping: what the row, the requests past their claim and
the posts under way together say of a key.

### ApprovalFlow

Adds the status of the approvals, whether their expiry has passed, and what each handler
does before it reaches the ledger. Keys are approvals; `MetaApprovals` are those for Meta,
which have no ledger. `LedgerAsSpecified` says that the handlers drive the ledger by steps
of `PinPublish` only, so whatever is proved of `PinPublish` holds here.

After a rejection the route also marks the execution FAILED and then tells the mission
(`routers/approvals.py` 241-255); these rows belong to `StepClaim` and to `MissionOrchestration`,
where `Outcome` may leave the mission untold because the execution could not be marked. What
becomes of a lead whose message was sent is `BeginSent` in `LeadPipeline`.

### StepClaim

`rows[s]` is the sequence of attempts of step `s`. The claim RPC is one transaction
(`Grant`): it looks the idempotency key up, locks the latest attempt, recovers it if stale,
inserts. If the RPC raises, `claim_step` does the same in up to four statements
(`ReadExisting`, `ReadRelated`, `RecoverStale`, `InsertClaim`); the fault `rpc` makes this
happen. A row is inserted under the name `claimed_step` and named by `Rename`;
`_next_attempt_index` counts named rows only. What a tool returns is chosen freely among
the combinations the tools and `_next_decision` can produce.

`StepLog` is what the claims promise to somebody who sees only which attempts were made and how
they ended: a step is begun when every step before it is completed and it is not, beginning it
again gives up what was begun before, only the last attempt ends, and a completed step is never
attempted again. It knows no worker, token, lease or name. `ImplementsStepLog` maps `rows` to the
states of the attempts: a recovery and the insert after it are one step of the log, and the
rename, the end of a lease and everything a superseded worker still sends are none.

The plan is a fixed number of steps: the code may append one step to the plan while it
runs, which changes no statement. `resume_approval` is not called by the application. A
crashed worker stays dead, since a new run has a new token.

### MissionOrchestration

`mission[m]` holds the status, which of `scheduled_at` and `next_retry_at` lie in the
future, and `attempt_count`; `claim[m]` the token and whether its lease is live. A request
runs a mission (`Run`, `Ready`, `ClaimMission`, `Count`, `Check`, `Write`, `Employee`,
`Delay`, `Check`, `Write`, `Release`) or changes it (`Pause`, `Resume`, `Schedule`,
`Cancel`, `Outcome`, `Select`, each through `Check` and `Write`). `Check` and `Write` are
the two statements of `transition()`.

Not modelled here: the exception path of `ChatPlusService.execute_mission` (a transition
to failed, and so nothing that the other requests cannot write), recurrence, the ranking of
`select_next`. `POST /missions/{id}/run` is a request of `EmployeeEngine`.

### OAuthOnboarding

One owner, one worker, one mission. `cp[s]` is the checkpoint that carries the OAuth state of
start request `s`, `wf[s]` the workflow that request proposed, `vault` and `conn` the ids with
tokens and with a connection. A start request (`Begin`, four entry points in `start[s].kind`)
creates or finds its workflow (`CreateWorkflow`), a checkpoint (`CreateCheckpoint`), and, when
an approval was resumed, sets the mission waiting (`MarkWaiting`). A callback is `Arrive`, the
compare-and-set `ClaimCheckpoint` with the validation of the state, `Exchange` and
`TokenAnswer`, `SaveTokens`, `Complete` (one transaction, `Connected`), or `Fail`. By hand:
`CompleteByHand` with `ReadCheckpoint` and `WriteCheckpoint`, `ResumeByRoute` and
`ResumeApproved` with `Advance` and `Link`, `ConnectAccount`. `lost` remembers the claims whose
callback ended without an answer or without its process; an answer of Pinterest from which no
tokens can be taken, and a claimed state whose owner cannot be read from its mission, end so too.

Two ids matter: payloads name a worker (`WorkerKey`), the callback knows the owner. A state
that the worker runtime made is bound to the worker, and `OwnerOf` decides what the callback
may do with it. `ImplementsOncePerKey` maps a state to the abstract module the publish ledger
implements too: what a Pin is there, a token is here.

Left out: checkpoints of later steps, which carry no state; several owners; the form of states
and redirect addresses; Digistore24, which has no callback.

### EmployeeEngine

`execs[r]` is the execution that request `r` created, `claims[e]` the attempts stored as
claimed, `calls[e][n]` who called the tool under key `n` of `e`. A request (`StartRoute`,
`ListPending`, `ResumeMission`, `ResumeAfterApproval`) finds an execution (`Load`) or makes one
(`Create`, `Start`), claims the step (`ClaimStep`), calls the tool (`ExecuteStep`), and then
retries, pauses, records or fails (`RetryStep`, `Pause`, `Advance`, `HandleStepFailure`); the
mission route ends with `CompleteMission` or `FailMission`. What a tool answers, and which
patterns its error matches, is chosen freely; `Classify` is the classifier's order.

Two facts of the code shape the module. The rows of `persist_step` name a column that
`mission_steps` does not have, so they stay in memory and only claims are stored. And the
engine writes its executions as the worker, while row-level security asks for the user: whether
the database takes such a row is `accepts`, and the module covers both answers.

The key of a call holds the execution, the name of the step and the attempt, and the plan has one
step: so a key is an execution and an attempt.
`NewKeys` says of the requests that may meet a call of somebody else which keys they take: a retry
one it has not used, a recovery of a RUNNING execution one that nobody has. It excepts failed
statements, and it is the property of the claim: the mutant that calls the tool before the claim is
stored lets a crash in between be recovered under a used key.

Left out: plans of more than one step, which the planning engine does not make; the delay
before a retry.

### LeadPipeline

`created[m]` counts the missions inserted under the idempotency key of message `m`, `meta[m]`
is the metadata column of its lead, `approvals[h]` what request `h` of the owner asked approval
for: a quote or a follow-up, of which lead. A delivery walks its batch: `Lookup`, `Insert`, `Relookup` after a failed insert, `Reread`,
`ReadLead`, `Qualify`, and `Processed` for the next message or the answer 200; `Refuse` is 503.
`Configure` is somebody adding the phone number to the map of owners. The owner's operations
begin with a read (`Begin`) and end with a write of the whole column (`WriteBack`); a quote asks
for its approval in between (`ApproveQuote`, `DraftQuote`). So does the resume service, when
WhatsApp has taken a message (`BeginSent`, `Record`; `approval_resume_service.py` 679-716): it reads
the lead, makes the approval it acted on the one of the quote, and writes the column. That only
approved requests are resumed is `ApprovalFlow`'s; here any request may be.

Of a lead's metadata the quantity and the quote are kept: the one decides whether a quote may be
drafted, the other refers to another table. Left out: the status and stage of a lead, which are
values in the same column that nothing compares before writing; campaigns and content plans;
messages that are no text.

## What is checked

| run | instance | shows |
|---|---|---|
| `publish_settles` | 2 keys, 2 requests, crashes, fairness; 69 558 states | `ClaimsAreSettled`: only the death of its owner leaves a claimed row in publishing; doubt is final (`NoRetryAfterDoubt`); `ImplementsOncePerKey` |
| `approval` | one Pinterest and one Meta approval, 2 requests, crashes, lost statements, undecodable answers; 881 706 states | who reaches the ledger: `OnlyApprovedPublishes`, `DecisionsAreFinal`, `LapsedStaysQuiet`, `LedgerAsSpecified`; the ledger: at most one Pin per approval (`AtMostOnePin`), `RowTellsTheTruth`, `SendIsSafe`, `SuccessIsReal` |
| `steps` | 2 workers, 2 steps, 2 attempts, crashes, lost statements; 568 341 states | `OneLiveAttempt`, `AttemptsAreOwned`, `FinishMeansFinished`, `ExecutionTellsTheTruth`, `SupersededIsFrozen`, `CompletedIsFinal`; `ImplementsStepLog` |
| `steps_live` | 2 workers, 1 step, 3 attempts, crashes and a failing claim RPC, fairness; 306 618 states | without the row lock: `AttemptsAreOwned`, and what becomes of results (`OutcomesAreFinal`); `NamedClaimsAreRecovered` |
| `missions` | 1 mission, 2 requests, 2 attempts, all changes, crashes, lost statements; 221 946 states | `OneRunner` |
| `missions_live` | 2 missions in a chain, 2 requests, leases that run out, resumes, outcomes of approvals and parking, fairness; 1 081 206 states | `DependenciesFirst`, `ReleaseIsOwn`, `ActiveMissionsSettle` |
| `onboarding` | 2 start requests, 2 callbacks and 1 request by hand, of which 3 come, all faults; 631 028 states | `ExchangedOnce`, `ConsumedMeansConnected`, `OneWorkflowPerApproval`, `ClaimsAreSettled`, `FailedIsNotConnected`, `ImplementsOncePerKey` |
| `engine` | 2 requests of any two kinds, 1 retry, 3 messages, crashes and failing statements, fairness; 709 590 states | `CompletedMeansDone`, `OnlyRetryablesAreRetried`, `NewKeys`, `EveryRunEnds` |
| `leads` | 1 batch of 2 messages, 2 deliveries, 1 request of the owner, one crash and one failed statement, fairness; 572 362 states | `OneLeadPerMessage`, `AcknowledgedIsDurable`, `AcknowledgedIsQualified`, `QuoteIsBacked`, `EveryMessageBecomesALead` |

The type invariants are proved and in no run; they, `OneOwner` and `OneHolder` are parts of the
inductive invariants.

### Where the code does not do what the repository says

Each of these runs checks one statement of a comment, a test or a migration, and TLC
answers with a behaviour that breaks it. `PROJECT.json` quotes the statements.

| run | property | what happens |
|---|---|---|
| `approval_meta` | `DuplicateApproveSendsNothing` | a Meta approval that is approved again is sent again: the routes resume after an idempotent approve, and only platforms with a ledger are guarded |
| `missions_blocked` | `BlockedUntilReady` | a parked mission counts as ready, but may not become active; each try counts an attempt and leaks its claim |
| `engine_twice` | `OneCallPerKey` | two requests find one execution, both claim its step and both call the tool: that the second claim was not new is in a field nobody reads |

#### Seen while modelling

No run keeps these; the models contain them, and those that are hazards are in `PROJECT.json`.

Publishing and approvals

* Two submissions of a draft both list the pending approvals, find none and both insert
  (`chatplus_pinterest.py` 239 and 255-300; the comment at 189 speaks of "preventing accidental
  duplicate approval requests").
* `create_request` does not look for the operation key: an attempt that follows another,
  or outlives its lease, asks for the same approval again (`Work` in `StepClaim`).

Executions and missions

* A worker that dies between claiming a step and naming its row blocks the step: each later run
  computes the same attempt, finds its key taken and answers RETRY (`employee_vertical_slice.py`
  391, 689; migration 011 says the claim "may be recovered by another worker" after its lease).
* The fallback of `claim_step` marks the row it read as stale as failed by its id, although
  its worker may have completed it meanwhile (`RecoverStale`). A result is lost, and a run may
  come to the end of a plan whose step was taken away again. This is why some of the theorems on
  `StepClaim` assume that the claim RPC does not fail.
* `attempt_count` is written as what was read before the claim plus one, by an UPDATE whose
  failure nobody notices (`Count`, `mission_orchestration.py` 362): a request that waited for the
  claim of another counts the attempt of both as one, and a failed statement counts none. The
  count never passes `max_attempts` (`AttemptsAreBounded`); the runs may.
* `transition()` reads the status and writes it by id: a cancellation that comes between
  is overwritten, so `cancelled` is not final (`Check`, `Write` in `MissionOrchestration`).
* The same two statements decide what an approval that is quicker than its runner leaves behind:
  where the outcome is written first, the runner's `waiting_approval` is refused; where the runner
  has checked its edge by then, it overwrites `completed`, and the mission waits for an approval
  that was given.
* A mission is claimed for 60 seconds (`mission_orchestration.py` 45), and the claim is not
  renewed while the employee works: a second run then enters too, which
  `tests/test_p1_8_orchestration.py` 123 excludes for shorter runs. `OneRunner` assumes no lapse.

The employee engine

* `_handle_step_failure` compares with `NON_RETRYABLE_CATEGORIES`, which the module does not
  import: a step that fails for good raises there and its execution is never marked FAILED
  (`HandleStepFailure`). A step without an action raises in the same way (`UnknownTool`).
* `pending_approval` pauses the execution without creating an approval request; nothing but a
  request approved for something else resumes it.
* `resume_after_approval` reads its plan from the stored rows, which are claims: with a claim it
  gives up and marks the execution FAILED, without one it finds "all steps completed" and marks
  it SUCCEEDED (`HandleMissionCompletion`).
* A crash between the insert of an execution and its start leaves it PENDING. Each later run of the
  mission takes it as it is (the default branch of `_resume_mission`), never marks it RUNNING, and
  claims and calls its step under the first key again, whoever called before. This is why `NewKeys`
  asks for an unused key of the recovery of RUNNING executions only.
* `_execute_next_step` does not look at the result of its step, so a retry or a pause that could
  not be written counts as an executed step: this is the `fault` of `CompletedMeansDone`.

Onboarding

* `create_checkpoint` answers success when its insert failed: the person is sent to Pinterest
  with a state no callback will find (`CreateCheckpoint`).
* A checkpoint completed by hand during an exchange makes `Complete` answer that it already is:
  the browser is told connected, and nothing is.
* The route that resumes a workflow takes a completed one back to its next step (`ResumeByRoute`).
* Its docstring says "a failed resume never records a false "completed" checkpoint"; the connector
  notices a failed update at the last step only, and the approved variant closes the checkpoint
  whatever the resume answered (`Advance`).
* The state guard looks for a connection under the worker's id, the callback writes it under the
  owner's (`AccountConnected`, `Connected`): a connected owner may be sent through again.
* The callback may complete before the approve route has set the mission `waiting_human`
  (`MarkWaiting`): the mission then waits for what has already happened.
* Refusing access fails a checkpoint only if it is in processing, because of another callback;
  the refusal of a person who was just sent to Pinterest finds it awaiting and leaves it so
  (`Denied`, `Fail`).
* The comment at `connectors.py` 870 says "Retryable failure: processing -> awaiting_human"; the
  function it calls only reads, and the checkpoint stays in processing.

Leads

* Two writers of one lead overwrite each other's metadata, a quote included (`WriteBack`).
  `QuoteIsBacked` holds all the same, because an approval is never taken back.
* A payload with messages for an unmapped phone number is refused after the messages before it
  were processed, and refused again as long as the number stays unmapped.
* A qualification that could not be written is acknowledged and never tried again (`Qualify`);
  `AcknowledgedIsQualified` is about crashes, and excepts failed statements.

### Bounds, and why they are enough

* **Two requests or workers** on one row: each property relates the one that holds a row to one
  that does not. Except in `engine`, where an answered request is over, it may come again, so
  takeovers of takeovers happen too; for more at once there are the theorems. Two keys, two steps or two missions
  where a property relates them.
* **`Busy`** (onboarding): of five requests three come, in every combination; two callbacks on
  one state with a resume by hand beside them, or two resumes of one approval with a callback, are
  the largest that a property needs. Requests by hand and callbacks come any number of times.
* **`MaxStepRetries`** is 3 in the code and 1 in the instance: a first attempt, a last one, and
  the refusal of a further one. The three sets of `SomeErrors` are no pattern at all (transient),
  a permanent failure that also looks temporary, and a missing input that also does. The two requests
  are unordered (`Unordered`).
* **`MaxFaults`** (leads) is 1 for crashes and 1 for statements, since every message gets its lead
  only if failures end. A batch of two shows a delivery that dies between its messages; two
  deliveries the same batch twice at a time.
* **`MaxAttempts`** (StepClaim) bounds the attempts of a step in `Index` and, so that
  liveness is not checked against a bound, in `Expire`: the lease of the last attempt does
  not run out. Three attempts show a recovery of a recovery. In MissionOrchestration
  `MaxAttempts` is the code's own `max_attempts`, with values 1 and 2.
* **`MaxMessages`** counts Meta messages up to 2: one more than is allowed.
* Posts and Pins are unbounded in the modules and bounded by what the properties assert:
  a second post of a key is already a violation.
* **`Changes` and `Faults`** choose what else may happen in a run; a run without a change
  or a fault says nothing about it. In `missions_live` no statement fails: a dependency whose
  attempt was not counted would count as not run. `missions` has no lapsing leases because `OneRunner`
  is false with them (Seen while modelling).
* Symmetry is used in the safety runs only.
* Deadlock checking is off where an instance has an end by design: the Meta run ends when
  its one approval is rejected or expired, `missions_blocked`, where nobody resumes a mission,
  when every mission has ended, `onboarding` when its start requests left nothing to call
  back, `engine` and `engine_twice` when both requests are answered.

### Fairness

* `publish_settles`: weak fairness of each request's own statements. A statement ends,
  since the database answers or fails and the HTTP client has a timeout of 25 seconds.
  The state guard (`Resume`) and crashes are not fair: nobody must come back.
* `steps_live`: weak fairness of each living worker's next statement, `Run` included: the
  owner, the scheduler or a retry runs an unfinished mission again. A dead worker takes
  no step. Failing statements are left out: a database that fails for ever recovers nothing.
* `engine`: weak fairness of the next statement of a request that has begun: its server carries
  it on, or dies, which the run allows. Nothing makes a request begin.
* `leads`: weak fairness of the statements of a request, and of Meta posting a batch again as
  long as it is not acknowledged, which is what it does for days. Failures are bounded, and
  somebody who maps the phone number is assumed by the property, not by fairness.
* `onboarding` states none: a person may leave at any point, and a callback that dies is not
  taken up by anybody.
* `missions_live`, `missions_blocked`: weak fairness of the statements of a request and of
  running a mission that can be run, of leases ending and of timestamps being reached.
  Crashes are left out: a mission whose process dies stays active, which the code does not
  repair (listed as a hazard).

## What is proved

`tlapm` checks every proof to the last leaf. Assumptions are the named ASSUMEs of the
modules, on constants only; sets of keys, requests, workers, missions and faults are
arbitrary.

* **PinPublishProofs**. `IInv == TypeOK /\ AtMostOnePin /\ RowTellsTheTruth /\ OneOwner /\
  SendIsSafe` is inductive. None of its parts is alone: that a Pin may be created needs to
  know that none exists when a post is under way (`SendIsSafe`), which needs the sender
  to be the only one past the claim (`OneOwner`), and a takeover needs a failed row to have
  no Pin behind it (`RowTellsTheTruth`). `SuccessIsReal` and `NoRetryAfterDoubt` follow.
* **PinPublishRefinement**. `Refinement`: `Spec => ImplementsOncePerKey`, one lemma per
  group of actions: each is a step of `OncePerKey` on the key of its request, or a stutter.
* **ApprovalFlowProofs**. `LedgerAsSpecifiedAlways`: each step of the flow is a step of
  `PinPublish` or a stutter, which brings `FlowAtMostOnePin` with it;
  `FlowKeepsTheLedger` brings the other promises of the ledger, the refinement of `OncePerKey`
  included. `DecisionsAreFinalAlways`; `OnlyApprovedPublishesAlways`, whose induction needs that a
  request that is past the checks works on an approved key. `LapsedStaysQuietAlways`: one lemma per
  group of actions shows that nobody but a request that is past the checks touches a row or a
  message, and that no request gets past them for an approval that has expired.
* **StepClaimProofs**. The invariant adds to the types that an attempt other than the latest
  has failed and has its name (`OldAttempts`), and for each worker that the attempt it is
  about to claim follows named rows only (`ClaimIsNext`), and that the attempt it works on
  is its own or was taken from it (`ClaimIsHeld`). `OneLiveAttempt` and `AttemptsAreOwned`
  are proved with and without the claim RPC, `SupersededIsFrozen` and `CompletedIsFinal`
  where the RPC does not fail (see above).

  `FinishMeansFinished` speaks of a worker at the end of the plan, and is not inductive: the
  worker got there by what it remembers. `Progress` says what that memory is worth: the steps a
  worker believes done, and all before the one it is at, are completed (`Behind`), and only a row
  that has its name is completed (`CompletedIsNamed`), so that a refused claim that reports a
  completed step tells the truth. It keeps its meaning because `CompletedIsFinal` does, which is
  where the assumption on the RPC comes in. TLC shows that it is needed: with the fault `rpc`,
  `FinishMeansFinished`, `ExecutionTellsTheTruth` and `CompletedIsFinal` are violated, each by a worker
  of the fallback that takes a result away. What holds with every fault is proved beside them:
  the half of `ExecutionTellsTheTruth` that concerns approvals (`WaitingWasAsked`), that no row is
  lost and no failed attempt revived (`FailedIsFinal`), and that an attempt keeps its result but for
  that one statement, on a completed attempt its worker had read as stale (`OutcomesAreFinalAlways`).

  `StepLogRefinement`: where the RPC does not fail, the rows implement `StepLog`. One lemma per kind
  of step: a claim is `Begin`, and `Progress` gives its guard, that every earlier step is completed;
  a recorded result is `End`, since the worker that holds its token holds the latest attempt; the
  rest leaves the log alone.
* **MissionOrchestrationProofs**. `OrchestrationTypeCorrect`: nobody writes a status outside
  `MISSION_STATES`. `OneRunnerAlways` where leases do not run out. `ReleaseIsOwnAlways`
  without that assumption.

  `DependenciesFirst` compares the attempts of two missions, while the code compares a status, reads
  it before the claim, and lets the status change afterwards. `InOrder` closes the gap: a mission
  that is completed, or whose approval was asked for, has counted an attempt, and so has everybody
  who is about to write "completed" (`Counted`); attempts are never taken back (`Lasting`), so what
  a request read of its dependencies stays true until it counts. The theorem assumes that no
  statement fails, and TLC finds the violation otherwise: a first attempt that was not counted.
  TLC found `InOrder` true on two missions with crashes and lapses before it was proved.
  `AttemptsAreBounded` needs no assumption: a request that is about to claim or to count has read
  a count below the limit (`Room`), whatever the row says by then.
* **OAuthOnboardingProofs**. The invariant says for each request what its statement stands for
  (`Placed`): a callback that works has its checkpoint out of `awaiting_human`, has exchanged
  nothing before the answer and once after it, and has its tokens in the vault before it
  completes; a write by hand carries a consumed flag only of a state that is consummated. For
  each state (`Sound`): unclaimed means not exchanged, consumed means connected, processing means
  held or lost. `Alone` is the compare-and-set. None stands without the others: `ExchangedOnce`
  needs `Alone`, and `ConsumedMeansConnected` needs the read-modify-write by hand to be `Placed`.
  `ExchangeImplementsOncePerKey` is the refinement: a lemma for the phase of a held state, one for
  each kind of step a holder makes, and one for the steps that leave every phase alone.
* **EmployeeEngineProofs**. The invariant relates locals to rows (`Placed`): what is about to
  complete has succeeded or a statement failed, what was paused or called has a claim behind it,
  an execution that is not one's own is stored. `CompletedMeansDone` needs the claims: without
  them `resume_after_approval` would find no step and complete a mission nothing was done for.
  `OnlyRetryablesAreRetriedAlways` rests on the order of `Classify` for every set of messages.
  `NewKeysAlways` adds `OwnKeys`, which keys a request has used when it is where it is, and
  `Recorded`, that a call has a claim behind it unless a statement failed: a recovery finds no claim,
  so nobody has called, and takes the claim before it calls itself.
* **LeadPipelineProofs**. `Placed` says that a delivery has settled the messages before the one it
  works on, and that every copy of metadata a request holds is backed by approvals, which is
  why a stale copy may be written, by the resume service too (`SentKeeps`); `Acknowledged` and `QuoteIsBacked` are then inductive.

Every safety invariant and action property that a passing run checks is proved. Only
model-checked is liveness (`ClaimsAreSettled` of the ledger, `NamedClaimsAreRecovered`,
`ActiveMissionsSettle`, `EveryRunEnds`, `EveryMessageBecomesALead`), which is beyond this prover. The
three properties of the violation runs are false, and so have no proof.

## Not modelled

Components without state of their own that anybody else changes, listed with their reasons in
`PROJECT.json`: affiliate jobs (a view computed for each request), affiliate networks (HTTP
clients), memory (append-only, and no decision reads it), freelancer (single statements of one
owner), the registries, decision and action engine (functions of their input), configuration
and start-up. Of modelled components: the recurrence and the ranking of missions, conversation
and notifications of ChatPlus, campaigns and content plans, Digistore24 onboarding.

## Plan

1. to 8., done: `PinPublish` and `OncePerKey`, `ApprovalFlow`, `StepClaim` and `StepLog`,
   `MissionOrchestration`, `OAuthOnboarding`, `LeadPipeline`, `EmployeeEngine`, and the proofs of
   every safety property their runs check.

Left, in the order of what matters most:

9. A composition of `ApprovalFlow`, `StepClaim` and `MissionOrchestration`: the mission, the
   execution and the approval of one objective, and whether they can end up contradicting
   each other.
10. The recurrence and ranking of missions as operators, checked against a reference.
