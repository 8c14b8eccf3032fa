--------------------------- MODULE EmployeeEngine ---------------------------
(***************************************************************************)
(* The employee engine: a request runs a mission by finding or creating    *)
(* its execution, claiming the step of the plan and calling the tool, with *)
(* bounded retries, pauses for a person, and a recovery path for an        *)
(* execution that a dead process left RUNNING.  The routes around it set   *)
(* the status of the mission.                                              *)
(*                                                                         *)
(* One mission with a worker; a plan has one step, as the planning engine  *)
(* makes it.  An execution is named after the request that created it.     *)
(* The database takes its row only from the owner it names, which is the   *)
(* worker: under row-level security the row stays in the request's memory. *)
(* Rows of persist_step name a column mission_steps does not have and stay *)
(* in memory too, where nothing reads them; claims are stored.             *)
(***************************************************************************)
EXTENDS Naturals, FiniteSets

CONSTANTS
    Requests,
    MaxStepRetries,  \* 3 in the code
    Errors,          \* what a failure message matches; subsets of Patterns
    Faults           \* the failures that may happen; a subset of AllFaults

AllFaults == {"crash",  \* the process dies between two steps
              "db"}     \* a statement is not applied

\* The groups of patterns a message is compared with.
Patterns == {"AUTHORIZATION", "TOOL_NOT_FOUND", "PERMANENT", "MISSING_INPUT", "EXECUTION", "TRANSIENT"}

ASSUME ConstantsAssumption ==
    /\ MaxStepRetries \in Nat
    /\ Errors \subseteq SUBSET Patterns
    /\ Faults \subseteq AllFaults

VARIABLES
    kind,     \* kind[r]: the operation r asks for
    accepts,  \* the database takes the rows of mission_executions
    mission,  \* missions.status
    execs,    \* execs[r]: the execution r created
    latest,   \* the stored execution created last, if any
    claims,   \* claims[e]: the attempts of e that are stored as claimed
    pc,       \* pc[r]: the next statement of request r
    job,      \* job[r]: its local variables
    calls,    \* calls[e][n]: the requests that called the tool under that key
    done,     \* the tool has succeeded
    fault     \* a statement has failed

vars == <<kind, accepts, mission, execs, latest, claims, pc, job, calls, done, fault>>
rigid == <<kind, accepts>>
past == <<calls, done>>

Kinds == {"route",     \* POST /missions/{id}/run
          "worker",    \* POST /workers/{id}/run
          "resume",    \* WorkerRuntime.resume_mission
          "approval"}  \* WorkerRuntime.resume_after_approval

Terminal == {"SUCCEEDED", "FAILED"}

ExecutionStatuses == Terminal \cup {"none", "PENDING", "RUNNING", "WAITING_APPROVAL", "WAITING_INPUT"}

Execution == [status : ExecutionStatuses, retries : Nat, stored : BOOLEAN]

Job == [exec : Requests,
        attempt : Nat,
        known : BOOLEAN,         \* the step is the plan's and has an action
        retries : Nat,           \* retry_count as it was read
        error : SUBSET Patterns, \* of the last failure
        pause : {"WAITING_APPROVAL", "WAITING_HUMAN", "WAITING_INPUT"}]

PCs == {"idle", "gone", "activate", "load", "create", "start", "steps", "retry", "claim", "call", "pause",
        "advance", "complete", "fail", "unpause", "select", "succeed", "giveup"}

TypeOK ==
    /\ kind \in [Requests -> Kinds]
    /\ accepts \in BOOLEAN /\ done \in BOOLEAN /\ fault \in BOOLEAN
    /\ mission \in {"pending", "active", "completed", "failed"}
    /\ execs \in [Requests -> Execution]
    /\ latest \in SUBSET Requests
    /\ claims \in [Requests -> SUBSET Nat]
    /\ pc \in [Requests -> PCs]
    /\ job \in [Requests -> Job]
    /\ \A r \in Requests : job[r].known => job[r].attempt <= MaxStepRetries
    /\ calls \in [Requests -> [0..MaxStepRetries -> SUBSET Requests]]

\* A step of the plan, before its first attempt.
PlanStep(e, retries) ==
    [exec |-> e, attempt |-> 0, known |-> TRUE, retries |-> retries, error |-> {}, pause |-> "WAITING_INPUT"]

Init ==
    /\ kind \in [Requests -> Kinds]
    /\ accepts \in BOOLEAN
    /\ mission = "pending"
    /\ execs = [r \in Requests |-> [status |-> "none", retries |-> 0, stored |-> FALSE]]
    /\ latest = {}
    /\ claims = [r \in Requests |-> {}]
    /\ pc = [r \in Requests |-> "idle"]
    /\ job = [r \in Requests |-> PlanStep(r, 0)]
    /\ calls = [r \in Requests |-> [n \in 0..MaxStepRetries |-> {}]]
    /\ done = FALSE /\ fault = FALSE

Goto(r, statement) == pc' = [pc EXCEPT ![r] = statement] /\ UNCHANGED job

Work(r, statement, locals) == pc' = [pc EXCEPT ![r] = statement] /\ job' = [job EXCEPT ![r] = locals]

\* The request ends, with its locals.
Leave(r, statement) == Work(r, statement, PlanStep(r, 0))

\* The engine's answer; the mission route turns it into the status of the mission.
Answer(r, success) ==
    Leave(r, IF kind[r] # "route" THEN "gone" ELSE IF success THEN "complete" ELSE "fail")

Applied == UNCHANGED fault

\* A statement that is not applied.
NotApplied == "db" \in Faults /\ fault' = TRUE

UpdateStatus(status) == mission' = status /\ Applied

Exec(r) == execs[job[r].exec]

\* update_execution_state; an execution in memory is updated there.
SetExecution(r, field, value) == execs' = [execs EXCEPT ![job[r].exec][field] = value] /\ Applied

UpdateFails(r) == Exec(r).stored /\ NotApplied /\ UNCHANGED execs

-----------------------------------------------------------------------------
(* Failures                                                                 *)

\* The patterns are tried in this order.
Priority == <<"AUTHORIZATION", "TOOL_NOT_FOUND", "PERMANENT", "MISSING_INPUT", "EXECUTION", "TRANSIENT">>

\* Mutant: what looks temporary is taken for temporary first.
TransientFirst(error) == IF "TRANSIENT" \in error THEN "TRANSIENT" ELSE "PERMANENT"

\* classify_failure: the first group that matches; none is taken for transient.
Classify(error) ==
    IF error = {} THEN "TRANSIENT"
    ELSE Priority[CHOOSE i \in 1..6 :
            Priority[i] \in error /\ \A j \in 1..(i - 1) : Priority[j] \notin error]

\* RETRYABLE_CATEGORIES; no message is classified as VALIDATION.
Retryable == {"TRANSIENT", "EXECUTION", "VALIDATION"}

\* BoundedRetryPolicy.can_retry_step
CanRetryStep(attempt) == attempt < MaxStepRetries

-----------------------------------------------------------------------------
(* The requests                                                             *)

\* The mission is marked active, or nothing is run; execute_mission marks it again.
StartRoute(r) ==
    /\ pc[r] = "idle" /\ kind[r] = "route"
    /\ \/ UpdateStatus("active") /\ Goto(r, "activate")
       \/ NotApplied /\ UNCHANGED mission /\ Leave(r, "gone")
    /\ UNCHANGED <<rigid, execs, latest, claims, past>>

\* run_worker lists the pending missions of the worker, and runs each.
ListPending(r) ==
    /\ pc[r] = "idle" /\ kind[r] = "worker" /\ mission = "pending"
    /\ Goto(r, "activate")
    /\ UNCHANGED <<rigid, mission, execs, latest, claims, past, fault>>

\* execute_mission marks it active; that this failed is not looked at.
Activate(r) ==
    /\ pc[r] = "activate"
    /\ \/ UpdateStatus("active")
       \/ NotApplied /\ UNCHANGED mission
    /\ Goto(r, "load")
    /\ UNCHANGED <<rigid, execs, latest, claims, past>>

\* Executions are looked for under the user's id, and belong to the worker's.
ResumeMission(r) ==
    /\ pc[r] = "idle" /\ kind[r] = "resume"
    /\ Goto(r, "load")
    /\ UNCHANGED <<rigid, mission, execs, latest, claims, past, fault>>

\* load_execution_for_mission: the last one, unless it is over.
Active == {e \in latest : execs[e].status \notin Terminal}

\* Mutant: an execution that waits is reported as a success.
PausedIsSuccess(r) ==
    /\ pc[r] = "load"
    /\ \/ Active = {} /\ Goto(r, "create")
       \/ Active # {} /\ Answer(r, TRUE)
    /\ UNCHANGED <<rigid, mission, execs, latest, claims, past, fault>>

Load(r) ==
    /\ pc[r] = "load"
    /\ \/ /\ (Active = {} /\ Applied) \/ NotApplied
          /\ Goto(r, "create")
       \/ /\ \E e \in Active :
                \/ /\ execs[e].status \in {"WAITING_APPROVAL", "WAITING_INPUT"}
                   /\ Answer(r, FALSE)
                \/ /\ execs[e].status = "RUNNING"
                   /\ Work(r, "steps", PlanStep(e, execs[e].retries))
                \/ /\ execs[e].status = "PENDING"
                   /\ Work(r, "claim", PlanStep(e, execs[e].retries))
          /\ Applied
    /\ UNCHANGED <<rigid, mission, execs, latest, claims, past>>

\* create_execution; its key is new, so that no two of them collide.
Create(r) ==
    /\ pc[r] = "create"
    /\ \E stored \in BOOLEAN :
          /\ execs' = [execs EXCEPT ![r] = [status |-> "PENDING", retries |-> 0, stored |-> stored]]
          /\ latest' = IF stored THEN {r} ELSE latest
          /\ IF stored = accepts THEN Applied ELSE accepts /\ NotApplied
    /\ Work(r, "start", PlanStep(r, 0))
    /\ UNCHANGED <<rigid, mission, claims, past>>

\* Mutant: the tool is called before the step is claimed.
StartUnclaimed(r) ==
    /\ pc[r] = "start"
    /\ \/ SetExecution(r, "status", "RUNNING") /\ Goto(r, "call")
       \/ UpdateFails(r) /\ Answer(r, FALSE)
    /\ UNCHANGED <<rigid, mission, latest, claims, past>>

\* The plan is made, and the execution marked RUNNING.
Start(r) ==
    /\ pc[r] = "start"
    /\ \/ SetExecution(r, "status", "RUNNING") /\ Goto(r, "claim")
       \/ UpdateFails(r) /\ Answer(r, FALSE)
    /\ UNCHANGED <<rigid, mission, latest, claims, past>>

\* _handle_ambiguous_running.  Without a row the plan is made again; otherwise
\* the last row, which a claim left in_progress, is retried as a step: its name
\* is that of every claim, and it has no action.
HandleAmbiguousRunning(r) ==
    LET rows == claims[job[r].exec] IN
    /\ pc[r] = "steps"
    /\ \/ /\ (rows = {} /\ Applied) \/ NotApplied
          /\ Goto(r, "claim")
       \/ /\ \E last \in rows :
                /\ \A n \in rows : n <= last
                /\ Work(r, "retry", [job[r] EXCEPT !.attempt = last, !.known = FALSE])
          /\ Applied
    /\ UNCHANGED <<rigid, mission, execs, latest, claims, past>>

-----------------------------------------------------------------------------
(* The step                                                                 *)

\* claim_step.  Its answer says whether the claim was new: nobody looks at it.
ClaimStep(r) ==
    /\ pc[r] = "claim"
    /\ \/ claims' = [claims EXCEPT ![job[r].exec] = @ \cup {job[r].attempt}] /\ Applied
       \/ NotApplied /\ UNCHANGED claims
    /\ Goto(r, "call")
    /\ UNCHANGED <<rigid, mission, execs, latest, past>>

Called(r) == calls' = [calls EXCEPT ![job[r].exec][job[r].attempt] = @ \cup {r}]

Succeeds(r) == Called(r) /\ done' = TRUE /\ Goto(r, "advance")

\* _handle_step_failure names categories its module does not import: it raises,
\* and the execution is not marked FAILED.
HandleStepFailure(r) == Answer(r, FALSE)

\* A step without an action is an unknown tool: _classify_error raises.
UnknownTool(r) == Answer(r, FALSE) /\ UNCHANGED past

\* _classify_and_persist_failure
Fails(r, error) ==
    LET failed == [job[r] EXCEPT !.error = error] IN
    /\ Called(r) /\ UNCHANGED done
    /\ \/ /\ Classify(error) \in Retryable /\ CanRetryStep(job[r].attempt)
          /\ Work(r, "retry", failed)
       \/ /\ Classify(error) = "MISSING_INPUT"
          /\ Work(r, "pause", [failed EXCEPT !.pause = "WAITING_INPUT"])
       \/ /\ Classify(error) # "MISSING_INPUT"
          /\ Classify(error) \notin Retryable \/ ~CanRetryStep(job[r].attempt)
          /\ HandleStepFailure(r)

\* The executor's own answers: an approval or a person is needed.
Waits(r) ==
    /\ \E pause \in {"WAITING_APPROVAL", "WAITING_HUMAN"} : Work(r, "pause", [job[r] EXCEPT !.pause = pause])
    /\ UNCHANGED past

\* _execute_step after the claim.
ExecuteStep(r) ==
    /\ pc[r] = "call"
    /\ \/ job[r].known /\ (Succeeds(r) \/ Waits(r) \/ \E error \in Errors : Fails(r, error))
       \/ ~job[r].known /\ UnknownTool(r)
    /\ UNCHANGED <<rigid, mission, execs, latest, claims, fault>>

\* Mutant: the same attempt is made again.
RetrySameAttempt(r) ==
    /\ pc[r] = "retry"
    /\ Goto(r, "claim")
    /\ UNCHANGED <<rigid, mission, execs, latest, claims, past, fault>>

\* _retry_step.  A failed update is answered upwards; _execute_next_step does not
\* look at the answer of its step.
RetryStep(r) ==
    /\ pc[r] = "retry"
    /\ \/ /\ SetExecution(r, "retries", job[r].retries + 1)
          /\ Work(r, "claim", [job[r] EXCEPT !.attempt = @ + 1, !.error = {}])
       \/ /\ UpdateFails(r)
          /\ IF job[r].known THEN Goto(r, "advance") ELSE Answer(r, FALSE)
    /\ UNCHANGED <<rigid, mission, latest, claims, past>>

\* The three _persist_waiting functions.  Only for a missing input the answer is
\* the same when the update fails; otherwise the step counts as executed.
Pause(r) ==
    /\ pc[r] = "pause"
    /\ \/ /\ SetExecution(r, "status",
                IF job[r].pause = "WAITING_APPROVAL" THEN "WAITING_APPROVAL" ELSE "WAITING_INPUT")
          /\ Answer(r, FALSE)
       \/ /\ UpdateFails(r)
          /\ IF job[r].pause = "WAITING_INPUT" THEN Answer(r, FALSE) ELSE Goto(r, "advance")
    /\ UNCHANGED <<rigid, mission, latest, claims, past>>

\* The end of _execute_next_step writes back the retry count it had read.  The
\* plan it looks at still says pending: no run finds its execution complete.
Advance(r) ==
    /\ pc[r] = "advance"
    /\ \/ SetExecution(r, "retries", job[r].retries) /\ Answer(r, TRUE)
       \/ UpdateFails(r) /\ Answer(r, FALSE)
    /\ UNCHANGED <<rigid, mission, latest, claims, past>>

-----------------------------------------------------------------------------
(* The end of a request                                                     *)

CompleteMission(r) ==
    /\ pc[r] = "complete"
    /\ \/ UpdateStatus("completed")
       \/ NotApplied /\ UNCHANGED mission
    /\ Leave(r, "gone")
    /\ UNCHANGED <<rigid, execs, latest, claims, past>>

FailMission(r) ==
    /\ pc[r] = "fail"
    /\ \/ UpdateStatus("failed")
       \/ NotApplied /\ UNCHANGED mission
    /\ Leave(r, "gone")
    /\ UNCHANGED <<rigid, execs, latest, claims, past>>

\* resume_after_approval: any approved request will do.
ResumeAfterApproval(r) ==
    /\ pc[r] = "idle" /\ kind[r] = "approval"
    /\ \E e \in Requests :
          /\ execs[e].stored /\ execs[e].status = "WAITING_APPROVAL"
          /\ Work(r, "unpause", PlanStep(e, 0))
    /\ UNCHANGED <<rigid, mission, execs, latest, claims, past, fault>>

Unpause(r) ==
    /\ pc[r] = "unpause"
    /\ \/ SetExecution(r, "status", "RUNNING") /\ Goto(r, "select")
       \/ UpdateFails(r) /\ Leave(r, "gone")
    /\ UNCHANGED <<rigid, mission, latest, claims, past>>

\* The plan is read from the stored rows: none of the claims is executable, nor
\* completed; of no row at all, all are completed.
HandleMissionCompletion(r) ==
    /\ pc[r] = "select"
    /\ \/ claims[job[r].exec] # {} /\ Goto(r, "giveup") /\ Applied
       \/ /\ (claims[job[r].exec] = {} /\ Applied) \/ NotApplied
          /\ Goto(r, "succeed")
    /\ UNCHANGED <<rigid, mission, execs, latest, claims, past>>

MarkCompleted(r) ==
    /\ pc[r] = "succeed"
    /\ \/ SetExecution(r, "status", "SUCCEEDED") /\ Leave(r, "complete")
       \/ UpdateFails(r) /\ Leave(r, "gone")
    /\ UNCHANGED <<rigid, mission, latest, claims, past>>

MarkFailed(r) ==
    /\ pc[r] = "giveup"
    /\ SetExecution(r, "status", "FAILED") \/ UpdateFails(r)
    /\ Leave(r, "gone")
    /\ UNCHANGED <<rigid, mission, latest, claims, past>>

Crash(r) ==
    /\ "crash" \in Faults /\ pc[r] \notin {"idle", "gone"}
    /\ Leave(r, "gone")
    /\ UNCHANGED <<rigid, mission, execs, latest, claims, past, fault>>

\* The statements of a request that has begun.
Proceed(r) ==
    \/ Activate(r) \/ Load(r) \/ Create(r) \/ Start(r) \/ HandleAmbiguousRunning(r)
    \/ ClaimStep(r) \/ ExecuteStep(r) \/ RetryStep(r) \/ Pause(r) \/ Advance(r)
    \/ CompleteMission(r) \/ FailMission(r)
    \/ Unpause(r) \/ HandleMissionCompletion(r) \/ MarkCompleted(r) \/ MarkFailed(r)

Next == \E r \in Requests :
    \/ StartRoute(r) \/ ListPending(r) \/ ResumeMission(r) \/ ResumeAfterApproval(r)
    \/ Proceed(r) \/ Crash(r)

Spec == Init /\ [][Next]_vars

\* A request that has begun is carried on by its server.
Fairness == \A r \in Requests : WF_vars(Proceed(r))

FairSpec == Spec /\ Fairness

-----------------------------------------------------------------------------
(* Properties                                                               *)

\* A mission is completed only when its tool has succeeded, unless a statement
\* failed on the way: pauses, refusals, crashes and recoveries do not complete it.
CompletedMeansDone == mission = "completed" => done \/ fault

\* Whatever else its message says, a failure that mentions a denied authorization,
\* an unknown tool, a permanent condition or a missing input is not retried.
OnlyRetryablesAreRetried ==
    \A r \in Requests : pc[r] = "retry" => job[r].error \subseteq {"EXECUTION", "TRANSIENT"}

\* A request is about to claim a step of the plan, under the key of its attempt.
TakesKey(r) == pc[r] # "claim" /\ pc'[r] = "claim" /\ job'[r].known

\* A request that retries takes a key it has not called the tool under.  One that
\* recovers an execution found RUNNING takes a key nobody has: whoever called the
\* tool before had claimed the step, and died or is still at work, and the claim
\* keeps the recovery from calling again.  So only requests that run at the same
\* time call the tool twice under a key of such an execution.
NewKeys == [][\A r \in Requests : TakesKey(r) =>
    LET used == calls[job'[r].exec][job'[r].attempt] IN
    r \notin used /\ (pc[r] = "steps" /\ ~fault' => used = {})]_vars

\* Retries are bounded: every request that has begun is answered, or dies.
EveryRunEnds == \A r \in Requests : pc[r] # "idle" ~> pc[r] = "gone"

\* services/employee_engine.py:479: "Claim the step for execution (idempotency
\* protection)".  The tool is called once under an idempotency key.
OneCallPerKey == \A e \in Requests : \A n \in 0..MaxStepRetries : Cardinality(calls[e][n]) <= 1
=============================================================================
