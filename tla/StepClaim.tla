----------------------------- MODULE StepClaim ------------------------------
(***************************************************************************)
(* The durable execution of one mission's plan.  Every call of             *)
(* EmployeeVerticalSlice.run is a worker of its own, with the fencing token *)
(* of its instance; several of them may run the same mission.  A worker    *)
(* claims a step as a row of public.mission_steps (attempt i of a step is   *)
(* the row with the idempotency key "...:<step>:<i>", and all the attempts  *)
(* of a step share one operation key), does the step's work, and records    *)
(* the result in the row it claimed, if its token is still there.           *)
(*                                                                         *)
(* Each database statement is a step of its own.  rows[s] holds the rows of *)
(* step s by attempt: the unique idempotency key lets attempt i be inserted *)
(* once, and a worker computes i from rows that exist, so the i-th row of   *)
(* the sequence is attempt i - 1.                                          *)
(***************************************************************************)
EXTENDS Naturals, Sequences, FiniteSets

CONSTANTS
    Workers,      \* instances of EmployeeVerticalSlice; each has its own token
    PlanLength,   \* how many steps the plan has
    RetryLimit,   \* max_decisions: attempts that may end in RETRY
    MaxAttempts,  \* bound of the model on the attempts of a step
    Faults        \* the failures that may happen; a subset of AllFaults

AllFaults == {"crash",  \* a worker dies between two statements, for good
              "db",     \* a statement fails: unapplied, or applied and unanswered
              "rpc"}    \* so does the claim RPC, and claim_step falls back

ASSUME StepClaimAssumption ==
    /\ PlanLength \in Nat \ {0} /\ RetryLimit \in Nat /\ MaxAttempts \in Nat
    /\ Faults \subseteq AllFaults

VARIABLES
    execution,  \* the status of the mission's execution; "NONE" before it is claimed
    rows,       \* rows[s]: the mission_steps rows of step s, by attempt
    requests,   \* requests[s]: the approval requests created by the work of s
    pc,         \* pc[w]: the next statement of worker w
    job         \* job[w]: the local variables of the run of w

vars == <<execution, rows, requests, pc, job>>

Steps == 1 .. PlanLength

-----------------------------------------------------------------------------
(* State                                                                    *)

Terminal == {"SUCCEEDED", "FAILED"}

ExecutionStatuses ==
    Terminal \cup {"NONE", "PENDING", "RUNNING", "WAITING_APPROVAL", "WAITING_INPUT", "RETRYING"}

\* token is the set that holds the fencing token, {} once it is NULL; named
\* says whether step_name was set: the RPC inserts 'claimed_step'; live that
\* the lease has not expired.
Row == [status : {"in_progress", "completed", "failed"},
        token : {{}} \cup {{w} : w \in Workers},
        named : BOOLEAN,
        live : BOOLEAN]

PCs == {"idle", "claim_execution", "load", "run", "plan", "index", "claim", "existing",
        "related", "stale", "insert", "rename", "work", "record", "conclude", "finish", "dead"}

\* The result of a tool and what _next_decision makes of it.
Outcomes == [success : BOOLEAN,
             decision : {"FOLLOW_UP", "COMPLETE", "WAIT_FOR_APPROVAL",
                         "WAIT_FOR_HUMAN_INPUT", "RETRY", "FAIL"}]

Job == [done : SUBSET Steps,    \* the steps the worker believes completed
        at : Nat,               \* the step of the plan it is at
        attempt : Nat,          \* the attempt it claims: attempt_index + 1
        latest : Nat,           \* the row its fallback found stale
        outcome : Outcomes]     \* what the tool returned

TypeOK ==
    /\ execution \in ExecutionStatuses
    /\ rows \in [Steps -> Seq(Row)]
    /\ requests \in [Steps -> Nat]
    /\ pc \in [Workers -> PCs]
    /\ job \in [Workers -> Job]

NoJob == [done |-> {}, at |-> 0, attempt |-> 0, latest |-> 0,
          outcome |-> [success |-> FALSE, decision |-> "FAIL"]]

Init ==
    /\ execution = "NONE"
    /\ rows = [s \in Steps |-> <<>>]
    /\ requests = [s \in Steps |-> 0]
    /\ pc = [w \in Workers |-> "idle"]
    /\ job = [w \in Workers |-> NoJob]

Goto(w, statement) == pc' = [pc EXCEPT ![w] = statement]

Then(w, statement) == Goto(w, statement) /\ UNCHANGED job

\* The run of w ends, and its local variables with it.
End(w, statement) == Goto(w, statement) /\ job' = [job EXCEPT ![w] = NoJob]

Return(w) == End(w, "idle")

\* A write whose answer is lost is reported as a failure and ends the run.
Written(w, statement) ==
    Then(w, statement) \/ ("db" \in Faults /\ Return(w))

Completed == {s \in Steps : \E i \in DOMAIN rows[s] : rows[s][i].named
                                                  /\ rows[s][i].status = "completed"}

\* Mutant: any step that is not done may come next.
AdvanceAnywhere(w, from, done) ==
    \/ \E s \in Steps :
          /\ s > from /\ s \notin done
          /\ job' = [job EXCEPT ![w].at = s, ![w].done = done]
          /\ Goto(w, "index")
    \/ /\ (from + 1) .. PlanLength \subseteq done
       /\ job' = [job EXCEPT ![w].done = done]
       /\ Goto(w, "finish")

\* From step "from" on to the next step that is not done, or to the end of the plan.
Advance(w, from, done) ==
    \/ \E s \in Steps :
          /\ s > from /\ s \notin done
          /\ (from + 1) .. (s - 1) \subseteq done
          /\ job' = [job EXCEPT ![w].at = s, ![w].done = done]
          /\ Goto(w, "index")
    \/ /\ (from + 1) .. PlanLength \subseteq done
       /\ job' = [job EXCEPT ![w].done = done]
       /\ Goto(w, "finish")

-----------------------------------------------------------------------------
(* EmployeeVerticalSlice.run and _resume_execution                          *)

\* load_execution_for_mission: the latest execution, unless it is terminal.
Run(w) ==
    /\ pc[w] = "idle"
    /\ Then(w, IF execution \in Terminal \cup {"NONE"} THEN "claim_execution" ELSE "load")
    /\ UNCHANGED <<execution, rows, requests>>

\* One execution per mission and owner: the idempotency key finds a terminal one again.
ClaimExecution(w) ==
    /\ pc[w] = "claim_execution"
    /\ execution' = IF execution = "NONE" THEN "PENDING" ELSE execution
    /\ Written(w, "run")
    /\ UNCHANGED <<rows, requests>>

\* _resume_execution: nothing left to do, or the rest of the plan.
LoadSteps(w) ==
    /\ pc[w] = "load"
    /\ job' = [job EXCEPT ![w].done = Completed]
    /\ Goto(w, IF Completed = Steps THEN "finish" ELSE "run")
    /\ UNCHANGED <<execution, rows, requests>>

MarkRunning(w) ==
    /\ pc[w] = "run"
    /\ execution' = "RUNNING"
    /\ Written(w, "plan")
    /\ UNCHANGED <<rows, requests>>

\* mark_completed, at the end of the plan.
Finish(w) ==
    /\ pc[w] = "finish"
    /\ execution' = "SUCCEEDED"
    /\ Return(w)
    /\ UNCHANGED <<rows, requests>>
-----------------------------------------------------------------------------
(* EmployeeVerticalSlice._execute_plan                                      *)

\* The steps completed by now are skipped.
Plan(w) ==
    /\ pc[w] = "plan"
    /\ Advance(w, 0, job[w].done \cup Completed)
    /\ UNCHANGED <<execution, rows, requests>>

\* _next_attempt_index sees only the rows that carry the name of the step.
NextAttempt(s) ==
    CHOOSE n \in 1 .. (Len(rows[s]) + 1) :
        /\ n = 1 \/ rows[s][n - 1].named
        /\ \A i \in n .. Len(rows[s]) : ~rows[s][i].named

\* MaxAttempts is a bound of the model: the run ends where it would go beyond.
Index(w) ==
    /\ pc[w] = "index"
    /\ LET n == NextAttempt(job[w].at)
       IN \/ /\ n <= MaxAttempts
             /\ job' = [job EXCEPT ![w].attempt = n]
             /\ Goto(w, "claim")
          \/ n > MaxAttempts /\ Return(w)
    /\ UNCHANGED <<execution, rows, requests>>

\* Mutant: "claimed" is not looked at.
RefusedGoesOn(w, row) ==
    \/ row.status = "completed" /\ Advance(w, job[w].at, job[w].done \cup {job[w].at})
    \/ row.status # "completed" /\ Then(w, "rename")

\* Mutant: a step claimed by another worker is taken for done.
RefusedSkips(w, row) == Advance(w, job[w].at, job[w].done \cup {job[w].at})

\* Not claimed, and told of a row: go on if it is completed, else answer RETRY.
Refused(w, row) ==
    \/ /\ row.status = "completed"
       /\ Advance(w, job[w].at, job[w].done \cup {job[w].at})
    \/ /\ row.status # "completed"
       /\ Return(w)

Last(s) == rows[s][Len(rows[s])]

\* Mutant: a completed row does not stop the next attempt.
BlocksWhileClaimed(row) == row.status = "in_progress" /\ row.live

\* Mutant: the lease of a claim is not looked at.
BlocksForever(row) == row.status # "failed"

\* A row that an attempt cannot be claimed after: completed, or claimed and live.
Blocks(row) == row.status = "completed" \/ (row.status = "in_progress" /\ row.live)

\* Mutant: a recovered claim keeps its fencing token.
RecoveredKeepsToken(row) == [row EXCEPT !.status = "failed"]

Recovered(row) == [row EXCEPT !.status = "failed", !.token = {}]

Stale(s) == rows[s] # <<>> /\ Last(s).status = "in_progress" /\ ~Last(s).live

\* Mutant: the stale claim is left as it is.
SupersededLeavesClaim(s) == rows[s]

\* The rows of s, the latest one recovered if it is a stale claim.
Superseded(s) ==
    IF rows[s] # <<>> /\ Last(s).status = "in_progress"
    THEN [rows[s] EXCEPT ![Len(rows[s])] = Recovered(@)]
    ELSE rows[s]

Obstructed(w, s) ==
    \/ Len(rows[s]) >= job[w].attempt
    \/ rows[s] # <<>> /\ Blocks(Last(s))

\* The row in the way: the one with the idempotency key, else the latest one.
Obstacle(w, s) ==
    IF Len(rows[s]) >= job[w].attempt THEN rows[s][job[w].attempt] ELSE Last(s)

Claimed(w, named) == [status |-> "in_progress", token |-> {w}, named |-> named, live |-> TRUE]

\* The claim RPC: a stale claim is recovered and the attempt inserted in one transaction.
Grant(w, s) ==
    /\ ~Obstructed(w, s)
    /\ rows' = [rows EXCEPT ![s] = Append(Superseded(s), Claimed(w, FALSE))]

\* claim_step calls claim_mission_step; if that raises, it goes on by itself.
ClaimStep(w) ==
    /\ pc[w] = "claim"
    /\ \/ /\ Grant(w, job[w].at)
          /\ Then(w, "rename") \/ ("rpc" \in Faults /\ Then(w, "existing"))
       \/ /\ Obstructed(w, job[w].at)
          /\ Refused(w, Obstacle(w, job[w].at))
          /\ UNCHANGED rows
       \/ /\ "rpc" \in Faults
          /\ Then(w, "existing")
          /\ UNCHANGED rows
    /\ UNCHANGED <<execution, requests>>

-----------------------------------------------------------------------------
(* claim_step without the RPC: the same decisions, a statement at a time    *)

\* Mutant: the row with the key of the attempt is taken for the worker's own claim.
ReadExistingAdopts(w) ==
    /\ pc[w] = "existing"
    /\ Then(w, IF Len(rows[job[w].at]) >= job[w].attempt THEN "rename" ELSE "related")
    /\ UNCHANGED <<execution, rows, requests>>

\* The row with the idempotency key.
ReadExisting(w) ==
    /\ pc[w] = "existing"
    /\ \/ /\ Len(rows[job[w].at]) >= job[w].attempt
          /\ Refused(w, rows[job[w].at][job[w].attempt])
       \/ /\ Len(rows[job[w].at]) < job[w].attempt
          /\ Then(w, "related")
    /\ UNCHANGED <<execution, rows, requests>>

\* The latest row with the operation key.
ReadRelated(w) ==
    LET s == job[w].at
    IN /\ pc[w] = "related"
       /\ \/ /\ rows[s] # <<>> => Last(s).status = "failed"
             /\ Then(w, "insert")
          \/ /\ Stale(s)
             /\ job' = [job EXCEPT ![w].latest = Len(rows[s])]
             /\ Goto(w, "stale")
          \/ /\ rows[s] # <<>> /\ Blocks(Last(s))
             /\ Refused(w, Last(s))
       /\ UNCHANGED <<execution, rows, requests>>

\* The row found stale is marked failed by its id alone, whatever became of it.
RecoverStale(w) ==
    /\ pc[w] = "stale"
    /\ rows' = [rows EXCEPT ![job[w].at][job[w].latest] = Recovered(@)]
    /\ Written(w, "insert")
    /\ UNCHANGED <<execution, requests>>

\* The insert, which the unique idempotency key refuses if the attempt exists.
InsertClaim(w) ==
    /\ pc[w] = "insert"
    /\ \/ /\ Len(rows[job[w].at]) < job[w].attempt
          /\ rows' = [rows EXCEPT ![job[w].at] = Append(@, Claimed(w, TRUE))]
          /\ Written(w, "rename")
       \/ /\ Len(rows[job[w].at]) >= job[w].attempt
          /\ Return(w)
          /\ UNCHANGED rows
    /\ UNCHANGED <<execution, requests>>

-----------------------------------------------------------------------------
(* The work of a claimed step, and its result                               *)

\* update_step matches the row by its id and the fencing token.
Holds(w) == rows[job[w].at][job[w].attempt].token = {w}

Update(w, status) ==
    rows' = [rows EXCEPT ![job[w].at][job[w].attempt].status = status,
                         ![job[w].at][job[w].attempt].named = TRUE]

\* The claimed row gets the name of its step.
Rename(w) ==
    /\ pc[w] = "rename"
    /\ \/ Holds(w) /\ Update(w, "in_progress") /\ Written(w, "work")
       \/ ~Holds(w) /\ UNCHANGED rows /\ Return(w)
    /\ UNCHANGED <<execution, requests>>

\* What a tool and _next_decision can answer.
Results(s) ==
    {o \in Outcomes :
        /\ o.decision \in {"FOLLOW_UP", "COMPLETE"} => o.success
        /\ o.decision \in {"WAIT_FOR_APPROVAL", "RETRY", "FAIL"} => ~o.success
        /\ o.decision = "FOLLOW_UP" => s < PlanLength}

\* _execute_tool; an approval request is created for the operation key of s.
Work(w) ==
    /\ pc[w] = "work"
    /\ \E o \in Results(job[w].at) :
          /\ job' = [job EXCEPT ![w].outcome = o]
          /\ \/ /\ \/ o.decision = "WAIT_FOR_APPROVAL"
                   \/ "db" \in Faults /\ o.decision \in {"RETRY", "FAIL"}   \* inserted, unanswered
                /\ requests' = [requests EXCEPT ![job[w].at] = @ + 1]
             \/ o.decision # "WAIT_FOR_APPROVAL" /\ UNCHANGED requests
    /\ Goto(w, "record")
    /\ UNCHANGED <<execution, rows>>

\* Mutant: the answer of update_step is not looked at.
RecordUnchecked(w) ==
    /\ pc[w] = "record"
    /\ \/ Holds(w) /\ Update(w, IF job[w].outcome.success THEN "completed" ELSE "failed")
       \/ ~Holds(w) /\ UNCHANGED rows
    /\ Written(w, "conclude")
    /\ UNCHANGED <<execution, requests>>

\* The result is recorded; a step that waits for an approval is recorded as failed.
Record(w) ==
    /\ pc[w] = "record"
    /\ \/ /\ Holds(w)
          /\ Update(w, IF job[w].outcome.success THEN "completed" ELSE "failed")
          /\ Written(w, "conclude")
       \/ /\ ~Holds(w)
          /\ UNCHANGED rows
          /\ Return(w)
    /\ UNCHANGED <<execution, requests>>

\* The status that the decision leaves the execution with.
Concluded(w) ==
    CASE job[w].outcome.decision = "COMPLETE"             -> "SUCCEEDED"
      [] job[w].outcome.decision = "WAIT_FOR_APPROVAL"    -> "WAITING_APPROVAL"
      [] job[w].outcome.decision = "WAIT_FOR_HUMAN_INPUT" -> "WAITING_INPUT"
      [] job[w].outcome.decision = "RETRY" /\ job[w].attempt <= RetryLimit -> "RETRYING"
      [] OTHER                                        -> "FAILED"

Conclude(w) ==
    /\ pc[w] = "conclude"
    /\ \/ /\ job[w].outcome.decision = "FOLLOW_UP"
          /\ Advance(w, job[w].at, job[w].done)
          /\ UNCHANGED execution
       \/ /\ job[w].outcome.decision # "FOLLOW_UP"
          /\ execution' = Concluded(w)
          /\ Return(w)
    /\ UNCHANGED <<rows, requests>>

-----------------------------------------------------------------------------
(* The environment                                                          *)

\* A statement of w fails unapplied: its run ends with an error.
StatementFails(w) ==
    /\ "db" \in Faults
    /\ pc[w] \notin {"idle", "claim", "work", "dead"}
    /\ Return(w)
    /\ UNCHANGED <<execution, rows, requests>>

\* A process dies, others live on.
Crash(w) ==
    /\ "crash" \in Faults
    /\ pc[w] \notin {"idle", "dead"}
    /\ \E v \in Workers \ {w} : pc[v] # "dead"
    /\ End(w, "dead")
    /\ UNCHANGED <<execution, rows, requests>>

\* 60 seconds pass since the latest claim.  The lease of attempt MaxAttempts never
\* expires: a bound of the model.
Expire(s) ==
    /\ rows[s] # <<>> /\ Len(rows[s]) < MaxAttempts
    /\ Last(s).status = "in_progress" /\ Last(s).live
    /\ rows' = [rows EXCEPT ![s][Len(rows[s])].live = FALSE]
    /\ UNCHANGED <<execution, requests, pc, job>>

Statement(w) ==
    \/ Run(w) \/ ClaimExecution(w) \/ LoadSteps(w) \/ MarkRunning(w) \/ Finish(w)
    \/ Plan(w) \/ Index(w) \/ ClaimStep(w)
    \/ ReadExisting(w) \/ ReadRelated(w) \/ RecoverStale(w) \/ InsertClaim(w)
    \/ Rename(w) \/ Work(w) \/ Record(w) \/ Conclude(w)

Next ==
    \/ \E w \in Workers : Statement(w) \/ StatementFails(w) \/ Crash(w)
    \/ \E s \in Steps : Expire(s)

Spec == Init /\ [][Next]_vars

\* A living worker goes on, and a mission that is not finished is run again.
FairSpec == Spec /\ \A w \in Workers : WF_vars(Statement(w))

-----------------------------------------------------------------------------
(* Properties                                                               *)

\* A step is claimed at most once at a time: only its latest attempt is ever in
\* progress, whoever races for it and however often leases expire.
OneLiveAttempt ==
    \A s \in Steps : \A i \in DOMAIN rows[s] :
        rows[s][i].status = "in_progress" => i = Len(rows[s])

\* Two workers never work on the same attempt, and one that works on an attempt
\* holds its fencing token until the attempt is recovered by another.
AttemptsAreOwned ==
    \A w \in Workers : pc[w] \in {"rename", "work", "record"} =>
        LET row == rows[job[w].at][job[w].attempt]
        IN row.token = {w} \/ (row.token = {} /\ row.status = "failed")

\* A step is not left behind: a run that reaches the end of the plan leaves every
\* step of it completed.
FinishMeansFinished ==
    \A w \in Workers : pc[w] = "finish" => Completed = Steps

\* The execution tells what was recorded: it has not succeeded unless a step is
\* completed, and does not wait for an approval that nobody was asked for.
ExecutionTellsTheTruth ==
    /\ execution = "SUCCEEDED" => Completed # {}
    /\ execution = "WAITING_APPROVAL" => \E s \in Steps : requests[s] > 0

\* Fencing: an attempt that was superseded is never written again, whatever its
\* worker still sends.
SupersededIsFrozen ==
    [][\A s \in Steps : \A i \in 1 .. (Len(rows[s]) - 1) : rows'[s][i] = rows[s][i]]_vars

\* What is completed stays completed, and is not attempted again.
CompletedIsFinal ==
    [][\A s \in Completed : rows'[s] = rows[s]]_vars

\* What the fallback of the claim RPC cannot take away: an attempt with a result keeps
\* it, however late a worker writes, whoever reads a row that changes before it acts.
\* The one exception is a completed attempt that a worker had read as a stale claim.
OutcomesAreFinal ==
    [][\A s \in Steps : \A i \in DOMAIN rows[s] :
        rows[s][i].status # "in_progress" /\ rows'[s][i].status # rows[s][i].status =>
            /\ rows[s][i].status = "completed"
            /\ \E w \in Workers : pc[w] = "stale" /\ job[w].at = s /\ job[w].latest = i]_vars

\* A worker that died after it named its row does not block the step: the claim is
\* recovered once its lease has expired.
NamedClaimsAreRecovered ==
    \A s \in Steps : (Stale(s) /\ Last(s).named) ~> ~Stale(s)

-----------------------------------------------------------------------------
(* The claims implement the log                                             *)

\* What the rows say of the attempts of each step.
Log == INSTANCE StepLog WITH log <- [s \in Steps |-> [i \in DOMAIN rows[s] |-> rows[s][i].status]]

\* Whoever races, crashes or comes late: the steps are attempted in the order of the
\* plan, one attempt at a time, and none again after it was completed.
ImplementsStepLog == Log!Spec
=============================================================================
