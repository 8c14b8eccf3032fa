------------------------ MODULE EmployeeEngineProofs ------------------------
(***************************************************************************)
(* Theorems about the employee engine, for every set of requests, every    *)
(* retry limit and every failure message.  None of the properties is       *)
(* inductive: Placed says what brought a request to where it is, and       *)
(* Claimed that an execution that waits was claimed before; for the keys,  *)
(* OwnKeys says which ones a request has used, and Recorded that a call    *)
(* leaves a claim behind, unless a statement failed.                       *)
(***************************************************************************)
EXTENDS EmployeeEngine, TLAPS

-----------------------------------------------------------------------------
(* The retry classifier                                                     *)

\* Where a message matches something, there is a group that is tried first.
LEMMA FirstMatch ==
    ASSUME NEW error \in SUBSET Patterns, error # {}
    PROVE  \E i \in 1..6 : Priority[i] \in error /\ \A j \in 1..(i - 1) : Priority[j] \notin error
  <1>. DEFINE First(i) == Priority[i] \in error /\ \A j \in 1..(i - 1) : Priority[j] \notin error
  <1>1. \/ "AUTHORIZATION" \in error \/ "TOOL_NOT_FOUND" \in error \/ "PERMANENT" \in error
        \/ "MISSING_INPUT" \in error \/ "EXECUTION" \in error \/ "TRANSIENT" \in error
    BY DEF Patterns
  <1>2. CASE "AUTHORIZATION" \in error
    <2>1. First(1)
      BY <1>2 DEF Priority
    <2>. QED  BY <2>1
  <1>3. CASE "AUTHORIZATION" \notin error /\ "TOOL_NOT_FOUND" \in error
    <2>1. First(2)
      BY <1>3 DEF Priority
    <2>. QED  BY <2>1
  <1>4. CASE {"AUTHORIZATION", "TOOL_NOT_FOUND"} \cap error = {} /\ "PERMANENT" \in error
    <2>1. First(3)
      BY <1>4 DEF Priority
    <2>. QED  BY <2>1
  <1>5. CASE {"AUTHORIZATION", "TOOL_NOT_FOUND", "PERMANENT"} \cap error = {} /\ "MISSING_INPUT" \in error
    <2>1. First(4)
      BY <1>5 DEF Priority
    <2>. QED  BY <2>1
  <1>6. CASE /\ {"AUTHORIZATION", "TOOL_NOT_FOUND", "PERMANENT", "MISSING_INPUT"} \cap error = {}
             /\ "EXECUTION" \in error
    <2>1. First(5)
      BY <1>6 DEF Priority
    <2>. QED  BY <2>1
  <1>7. CASE {"AUTHORIZATION", "TOOL_NOT_FOUND", "PERMANENT", "MISSING_INPUT", "EXECUTION"} \cap error = {}
    <2>1. First(6)
      BY <1>1, <1>7 DEF Priority
    <2>. QED  BY <2>1
  <1>. QED  BY <1>1, <1>2, <1>3, <1>4, <1>5, <1>6, <1>7

\* What classify_failure calls retryable matches nothing that is not.
LEMMA RetryableMatches ==
    ASSUME NEW error \in SUBSET Patterns, Classify(error) \in Retryable
    PROVE  error \subseteq {"EXECUTION", "TRANSIENT"}
  <1>1. CASE error = {}
    BY <1>1
  <1>2. CASE error # {}
    <2>. DEFINE First(i) == Priority[i] \in error /\ \A j \in 1..(i - 1) : Priority[j] \notin error
                k == CHOOSE i \in 1..6 : First(i)
    <2>1. k \in 1..6 /\ First(k)
      BY <1>2, FirstMatch
    <2>2. Priority[k] \in {"TRANSIENT", "EXECUTION", "VALIDATION"}
      BY <1>2 DEF Classify, Retryable
    <2>. HIDE DEF k
    <2>3. k \in {5, 6}
      BY <2>1, <2>2 DEF Priority
    <2>4. \A j \in 1..4 : Priority[j] \notin error
      BY <2>1, <2>3
    <2>5. {"AUTHORIZATION", "TOOL_NOT_FOUND", "PERMANENT", "MISSING_INPUT"} \cap error = {}
      BY <2>4 DEF Priority
    <2>. QED  BY <2>5 DEF Patterns
  <1>. QED  BY <1>1, <1>2

-----------------------------------------------------------------------------
(* The inductive invariant                                                  *)

\* What a request at statement p with the locals j stands for.
Fits(r, p, j) ==
    /\ p = "retry" => j.error \subseteq {"EXECUTION", "TRANSIENT"} /\ (j.known => j.attempt < MaxStepRetries)
    /\ p = "steps" => j.error = {}
    /\ p \in {"advance", "complete", "succeed"} => done \/ fault
    /\ p \in {"call", "pause", "unpause", "select"} => claims[j.exec] # {} \/ fault
    /\ p \in {"idle", "activate", "load", "create"} => ~execs[r].stored
    /\ j.exec = r \/ execs[j.exec].stored

Placed == \A r \in Requests : Fits(r, pc[r], job[r])

\* Only stored executions are found by others.
Listed == \A e \in latest : execs[e].stored

\* An execution waits because its step was tried.
Claimed == \A e \in Requests : execs[e].status \in {"WAITING_APPROVAL", "WAITING_INPUT"} => claims[e] # {} \/ fault

IInv == TypeOK /\ Placed /\ Listed /\ Claimed /\ CompletedMeansDone

-----------------------------------------------------------------------------
(* What one request does to its own state, and to the others                *)

\* Fits in the next state, for a statement and locals that are known now.
FitsNext(r, p, j) ==
    /\ p = "retry" => j.error \subseteq {"EXECUTION", "TRANSIENT"} /\ (j.known => j.attempt < MaxStepRetries)
    /\ p = "steps" => j.error = {}
    /\ p \in {"advance", "complete", "succeed"} => done' \/ fault'
    /\ p \in {"call", "pause", "unpause", "select"} => claims'[j.exec] # {} \/ fault'
    /\ p \in {"idle", "activate", "load", "create"} => ~execs'[r].stored
    /\ j.exec = r \/ execs'[j.exec].stored

\* What is done, stored or claimed, or has failed, stays so.
Grows ==
    /\ done => done'
    /\ fault => fault'
    /\ \A e \in Requests : claims[e] \subseteq claims'[e] /\ (execs[e].stored => execs'[e].stored)

\* A step of the plan has the type of the locals.
LEMMA PlanStepTyped ==
    ASSUME NEW e \in Requests, NEW n \in Nat
    PROVE  PlanStep(e, n) \in Job /\ PlanStep(e, n).attempt = 0 /\ PlanStep(e, n).known
           /\ PlanStep(e, n).exec = e /\ PlanStep(e, n).error = {}
  BY DEF PlanStep, Job

\* Going to a statement keeps the locals.
LEMMA GotoWorks ==
    ASSUME TypeOK, NEW r \in Requests, NEW p \in PCs, Goto(r, p)
    PROVE  Work(r, p, job[r]) /\ job[r] \in Job
  BY DEF Goto, Work, TypeOK

\* An answer ends the request, or hands the mission to its route.
LEMMA AnswerWorks ==
    ASSUME NEW r \in Requests, NEW success \in BOOLEAN, Answer(r, success)
    PROVE  \E p \in {"gone", "fail", "complete"} :
              Work(r, p, PlanStep(r, 0)) /\ (p = "complete" => success)
  BY DEF Answer, Leave

\* The program stays typed.
LEMMA WorkTyped ==
    ASSUME TypeOK, NEW r \in Requests, NEW p \in PCs, NEW j \in Job,
           j.known => j.attempt <= MaxStepRetries, Work(r, p, j)
    PROVE  /\ pc' \in [Requests -> PCs]
           /\ job' \in [Requests -> Job]
           /\ \A q \in Requests : job'[q].known => job'[q].attempt <= MaxStepRetries
  BY DEF TypeOK, Work

\* The others keep their place, whatever grows.
LEMMA PlacedNext ==
    ASSUME TypeOK, Placed, NEW r \in Requests, NEW p \in PCs, NEW j \in Job,
           Work(r, p, j), FitsNext(r, p, j), Grows,
           \A q \in Requests : q # r => execs'[q].stored = execs[q].stored
    PROVE  Placed'
  <1>. SUFFICES ASSUME NEW q \in Requests PROVE Fits(q, pc[q], job[q])'
    BY DEF Placed
  <1>1. CASE q = r
    <2>1. pc'[q] = p /\ job'[q] = j
      BY <1>1 DEF TypeOK, Work
    <2>. QED  BY <1>1, <2>1 DEF Fits, FitsNext
  <1>2. CASE q # r
    <2>1. pc'[q] = pc[q] /\ job'[q] = job[q]
      BY <1>2 DEF TypeOK, Work
    <2>2. Fits(q, pc[q], job[q])
      BY DEF Placed
    <2>3. job[q].exec \in Requests
      BY DEF TypeOK, Job
    <2>4. execs'[q].stored = execs[q].stored
      BY <1>2
    <2>. QED  BY <2>1, <2>2, <2>3, <2>4 DEF Fits, Grows
  <1>. QED  BY <1>1, <1>2

\* A step that leaves executions, claims and calls alone.
LEMMA Steady ==
    ASSUME IInv, NEW r \in Requests, NEW p \in PCs, NEW j \in Job,
           j.known => j.attempt <= MaxStepRetries, Work(r, p, j), FitsNext(r, p, j),
           UNCHANGED <<rigid, execs, latest, claims, past>>,
           fault' \in BOOLEAN, fault => fault',
           mission' \in {"pending", "active", "completed", "failed"},
           mission' = "completed" => mission = "completed" \/ done \/ fault
    PROVE  IInv'
  <1>1. TypeOK'
    BY WorkTyped DEF IInv, TypeOK, rigid, past
  <1>2. Placed'
    <2>1. Grows
      BY DEF Grows, past
    <2>. QED  BY <2>1, PlacedNext DEF IInv
  <1>3. Listed' /\ Claimed' /\ CompletedMeansDone'
    BY DEF IInv, Listed, Claimed, CompletedMeansDone, past
  <1>. QED  BY <1>1, <1>2, <1>3 DEF IInv

\* A step that updates the execution of its request.
LEMMA Updating ==
    ASSUME IInv, NEW r \in Requests, NEW p \in PCs, NEW j \in Job,
           j.known => j.attempt <= MaxStepRetries, Work(r, p, j), FitsNext(r, p, j),
           NEW x \in Execution, execs' = [execs EXCEPT ![job[r].exec] = x],
           x.stored = execs[job[r].exec].stored,
           x.status \in {"WAITING_APPROVAL", "WAITING_INPUT"} =>
               \/ claims[job[r].exec] # {} \/ fault
               \/ execs[job[r].exec].status \in {"WAITING_APPROVAL", "WAITING_INPUT"},
           UNCHANGED <<rigid, mission, latest, claims, past, fault>>
    PROVE  IInv'
  <1>. DEFINE e == job[r].exec
  <1>0. e \in Requests
    BY DEF IInv, TypeOK, Job
  <1>1. TypeOK'
    <2>1. execs' \in [Requests -> Execution]
      BY DEF IInv, TypeOK
    <2>. QED  BY <2>1, WorkTyped DEF IInv, TypeOK, rigid, past
  <1>2. \A q \in Requests : execs'[q].stored = execs[q].stored
    BY <1>0 DEF IInv, TypeOK
  <1>3. Placed'
    <2>1. Grows
      BY <1>2 DEF Grows, past
    <2>. QED  BY <1>2, <2>1, PlacedNext DEF IInv
  <1>4. Listed' /\ CompletedMeansDone'
    <2>1. latest \subseteq Requests
      BY DEF IInv, TypeOK
    <2>. QED  BY <1>2, <2>1 DEF IInv, Listed, CompletedMeansDone, past
  <1>5. Claimed'
    <2>. SUFFICES ASSUME NEW q \in Requests, execs'[q].status \in {"WAITING_APPROVAL", "WAITING_INPUT"}
                  PROVE  claims[q] # {} \/ fault
      BY DEF Claimed
    <2>1. CASE q = e
      <3>1. execs'[q] = x
        BY <2>1, <1>0 DEF IInv, TypeOK
      <3>. QED  BY <2>1, <3>1, <1>0 DEF IInv, Claimed
    <2>2. CASE q # e
      <3>1. execs'[q] = execs[q]
        BY <2>2 DEF IInv, TypeOK
      <3>. QED  BY <3>1 DEF IInv, Claimed
    <2>. QED  BY <2>1, <2>2
  <1>. QED  BY <1>1, <1>3, <1>4, <1>5 DEF IInv

\* So does one whose request ends, or goes on to its route.
LEMMA UpdatingAtTheEnd ==
    ASSUME IInv, NEW r \in Requests, NEW p \in PCs,
           Work(r, p, PlanStep(r, 0)), FitsNext(r, p, PlanStep(r, 0)),
           NEW x \in Execution, execs' = [execs EXCEPT ![job[r].exec] = x],
           x.stored = execs[job[r].exec].stored,
           x.status \in {"WAITING_APPROVAL", "WAITING_INPUT"} =>
               \/ claims[job[r].exec] # {} \/ fault
               \/ execs[job[r].exec].status \in {"WAITING_APPROVAL", "WAITING_INPUT"},
           UNCHANGED <<rigid, mission, latest, claims, past, fault>>
    PROVE  IInv'
  <1>. DEFINE j == PlanStep(r, 0)
  <1>1. j \in Job /\ (j.known => j.attempt <= MaxStepRetries)
    BY PlanStepTyped, ConstantsAssumption
  <1>2. Work(r, p, j) /\ FitsNext(r, p, j)
    OBVIOUS
  <1>. HIDE DEF j
  <1>. QED  BY <1>1, <1>2, Updating

\* The status of an execution is set, and nothing else of it.
LEMMA StatusSet ==
    ASSUME TypeOK, NEW r \in Requests, NEW v \in ExecutionStatuses, SetExecution(r, "status", v)
    PROVE  \E x \in Execution :
              /\ execs' = [execs EXCEPT ![job[r].exec] = x]
              /\ x.stored = execs[job[r].exec].stored /\ x.status = v
              /\ UNCHANGED fault
  <1>. DEFINE x == [execs[job[r].exec] EXCEPT !.status = v]
  <1>1. job[r].exec \in Requests
    BY DEF TypeOK, Job
  <1>2. x \in Execution /\ x.stored = execs[job[r].exec].stored /\ x.status = v
    BY <1>1 DEF TypeOK, Execution
  <1>3. execs' = [execs EXCEPT ![job[r].exec] = x] /\ UNCHANGED fault
    BY DEF SetExecution, Applied
  <1>. QED  BY <1>2, <1>3

\* The retry count of an execution is set, and nothing else of it.
LEMMA RetriesSet ==
    ASSUME TypeOK, NEW r \in Requests, NEW v \in Nat, SetExecution(r, "retries", v)
    PROVE  \E x \in Execution :
              /\ execs' = [execs EXCEPT ![job[r].exec] = x]
              /\ x.stored = execs[job[r].exec].stored /\ x.status = execs[job[r].exec].status
              /\ UNCHANGED fault
  <1>. DEFINE x == [execs[job[r].exec] EXCEPT !.retries = v]
  <1>1. job[r].exec \in Requests
    BY DEF TypeOK, Job
  <1>2. x \in Execution /\ x.stored = execs[job[r].exec].stored /\ x.status = execs[job[r].exec].status
    BY <1>1 DEF TypeOK, Execution
  <1>3. execs' = [execs EXCEPT ![job[r].exec] = x] /\ UNCHANGED fault
    BY DEF SetExecution, Applied
  <1>. QED  BY <1>2, <1>3

\* A request that ends, or answers that it failed, fits everywhere.
LEMMA EndFits ==
    ASSUME NEW r \in Requests, NEW p \in {"gone", "fail"}
    PROVE  FitsNext(r, p, PlanStep(r, 0))
  BY DEF FitsNext, PlanStep

\* So does one that goes to an ordinary statement with its locals.
LEMMA PlainFits ==
    ASSUME IInv, NEW r \in Requests, NEW p \in {"gone", "start", "claim", "giveup"},
           \A e \in Requests : execs[e].stored => execs'[e].stored
    PROVE  FitsNext(r, p, job[r])
  <1>1. job[r].exec = r \/ execs[job[r].exec].stored
    BY DEF IInv, Placed, Fits
  <1>2. job[r].exec \in Requests
    BY DEF IInv, TypeOK, Job
  <1>. QED  BY <1>1, <1>2 DEF FitsNext

-----------------------------------------------------------------------------
(* The statements                                                           *)

\* A request that begins changes at most the status of the mission.
LEMMA BeginKeeps ==
    ASSUME IInv, NEW r \in Requests, StartRoute(r) \/ ListPending(r) \/ Activate(r) \/ ResumeMission(r)
    PROVE  IInv'
  <1>1. pc[r] \in {"idle", "activate"} /\ UNCHANGED execs
    BY DEF StartRoute, ListPending, Activate, ResumeMission
  <1>2. ~execs[r].stored /\ (job[r].exec = r \/ execs[job[r].exec].stored)
    BY <1>1 DEF IInv, Placed, Fits
  <1>3. \A p \in {"load", "activate"} : FitsNext(r, p, job[r])
    BY <1>1, <1>2 DEF FitsNext
  <1>4. TypeOK /\ job[r] \in Job /\ (job[r].known => job[r].attempt <= MaxStepRetries) /\ fault \in BOOLEAN
    BY DEF IInv, TypeOK
  <1>5. \E p \in {"load", "activate", "gone"} :
           (p = "gone" /\ Work(r, p, PlanStep(r, 0))) \/ (p # "gone" /\ Work(r, p, job[r]))
    <2>1. \/ Goto(r, "load") \/ Goto(r, "activate") \/ Leave(r, "gone")
      BY DEF StartRoute, ListPending, Activate, ResumeMission
    <2>. QED  BY <2>1, <1>4, GotoWorks DEF Leave, PCs
  <1>6. /\ UNCHANGED <<rigid, execs, latest, claims, past>>
        /\ fault' \in BOOLEAN /\ (fault => fault')
        /\ mission' \in {"pending", "active", "completed", "failed"}
        /\ mission' = "completed" => mission = "completed"
    BY <1>4 DEF StartRoute, ListPending, Activate, ResumeMission, UpdateStatus, Applied, NotApplied,
                IInv, TypeOK
  <1>7. CASE Work(r, "gone", PlanStep(r, 0))
    BY <1>6, <1>7, EndFits, PlanStepTyped, Steady, ConstantsAssumption DEF PCs
  <1>8. ASSUME NEW p \in {"load", "activate"}, Work(r, p, job[r]) PROVE IInv'
    BY <1>3, <1>4, <1>6, <1>8, Steady DEF PCs
  <1>. QED  BY <1>5, <1>7, <1>8

\* Looking for an execution finds a stored one, or none.
LEMMA LoadKeeps == ASSUME IInv, NEW r \in Requests, Load(r) PROVE IInv'
  <1>0. TypeOK /\ job[r] \in Job /\ (job[r].known => job[r].attempt <= MaxStepRetries) /\ fault \in BOOLEAN
    BY DEF IInv, TypeOK
  <1>1. /\ UNCHANGED <<rigid, mission, execs, latest, claims, past>>
        /\ fault' \in BOOLEAN /\ (fault => fault')
    BY <1>0 DEF Load, Applied, NotApplied
  <1>2. mission' \in {"pending", "active", "completed", "failed"}
    BY <1>1 DEF IInv, TypeOK
  <1>3. CASE Goto(r, "create")
    <2>1. ~execs[r].stored /\ (job[r].exec = r \/ execs[job[r].exec].stored)
      BY DEF IInv, Placed, Fits, Load
    <2>2. FitsNext(r, "create", job[r])
      BY <1>1, <2>1 DEF FitsNext
    <2>3. Work(r, "create", job[r])
      BY <1>0, <1>3, GotoWorks DEF PCs
    <2>. QED  BY <1>0, <1>1, <1>2, <2>2, <2>3, Steady DEF PCs
  <1>4. CASE Answer(r, FALSE)
    <2>1. \E p \in {"gone", "fail"} : Work(r, p, PlanStep(r, 0))
      BY <1>4, AnswerWorks
    <2>. QED  BY <1>1, <1>2, <2>1, EndFits, PlanStepTyped, Steady, ConstantsAssumption DEF PCs
  <1>5. ASSUME NEW e \in Active, NEW p \in {"steps", "claim"}, Work(r, p, PlanStep(e, execs[e].retries))
        PROVE  IInv'
    <2>1. e \in Requests /\ execs[e].stored /\ execs[e].retries \in Nat
      BY DEF Active, IInv, TypeOK, Listed, Execution
    <2>2. FitsNext(r, p, PlanStep(e, execs[e].retries))
      BY <1>1, <2>1, PlanStepTyped DEF FitsNext
    <2>. QED  BY <1>1, <1>2, <1>5, <2>1, <2>2, PlanStepTyped, Steady, ConstantsAssumption DEF PCs
  <1>. QED  BY <1>3, <1>4, <1>5 DEF Load

\* A request that ends without writing anything but the mission.
LEMMA EndKeeps ==
    ASSUME IInv, NEW r \in Requests, NEW p \in {"gone", "fail"}, Work(r, p, PlanStep(r, 0)),
           UNCHANGED <<rigid, execs, latest, claims, past>>,
           fault' \in BOOLEAN, fault => fault',
           mission' \in {"pending", "active", "completed", "failed"},
           mission' = "completed" => mission = "completed" \/ done \/ fault
    PROVE  IInv'
  BY EndFits, PlanStepTyped, Steady, ConstantsAssumption DEF PCs

\* A statement that is not applied, and what the request does then.
LEMMA FailureKeeps ==
    ASSUME IInv, NEW r \in Requests, fault' = TRUE,
           UNCHANGED <<rigid, mission, execs, latest, claims, past>>,
           \/ Answer(r, FALSE) \/ Leave(r, "gone")
           \/ Goto(r, "advance") \/ Goto(r, "claim") \/ Goto(r, "call") \/ Goto(r, "succeed")
    PROVE  IInv'
  <1>0. TypeOK /\ job[r] \in Job /\ (job[r].known => job[r].attempt <= MaxStepRetries)
        /\ mission' \in {"pending", "active", "completed", "failed"}
    BY DEF IInv, TypeOK
  <1>1. CASE Answer(r, FALSE) \/ Leave(r, "gone")
    <2>1. \E p \in {"gone", "fail"} : Work(r, p, PlanStep(r, 0))
      BY <1>1, AnswerWorks DEF Leave
    <2>. QED  BY <1>0, <2>1, EndKeeps
  <1>2. ASSUME NEW p \in {"advance", "claim", "call", "succeed"}, Goto(r, p) PROVE IInv'
    <2>1. Work(r, p, job[r])
      BY <1>0, <1>2, GotoWorks DEF PCs
    <2>2. FitsNext(r, p, job[r])
      BY DEF FitsNext, IInv, Placed, Fits
    <2>. QED  BY <1>0, <2>1, <2>2, Steady DEF PCs
  <1>. QED  BY <1>1, <1>2

\* Creating an execution: only the request that creates it knows it, until it is
\* stored.
LEMMA CreateKeeps == ASSUME IInv, NEW r \in Requests, Create(r) PROVE IInv'
  <1>1. PICK stored \in BOOLEAN :
           /\ execs' = [execs EXCEPT ![r] = [status |-> "PENDING", retries |-> 0, stored |-> stored]]
           /\ latest' = IF stored THEN {r} ELSE latest
    BY DEF Create
  <1>2. /\ Work(r, "start", PlanStep(r, 0))
        /\ UNCHANGED <<rigid, mission, claims, past>>
        /\ fault' \in BOOLEAN /\ (fault => fault')
    BY DEF Create, Applied, NotApplied, IInv, TypeOK
  <1>3. ~execs[r].stored
    BY DEF Create, IInv, Placed, Fits
  <1>4. TypeOK'
    <2>1. [status |-> "PENDING", retries |-> 0, stored |-> stored] \in Execution
      BY DEF Execution, ExecutionStatuses
    <2>2. execs' \in [Requests -> Execution] /\ latest' \in SUBSET Requests
      BY <1>1, <2>1 DEF IInv, TypeOK
    <2>3. /\ pc' \in [Requests -> PCs] /\ job' \in [Requests -> Job]
          /\ \A q \in Requests : job'[q].known => job'[q].attempt <= MaxStepRetries
      BY <1>2, PlanStepTyped, WorkTyped, ConstantsAssumption DEF IInv, PCs
    <2>. QED  BY <1>2, <2>2, <2>3 DEF IInv, TypeOK, rigid, past
  <1>5. /\ \A q \in Requests : q # r => execs'[q] = execs[q]
        /\ execs'[r].stored = stored /\ execs'[r].status = "PENDING"
    BY <1>1 DEF IInv, TypeOK
  <1>6. Placed'
    <2>1. Grows
      BY <1>2, <1>3, <1>5 DEF Grows, past
    <2>2. FitsNext(r, "start", PlanStep(r, 0))
      BY DEF FitsNext, PlanStep
    <2>. QED  BY <1>2, <1>5, <2>1, <2>2, PlanStepTyped, PlacedNext DEF IInv, PCs
  <1>7. Listed'
    <2>1. latest \subseteq Requests
      BY DEF IInv, TypeOK
    <2>. QED  BY <1>1, <1>3, <1>5, <2>1 DEF IInv, Listed
  <1>8. Claimed' /\ CompletedMeansDone'
    BY <1>2, <1>5 DEF IInv, Claimed, CompletedMeansDone, past
  <1>. QED  BY <1>4, <1>6, <1>7, <1>8 DEF IInv

\* The statements that set the status of the execution and go on with it.
LEMMA SetStatusKeeps ==
    ASSUME IInv, NEW r \in Requests, Start(r) \/ Unpause(r) \/ MarkCompleted(r) \/ MarkFailed(r)
    PROVE  IInv'
  <1>0. TypeOK /\ job[r] \in Job /\ (job[r].known => job[r].attempt <= MaxStepRetries)
    BY DEF IInv, TypeOK
  <1>1. UNCHANGED <<rigid, mission, latest, claims, past>>
    BY DEF Start, Unpause, MarkCompleted, MarkFailed
  <1>2. CASE UpdateFails(r)
    <2>1. Answer(r, FALSE) \/ Leave(r, "gone") \/ Goto(r, "claim") \/ Goto(r, "select") \/ Leave(r, "complete")
      BY DEF Start, Unpause, MarkCompleted, MarkFailed
    <2>2. fault' = TRUE /\ UNCHANGED execs
      BY <1>2 DEF UpdateFails, NotApplied
    <2>3. mission' \in {"pending", "active", "completed", "failed"}
      BY <1>1 DEF IInv, TypeOK
    <2>4. ASSUME NEW p \in {"claim", "select"}, Goto(r, p) PROVE IInv'
      <3>1. Work(r, p, job[r])
        BY <1>0, <2>4, GotoWorks DEF PCs
      <3>2. FitsNext(r, p, job[r])
        BY <2>2 DEF FitsNext, IInv, Placed, Fits
      <3>. QED  BY <1>0, <1>1, <2>2, <2>3, <3>1, <3>2, Steady DEF PCs
    <2>5. CASE Leave(r, "complete")
      <3>1. FitsNext(r, "complete", PlanStep(r, 0))
        BY <2>2 DEF FitsNext, PlanStep
      <3>. QED  BY <1>1, <2>2, <2>3, <2>5, <3>1, PlanStepTyped, Steady, ConstantsAssumption DEF Leave, PCs
    <2>. QED  BY <1>1, <2>1, <2>2, <2>4, <2>5, FailureKeeps
  <1>3. ASSUME NEW v \in {"RUNNING", "SUCCEEDED", "FAILED"}, SetExecution(r, "status", v)
        PROVE  IInv'
    <2>1. PICK x \in Execution :
             /\ execs' = [execs EXCEPT ![job[r].exec] = x]
             /\ x.stored = execs[job[r].exec].stored /\ x.status = v
             /\ UNCHANGED fault
      BY <1>0, <1>3, StatusSet DEF ExecutionStatuses, Terminal
    <2>2. \A e \in Requests : execs[e].stored => execs'[e].stored
      BY <1>0, <2>1 DEF TypeOK
    <2>3. ASSUME NEW p \in PCs, NEW j \in Job, j.known => j.attempt <= MaxStepRetries,
                 Work(r, p, j), FitsNext(r, p, j)
          PROVE  IInv'
      BY <1>1, <2>1, <2>3, Updating
    <2>4. CASE Start(r) /\ Goto(r, "claim")
      BY <1>0, <2>2, <2>3, <2>4, PlainFits, GotoWorks DEF PCs
    <2>5. CASE Unpause(r) /\ Goto(r, "select")
      <3>1. claims[job[r].exec] # {} \/ fault
        BY <2>5 DEF Unpause, IInv, Placed, Fits
      <3>2. FitsNext(r, "select", job[r])
        <4>1. job[r].exec = r \/ execs[job[r].exec].stored
          BY DEF IInv, Placed, Fits
        <4>2. job[r].exec \in Requests
          BY <1>0 DEF Job
        <4>. QED  BY <1>1, <2>1, <2>2, <3>1, <4>1, <4>2 DEF FitsNext
      <3>. QED  BY <1>0, <2>3, <2>5, <3>2, GotoWorks DEF PCs
    <2>6. CASE MarkCompleted(r) /\ Leave(r, "complete")
      <3>1. done \/ fault
        BY <2>6 DEF MarkCompleted, IInv, Placed, Fits
      <3>2. FitsNext(r, "complete", PlanStep(r, 0))
        BY <1>1, <2>1, <3>1 DEF FitsNext, PlanStep, past
      <3>. QED  BY <2>3, <2>6, <3>2, PlanStepTyped, ConstantsAssumption DEF Leave, PCs
    <2>7. CASE Answer(r, FALSE) \/ Leave(r, "gone")
      <3>1. \E p \in {"gone", "fail"} : Work(r, p, PlanStep(r, 0))
        BY <2>7, AnswerWorks DEF Leave
      <3>. QED  BY <2>3, <3>1, EndFits, PlanStepTyped, ConstantsAssumption DEF PCs
    <2>. QED  BY <2>4, <2>5, <2>6, <2>7 DEF Start, Unpause, MarkCompleted, MarkFailed
  <1>. QED  BY <1>2, <1>3 DEF Start, Unpause, MarkCompleted, MarkFailed

\* The recovery of an execution that was left RUNNING.
LEMMA AmbiguousKeeps == ASSUME IInv, NEW r \in Requests, HandleAmbiguousRunning(r) PROVE IInv'
  <1>0. /\ TypeOK /\ job[r] \in Job /\ (job[r].known => job[r].attempt <= MaxStepRetries)
        /\ job[r].exec \in Requests
    BY DEF IInv, TypeOK, Job
  <1>1. /\ UNCHANGED <<rigid, mission, execs, latest, claims, past>>
        /\ mission' \in {"pending", "active", "completed", "failed"}
        /\ fault' \in BOOLEAN /\ (fault => fault')
    BY DEF HandleAmbiguousRunning, Applied, NotApplied, IInv, TypeOK
  <1>2. CASE Goto(r, "claim")
    BY <1>0, <1>1, <1>2, PlainFits, GotoWorks, Steady DEF PCs
  <1>3. ASSUME NEW last \in claims[job[r].exec],
               Work(r, "retry", [job[r] EXCEPT !.attempt = last, !.known = FALSE])
        PROVE  IInv'
    <2>. DEFINE j == [job[r] EXCEPT !.attempt = last, !.known = FALSE]
    <2>1. last \in Nat
      BY <1>0 DEF TypeOK
    <2>2. j \in Job /\ ~j.known /\ j.exec = job[r].exec /\ j.error = job[r].error
      BY <1>0, <2>1 DEF Job
    <2>3. job[r].error = {} /\ (job[r].exec = r \/ execs[job[r].exec].stored)
      <3>1. pc[r] = "steps"
        BY DEF HandleAmbiguousRunning
      <3>. QED  BY <3>1 DEF IInv, Placed, Fits
    <2>. HIDE DEF j
    <2>4. FitsNext(r, "retry", j)
      BY <1>1, <2>2, <2>3 DEF FitsNext
    <2>5. Work(r, "retry", j)
      BY <1>3 DEF j
    <2>. QED  BY <1>1, <2>2, <2>4, <2>5, Steady DEF PCs
  <1>. QED  BY <1>2, <1>3 DEF HandleAmbiguousRunning

\* A claim: claims only grow.
LEMMA ClaimKeeps == ASSUME IInv, NEW r \in Requests, ClaimStep(r) PROVE IInv'
  <1>0. /\ TypeOK /\ job[r] \in Job /\ (job[r].known => job[r].attempt <= MaxStepRetries)
        /\ job[r].exec \in Requests /\ job[r].attempt \in Nat
    BY DEF IInv, TypeOK, Job
  <1>1. UNCHANGED <<rigid, mission, execs, latest, past>> /\ Goto(r, "call")
    BY DEF ClaimStep
  <1>2. CASE NotApplied /\ UNCHANGED claims
    BY <1>1, <1>2, FailureKeeps DEF NotApplied
  <1>3. CASE claims' = [claims EXCEPT ![job[r].exec] = @ \cup {job[r].attempt}] /\ Applied
    <2>1. Work(r, "call", job[r])
      BY <1>0, <1>1, GotoWorks DEF PCs
    <2>2. /\ claims' \in [Requests -> SUBSET Nat]
          /\ \A e \in Requests : claims[e] \subseteq claims'[e]
          /\ claims'[job[r].exec] # {}
      BY <1>0, <1>3 DEF TypeOK
    <2>3. TypeOK'
      <3>1. /\ pc' \in [Requests -> PCs] /\ job' \in [Requests -> Job]
            /\ \A q \in Requests : job'[q].known => job'[q].attempt <= MaxStepRetries
        BY <1>0, <2>1, WorkTyped DEF PCs
      <3>. QED  BY <1>0, <1>1, <1>3, <2>2, <3>1 DEF TypeOK, Applied, rigid, past
    <2>4. Placed'
      <3>1. Grows
        BY <1>1, <1>3, <2>2 DEF Grows, Applied, past
      <3>2. FitsNext(r, "call", job[r])
        <4>1. job[r].exec = r \/ execs[job[r].exec].stored
          BY DEF IInv, Placed, Fits
        <4>. QED  BY <1>1, <2>2, <4>1 DEF FitsNext
      <3>. QED  BY <1>0, <1>1, <2>1, <3>1, <3>2, PlacedNext DEF IInv, PCs
    <2>5. Claimed'
      BY <1>1, <1>3, <2>2 DEF IInv, Claimed, Applied
    <2>6. Listed' /\ CompletedMeansDone'
      BY <1>1, <1>3 DEF IInv, Listed, CompletedMeansDone, Applied, past
    <2>. QED  BY <2>3, <2>4, <2>5, <2>6 DEF IInv
  <1>. QED  BY <1>2, <1>3 DEF ClaimStep

\* A call of the tool, under the keys of an execution the request may use.
LEMMA CallKeeps ==
    ASSUME IInv, NEW r \in Requests, NEW p \in PCs, NEW j \in Job,
           j.known => j.attempt <= MaxStepRetries, Work(r, p, j), FitsNext(r, p, j), Called(r),
           UNCHANGED <<rigid, mission, execs, latest, claims, fault>>,
           done' \in BOOLEAN, done => done'
    PROVE  IInv'
  <1>0. job[r].exec \in Requests /\ (job[r].exec = r \/ execs[job[r].exec].stored)
    BY DEF IInv, TypeOK, Job, Placed, Fits
  <1>1. calls' = [calls EXCEPT ![job[r].exec][job[r].attempt] = @ \cup {r}]
    BY DEF Called
  <1>2. TypeOK'
    <2>1. calls' \in [Requests -> [0..MaxStepRetries -> SUBSET Requests]]
      BY <1>0, <1>1 DEF IInv, TypeOK
    <2>. QED  BY <2>1, WorkTyped DEF IInv, TypeOK, rigid
  <1>3. Placed'
    <2>1. Grows
      BY DEF Grows
    <2>. QED  BY <2>1, PlacedNext DEF IInv
  <1>4. Listed' /\ Claimed' /\ CompletedMeansDone'
    BY DEF IInv, Listed, Claimed, CompletedMeansDone
  <1>. QED  BY <1>2, <1>3, <1>4 DEF IInv

\* The tool answers, and its failure is classified.
LEMMA ExecuteKeeps == ASSUME IInv, NEW r \in Requests, ExecuteStep(r) PROVE IInv'
  <1>0. /\ TypeOK /\ job[r] \in Job /\ (job[r].known => job[r].attempt <= MaxStepRetries)
        /\ mission' \in {"pending", "active", "completed", "failed"}
        /\ fault \in BOOLEAN /\ done \in BOOLEAN
    BY DEF IInv, TypeOK, ExecuteStep
  <1>1. UNCHANGED <<rigid, mission, execs, latest, claims, fault>>
    BY DEF ExecuteStep
  <1>2. /\ job[r].exec = r \/ execs[job[r].exec].stored
        /\ claims[job[r].exec] # {} \/ fault
    BY DEF ExecuteStep, IInv, Placed, Fits
  <1>3. CASE job[r].known /\ Succeeds(r)
    <2>1. FitsNext(r, "advance", job[r])
      BY <1>1, <1>2, <1>3 DEF FitsNext, Succeeds
    <2>2. Work(r, "advance", job[r])
      BY <1>0, <1>3, GotoWorks DEF Succeeds, PCs
    <2>. QED  BY <1>0, <1>1, <1>3, <2>1, <2>2, CallKeeps DEF Succeeds, PCs
  <1>4. CASE job[r].known /\ Waits(r)
    <2>1. PICK pause \in {"WAITING_APPROVAL", "WAITING_HUMAN"} :
             Work(r, "pause", [job[r] EXCEPT !.pause = pause])
      BY <1>4 DEF Waits
    <2>. DEFINE j == [job[r] EXCEPT !.pause = pause]
    <2>2. j \in Job /\ j.known = job[r].known /\ j.attempt = job[r].attempt /\ j.exec = job[r].exec
      BY <1>0 DEF Job
    <2>3. Work(r, "pause", j)
      BY <2>1
    <2>. HIDE DEF j
    <2>4. FitsNext(r, "pause", j)
      BY <1>1, <1>2, <2>2 DEF FitsNext
    <2>. QED  BY <1>0, <1>1, <1>4, <2>2, <2>3, <2>4, Steady DEF Waits, PCs
  <1>5. ASSUME job[r].known, NEW error \in Errors, Fails(r, error) PROVE IInv'
    <2>. DEFINE failed == [job[r] EXCEPT !.error = error]
                paused == [failed EXCEPT !.pause = "WAITING_INPUT"]
    <2>0. error \in SUBSET Patterns
      BY ConstantsAssumption
    <2>1. failed \in Job /\ failed.known /\ failed.attempt = job[r].attempt
          /\ failed.exec = job[r].exec /\ failed.error = error
      BY <1>0, <1>5, <2>0 DEF Job
    <2>2. paused \in Job /\ paused.known /\ paused.attempt = job[r].attempt /\ paused.exec = job[r].exec
      BY <1>0, <1>5, <2>0 DEF Job
    <2>3. \/ Classify(error) \in Retryable /\ CanRetryStep(job[r].attempt) /\ Work(r, "retry", failed)
          \/ Work(r, "pause", paused)
          \/ Answer(r, FALSE)
      BY <1>5 DEF Fails, HandleStepFailure
    <2>. HIDE DEF failed, paused
    <2>4. ASSUME NEW p \in PCs, NEW j \in Job, j.known => j.attempt <= MaxStepRetries,
                 Work(r, p, j), FitsNext(r, p, j)
          PROVE  IInv'
      BY <1>0, <1>1, <1>5, <2>4, CallKeeps DEF Fails
    <2>5. CASE Classify(error) \in Retryable /\ CanRetryStep(job[r].attempt) /\ Work(r, "retry", failed)
      <3>1. error \subseteq {"EXECUTION", "TRANSIENT"}
        BY <2>0, <2>5, RetryableMatches
      <3>2. FitsNext(r, "retry", failed)
        BY <1>1, <1>2, <2>1, <2>5, <3>1 DEF FitsNext, CanRetryStep
      <3>. QED  BY <1>0, <1>5, <2>1, <2>4, <2>5, <3>2 DEF PCs
    <2>6. CASE Work(r, "pause", paused)
      <3>1. FitsNext(r, "pause", paused)
        BY <1>1, <1>2, <2>2 DEF FitsNext
      <3>. QED  BY <1>0, <1>5, <2>2, <2>4, <2>6, <3>1 DEF PCs
    <2>7. CASE Answer(r, FALSE)
      <3>1. \E p \in {"gone", "fail"} : Work(r, p, PlanStep(r, 0))
        BY <2>7, AnswerWorks
      <3>. QED  BY <2>4, <3>1, EndFits, PlanStepTyped, ConstantsAssumption DEF PCs
    <2>. QED  BY <2>3, <2>5, <2>6, <2>7
  <1>6. CASE UnknownTool(r)
    <2>1. \E p \in {"gone", "fail"} : Work(r, p, PlanStep(r, 0))
      BY <1>6, AnswerWorks DEF UnknownTool
    <2>. QED  BY <1>0, <1>1, <1>6, <2>1, EndKeeps DEF UnknownTool
  <1>. QED  BY <1>3, <1>4, <1>5, <1>6 DEF ExecuteStep

\* A retry counts, or its failed update ends the step.
LEMMA RetryKeeps == ASSUME IInv, NEW r \in Requests, RetryStep(r) PROVE IInv'
  <1>. DEFINE j == [job[r] EXCEPT !.attempt = @ + 1, !.error = {}]
  <1>0. /\ TypeOK /\ job[r] \in Job /\ (job[r].known => job[r].attempt < MaxStepRetries)
        /\ job[r].attempt \in Nat /\ job[r].retries \in Nat /\ job[r].exec \in Requests
        /\ job[r].exec = r \/ execs[job[r].exec].stored
    BY DEF IInv, TypeOK, Job, Placed, Fits, RetryStep
  <1>1. UNCHANGED <<rigid, mission, latest, claims, past>>
    BY DEF RetryStep
  <1>2. CASE UpdateFails(r) /\ (Goto(r, "advance") \/ Answer(r, FALSE))
    BY <1>1, <1>2, FailureKeeps DEF UpdateFails, NotApplied
  <1>3. CASE SetExecution(r, "retries", job[r].retries + 1) /\ Work(r, "claim", j)
    <2>1. PICK x \in Execution :
             /\ execs' = [execs EXCEPT ![job[r].exec] = x]
             /\ x.stored = execs[job[r].exec].stored /\ x.status = execs[job[r].exec].status
             /\ UNCHANGED fault
      BY <1>0, <1>3, RetriesSet
    <2>2. j \in Job /\ (j.known => j.attempt <= MaxStepRetries) /\ j.exec = job[r].exec
      <3>1. /\ j.attempt = job[r].attempt + 1 /\ j.error = {} /\ j.known = job[r].known
            /\ j.exec = job[r].exec
        BY <1>0 DEF Job
      <3>2. j \in Job
        <4>1. PICK l \in Job : l = job[r]
          BY <1>0
        <4>2. l.attempt + 1 \in Nat
          BY DEF Job
        <4>3. \A n \in Nat : [l EXCEPT !.attempt = n] \in Job
          BY DEF Job
        <4>4. \A k \in Job : [k EXCEPT !.error = {}] \in Job
          BY DEF Job
        <4>5. j = [[l EXCEPT !.attempt = l.attempt + 1] EXCEPT !.error = {}]
          BY <4>1
        <4>. QED  BY <4>2, <4>3, <4>4, <4>5
      <3>. HIDE DEF j
      <3>. QED  BY <1>0, <3>1, <3>2, ConstantsAssumption
    <2>3. Work(r, "claim", j)
      BY <1>3
    <2>. HIDE DEF j
    <2>4. FitsNext(r, "claim", j)
      BY <1>0, <2>1, <2>2 DEF FitsNext, TypeOK
    <2>. QED  BY <1>1, <2>1, <2>2, <2>3, <2>4, Updating DEF PCs
  <1>. QED  BY <1>1, <1>2, <1>3 DEF RetryStep

\* A pause is written, or its failed update counts as a step that was executed.
LEMMA PauseKeeps == ASSUME IInv, NEW r \in Requests, Pause(r) PROVE IInv'
  <1>. DEFINE v == IF job[r].pause = "WAITING_APPROVAL" THEN "WAITING_APPROVAL" ELSE "WAITING_INPUT"
  <1>0. /\ TypeOK
        /\ claims[job[r].exec] # {} \/ fault
    BY DEF IInv, Placed, Fits, Pause
  <1>1. UNCHANGED <<rigid, mission, latest, claims, past>>
    BY DEF Pause
  <1>2. CASE UpdateFails(r) /\ (Goto(r, "advance") \/ Answer(r, FALSE))
    BY <1>1, <1>2, FailureKeeps DEF UpdateFails, NotApplied
  <1>3. CASE SetExecution(r, "status", v) /\ Answer(r, FALSE)
    <2>1. PICK x \in Execution :
             /\ execs' = [execs EXCEPT ![job[r].exec] = x]
             /\ x.stored = execs[job[r].exec].stored
             /\ UNCHANGED fault
      BY <1>0, <1>3, StatusSet DEF ExecutionStatuses
    <2>2. PICK p \in {"gone", "fail"} : Work(r, p, PlanStep(r, 0))
      BY <1>3, AnswerWorks
    <2>3. FitsNext(r, p, PlanStep(r, 0))
      BY EndFits
    <2>4. claims[job[r].exec] # {} \/ fault
      BY <1>0
    <2>. QED  BY <1>1, <2>1, <2>2, <2>3, <2>4, UpdatingAtTheEnd DEF PCs
  <1>. QED  BY <1>2, <1>3 DEF Pause

\* The end of a step that was executed.
LEMMA AdvanceKeeps == ASSUME IInv, NEW r \in Requests, Advance(r) PROVE IInv'
  <1>0. /\ TypeOK /\ job[r].retries \in Nat /\ job[r].exec \in Requests
        /\ done \/ fault
    BY DEF IInv, TypeOK, Job, Placed, Fits, Advance
  <1>1. UNCHANGED <<rigid, mission, latest, claims, past>>
    BY DEF Advance
  <1>2. CASE UpdateFails(r) /\ Answer(r, FALSE)
    BY <1>1, <1>2, FailureKeeps DEF UpdateFails, NotApplied
  <1>3. CASE SetExecution(r, "retries", job[r].retries) /\ Answer(r, TRUE)
    <2>1. PICK x \in Execution :
             /\ execs' = [execs EXCEPT ![job[r].exec] = x]
             /\ x.stored = execs[job[r].exec].stored /\ x.status = execs[job[r].exec].status
             /\ UNCHANGED fault
      BY <1>0, <1>3, RetriesSet
    <2>2. PICK p \in {"gone", "fail", "complete"} : Work(r, p, PlanStep(r, 0))
      BY <1>3, AnswerWorks
    <2>3. FitsNext(r, p, PlanStep(r, 0))
      BY <1>0, <1>1, <2>1 DEF FitsNext, PlanStep, past
    <2>4. x.status \in {"WAITING_APPROVAL", "WAITING_INPUT"} =>
             execs[job[r].exec].status \in {"WAITING_APPROVAL", "WAITING_INPUT"}
      BY <2>1
    <2>. QED  BY <1>1, <2>1, <2>2, <2>3, <2>4, UpdatingAtTheEnd DEF PCs
  <1>. QED  BY <1>2, <1>3 DEF Advance

\* The routes write what the engine answered.
LEMMA OutcomeKeeps ==
    ASSUME IInv, NEW r \in Requests, CompleteMission(r) \/ FailMission(r)
    PROVE  IInv'
  <1>1. pc[r] = "complete" => done \/ fault
    BY DEF IInv, Placed, Fits
  <1>2. /\ UNCHANGED <<rigid, execs, latest, claims, past>>
        /\ fault' \in BOOLEAN /\ (fault => fault')
        /\ mission' \in {"pending", "active", "completed", "failed"}
        /\ mission' = "completed" => mission = "completed" \/ done \/ fault
    BY <1>1 DEF CompleteMission, FailMission, UpdateStatus, Applied, NotApplied, IInv, TypeOK
  <1>3. Work(r, "gone", PlanStep(r, 0))
    BY DEF CompleteMission, FailMission, Leave
  <1>. QED  BY <1>2, <1>3, EndKeeps

\* A resume after an approval: the execution waits, so it was claimed.
LEMMA ApprovedKeeps ==
    ASSUME IInv, NEW r \in Requests, ResumeAfterApproval(r)
    PROVE  IInv'
  <1>1. PICK e \in Requests :
           /\ execs[e].stored /\ execs[e].status = "WAITING_APPROVAL"
           /\ Work(r, "unpause", PlanStep(e, 0))
    BY DEF ResumeAfterApproval
  <1>2. UNCHANGED <<rigid, mission, execs, latest, claims, past, fault>>
    BY DEF ResumeAfterApproval
  <1>3. claims[e] # {} \/ fault
    BY <1>1 DEF IInv, Claimed
  <1>4. FitsNext(r, "unpause", PlanStep(e, 0))
    BY <1>1, <1>2, <1>3, PlanStepTyped DEF FitsNext
  <1>5. /\ PlanStep(e, 0) \in Job
        /\ PlanStep(e, 0).known => PlanStep(e, 0).attempt <= MaxStepRetries
    BY PlanStepTyped, ConstantsAssumption
  <1>6. /\ fault' \in BOOLEAN /\ (fault => fault')
        /\ mission' \in {"pending", "active", "completed", "failed"}
        /\ mission' = "completed" => mission = "completed"
    BY <1>2 DEF IInv, TypeOK
  <1>. DEFINE j == PlanStep(e, 0)
  <1>7. j \in Job /\ (j.known => j.attempt <= MaxStepRetries) /\ Work(r, "unpause", j)
        /\ FitsNext(r, "unpause", j)
    BY <1>1, <1>4, <1>5
  <1>. HIDE DEF j
  <1>. QED  BY <1>2, <1>6, <1>7, Steady DEF PCs

\* Without a claim the plan would count as completed: only a failed read makes it so.
LEMMA CompletionKeeps ==
    ASSUME IInv, NEW r \in Requests, HandleMissionCompletion(r)
    PROVE  IInv'
  <1>0. /\ TypeOK /\ job[r] \in Job /\ (job[r].known => job[r].attempt <= MaxStepRetries)
        /\ fault \in BOOLEAN
    BY DEF IInv, TypeOK
  <1>1. /\ UNCHANGED <<rigid, mission, execs, latest, claims, past>>
        /\ mission' \in {"pending", "active", "completed", "failed"}
    BY <1>0 DEF HandleMissionCompletion, TypeOK
  <1>2. claims[job[r].exec] # {} \/ fault
    BY DEF HandleMissionCompletion, IInv, Placed, Fits
  <1>3. CASE Goto(r, "giveup") /\ Applied
    BY <1>0, <1>1, <1>3, PlainFits, GotoWorks, Steady DEF Applied, PCs
  <1>4. CASE Goto(r, "succeed") /\ fault'
    <2>1. FitsNext(r, "succeed", job[r])
      BY <1>1, <1>4 DEF FitsNext, IInv, Placed, Fits
    <2>2. fault' \in BOOLEAN
      BY <1>0 DEF HandleMissionCompletion, Applied, NotApplied
    <2>. QED  BY <1>0, <1>1, <1>4, <2>1, <2>2, GotoWorks, Steady DEF PCs
  <1>. QED  BY <1>2, <1>3, <1>4 DEF HandleMissionCompletion, Applied, NotApplied

\* A process that dies writes nothing.
LEMMA CrashKeeps == ASSUME IInv, NEW r \in Requests, Crash(r) PROVE IInv'
  BY EndKeeps DEF Crash, Leave, IInv, TypeOK

-----------------------------------------------------------------------------
(* The theorems                                                             *)

\* The invariant holds at the start.
LEMMA InitHolds == ASSUME Init PROVE IInv
  <1>1. TypeOK
    <2>1. execs \in [Requests -> Execution] /\ latest \in SUBSET Requests /\ claims \in [Requests -> SUBSET Nat]
      BY DEF Init, Execution, ExecutionStatuses
    <2>2. /\ pc \in [Requests -> PCs] /\ job \in [Requests -> Job]
          /\ \A r \in Requests : job[r].known => job[r].attempt <= MaxStepRetries
      BY PlanStepTyped, ConstantsAssumption DEF Init, PCs
    <2>3. calls \in [Requests -> [0..MaxStepRetries -> SUBSET Requests]]
      BY DEF Init
    <2>4. /\ kind \in [Requests -> Kinds] /\ accepts \in BOOLEAN /\ done \in BOOLEAN /\ fault \in BOOLEAN
          /\ mission \in {"pending", "active", "completed", "failed"}
      BY DEF Init
    <2>. QED  BY <2>1, <2>2, <2>3, <2>4 DEF TypeOK
  <1>2. Placed
    BY PlanStepTyped DEF Init, Placed, Fits
  <1>. QED  BY <1>1, <1>2 DEF Init, IInv, Listed, Claimed, CompletedMeansDone

\* Every step keeps it.
LEMMA StepHolds == ASSUME IInv, [Next]_vars PROVE IInv'
  <1>1. ASSUME NEW r \in Requests,
               \/ StartRoute(r) \/ ListPending(r) \/ ResumeMission(r) \/ ResumeAfterApproval(r)
               \/ Proceed(r) \/ Crash(r)
        PROVE  IInv'
    <2>1. CASE StartRoute(r) \/ ListPending(r) \/ ResumeMission(r) \/ Activate(r)
      BY <2>1, BeginKeeps
    <2>2. CASE ResumeAfterApproval(r) \/ HandleMissionCompletion(r)
      BY <2>2, ApprovedKeeps, CompletionKeeps
    <2>3. CASE Load(r) \/ Create(r) \/ HandleAmbiguousRunning(r)
      BY <2>3, LoadKeeps, CreateKeeps, AmbiguousKeeps
    <2>4. CASE Start(r) \/ Unpause(r) \/ MarkCompleted(r) \/ MarkFailed(r)
      BY <2>4, SetStatusKeeps
    <2>5. CASE ClaimStep(r) \/ ExecuteStep(r) \/ RetryStep(r) \/ Pause(r) \/ Advance(r)
      BY <2>5, ClaimKeeps, ExecuteKeeps, RetryKeeps, PauseKeeps, AdvanceKeeps
    <2>6. CASE CompleteMission(r) \/ FailMission(r) \/ Crash(r)
      BY <2>6, OutcomeKeeps, CrashKeeps
    <2>. QED  BY <1>1, <2>1, <2>2, <2>3, <2>4, <2>5, <2>6 DEF Proceed
  <1>2. CASE UNCHANGED vars
    BY <1>2 DEF vars, IInv, TypeOK, Placed, Fits, Listed, Claimed, CompletedMeansDone
  <1>. QED  BY <1>1, <1>2 DEF Next

\* The invariant holds always.
LEMMA Invariant == Spec => []IInv
  <1>1. Init => IInv
    BY InitHolds
  <1>2. IInv /\ [Next]_vars => IInv'
    BY StepHolds
  <1>. QED  BY <1>1, <1>2, PTL DEF Spec

\* Executions, claims and requests keep their types; a step of the plan is tried at
\* most MaxStepRetries times more.
THEOREM EngineTypeCorrect == Spec => []TypeOK
  <1>1. IInv => TypeOK
    BY DEF IInv
  <1>. QED  BY <1>1, Invariant, PTL

\* Where no statement failed, a completed mission has had its tool succeed.
THEOREM CompletedMeansDoneAlways == Spec => []CompletedMeansDone
  <1>1. IInv => CompletedMeansDone
    BY DEF IInv
  <1>. QED  BY <1>1, Invariant, PTL

\* Whatever a message matches, only temporary and execution failures are retried.
THEOREM OnlyRetryablesAreRetriedAlways == Spec => []OnlyRetryablesAreRetried
  <1>1. IInv => OnlyRetryablesAreRetried
    BY DEF IInv, Placed, Fits, OnlyRetryablesAreRetried
  <1>. QED  BY <1>1, Invariant, PTL


-----------------------------------------------------------------------------
(* The keys                                                                 *)

\* The attempts of e that r has called the tool for.
Used(r, e) == {n \in 0..MaxStepRetries : r \in calls[e][n]}

\* What a request at statement p with the locals j has called the tool for.
Unspent(r, p, j) ==
    /\ p \in {"idle", "activate", "load", "create", "start", "steps"} =>
          \A e \in Requests : Used(r, e) = {}
    /\ p \in {"claim", "call"} /\ j.known => \A n \in Used(r, j.exec) : n < j.attempt
    /\ p = "retry" /\ j.known => \A n \in Used(r, j.exec) : n <= j.attempt

OwnKeys == \A r \in Requests : Unspent(r, pc[r], job[r])

\* Nobody calls the tool for an execution without a claim.
Recorded == \A e \in Requests : \A n \in 0..MaxStepRetries : calls[e][n] # {} => claims[e] # {} \/ fault

KeyInv == OwnKeys /\ Recorded

\* A step that calls nothing, and where it leads to.
LEMMA QuietKeys ==
    ASSUME TypeOK, KeyInv, NEW r \in Requests, NEW p, NEW j, Work(r, p, j), Unspent(r, p, j),
           UNCHANGED calls, fault => fault', \A e \in Requests : claims[e] \subseteq claims'[e]
    PROVE  KeyInv'
  <1>1. OwnKeys'
    <2>. SUFFICES ASSUME NEW q \in Requests PROVE Unspent(q, pc[q], job[q])'
      BY DEF OwnKeys
    <2>1. (pc'[q] = p /\ job'[q] = j /\ q = r) \/ (pc'[q] = pc[q] /\ job'[q] = job[q])
      BY DEF Work, TypeOK
    <2>2. Unspent(q, pc'[q], job'[q])
      BY <2>1 DEF KeyInv, OwnKeys
    <2>. QED  BY <2>2 DEF Unspent, Used
  <1>2. Recorded'
    BY DEF KeyInv, Recorded
  <1>. QED  BY <1>1, <1>2 DEF KeyInv

\* The statements that do not call the tool leave the calls alone, and keep the claims.
LEMMA QuietSteps ==
    ASSUME TypeOK, NEW r \in Requests,
           \/ StartRoute(r) \/ ListPending(r) \/ Activate(r) \/ ResumeMission(r) \/ ResumeAfterApproval(r)
           \/ Load(r) \/ Create(r) \/ Start(r) \/ HandleAmbiguousRunning(r) \/ ClaimStep(r) \/ RetryStep(r)
           \/ Pause(r) \/ Advance(r) \/ CompleteMission(r) \/ FailMission(r)
           \/ Unpause(r) \/ HandleMissionCompletion(r) \/ MarkCompleted(r) \/ MarkFailed(r) \/ Crash(r)
    PROVE  UNCHANGED calls /\ (fault => fault') /\ \A e \in Requests : claims[e] \subseteq claims'[e]
  <1>1. UNCHANGED calls
    BY DEF StartRoute, ListPending, Activate, ResumeMission, ResumeAfterApproval, Load, Create, Start,
           HandleAmbiguousRunning, ClaimStep, RetryStep, Pause, Advance, CompleteMission, FailMission,
           Unpause, HandleMissionCompletion, MarkCompleted, MarkFailed, Crash, past
  <1>2. fault => fault'
    BY DEF StartRoute, ListPending, Activate, ResumeMission, ResumeAfterApproval, Load, Create, Start,
           HandleAmbiguousRunning, ClaimStep, RetryStep, Pause, Advance, CompleteMission, FailMission,
           Unpause, HandleMissionCompletion, MarkCompleted, MarkFailed, Crash,
           UpdateStatus, SetExecution, UpdateFails, Applied, NotApplied
  <1>3. CASE ClaimStep(r)
    BY <1>1, <1>2, <1>3 DEF ClaimStep, TypeOK
  <1>4. CASE ~ClaimStep(r)
    <2>1. UNCHANGED claims
      BY <1>4 DEF StartRoute, ListPending, Activate, ResumeMission, ResumeAfterApproval, Load, Create,
             Start, HandleAmbiguousRunning, RetryStep, Pause, Advance, CompleteMission, FailMission,
             Unpause, HandleMissionCompletion, MarkCompleted, MarkFailed, Crash
    <2>. QED  BY <1>1, <1>2, <2>1
  <1>. QED  BY <1>3, <1>4

\* A request that takes no key spends none.
LEMMA PlainUnspent ==
    ASSUME NEW r \in Requests, NEW j,
           NEW p \in {"gone", "fail", "complete", "advance", "pause", "unpause", "select", "succeed", "giveup"}
    PROVE  Unspent(r, p, j)
  BY DEF Unspent

\* A request at the beginning has called nothing, whichever execution it takes.
LEMMA FirstUnspent ==
    ASSUME KeyInv, NEW r \in Requests,
           pc[r] \in {"idle", "activate", "load", "create", "start", "steps"},
           NEW p \in PCs, NEW j \in Job
    PROVE  Unspent(r, p, j)
  <1>1. \A e \in Requests : Used(r, e) = {}
    BY DEF KeyInv, OwnKeys, Unspent
  <1>2. j.exec \in Requests
    BY DEF Job
  <1>. QED  BY <1>1, <1>2 DEF Unspent

\* Until the step: a request may go anywhere.
LEMMA FirstKeys ==
    ASSUME IInv, KeyInv, NEW r \in Requests,
           \/ StartRoute(r) \/ ListPending(r) \/ Activate(r) \/ ResumeMission(r)
           \/ Load(r) \/ Create(r) \/ Start(r) \/ HandleAmbiguousRunning(r)
    PROVE  KeyInv'
  <1>0. TypeOK /\ job[r] \in Job
    BY DEF IInv, TypeOK
  <1>1. pc[r] \in {"idle", "activate", "load", "create", "start", "steps"}
    BY DEF StartRoute, ListPending, Activate, ResumeMission, Load, Create, Start, HandleAmbiguousRunning
  <1>2. ASSUME NEW p \in PCs, NEW j \in Job, Work(r, p, j) PROVE KeyInv'
    BY <1>0, <1>1, <1>2, FirstUnspent, QuietKeys, QuietSteps
  <1>9. ASSUME Answer(r, FALSE) PROVE KeyInv'
    <2>1. PICK p \in {"gone", "fail", "complete"} : Work(r, p, PlanStep(r, 0))
      BY <1>9, AnswerWorks
    <2>. QED  BY <1>2, <2>1, PlanStepTyped DEF PCs
  <1>3. CASE StartRoute(r) \/ ListPending(r) \/ Activate(r) \/ ResumeMission(r)
    <2>1. Goto(r, "load") \/ Goto(r, "activate") \/ Leave(r, "gone")
      BY <1>3 DEF StartRoute, ListPending, Activate, ResumeMission
    <2>. QED  BY <1>0, <1>2, <2>1, GotoWorks, PlanStepTyped DEF Leave, PCs
  <1>4. CASE Load(r)
    <2>1. \/ Goto(r, "create") \/ Answer(r, FALSE)
          \/ \E e \in Active : \E p \in {"steps", "claim"} : Work(r, p, PlanStep(e, execs[e].retries))
      BY <1>4 DEF Load
    <2>2. \A e \in Active : PlanStep(e, execs[e].retries) \in Job
      BY PlanStepTyped DEF Active, IInv, TypeOK, Execution
    <2>3. CASE Goto(r, "create")
      BY <1>0, <1>2, <2>3, GotoWorks DEF PCs
    <2>. QED  BY <1>9, <1>2, <2>1, <2>2, <2>3 DEF PCs
  <1>5. CASE Create(r)
    BY <1>2, <1>5, PlanStepTyped DEF Create, PCs
  <1>6. CASE Start(r)
    <2>1. Goto(r, "claim") \/ Answer(r, FALSE)
      BY <1>6 DEF Start
    <2>. QED  BY <1>9, <1>0, <1>2, <2>1, GotoWorks DEF PCs
  <1>7. CASE HandleAmbiguousRunning(r)
    <2>1. \/ Goto(r, "claim")
          \/ \E last \in claims[job[r].exec] :
                Work(r, "retry", [job[r] EXCEPT !.attempt = last, !.known = FALSE])
      BY <1>7 DEF HandleAmbiguousRunning
    <2>2. \A last \in claims[job[r].exec] : [job[r] EXCEPT !.attempt = last, !.known = FALSE] \in Job
      BY <1>0 DEF TypeOK, Job
    <2>3. CASE Goto(r, "claim")
      BY <1>0, <1>2, <2>3, GotoWorks DEF PCs
    <2>. QED  BY <1>2, <2>1, <2>2, <2>3 DEF PCs
  <1>. QED  BY <1>3, <1>4, <1>5, <1>6, <1>7

\* A claim is for an attempt that its request has not made, and so is the next one.
LEMMA ClaimKeys == ASSUME IInv, KeyInv, NEW r \in Requests, ClaimStep(r) \/ RetryStep(r) PROVE KeyInv'
  <1>0. TypeOK /\ job[r] \in Job /\ job[r].attempt \in Nat /\ job[r].exec \in Requests
        /\ Unspent(r, pc[r], job[r])
    BY DEF IInv, TypeOK, Job, KeyInv, OwnKeys
  <1>1. ASSUME NEW p, NEW j, Work(r, p, j), Unspent(r, p, j) PROVE KeyInv'
    BY <1>0, <1>1, QuietKeys, QuietSteps
  <1>2. CASE ClaimStep(r)
    <2>1. pc[r] = "claim" /\ Work(r, "call", job[r])
      BY <1>0, <1>2, GotoWorks DEF ClaimStep, PCs
    <2>2. Unspent(r, "call", job[r])
      BY <1>0, <2>1 DEF Unspent
    <2>. QED  BY <1>1, <2>1, <2>2
  <1>3. CASE RetryStep(r)
    <2>. DEFINE j == [job[r] EXCEPT !.attempt = @ + 1, !.error = {}]
    <2>1. pc[r] = "retry" /\ (Work(r, "claim", j) \/ Goto(r, "advance") \/ Answer(r, FALSE))
      BY <1>3 DEF RetryStep
    <2>2. j.known = job[r].known /\ j.exec = job[r].exec /\ j.attempt = job[r].attempt + 1
      BY <1>0 DEF Job
    <2>. HIDE DEF j
    <2>3. CASE Work(r, "claim", j)
      <3>1. Unspent(r, "claim", j)
        <4>. SUFFICES ASSUME job[r].known, NEW n \in Used(r, job[r].exec) PROVE n < job[r].attempt + 1
          BY <2>2 DEF Unspent
        <4>1. n <= job[r].attempt /\ n \in Nat
          BY <1>0, <2>1 DEF Unspent, Used
        <4>. QED  BY <1>0, <4>1
      <3>. QED  BY <1>1, <2>3, <3>1
    <2>4. CASE Goto(r, "advance")
      BY <1>0, <1>1, <2>4, GotoWorks, PlainUnspent DEF PCs
    <2>5. CASE Answer(r, FALSE)
      BY <1>1, <2>5, AnswerWorks, PlainUnspent
    <2>. QED  BY <2>1, <2>3, <2>4, <2>5
  <1>. QED  BY <1>2, <1>3

\* After the step: no key is taken any more.
LEMMA LastKeys ==
    ASSUME IInv, KeyInv, NEW r \in Requests,
           \/ Pause(r) \/ Advance(r) \/ CompleteMission(r) \/ FailMission(r) \/ ResumeAfterApproval(r)
           \/ Unpause(r) \/ HandleMissionCompletion(r) \/ MarkCompleted(r) \/ MarkFailed(r) \/ Crash(r)
    PROVE  KeyInv'
  <1>0. TypeOK
    BY DEF IInv
  <1>1. ASSUME NEW j, NEW p \in {"gone", "fail", "complete", "advance", "unpause", "select", "succeed", "giveup"},
               Work(r, p, j)
        PROVE  KeyInv'
    BY <1>0, <1>1, QuietKeys, QuietSteps, PlainUnspent
  <1>2. CASE Pause(r) \/ Advance(r)
    <2>1. Goto(r, "advance") \/ Answer(r, TRUE) \/ Answer(r, FALSE)
      BY <1>2 DEF Pause, Advance
    <2>. QED  BY <1>0, <1>1, <2>1, GotoWorks, AnswerWorks DEF PCs
  <1>3. CASE CompleteMission(r) \/ FailMission(r) \/ MarkCompleted(r) \/ MarkFailed(r) \/ Crash(r)
    <2>1. Leave(r, "gone") \/ Leave(r, "complete")
      BY <1>3 DEF CompleteMission, FailMission, MarkCompleted, MarkFailed, Crash
    <2>. QED  BY <1>1, <2>1 DEF Leave
  <1>4. CASE ResumeAfterApproval(r)
    BY <1>1, <1>4 DEF ResumeAfterApproval
  <1>5. CASE Unpause(r) \/ HandleMissionCompletion(r)
    <2>1. Goto(r, "select") \/ Goto(r, "giveup") \/ Goto(r, "succeed") \/ Leave(r, "gone")
      BY <1>5 DEF Unpause, HandleMissionCompletion
    <2>. QED  BY <1>0, <1>1, <2>1, GotoWorks DEF Leave, PCs
  <1>. QED  BY <1>2, <1>3, <1>4, <1>5

\* What a call adds.
LEMMA CalledIs ==
    ASSUME TypeOK, NEW r \in Requests, Called(r), NEW e \in Requests, NEW n \in 0..MaxStepRetries
    PROVE  calls'[e][n] = IF e = job[r].exec /\ n = job[r].attempt THEN calls[e][n] \cup {r} ELSE calls[e][n]
  <1>1. /\ calls \in [Requests -> [0..MaxStepRetries -> SUBSET Requests]]
        /\ calls' = [calls EXCEPT ![job[r].exec][job[r].attempt] = @ \cup {r}]
    BY DEF TypeOK, Called
  <1>2. CASE e = job[r].exec
    <2>1. calls'[e] = [calls[e] EXCEPT ![job[r].attempt] = @ \cup {r}]
      BY <1>1, <1>2
    <2>2. calls[e] \in [0..MaxStepRetries -> SUBSET Requests]
      BY <1>1
    <2>. QED  BY <1>2, <2>1, <2>2
  <1>3. CASE e # job[r].exec
    BY <1>1, <1>3
  <1>. QED  BY <1>2, <1>3

\* A call spends the key that was claimed for it.
LEMMA CallKeys == ASSUME IInv, KeyInv, NEW r \in Requests, ExecuteStep(r) PROVE KeyInv'
  <1>0. /\ TypeOK /\ job[r] \in Job /\ job[r].exec \in Requests /\ job[r].attempt \in Nat
        /\ pc[r] = "call" /\ Unspent(r, "call", job[r])
        /\ claims[job[r].exec] # {} \/ fault
        /\ UNCHANGED <<claims, fault>>
    BY DEF IInv, TypeOK, Job, KeyInv, OwnKeys, ExecuteStep, Placed, Fits
  <1>1. ASSUME NEW p, NEW j, Work(r, p, j), Unspent(r, p, j), UNCHANGED past PROVE KeyInv'
    BY <1>0, <1>1, QuietKeys DEF past
  <1>2. ASSUME NEW p \in {"retry", "pause", "advance", "gone", "fail"}, NEW j, Work(r, p, j), Called(r),
               (j.exec = job[r].exec /\ j.attempt = job[r].attempt) \/ p # "retry", job[r].known
        PROVE  KeyInv'
    <2>2. ASSUME NEW e \in Requests, NEW n \in 0..MaxStepRetries
          PROVE  calls'[e][n] = IF e = job[r].exec /\ n = job[r].attempt THEN calls[e][n] \cup {r}
                                ELSE calls[e][n]
      BY <1>0, <1>2, CalledIs
    <2>3. OwnKeys'
      <3>. SUFFICES ASSUME NEW q \in Requests PROVE Unspent(q, pc[q], job[q])'
        BY DEF OwnKeys
      <3>1. CASE q = r
        <4>1. pc'[r] = p /\ job'[r] = j
          BY <1>0, <1>2 DEF Work, TypeOK
        <4>2. CASE p # "retry"
          BY <1>2, <3>1, <4>1, <4>2 DEF Unspent
        <4>3. CASE p = "retry"
          <5>. SUFFICES ASSUME NEW n \in 0..MaxStepRetries, r \in calls'[job[r].exec][n]
                        PROVE  n <= job[r].attempt
            BY <1>2, <3>1, <4>1, <4>3 DEF Unspent, Used
          <5>1. n = job[r].attempt \/ r \in calls[job[r].exec][n]
            BY <1>0, <2>2
          <5>2. r \in calls[job[r].exec][n] => n < job[r].attempt
            BY <1>0, <1>2 DEF Unspent, Used
          <5>. QED  BY <1>0, <5>1, <5>2
        <4>. QED  BY <4>2, <4>3
      <3>2. CASE q # r
        <4>1. pc'[q] = pc[q] /\ job'[q] = job[q]
          BY <1>0, <1>2, <3>2 DEF Work, TypeOK
        <4>2. \A e \in Requests : Used(q, e)' = Used(q, e)
          <5>1. ASSUME NEW e \in Requests, NEW n \in 0..MaxStepRetries
                PROVE  q \in calls'[e][n] <=> q \in calls[e][n]
            <6>1. calls'[e][n] = calls[e][n] \/ calls'[e][n] = calls[e][n] \cup {r}
              BY <2>2
            <6>. QED  BY <3>2, <6>1
          <5>. QED  BY <5>1 DEF Used
        <4>3. job[q].exec \in Requests
          BY <1>0 DEF TypeOK, Job
        <4>4. Unspent(q, pc[q], job[q])
          BY DEF KeyInv, OwnKeys
        <4>5. /\ pc[q] \in {"idle", "activate", "load", "create", "start", "steps"} =>
                    \A e \in Requests : Used(q, e)' = {}
              /\ pc[q] \in {"claim", "call"} /\ job[q].known =>
                    \A n \in Used(q, job[q].exec)' : n < job[q].attempt
              /\ pc[q] = "retry" /\ job[q].known => \A n \in Used(q, job[q].exec)' : n <= job[q].attempt
          BY <4>1, <4>2, <4>3, <4>4 DEF Unspent
        <4>. QED  BY <4>1, <4>5 DEF Unspent
      <3>. QED  BY <3>1, <3>2
    <2>4. Recorded'
      BY <1>0, <2>2 DEF KeyInv, Recorded
    <2>. QED  BY <2>3, <2>4 DEF KeyInv
  <1>3. CASE job[r].known /\ Succeeds(r)
    <2>1. Work(r, "advance", job[r])
      BY <1>0, <1>3, GotoWorks DEF Succeeds, PCs
    <2>. QED  BY <1>2, <1>3, <2>1 DEF Succeeds
  <1>4. CASE Waits(r)
    BY <1>1, <1>4, PlainUnspent DEF Waits
  <1>5. ASSUME job[r].known, NEW error \in Errors, Fails(r, error) PROVE KeyInv'
    <2>. DEFINE failed == [job[r] EXCEPT !.error = error]
                paused == [failed EXCEPT !.pause = "WAITING_INPUT"]
    <2>1. failed.exec = job[r].exec /\ failed.attempt = job[r].attempt
      BY <1>0 DEF Job
    <2>2. Work(r, "retry", failed) \/ Work(r, "pause", paused) \/ Answer(r, FALSE)
      BY <1>5 DEF Fails, HandleStepFailure
    <2>3. Called(r)
      BY <1>5 DEF Fails
    <2>. HIDE DEF failed, paused
    <2>4. CASE Answer(r, FALSE)
      <3>1. \E p \in {"gone", "fail"} : Work(r, p, PlanStep(r, 0))
        BY <2>4, AnswerWorks
      <3>. QED  BY <1>2, <1>5, <2>3, <3>1
    <2>. QED  BY <1>2, <1>5, <2>1, <2>2, <2>3, <2>4
  <1>6. CASE UnknownTool(r)
    <2>1. \E p \in {"gone", "fail"} : Work(r, p, PlanStep(r, 0))
      BY <1>6, AnswerWorks DEF UnknownTool
    <2>. QED  BY <1>1, <1>6, <2>1, PlainUnspent DEF UnknownTool
  <1>. QED  BY <1>3, <1>4, <1>5, <1>6 DEF ExecuteStep

\* Every step keeps the keys.
LEMMA KeysHold == ASSUME IInv, KeyInv, [Next]_vars PROVE KeyInv'
  <1>1. ASSUME NEW r \in Requests,
               \/ StartRoute(r) \/ ListPending(r) \/ ResumeMission(r) \/ ResumeAfterApproval(r)
               \/ Proceed(r) \/ Crash(r)
        PROVE  KeyInv'
    BY <1>1, FirstKeys, ClaimKeys, CallKeys, LastKeys DEF Proceed
  <1>2. CASE UNCHANGED vars
    BY <1>2 DEF vars, KeyInv, OwnKeys, Recorded, Unspent, Used
  <1>. QED  BY <1>1, <1>2 DEF Next

\* Both invariants hold always.
LEMMA KeyInvariant == Spec => [](IInv /\ KeyInv)
  <1>1. Init => IInv /\ KeyInv
    <2>1. Init => OwnKeys /\ Recorded
      BY DEF Init, OwnKeys, Recorded, Unspent, Used
    <2>. QED  BY <2>1, InitHolds DEF KeyInv
  <1>2. IInv /\ KeyInv /\ [Next]_vars => (IInv /\ KeyInv)'
    BY StepHolds, KeysHold
  <1>. QED  BY <1>1, <1>2, PTL DEF Spec

\* A call is never forgotten.
LEMMA CallsGrow ==
    ASSUME TypeOK, NEW q \in Requests, NEW e \in Requests, NEW n \in 0..MaxStepRetries,
           \/ StartRoute(q) \/ ListPending(q) \/ ResumeMission(q) \/ ResumeAfterApproval(q)
           \/ Proceed(q) \/ Crash(q)
    PROVE  calls[e][n] \subseteq calls'[e][n]
  <1>1. CASE ExecuteStep(q)
    <2>1. UNCHANGED calls \/ Called(q)
      BY <1>1 DEF ExecuteStep, Succeeds, Waits, Fails, UnknownTool, past
    <2>2. CASE Called(q)
      <3>1. calls'[e][n] = IF e = job[q].exec /\ n = job[q].attempt THEN calls[e][n] \cup {q} ELSE calls[e][n]
        BY <2>2, CalledIs
      <3>2. CASE e = job[q].exec /\ n = job[q].attempt
        BY <3>1, <3>2
      <3>3. CASE ~(e = job[q].exec /\ n = job[q].attempt)
        BY <3>1, <3>3
      <3>. QED  BY <3>2, <3>3
    <2>. QED  BY <2>1, <2>2
  <1>2. CASE ~ExecuteStep(q)
    BY <1>2, QuietSteps DEF Proceed
  <1>. QED  BY <1>1, <1>2

\* A step of one request leaves the others where they are.
LEMMA OthersStay ==
    ASSUME TypeOK, NEW q \in Requests, NEW r \in Requests, r # q,
           \/ StartRoute(q) \/ ListPending(q) \/ ResumeMission(q) \/ ResumeAfterApproval(q)
           \/ Proceed(q) \/ Crash(q)
    PROVE  pc'[r] = pc[r]
  <1>1. \E p : pc' = [pc EXCEPT ![q] = p]
    <2>1. CASE StartRoute(q) \/ ListPending(q) \/ ResumeMission(q) \/ ResumeAfterApproval(q) \/ Crash(q)
      BY <2>1 DEF StartRoute, ListPending, ResumeMission, ResumeAfterApproval, Crash, Goto, Work, Leave
    <2>2. CASE Activate(q) \/ Load(q) \/ Create(q) \/ Start(q)
      BY <2>2 DEF Activate, Load, Create, Start, Goto, Work, Leave, Answer
    <2>3. CASE HandleAmbiguousRunning(q) \/ ClaimStep(q) \/ RetryStep(q) \/ Pause(q) \/ Advance(q)
      BY <2>3 DEF HandleAmbiguousRunning, ClaimStep, RetryStep, Pause, Advance, Goto, Work, Leave, Answer
    <2>4. CASE ExecuteStep(q)
      BY <2>4 DEF ExecuteStep, Succeeds, Waits, Fails, HandleStepFailure, UnknownTool, Goto, Work, Leave, Answer
    <2>5. CASE CompleteMission(q) \/ FailMission(q) \/ Unpause(q) \/ HandleMissionCompletion(q)
               \/ MarkCompleted(q) \/ MarkFailed(q)
      BY <2>5 DEF CompleteMission, FailMission, Unpause, HandleMissionCompletion, MarkCompleted, MarkFailed,
                  Goto, Work, Leave
    <2>. QED  BY <2>1, <2>2, <2>3, <2>4, <2>5 DEF Proceed
  <1>. QED  BY <1>1 DEF TypeOK

\* The recovery of an execution found RUNNING calls a step of the plan again only
\* where nobody has claimed one.
LEMMA RecoveryIsFirst ==
    ASSUME IInv, KeyInv, NEW r \in Requests, HandleAmbiguousRunning(r),
           pc'[r] = "claim", ~fault', NEW n \in 0..MaxStepRetries
    PROVE  calls[job'[r].exec][n] = {}
  <1>0. TypeOK /\ job[r].exec \in Requests
    BY DEF IInv, TypeOK, Job
  <1>1. ~(\E j \in {[job[r] EXCEPT !.attempt = last, !.known = FALSE] : last \in claims[job[r].exec]} :
             Work(r, "retry", j))
    BY <1>0 DEF Work, TypeOK
  <1>2. claims[job[r].exec] = {} /\ UNCHANGED fault /\ job' = job
    BY <1>1 DEF HandleAmbiguousRunning, NotApplied, Applied, Goto
  <1>. QED  BY <1>0, <1>2 DEF KeyInv, Recorded

\* Whoever retries or recovers: the key a request is about to claim is one that it has
\* not used and, in the recovery of an execution found RUNNING, that nobody has.
THEOREM NewKeysAlways == Spec => NewKeys
  <1>1. ASSUME IInv, KeyInv, KeyInv', TypeOK', [Next]_vars, NEW r \in Requests, TakesKey(r)
        PROVE  LET used == calls[job'[r].exec][job'[r].attempt] IN
               r \notin used /\ (pc[r] = "steps" /\ ~fault' => used = {})
    <2>. DEFINE e == job'[r].exec
                n == job'[r].attempt
    <2>0. e \in Requests /\ n \in 0..MaxStepRetries /\ TypeOK /\ r \in Requests
      BY <1>1, ConstantsAssumption DEF TypeOK, Job, TakesKey, IInv
    <2>1. PICK q \in Requests :
             \/ StartRoute(q) \/ ListPending(q) \/ ResumeMission(q) \/ ResumeAfterApproval(q)
             \/ Proceed(q) \/ Crash(q)
      BY <1>1 DEF TakesKey, vars, Next
    <2>2. calls[e][n] \subseteq calls'[e][n]
      BY <2>0, <2>1, CallsGrow
    <2>3. \A m \in 0..MaxStepRetries : r \in calls'[e][m] => m < n
      BY <1>1, <2>0 DEF KeyInv, OwnKeys, Unspent, Used, TakesKey
    <2>4. r \notin calls[e][n]
      BY <2>0, <2>2, <2>3
    <2>5. ASSUME pc[r] = "steps", ~fault' PROVE calls[e][n] = {}
      <3>1. q = r
        BY <1>1, <2>0, <2>1, OthersStay DEF TakesKey
      <3>2. HandleAmbiguousRunning(r)
        <4>1. ~Crash(r)
          BY <1>1, <2>0 DEF Crash, Leave, Work, TypeOK, TakesKey
        <4>2. ~StartRoute(r) /\ ~ListPending(r) /\ ~ResumeMission(r) /\ ~ResumeAfterApproval(r)
          BY <2>5 DEF StartRoute, ListPending, ResumeMission, ResumeAfterApproval
        <4>3. /\ ~Activate(r) /\ ~Load(r) /\ ~Create(r) /\ ~Start(r)
              /\ ~ClaimStep(r) /\ ~ExecuteStep(r) /\ ~RetryStep(r) /\ ~Pause(r) /\ ~Advance(r)
          BY <2>5 DEF Activate, Load, Create, Start, ClaimStep, ExecuteStep, RetryStep, Pause, Advance
        <4>4. /\ ~CompleteMission(r) /\ ~FailMission(r) /\ ~Unpause(r) /\ ~HandleMissionCompletion(r)
              /\ ~MarkCompleted(r) /\ ~MarkFailed(r)
          BY <2>5 DEF CompleteMission, FailMission, Unpause, HandleMissionCompletion, MarkCompleted,
                      MarkFailed
        <4>. QED  BY <2>1, <3>1, <4>1, <4>2, <4>3, <4>4 DEF Proceed
      <3>. QED  BY <1>1, <2>0, <2>5, <3>2, RecoveryIsFirst DEF TakesKey
    <2>. QED  BY <2>4, <2>5
  <1>2. /\ IInv /\ KeyInv /\ KeyInv' /\ IInv' /\ [Next]_vars =>
             [\A r \in Requests : TakesKey(r) =>
                LET used == calls[job'[r].exec][job'[r].attempt] IN
                r \notin used /\ (pc[r] = "steps" /\ ~fault' => used = {})]_vars
    BY <1>1 DEF IInv
  <1>. QED  BY <1>2, KeyInvariant, PTL DEF Spec, NewKeys
=============================================================================
