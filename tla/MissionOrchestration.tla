------------------------ MODULE MissionOrchestration ------------------------
(***************************************************************************)
(* The missions of one owner and the HTTP requests that run and change     *)
(* them: MissionOrchestrationService and its callers.  run_mission reads   *)
(* the mission, checks that it is ready, claims it for 60 seconds with a   *)
(* token of its own, runs the employee and writes what became of it.  The  *)
(* user pauses, resumes, schedules and cancels, approval handlers write    *)
(* the outcome of an approval, and the scheduler parks blocked missions.   *)
(*                                                                         *)
(* Everybody changes the status through transition(), which reads it,      *)
(* looks the edge up in ALLOWED_TRANSITIONS and writes the new status by   *)
(* the id of the mission alone: two statements, and each is a step here.   *)
(***************************************************************************)
EXTENDS Naturals, FiniteSets

CONSTANTS
    Missions,
    Dependencies,  \* Dependencies[m]: the missions that m waits for
    Requests,      \* HTTP requests and background tasks
    MaxAttempts,   \* max_attempts
    Changes,       \* what is asked for besides running; a subset of AllChanges
    Faults         \* the failures that may happen; a subset of AllFaults

AllChanges == {"pause", "resume", "schedule", "cancel", "outcome", "select"}

AllFaults == {"crash",  \* the process of a request dies between two statements
              "db",     \* a statement fails: unapplied, or applied and unanswered
              "lapse"}  \* a claim is older than its 60 seconds

ASSUME OrchestrationAssumption ==
    /\ Missions # {}
    /\ Dependencies \in [Missions -> SUBSET Missions]
    /\ MaxAttempts \in Nat \ {0}
    /\ Changes \subseteq AllChanges
    /\ Faults \subseteq AllFaults

VARIABLES
    mission,   \* mission[m]: the lifecycle columns of the row of m
    claim,     \* claim[m]: its orchestration claim
    approval,  \* approval[m]: the latest approval the employee asked for
    pc,        \* pc[r]: the next statement of request r
    job        \* job[r]: the local variables of r

vars == <<mission, claim, approval, pc, job>>

-----------------------------------------------------------------------------
(* State                                                                    *)

Terminal == {"completed", "failed", "cancelled"}

ReadyStates == {"pending", "scheduled", "retrying"}

States == Terminal \cup ReadyStates \cup
          {"active", "paused", "waiting_dependency", "waiting_approval", "waiting_human"}

\* ALLOWED_TRANSITIONS
Allowed ==
    [pending            |-> {"scheduled", "active", "paused", "cancelled", "waiting_dependency"},
     scheduled          |-> {"active", "paused", "cancelled", "waiting_dependency"},
     active             |-> {"completed", "failed", "paused", "retrying", "waiting_approval",
                             "waiting_human", "cancelled"},
     paused             |-> {"pending", "scheduled", "active", "cancelled"},
     retrying           |-> {"active", "paused", "failed", "cancelled", "waiting_dependency"},
     waiting_dependency |-> {"pending", "scheduled", "paused", "cancelled"},
     waiting_approval   |-> {"active", "waiting_human", "completed", "failed", "paused", "cancelled"},
     waiting_human      |-> {"active", "failed", "paused", "cancelled", "pending"},
     completed          |-> {},
     failed             |-> {"retrying", "cancelled"},
     cancelled          |-> {}]

\* waits: which of scheduled_at and next_retry_at lie in the future.
Mission == [status : States \cup {"absent"}, waits : SUBSET {"schedule", "retry"}, attempts : Nat]

Claim == [token : {{}} \cup {{r} : r \in Requests}, live : BOOLEAN]

PCs == {"idle", "ready", "claim", "count", "check", "write", "employee", "delay", "release"}

Job == [mission : Missions,
        held : BOOLEAN,      \* the mission was claimed when it was read
        attempts : Nat,      \* attempt_count when it was read
        target : States,     \* the argument of transition()
        then : {"end", "employee", "release"}]  \* what follows the transition

TypeOK ==
    /\ mission \in [Missions -> Mission]
    /\ claim \in [Missions -> Claim]
    /\ approval \in [Missions -> {"none", "open", "approved", "rejected"}]
    /\ pc \in [Requests -> PCs]
    /\ job \in [Requests -> Job]

NoClaim == [token |-> {}, live |-> FALSE]

\* A request that is not running forgets its local variables.
NoJob == [mission |-> CHOOSE m \in Missions : TRUE, held |-> FALSE, attempts |-> 0,
          target |-> "active", then |-> "end"]

Init ==
    /\ mission = [m \in Missions |-> [status |-> "absent", waits |-> {}, attempts |-> 0]]
    /\ claim = [m \in Missions |-> NoClaim]
    /\ approval = [m \in Missions |-> "none"]
    /\ pc = [r \in Requests |-> "idle"]
    /\ job = [r \in Requests |-> NoJob]

Of(r) == job[r].mission

Goto(r, statement) == pc' = [pc EXCEPT ![r] = statement] /\ UNCHANGED job

Return(r) == pc' = [pc EXCEPT ![r] = "idle"] /\ job' = [job EXCEPT ![r] = NoJob]

\* r calls transition(), and goes on with "then" afterwards.
Transition(r, m, target, then) ==
    /\ pc' = [pc EXCEPT ![r] = "check"]
    /\ job' = [job EXCEPT ![r].mission = m, ![r].target = target, ![r].then = then]

\* UPDATE missions ... by id.  Its failure is unapplied, or only unanswered.
Update(m, new) ==
    \/ mission' = [mission EXCEPT ![m] = new]
    \/ "db" \in Faults /\ UNCHANGED mission
-----------------------------------------------------------------------------
(* transition()                                                             *)

\* A run whose start is refused returns without a release of its claim.
After(r, ok) ==
    CASE job[r].then = "end"      -> Return(r)
      [] job[r].then = "release"  -> Goto(r, "release")
      [] job[r].then = "employee" -> IF ok THEN Goto(r, "employee") ELSE Return(r)

\* The status is read, and the edge looked up.
Check(r) ==
    LET current == mission[Of(r)].status
    IN /\ pc[r] = "check"
       /\ \/ /\ job[r].target = current \/ job[r].target \in Allowed[current]
             /\ Goto(r, "write")
          \/ /\ \/ job[r].target # current /\ job[r].target \notin Allowed[current]
                \/ "db" \in Faults
             /\ After(r, FALSE)
       /\ UNCHANGED <<mission, claim, approval>>

\* The status is written, whatever it is by now.
Write(r) ==
    /\ pc[r] = "write"
    /\ \/ mission' = [mission EXCEPT ![Of(r)].status = job[r].target] /\ After(r, TRUE)
       \/ /\ "db" \in Faults
          /\ Update(Of(r), [mission[Of(r)] EXCEPT !.status = job[r].target])
          /\ After(r, FALSE)
    /\ UNCHANGED <<claim, approval>>

-----------------------------------------------------------------------------
(* create_mission and run_mission                                           *)

\* With a schedule, due or not, or without one.
Create(m) ==
    /\ mission[m].status = "absent"
    /\ \E s \in {"pending", "scheduled"}, waits \in SUBSET {"schedule"} :
          /\ waits # {} => s = "scheduled"
          /\ mission' = [mission EXCEPT ![m] = [status |-> s, waits |-> waits, attempts |-> 0]]
    /\ UNCHANGED <<claim, approval, pc, job>>

\* readiness, as far as the row of the mission tells it.
Due(m) == mission[m].status \in ReadyStates \cup {"waiting_dependency"} /\ mission[m].waits = {}

Blocked(m) == \E d \in Dependencies[m] : mission[d].status # "completed"

\* The mission is read; one that is not due is left alone.
Run(r, m) ==
    /\ pc[r] = "idle" /\ Due(m)
    /\ pc' = [pc EXCEPT ![r] = "ready"]
    /\ job' = [job EXCEPT ![r].mission = m,
                          ![r].held = claim[m].token # {} /\ claim[m].live,
                          ![r].attempts = mission[m].attempts]
    /\ UNCHANGED <<mission, claim, approval>>

\* Mutant: a dependency that does not exist does not block.
ReadyWithoutMissing(r) ==
    /\ pc[r] = "ready"
    /\ \A d \in Dependencies[Of(r)] : mission[d].status \in {"completed", "absent"}
    /\ Goto(r, "claim")
    /\ UNCHANGED <<mission, claim, approval>>

\* The dependencies are read, and the attempts that were read are compared.
Ready(r) ==
    /\ pc[r] = "ready"
    /\ \/ /\ Blocked(Of(r)) \/ ("db" \in Faults /\ Dependencies[Of(r)] # {})
          /\ Return(r)
       \/ /\ ~Blocked(Of(r)) /\ job[r].attempts < MaxAttempts
          /\ Goto(r, "claim")
       \/ /\ ~Blocked(Of(r)) /\ job[r].attempts >= MaxAttempts
          /\ Transition(r, Of(r), "failed", "end")
    /\ UNCHANGED <<mission, claim, approval>>

\* Mutant: the lease of the claim is not compared.
ClaimAnyway(r) ==
    /\ pc[r] = "claim"
    /\ claim' = [claim EXCEPT ![Of(r)] = [token |-> {r}, live |-> TRUE]]
    /\ Goto(r, "count")
    /\ UNCHANGED <<mission, approval>>

\* A mission that was seen claimed is not asked for.  The RPC refuses one that is
\* terminal or claimed; the status that was ready when it was read is not compared.
ClaimMission(r) ==
    LET m == Of(r)
        free == mission[m].status \notin Terminal /\ ~(claim[m].token # {} /\ claim[m].live)
    IN /\ pc[r] = "claim"
       /\ \/ /\ ~job[r].held /\ free
             /\ claim' = [claim EXCEPT ![m] = [token |-> {r}, live |-> TRUE]]
             /\ Goto(r, "count") \/ ("db" \in Faults /\ Return(r))
          \/ /\ job[r].held \/ ~free \/ "db" \in Faults
             /\ Return(r)
             /\ UNCHANGED claim
       /\ UNCHANGED <<mission, approval>>

\* attempt_count becomes the one that was read plus one.
Count(r) ==
    /\ pc[r] = "count"
    /\ Update(Of(r), [mission[Of(r)] EXCEPT !.attempts = job[r].attempts + 1])
    /\ Transition(r, Of(r), "active", "employee")
    /\ UNCHANGED <<claim, approval>>

\* Mutant: a run that waits returns at once.
EmployeeWaits(r) ==
    /\ pc[r] = "employee"
    /\ \E target \in {"completed", "waiting_approval", "failed"} :
          IF target = "waiting_approval" THEN Return(r) ELSE Transition(r, Of(r), target, "release")
    /\ UNCHANGED <<mission, claim, approval>>

\* EmployeeVerticalSlice.run returns, and what it returned becomes the status.
Employee(r) ==
    /\ pc[r] = "employee"
    /\ \/ /\ \E target \in {"completed", "waiting_human", "failed"} :
                Transition(r, Of(r), target, "release")
          /\ UNCHANGED approval
       \/ /\ Transition(r, Of(r), "waiting_approval", "release")
          /\ approval' = [approval EXCEPT ![Of(r)] = "open"]
       \/ Goto(r, "delay") /\ UNCHANGED approval
    /\ UNCHANGED <<mission, claim>>

\* A run that is to be retried gets a next_retry_at first.
Delay(r) ==
    /\ pc[r] = "delay"
    /\ Update(Of(r), [mission[Of(r)] EXCEPT !.waits = @ \cup {"retry"}])
    /\ Transition(r, Of(r), "retrying", "release")
    /\ UNCHANGED <<claim, approval>>

\* Mutant: the claim is released by the id of the mission alone.
ReleaseAny(r) ==
    /\ pc[r] = "release"
    /\ claim' = [claim EXCEPT ![Of(r)] = NoClaim]
    /\ Return(r)
    /\ UNCHANGED <<mission, approval>>

\* The claim is released if it still has the token of r.
Release(r) ==
    /\ pc[r] = "release"
    /\ \/ /\ claim[Of(r)].token = {r}
          /\ claim' = [claim EXCEPT ![Of(r)] = NoClaim]
       \/ /\ claim[Of(r)].token # {r} \/ "db" \in Faults
          /\ UNCHANGED claim
    /\ Return(r)
    /\ UNCHANGED <<mission, approval>>

-----------------------------------------------------------------------------
(* What else changes a mission                                              *)

\* The user pauses, cancels or resumes it.
Pause(r, m)  == "pause" \in Changes /\ Transition(r, m, "paused", "end") /\ UNCHANGED <<mission, approval>>
Cancel(r, m) == "cancel" \in Changes /\ Transition(r, m, "cancelled", "end") /\ UNCHANGED <<mission, approval>>
Resume(r, m) ==
    /\ "resume" \in Changes
    /\ Transition(r, m, IF "schedule" \in mission[m].waits THEN "scheduled" ELSE "pending", "end")
    /\ UNCHANGED <<mission, approval>>

\* The timestamps are written first, whatever the status.
Schedule(r, m) ==
    /\ "schedule" \in Changes
    /\ \E waits \in SUBSET {"schedule"} : Update(m, [mission[m] EXCEPT !.waits = waits])
    /\ Transition(r, m, "scheduled", "end") \/ ("db" \in Faults /\ Return(r))
    /\ UNCHANGED approval

\* The approval is decided, and the mission told, unless the resumed action failed, or
\* the execution of a rejected one could not be.
Outcome(r, m) ==
    /\ "outcome" \in Changes
    /\ \/ /\ approval[m] \in {"open", "approved"}
          /\ approval' = [approval EXCEPT ![m] = "approved"]
          /\ \/ \E target \in {"completed", "waiting_human"} : Transition(r, m, target, "end")
             \/ UNCHANGED <<pc, job>>
       \/ /\ approval[m] = "open"
          /\ approval' = [approval EXCEPT ![m] = "rejected"]
          /\ Transition(r, m, "failed", "end") \/ ("db" \in Faults /\ UNCHANGED <<pc, job>>)
    /\ UNCHANGED mission

\* select_next parks a mission whose dependencies are not completed.
Select(r, m) ==
    /\ "select" \in Changes
    /\ mission[m].status \in {"pending", "retrying"} /\ Due(m) /\ Blocked(m)
    /\ Transition(r, m, "waiting_dependency", "end")
    /\ UNCHANGED <<mission, approval>>

Change(r, m) ==
    /\ pc[r] = "idle" /\ mission[m].status # "absent"
    /\ Pause(r, m) \/ Cancel(r, m) \/ Resume(r, m) \/ Schedule(r, m) \/ Outcome(r, m) \/ Select(r, m)
    /\ UNCHANGED claim

Crash(r) ==
    /\ "crash" \in Faults
    /\ pc[r] # "idle"
    /\ Return(r)
    /\ UNCHANGED <<mission, claim, approval>>

\* A timestamp is reached.
Tick(m) ==
    /\ \E w \in mission[m].waits : mission' = [mission EXCEPT ![m].waits = @ \ {w}]
    /\ UNCHANGED <<claim, approval, pc, job>>

\* A lease ends, although the run that holds it may go on: nothing renews it.
Lapse(m) ==
    /\ "lapse" \in Faults
    /\ claim[m].live
    /\ claim' = [claim EXCEPT ![m].live = FALSE]
    /\ UNCHANGED <<mission, approval, pc, job>>

Proceed(r) ==
    \/ Check(r) \/ Write(r) \/ Ready(r) \/ ClaimMission(r) \/ Count(r)
    \/ Employee(r) \/ Delay(r) \/ Release(r)

Next ==
    \/ \E r \in Requests : Proceed(r) \/ Crash(r) \/ \E m \in Missions : Run(r, m) \/ Change(r, m)
    \/ \E m \in Missions : Create(m) \/ Tick(m) \/ Lapse(m)

Spec == Init /\ [][Next]_vars

\* A request goes on, and an owner keeps running what can be run.
FairSpec ==
    /\ Spec
    /\ \A r \in Requests : WF_vars(Proceed(r)) /\ \A m \in Missions : WF_vars(Run(r, m))
    /\ \A m \in Missions : WF_vars(Lapse(m)) /\ WF_vars(Tick(m))

-----------------------------------------------------------------------------
(* Properties                                                               *)

\* The runs of m that are past their claim.
Runners(m) ==
    {r \in Requests :
        /\ Of(r) = m
        /\ \/ pc[r] \in {"count", "employee", "delay", "release"}
           \/ pc[r] \in {"check", "write"} /\ job[r].then # "end"}

\* As long as no lease runs out, at most one request at a time runs the employee
\* for a mission, and it holds the claim until it is done, whatever fails around it.
OneRunner == \A m \in Missions : \A r \in Runners(m) : claim[m] = [token |-> {r}, live |-> TRUE]

\* A live claim ends only when its own run is done with it: a run that outlived its
\* lease neither frees nor takes over the claim of the run that replaced it.
ReleaseIsOwn ==
    [][\A m \in Missions, r \in Requests :
          claim[m] = [token |-> {r}, live |-> TRUE] /\ claim'[m].token # {r}
          => pc[r] = "release" /\ pc'[r] = "idle" /\ Of(r) = m]_vars

\* A mission is not run before every mission it depends on has been run.
DependenciesFirst ==
    \A m \in Missions : mission[m].attempts > 0 \/ Runners(m) # {} =>
        \A d \in Dependencies[m] : mission[d].attempts > 0

\* A mission that is active has a run that will end, and then it is active no more.
ActiveMissionsSettle ==
    \A m \in Missions : mission[m].status = "active" ~> mission[m].status # "active"

-----------------------------------------------------------------------------
(* What the repository says, and the code does not do                       *)

\* Dependencies block a mission until it is ready, not longer.
BlockedUntilReady ==
    \A m \in Missions :
        (mission[m].status = "waiting_dependency" /\ ~Blocked(m)) ~> mission[m].status # "waiting_dependency"
=============================================================================
