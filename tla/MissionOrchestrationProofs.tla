--------------------- MODULE MissionOrchestrationProofs ---------------------
(***************************************************************************)
(* Theorems about the orchestration of missions, for every set of missions *)
(* and requests, every dependency graph and every attempt limit.           *)
(* OneRunner is inductive next to TypeOK: a claim is granted only when no  *)
(* live one stands, so a request that gets one finds no other run of that  *)
(* mission.  The order of the dependencies and the limit of the attempts   *)
(* rest on what a request read before its claim: InOrder says that it      *)
(* stays true, since a mission that may have completed was counted.        *)
(***************************************************************************)
EXTENDS MissionOrchestration, TLAPS

\* The local variables of a request that does not run.
LEMMA NoMission == NoJob \in Job
  <1>1. (CHOOSE m \in Missions : TRUE) \in Missions
    BY OrchestrationAssumption
  <1>. QED  BY <1>1 DEF NoJob, Job, States, ReadyStates

\* The types hold in the initial states.
LEMMA InitTyped == ASSUME Init PROVE TypeOK
  <1>1. NoJob \in Job
    BY NoMission
  <1>. QED  BY <1>1 DEF Init, TypeOK, Mission, Claim, NoClaim, PCs

-----------------------------------------------------------------------------
(* TypeOK                                                                   *)

\* What a step does to pc and job keeps their type.
LEMMA GotoTyped ==
    ASSUME TypeOK, NEW r \in Requests, NEW s \in PCs, Goto(r, s)
    PROVE  pc' \in [Requests -> PCs] /\ job' \in [Requests -> Job]
  BY DEF TypeOK, Goto

\* A request that returns keeps the types of the program.
LEMMA ReturnTyped ==
    ASSUME TypeOK, NEW r \in Requests, Return(r)
    PROVE  pc' \in [Requests -> PCs] /\ job' \in [Requests -> Job]
  BY NoMission DEF TypeOK, Return, PCs

\* So does one that calls transition() with a state and a continuation.
LEMMA TransitionTyped ==
    ASSUME TypeOK, NEW r \in Requests, NEW m \in Missions, NEW target \in States,
           NEW then \in {"end", "employee", "release"}, Transition(r, m, target, then)
    PROVE  pc' \in [Requests -> PCs] /\ job' \in [Requests -> Job]
  <1>1. pc' \in [Requests -> PCs]
    BY DEF TypeOK, Transition, PCs
  <1>2. job' = [job EXCEPT ![r] = [job[r] EXCEPT !.mission = m, !.target = target, !.then = then]]
    BY DEF TypeOK, Transition
  <1>3. [job[r] EXCEPT !.mission = m, !.target = target, !.then = then] \in Job
    BY DEF TypeOK, Job
  <1>. QED  BY <1>1, <1>2, <1>3 DEF TypeOK

\* So does one that transition() returns to.
LEMMA AfterTyped ==
    ASSUME TypeOK, NEW r \in Requests, NEW ok \in BOOLEAN, After(r, ok)
    PROVE  pc' \in [Requests -> PCs] /\ job' \in [Requests -> Job]
  <1>1. job[r].then \in {"end", "release", "employee"}
    BY DEF TypeOK, Job
  <1>2. CASE job[r].then = "end"
    BY <1>2, ReturnTyped DEF After
  <1>3. CASE job[r].then = "release"
    BY <1>3, GotoTyped DEF After, PCs
  <1>4. CASE job[r].then = "employee"
    BY <1>4, ReturnTyped, GotoTyped DEF After, PCs
  <1>. QED  BY <1>1, <1>2, <1>3, <1>4

\* An UPDATE of a mission writes a mission.
LEMMA UpdateTyped ==
    ASSUME TypeOK, NEW m \in Missions, NEW new \in Mission, Update(m, new)
    PROVE  mission' \in [Missions -> Mission]
  BY DEF TypeOK, Update

\* A change of the status or of the timestamps leaves a row of a mission.
LEMMA RowTyped ==
    ASSUME TypeOK, NEW m \in Missions, NEW s \in States, NEW waits \in SUBSET {"schedule", "retry"},
           NEW n \in Nat
    PROVE  /\ [mission[m] EXCEPT !.status = s] \in Mission
           /\ [mission[m] EXCEPT !.waits = waits] \in Mission
           /\ [mission[m] EXCEPT !.attempts = n] \in Mission
  BY DEF TypeOK, Mission

\* The steps of a request that is under way.
LEMMA ProceedTyped == ASSUME TypeOK, NEW r \in Requests, Proceed(r) PROVE TypeOK'
  <1>0. Of(r) \in Missions /\ job[r].target \in States /\ job[r].attempts \in Nat
    BY DEF TypeOK, Job, Of
  <1>1. CASE Check(r)
    <2>1. pc' \in [Requests -> PCs] /\ job' \in [Requests -> Job]
      BY <1>1, GotoTyped, AfterTyped DEF Check, PCs
    <2>. QED  BY <1>1, <2>1 DEF Check, TypeOK
  <1>2. CASE Write(r)
    <2>1. pc' \in [Requests -> PCs] /\ job' \in [Requests -> Job]
      BY <1>2, AfterTyped DEF Write
    <2>2. [mission[Of(r)] EXCEPT !.status = job[r].target] \in Mission
      BY <1>0, RowTyped
    <2>3. mission' \in [Missions -> Mission]
      <3>1. CASE mission' = [mission EXCEPT ![Of(r)].status = job[r].target]
        BY <3>1, <2>2, <1>0 DEF TypeOK
      <3>2. CASE Update(Of(r), [mission[Of(r)] EXCEPT !.status = job[r].target])
        BY <3>2, <2>2, <1>0, UpdateTyped
      <3>. QED  BY <1>2, <3>1, <3>2 DEF Write
    <2>. QED  BY <1>2, <2>1, <2>3 DEF Write, TypeOK
  <1>3. CASE Ready(r)
    <2>1. pc' \in [Requests -> PCs] /\ job' \in [Requests -> Job]
      <3>1. CASE Return(r)
        BY <3>1, ReturnTyped
      <3>2. CASE Goto(r, "claim")
        BY <3>2, GotoTyped DEF PCs
      <3>3. CASE Transition(r, Of(r), "failed", "end")
        BY <3>3, <1>0, TransitionTyped DEF States, Terminal
      <3>. QED  BY <1>3, <3>1, <3>2, <3>3 DEF Ready
    <2>. QED  BY <1>3, <2>1 DEF Ready, TypeOK
  <1>4. CASE ClaimMission(r)
    <2>1. pc' \in [Requests -> PCs] /\ job' \in [Requests -> Job]
      BY <1>4, GotoTyped, ReturnTyped DEF ClaimMission, PCs
    <2>2. claim' \in [Missions -> Claim]
      <3>1. [token |-> {r}, live |-> TRUE] \in Claim
        BY DEF Claim
      <3>2. \/ claim' = [claim EXCEPT ![Of(r)] = [token |-> {r}, live |-> TRUE]]
            \/ claim' = claim
        BY <1>4 DEF ClaimMission
      <3>. QED  BY <1>0, <3>1, <3>2 DEF TypeOK
    <2>. QED  BY <1>4, <2>1, <2>2 DEF ClaimMission, TypeOK
  <1>5. CASE Count(r)
    <2>1. pc' \in [Requests -> PCs] /\ job' \in [Requests -> Job]
      BY <1>5, <1>0, TransitionTyped DEF Count, States
    <2>2. [mission[Of(r)] EXCEPT !.attempts = job[r].attempts + 1] \in Mission
      BY <1>0 DEF TypeOK, Mission
    <2>3. mission' \in [Missions -> Mission]
      BY <1>5, <1>0, <2>2, UpdateTyped DEF Count
    <2>. QED  BY <1>5, <2>1, <2>3 DEF Count, TypeOK
  <1>6. CASE Employee(r)
    <2>1. pc' \in [Requests -> PCs] /\ job' \in [Requests -> Job]
      <3>1. ASSUME NEW target \in {"completed", "waiting_human", "failed", "waiting_approval"},
                   Transition(r, Of(r), target, "release")
            PROVE  pc' \in [Requests -> PCs] /\ job' \in [Requests -> Job]
        BY <3>1, <1>0, TransitionTyped DEF States, Terminal
      <3>2. CASE Goto(r, "delay")
        BY <3>2, GotoTyped DEF PCs
      <3>3. \/ \E target \in {"completed", "waiting_human", "failed", "waiting_approval"} :
                  Transition(r, Of(r), target, "release")
            \/ Goto(r, "delay")
        BY <1>6 DEF Employee
      <3>. QED  BY <3>1, <3>2, <3>3
    <2>. QED  BY <1>6, <2>1, <1>0 DEF Employee, TypeOK
  <1>7. CASE Delay(r)
    <2>1. pc' \in [Requests -> PCs] /\ job' \in [Requests -> Job]
      BY <1>7, <1>0, TransitionTyped DEF Delay, States, ReadyStates
    <2>2. [mission[Of(r)] EXCEPT !.waits = @ \cup {"retry"}] \in Mission
      BY <1>0 DEF TypeOK, Mission
    <2>3. mission' \in [Missions -> Mission]
      BY <1>7, <1>0, <2>2, UpdateTyped DEF Delay
    <2>. QED  BY <1>7, <2>1, <2>3 DEF Delay, TypeOK
  <1>8. CASE Release(r)
    <2>1. pc' \in [Requests -> PCs] /\ job' \in [Requests -> Job]
      BY <1>8, ReturnTyped DEF Release
    <2>2. claim' \in [Missions -> Claim]
      <3>1. NoClaim \in Claim
        BY DEF NoClaim, Claim
      <3>2. claim' = [claim EXCEPT ![Of(r)] = NoClaim] \/ claim' = claim
        BY <1>8 DEF Release
      <3>. QED  BY <1>0, <3>1, <3>2 DEF TypeOK
    <2>. QED  BY <1>8, <2>1, <2>2 DEF Release, TypeOK
  <1>. QED  BY <1>1, <1>2, <1>3, <1>4, <1>5, <1>6, <1>7, <1>8 DEF Proceed

\* A request that begins: a run, or something else the user asks for.
LEMMA BeginTyped ==
    ASSUME TypeOK, NEW r \in Requests, NEW m \in Missions, Run(r, m) \/ Change(r, m)
    PROVE  TypeOK'
  <1>1. CASE Run(r, m)
    <2>. DEFINE h == claim[m].token # {} /\ claim[m].live
    <2>1. h \in BOOLEAN /\ mission[m].attempts \in Nat
      BY DEF TypeOK, Mission
    <2>2. job' = [job EXCEPT ![r] = [job[r] EXCEPT !.mission = m, !.held = h,
                                                   !.attempts = mission[m].attempts]]
      BY <1>1 DEF Run, TypeOK, h
    <2>. HIDE DEF h
    <2>3. [job[r] EXCEPT !.mission = m, !.held = h, !.attempts = mission[m].attempts] \in Job
      BY <2>1 DEF TypeOK, Job
    <2>4. job' \in [Requests -> Job]
      BY <2>2, <2>3 DEF TypeOK
    <2>. QED  BY <1>1, <2>4 DEF Run, TypeOK, PCs
  <1>2. CASE Change(r, m)
    <2>1. ASSUME NEW target \in {"paused", "cancelled", "scheduled", "pending", "completed",
                                 "waiting_human", "failed", "waiting_dependency"},
                 Transition(r, m, target, "end")
          PROVE  pc' \in [Requests -> PCs] /\ job' \in [Requests -> Job]
      BY <2>1, TransitionTyped DEF States, Terminal, ReadyStates
    <2>2. CASE Pause(r, m) \/ Cancel(r, m) \/ Resume(r, m) \/ Select(r, m)
      <3>1. pc' \in [Requests -> PCs] /\ job' \in [Requests -> Job]
        BY <2>1, <2>2 DEF Pause, Cancel, Resume, Select
      <3>. QED  BY <1>2, <2>2, <3>1 DEF Change, Pause, Cancel, Resume, Select, TypeOK
    <2>3. CASE Schedule(r, m)
      <3>1. pc' \in [Requests -> PCs] /\ job' \in [Requests -> Job]
        BY <2>1, <2>3, ReturnTyped DEF Schedule
      <3>2. mission' \in [Missions -> Mission]
        <4>1. PICK waits \in SUBSET {"schedule"} : Update(m, [mission[m] EXCEPT !.waits = waits])
          BY <2>3 DEF Schedule
        <4>2. [mission[m] EXCEPT !.waits = waits] \in Mission
          BY DEF TypeOK, Mission
        <4>. QED  BY <4>1, <4>2, UpdateTyped
      <3>. QED  BY <1>2, <2>3, <3>1, <3>2 DEF Change, Schedule, TypeOK
    <2>4. CASE Outcome(r, m)
      <3>1. pc' \in [Requests -> PCs] /\ job' \in [Requests -> Job]
        BY <2>1, <2>4 DEF Outcome, TypeOK
      <3>. QED  BY <1>2, <2>4, <3>1 DEF Change, Outcome, TypeOK
    <2>. QED  BY <1>2, <2>2, <2>3, <2>4 DEF Change
  <1>. QED  BY <1>1, <1>2

\* Every step keeps the types.
LEMMA StepTyped == ASSUME TypeOK, [Next]_vars PROVE TypeOK'
  <1>1. ASSUME NEW r \in Requests, Crash(r) PROVE TypeOK'
    <2>1. pc' \in [Requests -> PCs] /\ job' \in [Requests -> Job]
      BY <1>1, ReturnTyped DEF Crash
    <2>. QED  BY <1>1, <2>1 DEF Crash, TypeOK
  <1>2. ASSUME NEW m \in Missions, Create(m) PROVE TypeOK'
    <2>1. mission' \in [Missions -> Mission]
      BY <1>2 DEF Create, TypeOK, Mission, States, ReadyStates
    <2>. QED  BY <1>2, <2>1 DEF Create, TypeOK
  <1>3. ASSUME NEW m \in Missions, Tick(m) PROVE TypeOK'
    <2>1. mission' \in [Missions -> Mission]
      BY <1>3 DEF Tick, TypeOK, Mission
    <2>. QED  BY <1>3, <2>1 DEF Tick, TypeOK
  <1>4. ASSUME NEW m \in Missions, Lapse(m) PROVE TypeOK'
    <2>1. claim' \in [Missions -> Claim]
      BY <1>4 DEF Lapse, TypeOK, Claim
    <2>. QED  BY <1>4, <2>1 DEF Lapse, TypeOK
  <1>5. CASE UNCHANGED vars
    BY <1>5 DEF vars, TypeOK
  <1>. QED  BY <1>1, <1>2, <1>3, <1>4, <1>5, ProceedTyped, BeginTyped DEF Next

\* The rows, the claims and the requests stay well formed.
THEOREM OrchestrationTypeCorrect == Spec => []TypeOK
  <1>. QED  BY InitTyped, StepTyped, PTL DEF Spec

-----------------------------------------------------------------------------
(* OneRunner                                                                *)

\* r is past its claim: Runners, request by request.
Runs(r) ==
    \/ pc[r] \in {"count", "employee", "delay", "release"}
    \/ pc[r] \in {"check", "write"} /\ job[r].then # "end"

Owns(r) == claim[Of(r)] = [token |-> {r}, live |-> TRUE]

RunnerOwns(r) == Runs(r) => Owns(r)

\* OneRunner, said of one request at a time.
LEMMA RunnersOwn == ASSUME TypeOK PROVE OneRunner <=> \A r \in Requests : RunnerOwns(r)
  BY DEF OneRunner, Runners, Runs, RunnerOwns, Owns, Of, TypeOK, Job

\* A step of one request leaves the others where they are.
Others(r) == \A q \in Requests : q # r => pc'[q] = pc[q] /\ job'[q] = job[q]

\* What a request does to its own program leaves the others where they are.
LEMMA OthersStay ==
    ASSUME TypeOK, NEW r \in Requests,
           \/ \E s \in PCs : Goto(r, s)
           \/ Return(r)
           \/ \E m \in Missions : \E t, n : Transition(r, m, t, n)
           \/ After(r, TRUE) \/ After(r, FALSE)
    PROVE  Others(r)
  <1>1. ASSUME NEW s, Goto(r, s) PROVE Others(r)
    BY <1>1 DEF Goto, Others, TypeOK
  <1>2. ASSUME Return(r) PROVE Others(r)
    BY <1>2 DEF Return, Others, TypeOK
  <1>3. ASSUME NEW m, NEW t, NEW n, Transition(r, m, t, n) PROVE Others(r)
    BY <1>3 DEF Transition, Others, TypeOK
  <1>4. ASSUME NEW ok \in BOOLEAN, After(r, ok) PROVE Others(r)
    <2>1. job[r].then \in {"end", "release", "employee"}
      BY DEF TypeOK, Job
    <2>. QED  BY <1>1, <1>2, <1>4, <2>1 DEF After
  <1>. QED  BY <1>1, <1>2, <1>3, <1>4

\* The claims of the others stay when the step leaves all claims alone.
LEMMA OthersOwn ==
    ASSUME NEW r \in Requests, Others(r), UNCHANGED claim,
           \A q \in Requests : RunnerOwns(q), RunnerOwns(r)'
    PROVE  \A q \in Requests : RunnerOwns(q)'
  <1>1. ASSUME NEW q \in Requests, q # r PROVE RunnerOwns(q)'
    BY <1>1 DEF Others, RunnerOwns, Runs, Owns, Of
  <1>. QED  BY <1>1

\* What transition() is called with.
LEMMA TransitionEffect ==
    ASSUME TypeOK, NEW r \in Requests, NEW m, NEW t, NEW n, Transition(r, m, t, n)
    PROVE  pc'[r] = "check" /\ job'[r].mission = m /\ job'[r].target = t /\ job'[r].then = n
  <1>1. pc'[r] = "check"
    BY DEF Transition, TypeOK
  <1>2. job'[r] = [job[r] EXCEPT !.mission = m, !.target = t, !.then = n]
    BY DEF Transition, TypeOK
  <1>3. job[r] \in Job
    BY DEF TypeOK
  <1>4. job'[r] = [mission |-> m, held |-> job[r].held, attempts |-> job[r].attempts,
                   target |-> t, then |-> n]
    BY <1>2, <1>3 DEF Job
  <1>. QED  BY <1>1, <1>4

\* Where a request goes decides whether it runs.
LEMMA NotRunning ==
    ASSUME TypeOK, NEW r \in Requests,
           \/ Return(r) \/ Goto(r, "ready") \/ Goto(r, "claim")
           \/ \E m \in Missions, t \in States : Transition(r, m, t, "end")
    PROVE  ~Runs(r)'
  <1>1. CASE Return(r)
    BY <1>1 DEF Return, Runs, TypeOK
  <1>2. CASE Goto(r, "ready") \/ Goto(r, "claim")
    BY <1>2 DEF Goto, Runs, TypeOK
  <1>3. ASSUME NEW m \in Missions, NEW t \in States, Transition(r, m, t, "end") PROVE ~Runs(r)'
    <2>1. pc'[r] = "check" /\ job'[r].then = "end"
      BY <1>3, TransitionEffect
    <2>. QED  BY <2>1 DEF Runs
  <1>. QED  BY <1>1, <1>2, <1>3

\* A request that runs keeps its mission.
LEMMA KeepsMission ==
    ASSUME TypeOK, NEW r \in Requests,
           \/ \E s \in PCs : Goto(r, s)
           \/ \E t \in States : \E n : Transition(r, Of(r), t, n)
    PROVE  Of(r)' = Of(r)
  <1>1. ASSUME NEW s, Goto(r, s) PROVE Of(r)' = Of(r)
    BY <1>1 DEF Goto, Of
  <1>2. ASSUME NEW t, NEW n, Transition(r, Of(r), t, n) PROVE Of(r)' = Of(r)
    BY <1>2, TransitionEffect DEF Of
  <1>. QED  BY <1>1, <1>2

\* After transition() a run that goes on was a run before.
LEMMA AfterOwns ==
    ASSUME TypeOK, NEW r \in Requests, NEW ok \in BOOLEAN, After(r, ok), UNCHANGED claim,
           pc[r] \in {"check", "write"}, RunnerOwns(r)
    PROVE  RunnerOwns(r)'
  <1>1. job[r].then \in {"end", "release", "employee"}
    BY DEF TypeOK, Job
  <1>2. CASE Return(r)
    BY <1>2, NotRunning DEF RunnerOwns
  <1>3. CASE job[r].then # "end" /\ (Goto(r, "release") \/ Goto(r, "employee"))
    <2>1. Owns(r)
      BY <1>3 DEF RunnerOwns, Runs
    <2>2. Of(r)' = Of(r)
      BY <1>3, KeepsMission DEF PCs
    <2>. QED  BY <2>1, <2>2 DEF RunnerOwns, Owns
  <1>. QED  BY <1>1, <1>2, <1>3 DEF After

\* A request that is under way.
LEMMA ProceedOwns ==
    ASSUME TypeOK, NEW r \in Requests, Proceed(r), \A q \in Requests : RunnerOwns(q)
    PROVE  \A q \in Requests : RunnerOwns(q)'
  <1>0. Of(r) \in Missions /\ job[r].target \in States
    BY DEF TypeOK, Job, Of
  <1>1. CASE Check(r)
    <2>1. Others(r)
      BY <1>1, OthersStay DEF Check, PCs
    <2>2. RunnerOwns(r)'
      <3>1. CASE Goto(r, "write")
        <4>1. pc'[r] = "write" /\ job'[r] = job[r]
          BY <3>1 DEF Goto, TypeOK
        <4>. QED  BY <1>1, <4>1 DEF Check, RunnerOwns, Runs, Owns, Of
      <3>2. CASE After(r, FALSE)
        BY <1>1, <3>2, AfterOwns DEF Check
      <3>. QED  BY <1>1, <3>1, <3>2 DEF Check
    <2>. QED  BY <1>1, <2>1, <2>2, OthersOwn DEF Check
  <1>2. CASE Write(r)
    <2>1. Others(r)
      BY <1>2, OthersStay DEF Write
    <2>2. RunnerOwns(r)'
      BY <1>2, AfterOwns DEF Write
    <2>. QED  BY <1>2, <2>1, <2>2, OthersOwn DEF Write
  <1>3. CASE Ready(r)
    <2>1. "failed" \in States
      BY DEF States, Terminal
    <2>2. Others(r) /\ ~Runs(r)'
      BY <1>0, <1>3, <2>1, OthersStay, NotRunning DEF Ready, PCs
    <2>. QED  BY <1>3, <2>2, OthersOwn DEF Ready, RunnerOwns
  <1>4. CASE ClaimMission(r)
    <2>1. Others(r)
      BY <1>4, OthersStay DEF ClaimMission, PCs
    <2>2. CASE UNCHANGED claim /\ Return(r)
      BY <2>1, <2>2, NotRunning, OthersOwn DEF RunnerOwns
    <2>3. CASE /\ ~(claim[Of(r)].token # {} /\ claim[Of(r)].live)
               /\ claim' = [claim EXCEPT ![Of(r)] = [token |-> {r}, live |-> TRUE]]
               /\ Goto(r, "count") \/ Return(r)
      <3>1. RunnerOwns(r)'
        <4>1. CASE Return(r)
          BY <4>1, NotRunning DEF RunnerOwns
        <4>2. CASE Goto(r, "count")
          <5>1. Of(r)' = Of(r)
            BY <4>2, KeepsMission DEF PCs
          <5>. QED  BY <1>0, <2>3, <5>1 DEF RunnerOwns, Owns, TypeOK
        <4>. QED  BY <2>3, <4>1, <4>2
      <3>2. ASSUME NEW q \in Requests, q # r PROVE RunnerOwns(q)'
        <4>1. SUFFICES ASSUME Runs(q)' PROVE Owns(q)'
          BY DEF RunnerOwns
        <4>2. Runs(q) /\ Of(q)' = Of(q) /\ Of(q) \in Missions
          BY <2>1, <3>2, <4>1 DEF Others, Runs, Of, TypeOK, Job
        <4>3. claim[Of(q)] = [token |-> {q}, live |-> TRUE]
          BY <4>2 DEF RunnerOwns, Owns
        <4>4. Of(q) # Of(r)
          BY <2>3, <4>3
        <4>. QED  BY <1>0, <2>3, <4>2, <4>3, <4>4 DEF Owns, TypeOK
      <3>. QED  BY <3>1, <3>2
    <2>. QED  BY <1>4, <2>2, <2>3 DEF ClaimMission
  <1>5. CASE Count(r)
    <2>1. Others(r)
      BY <1>0, <1>5, OthersStay DEF Count
    <2>2. RunnerOwns(r)'
      <3>1. Owns(r)
        BY <1>5 DEF Count, RunnerOwns, Runs
      <3>2. Of(r)' = Of(r)
        BY <1>5, KeepsMission DEF Count, States
      <3>. QED  BY <1>5, <3>1, <3>2 DEF Count, RunnerOwns, Owns
    <2>. QED  BY <1>5, <2>1, <2>2, OthersOwn DEF Count
  <1>6. CASE Employee(r) \/ Delay(r)
    <2>1. \/ Goto(r, "delay")
          \/ \E t \in States : Transition(r, Of(r), t, "release")
      BY <1>6 DEF Employee, Delay, States, Terminal, ReadyStates
    <2>2. Others(r) /\ Of(r)' = Of(r)
      BY <1>0, <2>1, OthersStay, KeepsMission DEF PCs
    <2>3. Owns(r) /\ UNCHANGED claim
      BY <1>6 DEF Employee, Delay, RunnerOwns, Runs
    <2>4. RunnerOwns(r)'
      BY <2>2, <2>3 DEF RunnerOwns, Owns
    <2>. QED  BY <2>2, <2>3, <2>4, OthersOwn
  <1>7. CASE Release(r)
    <2>1. Others(r) /\ ~Runs(r)'
      BY <1>7, OthersStay, NotRunning DEF Release
    <2>2. claim[Of(r)] = [token |-> {r}, live |-> TRUE]
      BY <1>7 DEF Release, RunnerOwns, Runs, Owns
    <2>3. ASSUME NEW q \in Requests, q # r PROVE RunnerOwns(q)'
      <3>1. SUFFICES ASSUME Runs(q)' PROVE Owns(q)'
        BY DEF RunnerOwns
      <3>2. Runs(q) /\ Of(q)' = Of(q) /\ Of(q) \in Missions
        BY <2>1, <2>3, <3>1 DEF Others, Runs, Of, TypeOK, Job
      <3>3. claim[Of(q)] = [token |-> {q}, live |-> TRUE]
        BY <3>2 DEF RunnerOwns, Owns
      <3>4. {q} # {r}
        BY <2>3
      <3>5. Of(q) # Of(r)
        BY <2>2, <3>3, <3>4
      <3>6. claim'[Of(q)] = claim[Of(q)]
        BY <1>0, <1>7, <3>2, <3>5 DEF Release, TypeOK
      <3>. QED  BY <3>2, <3>3, <3>6 DEF Owns
    <2>. QED  BY <2>1, <2>3 DEF RunnerOwns
  <1>. QED  BY <1>1, <1>2, <1>3, <1>4, <1>5, <1>6, <1>7 DEF Proceed

\* Every step without a lapse keeps every runner in possession of its claim.
LEMMA StepOwns ==
    ASSUME "lapse" \notin Faults, TypeOK, OneRunner, [Next]_vars
    PROVE  OneRunner'
  <1>0. TypeOK' /\ \A q \in Requests : RunnerOwns(q)
    BY StepTyped, RunnersOwn
  <1>1. ASSUME NEW r \in Requests, Crash(r) PROVE \A q \in Requests : RunnerOwns(q)'
    <2>1. Others(r) /\ ~Runs(r)' /\ UNCHANGED claim
      BY <1>1, OthersStay, NotRunning DEF Crash
    <2>. QED  BY <1>0, <2>1, OthersOwn DEF RunnerOwns
  <1>2. ASSUME NEW r \in Requests, NEW m \in Missions, Run(r, m)
        PROVE  \A q \in Requests : RunnerOwns(q)'
    <2>1. Others(r) /\ ~Runs(r)' /\ UNCHANGED claim
      BY <1>2 DEF Run, Others, Runs, TypeOK
    <2>. QED  BY <1>0, <2>1, OthersOwn DEF RunnerOwns
  <1>3. ASSUME NEW r \in Requests, NEW m \in Missions, Change(r, m)
        PROVE  \A q \in Requests : RunnerOwns(q)'
    <2>1. \/ \E t \in States : Transition(r, m, t, "end")
          \/ Return(r)
          \/ UNCHANGED <<pc, job>> /\ pc[r] = "idle"
      BY <1>3 DEF Change, Pause, Cancel, Resume, Schedule, Outcome, Select, States, Terminal, ReadyStates
    <2>2. Others(r) /\ ~Runs(r)' /\ UNCHANGED claim
      <3>1. CASE UNCHANGED <<pc, job>> /\ pc[r] = "idle"
        BY <1>3, <3>1 DEF Change, Others, Runs
      <3>. QED  BY <1>3, <2>1, <3>1, OthersStay, NotRunning DEF Change
    <2>. QED  BY <1>0, <2>2, OthersOwn DEF RunnerOwns
  <1>4. ASSUME UNCHANGED <<claim, pc, job>> PROVE \A q \in Requests : RunnerOwns(q)'
    BY <1>0, <1>4 DEF RunnerOwns, Runs, Owns, Of
  <1>5. ASSUME NEW m \in Missions, Create(m) \/ Tick(m) PROVE UNCHANGED <<claim, pc, job>>
    BY <1>5 DEF Create, Tick
  <1>6. ASSUME NEW m \in Missions, Lapse(m) PROVE FALSE
    BY <1>6 DEF Lapse
  <1>7. UNCHANGED vars => UNCHANGED <<claim, pc, job>>
    BY DEF vars
  <1>8. \A q \in Requests : RunnerOwns(q)'
    BY <1>0, <1>1, <1>2, <1>3, <1>4, <1>5, <1>6, <1>7, ProceedOwns DEF Next
  <1>. QED  BY <1>0, <1>8 DEF OneRunner, Runners, Runs, RunnerOwns, Owns, Of, TypeOK, Job

\* While no lease runs out, a mission never has two runs, whatever crashes and
\* whichever statement fails: a run that is under way holds the live claim.
THEOREM OneRunnerAlways == ASSUME "lapse" \notin Faults PROVE Spec => []OneRunner
  <1>1. Init => OneRunner
    BY DEF Init, OneRunner, Runners
  <1>. QED  BY <1>1, InitTyped, StepTyped, StepOwns, PTL DEF Spec

\* A live claim ends only in the release of its own run, lapsed leases included.
THEOREM ReleaseIsOwnAlways == Spec => ReleaseIsOwn
  <1>. DEFINE Own == \A m \in Missions, r \in Requests :
                        claim[m] = [token |-> {r}, live |-> TRUE] /\ claim'[m].token # {r}
                        => pc[r] = "release" /\ pc'[r] = "idle" /\ Of(r) = m
  <1>1. ASSUME TypeOK, [Next]_vars PROVE Own
    <2>1. SUFFICES ASSUME NEW m \in Missions, NEW r \in Requests,
                          claim[m] = [token |-> {r}, live |-> TRUE], claim'[m].token # {r}
                   PROVE  pc[r] = "release" /\ pc'[r] = "idle" /\ Of(r) = m
      OBVIOUS
    <2>2. claim'[m] # claim[m]
      BY <2>1
    <2>3. ASSUME NEW q \in Requests, ClaimMission(q) PROVE FALSE
      <3>1. claim[m].token # {} /\ claim[m].live
        BY <2>1
      <3>2. CASE claim' = [claim EXCEPT ![Of(q)] = [token |-> {q}, live |-> TRUE]] /\ Of(q) # m
        BY <1>1, <2>2, <3>2 DEF TypeOK
      <3>. QED  BY <2>2, <2>3, <3>1, <3>2 DEF ClaimMission
    <2>4. ASSUME NEW q \in Requests, Release(q) PROVE q = r /\ Of(r) = m
      <3>1. claim[Of(q)].token = {q} /\ Of(q) = m
        BY <1>1, <2>2, <2>4 DEF Release, TypeOK
      <3>2. {q} = {r}
        BY <2>1, <3>1
      <3>. QED  BY <3>1, <3>2
    <2>5. ASSUME NEW q \in Requests, Release(q) PROVE pc[r] = "release" /\ pc'[r] = "idle"
      BY <1>1, <2>4, <2>5 DEF Release, Return, TypeOK
    <2>6. ASSUME NEW d \in Missions, Lapse(d) PROVE FALSE
      BY <1>1, <2>1, <2>6 DEF Lapse, TypeOK, Claim
    <2>7. ASSUME UNCHANGED claim PROVE FALSE
      BY <2>2, <2>7
    <2>8. ASSUME NEW q \in Requests, Proceed(q), ~ClaimMission(q), ~Release(q) PROVE UNCHANGED claim
      BY <2>8 DEF Proceed, Check, Write, Ready, Count, Employee, Delay
    <2>9. ASSUME NEW q \in Requests, NEW d \in Missions, Crash(q) \/ Run(q, d) \/ Change(q, d)
          PROVE  UNCHANGED claim
      BY <2>9 DEF Crash, Run, Change
    <2>10. ASSUME NEW d \in Missions, Create(d) \/ Tick(d) PROVE UNCHANGED claim
      BY <2>10 DEF Create, Tick
    <2>11. UNCHANGED vars => UNCHANGED claim
      BY DEF vars
    <2>12. \E q \in Requests : Release(q)
      BY <1>1, <2>3, <2>6, <2>7, <2>8, <2>9, <2>10, <2>11 DEF Next
    <2>. QED  BY <2>4, <2>5, <2>12
  <1>2. TypeOK /\ [Next]_vars => [Own]_vars
    BY <1>1
  <1>. QED  BY <1>2, OrchestrationTypeCorrect, PTL DEF Spec, ReleaseIsOwn

-----------------------------------------------------------------------------
(* DependenciesFirst                                                        *)

Attempted(m) == mission[m].attempts > 0

DependenciesRun(m) == \A d \in Dependencies[m] : Attempted(d)

\* What has an outcome was attempted, and what was attempted had its dependencies run.
MissionOK(m) ==
    /\ mission[m].status = "absent" => ~Attempted(m)
    /\ mission[m].status = "completed" => Attempted(m)
    /\ approval[m] # "none" => Attempted(m)
    /\ Attempted(m) => DependenciesRun(m)

\* r has counted its attempt, or was told by somebody who had to write an outcome.
Counted(r) ==
    \/ pc[r] \in {"employee", "delay", "release"}
    \/ pc[r] \in {"check", "write"} /\ (job[r].then # "end" \/ job[r].target = "completed")

RequestOK(r) ==
    /\ pc[r] # "idle" => mission[Of(r)].status # "absent"
    /\ pc[r] \in {"claim", "count"} => DependenciesRun(Of(r))
    /\ Counted(r) => Attempted(Of(r))

\* DependenciesFirst is not inductive: between the read of a dependency and the count
\* of the attempt it rests on what "completed" and an approval say of the past.
InOrder == (\A m \in Missions : MissionOK(m)) /\ (\A r \in Requests : RequestOK(r))

\* Missions neither vanish nor lose their attempts.
Lasting ==
    \A m \in Missions :
        /\ Attempted(m) => Attempted(m)'
        /\ mission[m].status # "absent" => mission'[m].status # "absent"

\* Dependencies that have run have run for ever.
LEMMA DependenciesLast ==
    ASSUME Lasting, NEW m \in Missions, DependenciesRun(m)
    PROVE  DependenciesRun(m)'
  BY OrchestrationAssumption DEF Lasting, DependenciesRun

\* A request that does not move is as well as it was.
LEMMA RequestStays ==
    ASSUME TypeOK, Lasting, NEW q \in Requests, RequestOK(q), pc'[q] = pc[q], job'[q] = job[q]
    PROVE  RequestOK(q)'
  <1>1. Of(q) \in Missions /\ Of(q)' = Of(q)
    BY DEF TypeOK, Job, Of
  <1>2. mission[Of(q)].status # "absent" => mission'[Of(q)].status # "absent"
    BY <1>1 DEF Lasting
  <1>3. Attempted(Of(q)) => Attempted(Of(q))'
    BY <1>1 DEF Lasting, Attempted
  <1>4. DependenciesRun(Of(q)) => DependenciesRun(Of(q))'
    <2>1. ASSUME DependenciesRun(Of(q)), NEW d \in Dependencies[Of(q)]
          PROVE  Attempted(d)'
      BY <1>1, <2>1, OrchestrationAssumption DEF Lasting, DependenciesRun
    <2>. QED  BY <1>1, <2>1 DEF DependenciesRun
  <1>. QED  BY <1>1, <1>2, <1>3, <1>4 DEF RequestOK, Counted

\* An idle request promises nothing.
LEMMA IdleOK ==
    ASSUME NEW r \in Requests, pc'[r] = "idle"
    PROVE  RequestOK(r)'
  BY DEF RequestOK, Counted

\* Missions whose rows and approvals stay are as well as they were.
LEMMA MissionStays ==
    ASSUME Lasting, NEW m \in Missions, MissionOK(m),
           mission'[m].attempts = mission[m].attempts,
           mission'[m].status = mission[m].status, approval'[m] = approval[m]
    PROVE  MissionOK(m)'
  <1>1. DependenciesRun(m) => DependenciesRun(m)'
    BY DependenciesLast
  <1>. QED  BY <1>1 DEF MissionOK, Attempted

\* What leaves the rows and the approvals alone leaves the missions in order.
LEMMA MissionsStay ==
    ASSUME InOrder, UNCHANGED <<mission, approval>>
    PROVE  Lasting /\ \A m \in Missions : MissionOK(m)'
  <1>1. Lasting
    BY DEF Lasting, Attempted
  <1>. QED  BY <1>1, MissionStays DEF InOrder

\* Everything is in order if the others did not move and r is well.
LEMMA InOrderNext ==
    ASSUME TypeOK, InOrder, Lasting, \A m \in Missions : MissionOK(m)',
           NEW r \in Requests, Others(r), RequestOK(r)'
    PROVE  InOrder'
  <1>1. ASSUME NEW q \in Requests, q # r PROVE RequestOK(q)'
    BY <1>1, RequestStays DEF Others, InOrder
  <1>. QED  BY <1>1 DEF InOrder

\* One mission changes, and is in order afterwards.
LEMMA MissionChanges ==
    ASSUME InOrder, NEW m \in Missions,
           \A d \in Missions \ {m} : mission'[d] = mission[d] /\ approval'[d] = approval[d],
           Attempted(m) => Attempted(m)',
           mission'[m].status # "absent",
           mission'[m].status = "completed" \/ approval'[m] # "none" => Attempted(m)',
           Attempted(m)' => DependenciesRun(m)
    PROVE  Lasting /\ \A d \in Missions : MissionOK(d)'
  <1>1. Lasting
    BY DEF Lasting, Attempted
  <1>2. MissionOK(m)'
    BY <1>1, DependenciesLast DEF MissionOK
  <1>3. \A d \in Missions \ {m} : MissionOK(d)'
    BY <1>1, MissionStays DEF InOrder
  <1>. QED  BY <1>1, <1>2, <1>3

\* A request that calls transition() knows that the mission exists, and that it was
\* attempted if more than the status depends on it.
LEMMA TransitionInOrder ==
    ASSUME TypeOK, Lasting, NEW r \in Requests, NEW m \in Missions, NEW t, NEW n,
           Transition(r, m, t, n), mission[m].status # "absent",
           n # "end" \/ t = "completed" => Attempted(m)'
    PROVE  Others(r) /\ RequestOK(r)'
  <1>1. pc'[r] = "check" /\ job'[r].mission = m /\ job'[r].then = n /\ job'[r].target = t
    BY TransitionEffect
  <1>2. Others(r)
    BY OthersStay
  <1>3. mission'[m].status # "absent" /\ Of(r)' = m
    BY <1>1 DEF Lasting, Of
  <1>. QED  BY <1>1, <1>2, <1>3 DEF RequestOK, Counted

\* What a transition comes back to has been counted before.
LEMMA AfterInOrder ==
    ASSUME TypeOK, InOrder, Lasting, NEW r \in Requests, NEW ok \in BOOLEAN,
           pc[r] \in {"check", "write"}, After(r, ok)
    PROVE  Others(r) /\ RequestOK(r)'
  <1>1. Others(r)
    BY OthersStay
  <1>2. job[r].then \in {"end", "release", "employee"} /\ Of(r) \in Missions /\ RequestOK(r)
    BY DEF TypeOK, Job, Of, InOrder
  <1>3. CASE Return(r)
    <2>1. pc'[r] = "idle"
      BY <1>3 DEF Return, TypeOK
    <2>. QED  BY <1>1, <2>1, IdleOK
  <1>4. CASE job[r].then # "end" /\ (Goto(r, "release") \/ Goto(r, "employee"))
    <2>1. pc'[r] \in {"release", "employee"} /\ Of(r)' = Of(r)
      BY <1>4 DEF Goto, TypeOK, Of
    <2>2. mission[Of(r)].status # "absent" /\ Attempted(Of(r))
      BY <1>2, <1>4 DEF RequestOK, Counted
    <2>3. mission'[Of(r)].status # "absent" /\ Attempted(Of(r))'
      BY <1>2, <2>1, <2>2 DEF Lasting, Attempted
    <2>. QED  BY <1>1, <2>1, <2>3 DEF RequestOK, Counted
  <1>. QED  BY <1>2, <1>3, <1>4 DEF After

\* A request that is under way, statement by statement.
LEMMA ProceedInOrder ==
    ASSUME "db" \notin Faults, TypeOK, InOrder, NEW r \in Requests, Proceed(r)
    PROVE  InOrder'
  <1>0. /\ Of(r) \in Missions /\ job[r].target \in States /\ job[r].attempts \in Nat
        /\ RequestOK(r) /\ MissionOK(Of(r))
    BY DEF TypeOK, Job, Of, InOrder
  <1>1. CASE Check(r)
    <2>1. Lasting /\ \A m \in Missions : MissionOK(m)'
      BY <1>1, MissionsStay DEF Check
    <2>2. CASE Goto(r, "write")
      <3>1. Others(r)
        BY <2>2, OthersStay DEF PCs
      <3>2. pc'[r] = "write" /\ job' = job /\ UNCHANGED mission /\ pc[r] = "check"
        BY <1>1, <2>2 DEF Goto, TypeOK, Check
      <3>3. RequestOK(r)'
        BY <1>0, <3>2 DEF RequestOK, Counted, Of, Attempted
      <3>. QED  BY <2>1, <3>1, <3>3, InOrderNext
    <2>3. CASE After(r, FALSE)
      BY <1>1, <2>1, <2>3, AfterInOrder, InOrderNext DEF Check
    <2>. QED  BY <1>1, <2>2, <2>3 DEF Check
  <1>2. CASE Write(r)
    <2>1. mission' = [mission EXCEPT ![Of(r)].status = job[r].target] /\ After(r, TRUE)
          /\ UNCHANGED approval /\ pc[r] = "write"
      BY <1>2 DEF Write
    <2>2. /\ mission'[Of(r)].status = job[r].target
          /\ mission'[Of(r)].attempts = mission[Of(r)].attempts
          /\ \A d \in Missions \ {Of(r)} : mission'[d] = mission[d] /\ approval'[d] = approval[d]
      BY <1>0, <2>1 DEF TypeOK, Mission
    <2>3. job[r].target # "absent" /\ (job[r].target = "completed" => Attempted(Of(r)))
      BY <1>0, <2>1 DEF States, Terminal, ReadyStates, RequestOK, Counted
    <2>4. Lasting /\ \A m \in Missions : MissionOK(m)'
      BY <1>0, <2>1, <2>2, <2>3, MissionChanges DEF MissionOK, Attempted
    <2>. QED  BY <2>1, <2>4, AfterInOrder, InOrderNext
  <1>3. CASE Ready(r)
    <2>1. Lasting /\ \A m \in Missions : MissionOK(m)'
      BY <1>3, MissionsStay DEF Ready
    <2>2. mission[Of(r)].status # "absent" /\ UNCHANGED mission
      BY <1>0, <1>3 DEF Ready, RequestOK
    <2>3. CASE Return(r)
      <3>1. Others(r) /\ pc'[r] = "idle"
        BY <2>3, OthersStay DEF Return, TypeOK
      <3>. QED  BY <2>1, <3>1, IdleOK, InOrderNext
    <2>4. CASE ~Blocked(Of(r)) /\ Goto(r, "claim")
      <3>1. Others(r) /\ pc'[r] = "claim" /\ Of(r)' = Of(r)
        BY <2>4, OthersStay DEF PCs, Goto, TypeOK, Of
      <3>2. \A d \in Dependencies[Of(r)] : d \in Missions /\ mission[d].status = "completed"
        BY <1>0, <2>4, OrchestrationAssumption DEF Blocked
      <3>3. DependenciesRun(Of(r))
        BY <3>2 DEF DependenciesRun, InOrder, MissionOK
      <3>4. RequestOK(r)'
        BY <2>2, <3>1, <3>3 DEF RequestOK, Counted, DependenciesRun, Attempted
      <3>. QED  BY <2>1, <3>1, <3>4, InOrderNext
    <2>5. CASE Transition(r, Of(r), "failed", "end")
      BY <1>0, <2>1, <2>2, <2>5, TransitionInOrder, InOrderNext
    <2>. QED  BY <1>3, <2>3, <2>4, <2>5 DEF Ready
  <1>4. CASE ClaimMission(r)
    <2>1. Lasting /\ \A m \in Missions : MissionOK(m)'
      BY <1>4, MissionsStay DEF ClaimMission
    <2>2. CASE Return(r)
      <3>1. Others(r) /\ pc'[r] = "idle"
        BY <2>2, OthersStay DEF Return, TypeOK
      <3>. QED  BY <2>1, <3>1, IdleOK, InOrderNext
    <2>3. CASE Goto(r, "count")
      <3>1. Others(r) /\ pc'[r] = "count" /\ Of(r)' = Of(r)
        BY <2>3, OthersStay DEF PCs, Goto, TypeOK, Of
      <3>2. UNCHANGED mission /\ pc[r] = "claim"
        BY <1>4 DEF ClaimMission
      <3>3. RequestOK(r)'
        BY <1>0, <3>1, <3>2 DEF RequestOK, Counted, DependenciesRun, Attempted
      <3>. QED  BY <2>1, <3>1, <3>3, InOrderNext
    <2>. QED  BY <1>4, <2>2, <2>3 DEF ClaimMission
  <1>5. CASE Count(r)
    <2>1. /\ mission' = [mission EXCEPT ![Of(r)] = [mission[Of(r)] EXCEPT !.attempts = job[r].attempts + 1]]
          /\ UNCHANGED approval /\ pc[r] = "count" /\ Transition(r, Of(r), "active", "employee")
      BY <1>5 DEF Count, Update
    <2>2. /\ mission'[Of(r)].status = mission[Of(r)].status
          /\ mission'[Of(r)].attempts = job[r].attempts + 1
          /\ \A d \in Missions \ {Of(r)} : mission'[d] = mission[d] /\ approval'[d] = approval[d]
      BY <1>0, <2>1 DEF TypeOK, Mission
    <2>3. /\ Attempted(Of(r))' /\ DependenciesRun(Of(r))
          /\ mission[Of(r)].status # "absent"
      <3>1. mission'[Of(r)].attempts > 0
        BY <1>0, <2>2
      <3>2. Of(r)' = Of(r)
        BY <1>0, <2>1, TransitionEffect DEF Of
      <3>. QED  BY <1>0, <2>1, <3>1, <3>2 DEF Attempted, RequestOK
    <2>4. \A m \in Missions : m = Of(r) => Attempted(m)'
      BY <2>2, <1>0 DEF Attempted
    <2>5. Lasting /\ \A m \in Missions : MissionOK(m)'
      BY <1>0, <2>2, <2>3, <2>4, MissionChanges
    <2>. QED  BY <1>0, <2>1, <2>3, <2>4, <2>5, TransitionInOrder, InOrderNext
  <1>6. CASE Employee(r)
    <2>1. Attempted(Of(r)) /\ mission[Of(r)].status # "absent" /\ UNCHANGED mission
      BY <1>0, <1>6 DEF Employee, RequestOK, Counted
    <2>2. \A d \in Missions : Attempted(d)' <=> Attempted(d)
      BY <2>1 DEF Attempted
    <2>3. \A d \in Missions \ {Of(r)} : approval'[d] = approval[d]
      BY <1>6 DEF Employee, TypeOK
    <2>4. Lasting /\ \A m \in Missions : MissionOK(m)'
      <3>. DEFINE m == Of(r)
      <3>1. mission'[m].status = mission[m].status
        BY <2>1
      <3>. QED  BY <1>0, <2>1, <2>2, <2>3, <3>1, MissionChanges DEF MissionOK
    <2>5. CASE Goto(r, "delay")
      <3>1. Others(r) /\ pc'[r] = "delay" /\ Of(r)' = Of(r)
        BY <2>5, OthersStay DEF PCs, Goto, TypeOK, Of
      <3>2. RequestOK(r)'
        BY <2>1, <3>1 DEF RequestOK, Counted, Attempted
      <3>. QED  BY <2>4, <3>1, <3>2, InOrderNext
    <2>6. ASSUME NEW t, Transition(r, Of(r), t, "release") PROVE InOrder'
      BY <1>0, <2>1, <2>2, <2>4, <2>6, TransitionInOrder, InOrderNext
    <2>. QED  BY <1>6, <2>5, <2>6 DEF Employee
  <1>7. CASE Delay(r)
    <2>1. /\ mission' = [mission EXCEPT ![Of(r)] = [mission[Of(r)] EXCEPT !.waits = @ \cup {"retry"}]]
          /\ UNCHANGED approval /\ pc[r] = "delay" /\ Transition(r, Of(r), "retrying", "release")
      BY <1>7 DEF Delay, Update
    <2>2. /\ mission'[Of(r)].status = mission[Of(r)].status
          /\ mission'[Of(r)].attempts = mission[Of(r)].attempts
          /\ \A d \in Missions \ {Of(r)} : mission'[d] = mission[d] /\ approval'[d] = approval[d]
      BY <1>0, <2>1 DEF TypeOK, Mission
    <2>3. Attempted(Of(r)) /\ mission[Of(r)].status # "absent"
      BY <1>0, <2>1 DEF RequestOK, Counted
    <2>4. \A m \in Missions : m = Of(r) => (Attempted(m)' <=> Attempted(m))
      BY <2>2 DEF Attempted
    <2>5. Lasting /\ \A m \in Missions : MissionOK(m)'
      BY <1>0, <2>1, <2>2, <2>3, <2>4, MissionChanges DEF MissionOK
    <2>. QED  BY <1>0, <2>1, <2>3, <2>4, <2>5, TransitionInOrder, InOrderNext
  <1>8. CASE Release(r)
    <2>1. Others(r) /\ pc'[r] = "idle"
      BY <1>8, OthersStay DEF Release, Return, TypeOK
    <2>2. Lasting /\ \A m \in Missions : MissionOK(m)'
      BY <1>8, MissionsStay DEF Release
    <2>. QED  BY <2>1, <2>2, IdleOK, InOrderNext
  <1>. QED  BY <1>1, <1>2, <1>3, <1>4, <1>5, <1>6, <1>7, <1>8 DEF Proceed

\* A request that begins finds a mission, and completes only one that was attempted.
LEMMA BeginInOrder ==
    ASSUME "db" \notin Faults, TypeOK, InOrder, NEW r \in Requests, NEW m \in Missions,
           Run(r, m) \/ Change(r, m)
    PROVE  InOrder'
  <1>0. MissionOK(m)
    BY DEF InOrder
  <1>1. CASE Run(r, m)
    <2>1. Lasting /\ \A d \in Missions : MissionOK(d)'
      BY <1>1, MissionsStay DEF Run
    <2>2. Others(r) /\ pc'[r] = "ready" /\ UNCHANGED mission
      BY <1>1 DEF Run, Others, TypeOK
    <2>3. Of(r)' = m
      <3>1. job'[r] = [job[r] EXCEPT !.mission = m, !.held = claim[m].token # {} /\ claim[m].live,
                                     !.attempts = mission[m].attempts]
        BY <1>1 DEF Run, TypeOK
      <3>2. job[r] \in Job
        BY DEF TypeOK
      <3>. QED  BY <3>1, <3>2 DEF Job, Of
    <2>4. mission[m].status # "absent"
      BY <1>1 DEF Run, Due, ReadyStates
    <2>5. RequestOK(r)'
      BY <2>2, <2>3, <2>4 DEF RequestOK, Counted
    <2>. QED  BY <2>1, <2>2, <2>5, InOrderNext
  <1>2. CASE Change(r, m)
    <2>0. pc[r] = "idle" /\ mission[m].status # "absent"
      BY <1>2 DEF Change
    <2>1. CASE Pause(r, m) \/ Cancel(r, m) \/ Resume(r, m) \/ Select(r, m)
      <3>1. UNCHANGED <<mission, approval>>
        BY <2>1 DEF Pause, Cancel, Resume, Select
      <3>2. \E t : t # "completed" /\ Transition(r, m, t, "end")
        BY <2>1 DEF Pause, Cancel, Resume, Select
      <3>3. Lasting /\ \A d \in Missions : MissionOK(d)'
        BY <3>1, MissionsStay
      <3>4. Others(r) /\ RequestOK(r)'
        BY <2>0, <3>2, <3>3, TransitionInOrder
      <3>. QED  BY <3>3, <3>4, InOrderNext
    <2>2. CASE Schedule(r, m)
      <3>1. PICK waits \in SUBSET {"schedule"} :
                mission' = [mission EXCEPT ![m] = [mission[m] EXCEPT !.waits = waits]]
        BY <2>2 DEF Schedule, Update
      <3>2. /\ mission'[m].status = mission[m].status
            /\ mission'[m].attempts = mission[m].attempts
            /\ \A d \in Missions \ {m} : mission'[d] = mission[d]
            /\ UNCHANGED approval /\ Transition(r, m, "scheduled", "end")
        BY <2>2, <3>1 DEF Schedule, TypeOK, Mission
      <3>3. Attempted(m)' <=> Attempted(m)
        BY <3>2 DEF Attempted
      <3>4. Lasting /\ \A d \in Missions : MissionOK(d)'
        BY <1>0, <2>0, <3>2, <3>3, MissionChanges DEF MissionOK
      <3>5. Others(r) /\ RequestOK(r)'
        BY <2>0, <3>2, <3>4, TransitionInOrder
      <3>. QED  BY <3>4, <3>5, InOrderNext
    <2>3. CASE Outcome(r, m)
      <3>1. /\ UNCHANGED mission /\ approval[m] # "none"
            /\ \A d \in Missions \ {m} : approval'[d] = approval[d]
        BY <2>3 DEF Outcome, TypeOK
      <3>2. Attempted(m) /\ Attempted(m)'
        BY <1>0, <3>1 DEF MissionOK, Attempted
      <3>3. Lasting /\ \A d \in Missions : MissionOK(d)'
        BY <1>0, <2>0, <3>1, <3>2, MissionChanges DEF MissionOK
      <3>4. CASE \E t : Transition(r, m, t, "end")
        <4>1. Others(r) /\ RequestOK(r)'
          BY <2>0, <3>2, <3>3, <3>4, TransitionInOrder
        <4>. QED  BY <3>3, <4>1, InOrderNext
      <3>5. CASE UNCHANGED <<pc, job>>
        <4>1. Others(r) /\ pc'[r] = "idle"
          BY <2>0, <3>5 DEF Others
        <4>. QED  BY <3>3, <4>1, IdleOK, InOrderNext
      <3>. QED  BY <2>3, <3>4, <3>5 DEF Outcome
    <2>. QED  BY <1>2, <2>1, <2>2, <2>3 DEF Change
  <1>. QED  BY <1>1, <1>2

\* Every step keeps the missions in order, as long as an UPDATE does not fail unnoticed.
LEMMA StepInOrder ==
    ASSUME "db" \notin Faults, TypeOK, InOrder, [Next]_vars
    PROVE  InOrder'
  <1>1. ASSUME NEW r \in Requests, Crash(r) PROVE InOrder'
    <2>1. Others(r) /\ pc'[r] = "idle"
      BY <1>1, OthersStay DEF Crash, Return, TypeOK
    <2>2. Lasting /\ \A m \in Missions : MissionOK(m)'
      BY <1>1, MissionsStay DEF Crash
    <2>. QED  BY <2>1, <2>2, IdleOK, InOrderNext
  <1>2. ASSUME UNCHANGED <<pc, job>>, Lasting, \A m \in Missions : MissionOK(m)'
        PROVE  InOrder'
    <2>1. \A r \in Requests : RequestOK(r)'
      BY <1>2, RequestStays DEF InOrder
    <2>. QED  BY <1>2, <2>1 DEF InOrder
  <1>3. ASSUME NEW m \in Missions, Create(m) PROVE InOrder'
    <2>1. /\ mission'[m].attempts = 0 /\ mission'[m].status \in {"pending", "scheduled"}
          /\ \A d \in Missions \ {m} : mission'[d] = mission[d]
          /\ UNCHANGED <<approval, pc, job>> /\ mission[m].status = "absent"
      BY <1>3 DEF Create, TypeOK
    <2>2. ~Attempted(m) /\ approval[m] = "none" /\ ~Attempted(m)'
      BY <2>1 DEF InOrder, MissionOK, Attempted, TypeOK
    <2>3. Lasting /\ \A d \in Missions : MissionOK(d)'
      BY <2>1, <2>2, MissionChanges
    <2>. QED  BY <1>2, <2>1, <2>3
  <1>4. ASSUME NEW m \in Missions, Tick(m) PROVE InOrder'
    <2>1. /\ mission'[m].status = mission[m].status
          /\ mission'[m].attempts = mission[m].attempts
          /\ \A d \in Missions \ {m} : mission'[d] = mission[d]
          /\ UNCHANGED <<approval, pc, job>>
      BY <1>4 DEF Tick, TypeOK, Mission
    <2>2. \A d \in Missions : /\ mission'[d].status = mission[d].status
                              /\ mission'[d].attempts = mission[d].attempts
                              /\ approval'[d] = approval[d]
      BY <2>1
    <2>3. Lasting
      BY <2>2 DEF Lasting, Attempted
    <2>4. \A d \in Missions : MissionOK(d)'
      BY <2>2, <2>3, MissionStays DEF InOrder
    <2>. QED  BY <1>2, <2>1, <2>3, <2>4
  <1>5. ASSUME UNCHANGED <<mission, approval, pc, job>> PROVE InOrder'
    BY <1>2, <1>5, MissionsStay
  <1>6. ASSUME NEW m \in Missions, Lapse(m) PROVE InOrder'
    BY <1>5, <1>6 DEF Lapse
  <1>7. CASE UNCHANGED vars
    BY <1>5, <1>7 DEF vars
  <1>. QED  BY <1>1, <1>3, <1>4, <1>6, <1>7, ProceedInOrder, BeginInOrder DEF Next

\* As long as no UPDATE fails unnoticed: a mission is not run before every mission that it
\* depends on has been run, whatever lapses, crashes, or is cancelled and resumed between.
THEOREM DependenciesFirstAlways == ASSUME "db" \notin Faults PROVE Spec => []DependenciesFirst
  <1>1. Init => InOrder
    BY DEF Init, InOrder, MissionOK, RequestOK, Attempted, Counted
  <1>2. TypeOK /\ InOrder => DependenciesFirst
    <2>1. SUFFICES ASSUME TypeOK, InOrder, NEW m \in Missions,
                          Attempted(m) \/ Runners(m) # {}
                   PROVE  DependenciesRun(m)
      BY DEF DependenciesFirst, Attempted, DependenciesRun
    <2>2. ASSUME NEW r \in Requests, r \in Runners(m) PROVE Attempted(m) \/ DependenciesRun(m)
      BY <2>1, <2>2 DEF Runners, InOrder, RequestOK, Counted
    <2>. QED  BY <2>1, <2>2 DEF Runners, InOrder, MissionOK
  <1>. QED  BY <1>1, <1>2, InitTyped, StepTyped, StepInOrder, PTL DEF Spec

-----------------------------------------------------------------------------
(* max_attempts                                                             *)

\* A request that will count an attempt has read a count below the limit.
Room(r) == pc[r] \in {"claim", "count"} => job[r].attempts < MaxAttempts

Within == \A m \in Missions : mission[m].attempts <= MaxAttempts

\* Only Create and Count write attempt_count.
LEMMA CountsStay ==
    ASSUME TypeOK, [Next]_vars, Within, NEW m \in Missions,
           \A r \in Requests : Room(r)
    PROVE  mission'[m].attempts <= MaxAttempts
  <1>0. mission[m].attempts <= MaxAttempts /\ MaxAttempts \in Nat
    BY OrchestrationAssumption DEF Within
  <1>1. CASE mission'[m].attempts = mission[m].attempts
    BY <1>0, <1>1
  <1>2. ASSUME NEW r \in Requests, Count(r) PROVE mission'[m].attempts <= MaxAttempts
    <2>1. Of(r) \in Missions /\ job[r].attempts \in Nat /\ job[r].attempts < MaxAttempts
      BY <1>2 DEF TypeOK, Job, Of, Count, Room
    <2>2. \/ UNCHANGED mission
          \/ mission' = [mission EXCEPT ![Of(r)] =
                            [mission[Of(r)] EXCEPT !.attempts = job[r].attempts + 1]]
      BY <1>2 DEF Count, Update
    <2>3. mission'[m].attempts = mission[m].attempts \/ mission'[m].attempts = job[r].attempts + 1
      BY <2>1, <2>2 DEF TypeOK, Mission
    <2>. QED  BY <1>0, <2>1, <2>3
  <1>3. ASSUME NEW d \in Missions, Create(d) PROVE mission'[m].attempts <= MaxAttempts
    <2>1. mission'[m] = mission[m] \/ mission'[m].attempts = 0
      BY <1>3 DEF Create, TypeOK
    <2>. QED  BY <1>0, <2>1
  <1>4. ASSUME NEW r \in Requests, Write(r) \/ Delay(r)
        PROVE  mission'[m].attempts = mission[m].attempts
    <2>1. Of(r) \in Missions
      BY DEF TypeOK, Job, Of
    <2>2. ASSUME NEW s, mission' = [mission EXCEPT ![Of(r)] = [mission[Of(r)] EXCEPT !.status = s]]
          PROVE  mission'[m].attempts = mission[m].attempts
      BY <2>1, <2>2 DEF TypeOK, Mission
    <2>3. ASSUME NEW w, mission' = [mission EXCEPT ![Of(r)] = [mission[Of(r)] EXCEPT !.waits = w]]
          PROVE  mission'[m].attempts = mission[m].attempts
      BY <2>1, <2>3 DEF TypeOK, Mission
    <2>4. CASE Write(r)
      <3>1. \/ UNCHANGED mission
            \/ mission' = [mission EXCEPT ![Of(r)] =
                              [mission[Of(r)] EXCEPT !.status = job[r].target]]
        BY <2>4 DEF Write, Update
      <3>. QED  BY <3>1, <2>2
    <2>5. CASE Delay(r)
      <3>1. \/ UNCHANGED mission
            \/ mission' = [mission EXCEPT ![Of(r)] =
                              [mission[Of(r)] EXCEPT !.waits = @ \cup {"retry"}]]
        BY <2>5 DEF Delay, Update
      <3>. QED  BY <3>1, <2>3
    <2>. QED  BY <1>4, <2>4, <2>5
  <1>5. ASSUME NEW r \in Requests, NEW d \in Missions, Change(r, d)
        PROVE  mission'[m].attempts = mission[m].attempts
    <2>1. \/ UNCHANGED mission
          \/ \E w : mission' = [mission EXCEPT ![d] = [mission[d] EXCEPT !.waits = w]]
      <3>1. CASE Schedule(r, d)
        BY <3>1 DEF Schedule, Update
      <3>2. CASE ~Schedule(r, d)
        BY <1>5, <3>2 DEF Change, Pause, Cancel, Resume, Outcome, Select
      <3>. QED  BY <3>1, <3>2
    <2>. QED  BY <2>1 DEF TypeOK, Mission
  <1>6. ASSUME NEW d \in Missions, Tick(d) \/ Lapse(d)
        PROVE  mission'[m].attempts = mission[m].attempts
    BY <1>6 DEF Tick, Lapse, TypeOK, Mission
  <1>7. ASSUME NEW r \in Requests,
               \/ Check(r) \/ Ready(r) \/ ClaimMission(r) \/ Employee(r) \/ Release(r) \/ Crash(r)
               \/ \E d \in Missions : Run(r, d)
        PROVE  UNCHANGED mission
    BY <1>7 DEF Check, Ready, ClaimMission, Employee, Release, Crash, Run
  <1>8. UNCHANGED vars => UNCHANGED mission
    BY DEF vars
  <1>. QED  BY <1>1, <1>2, <1>3, <1>4, <1>5, <1>6, <1>7, <1>8 DEF Next, Proceed

\* Only Ready sends a request to the claim, past its comparison of the limit.
LEMMA RoomStays ==
    ASSUME TypeOK, [Next]_vars, NEW q \in Requests, Room(q)
    PROVE  Room(q)'
  <1>1. CASE pc'[q] = pc[q] /\ job'[q] = job[q]
    BY <1>1 DEF Room
  <1>2. CASE pc'[q] \notin {"claim", "count"}
    BY <1>2 DEF Room
  <1>3. ASSUME NEW r \in Requests, Ready(r) \/ ClaimMission(r) PROVE Room(q)'
    <2>1. CASE r # q
      <3>1. "failed" \in States /\ Of(r) \in Missions
        BY DEF States, Terminal, TypeOK, Job, Of
      <3>2. Others(r)
        BY <1>3, <3>1, OthersStay DEF Ready, ClaimMission, PCs
      <3>. QED  BY <1>1, <2>1, <3>2 DEF Others
    <2>2. CASE r = q
      <3>1. CASE Return(q) \/ Transition(q, Of(q), "failed", "end")
        BY <1>2, <3>1 DEF Return, Transition, TypeOK
      <3>2. CASE Goto(q, "claim") /\ job[q].attempts < MaxAttempts
        BY <3>2 DEF Goto, Room
      <3>3. CASE Goto(q, "count") /\ pc[q] = "claim"
        BY <3>3 DEF Goto, Room
      <3>. QED  BY <1>3, <2>2, <3>1, <3>2, <3>3 DEF Ready, ClaimMission
    <2>. QED  BY <2>1, <2>2
  <1>4. ASSUME NEW r \in Requests, Check(r) \/ Write(r)
        PROVE  (pc'[q] = pc[q] /\ job'[q] = job[q]) \/ pc'[q] \notin {"claim", "count"}
    <2>1. job[r].then \in {"end", "release", "employee"}
      BY DEF TypeOK, Job
    <2>. QED  BY <1>4, <2>1 DEF Check, Write, After, Goto, Return, TypeOK
  <1>5. ASSUME NEW r \in Requests, Count(r) \/ Employee(r) \/ Delay(r) \/ Release(r) \/ Crash(r)
        PROVE  (pc'[q] = pc[q] /\ job'[q] = job[q]) \/ pc'[q] \notin {"claim", "count"}
    BY <1>5 DEF Count, Employee, Delay, Release, Crash, Transition, Goto, Return, TypeOK
  <1>6. ASSUME NEW r \in Requests, NEW m \in Missions, Run(r, m) \/ Change(r, m)
        PROVE  (pc'[q] = pc[q] /\ job'[q] = job[q]) \/ pc'[q] \notin {"claim", "count"}
    BY <1>6 DEF Run, Change, Pause, Cancel, Resume, Schedule, Outcome, Select, Transition,
       Return, TypeOK
  <1>7. ASSUME NEW m \in Missions, Create(m) \/ Tick(m) \/ Lapse(m)
        PROVE  pc'[q] = pc[q] /\ job'[q] = job[q]
    BY <1>7 DEF Create, Tick, Lapse
  <1>8. UNCHANGED vars => pc'[q] = pc[q] /\ job'[q] = job[q]
    BY DEF vars
  <1>. QED  BY <1>1, <1>2, <1>3, <1>4, <1>5, <1>6, <1>7, <1>8 DEF Next, Proceed

\* Whatever lapses or fails, and however many requests compare and count at once: the
\* attempts a mission shows never pass max_attempts.
THEOREM AttemptsAreBounded == Spec => [](\A m \in Missions : mission[m].attempts <= MaxAttempts)
  <1>. DEFINE Bounded == Within /\ \A r \in Requests : Room(r)
  <1>1. Init => Bounded
    BY OrchestrationAssumption DEF Init, Within, Room
  <1>2. TypeOK /\ Bounded /\ [Next]_vars => Bounded'
    BY CountsStay, RoomStays DEF Within
  <1>3. Bounded => \A m \in Missions : mission[m].attempts <= MaxAttempts
    BY DEF Within
  <1>. QED  BY <1>1, <1>2, <1>3, OrchestrationTypeCorrect, PTL DEF Spec
=============================================================================
