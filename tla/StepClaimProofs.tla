-------------------------- MODULE StepClaimProofs ---------------------------
(***************************************************************************)
(* StepClaim for every plan, every number of workers and attempts and      *)
(* every choice of faults: the fencing of the step rows, the order of the  *)
(* plan, and the log of attempts that the rows implement.                  *)
(***************************************************************************)
EXTENDS StepClaim, SequenceTheorems, TLAPS

\* An attempt that is not the latest has failed, and carries the name of its step.
OldAttempts ==
    \A s \in Steps : \A i \in 1 .. (Len(rows[s]) - 1) :
        rows[s][i].status = "failed" /\ rows[s][i].named

Claiming == {"claim", "existing", "related", "stale", "insert"}

Working == {"rename", "work", "record"}

Fallback == {"existing", "related", "stale", "insert"}

\* A worker that claims asks for the attempt after rows that are all named, so
\* once another worker inserts a row its own attempt is taken.
ClaimIsNext(w) ==
    pc[w] \in Claiming =>
        LET q == rows[job[w].at]
            n == job[w].attempt
        IN /\ n \in 1 .. (Len(q) + 1)
           /\ \A i \in 1 .. (n - 1) : q[i].named
           /\ pc[w] = "stale" => /\ job[w].latest \in 1 .. Len(q)
                                 /\ Len(q) >= n \/ job[w].latest = Len(q)
           /\ pc[w] = "insert" => Len(q) >= n \/ q = <<>> \/ q[Len(q)].status = "failed"

\* A worker that works holds the token of a row in progress, or has lost it.
ClaimIsHeld(w) ==
    pc[w] \in Working =>
        LET q == rows[job[w].at]
            n == job[w].attempt
        IN /\ n \in 1 .. Len(q)
           /\ \/ q[n].status = "in_progress" /\ q[n].token = {w}
              \/ q[n].status = "failed" /\ q[n].token = {}

WorkerOK(w) ==
    /\ pc[w] \in {"index"} \cup Claiming \cup Working => job[w].at \in Steps
    /\ "rpc" \notin Faults => pc[w] \notin Fallback
    /\ ClaimIsNext(w)
    /\ ClaimIsHeld(w)

\* Neither OneLiveAttempt nor AttemptsAreOwned is inductive: both rest on the
\* attempt that each worker is about to claim.
IInv == TypeOK /\ OldAttempts /\ \A w \in Workers : WorkerOK(w)

-----------------------------------------------------------------------------
(* Sequences of rows                                                        *)

\* Changing a row of a sequence changes nothing else of it.
LEMMA SetRow ==
    ASSUME NEW q \in Seq(Row), NEW n \in 1 .. Len(q), NEW r \in Row
    PROVE  /\ [q EXCEPT ![n] = r] \in Seq(Row)
           /\ Len([q EXCEPT ![n] = r]) = Len(q)
           /\ \A i \in 1 .. Len(q) : [q EXCEPT ![n] = r][i] = IF i = n THEN r ELSE q[i]
OBVIOUS

\* Appending a row keeps the others.
LEMMA AddRow ==
    ASSUME NEW q \in Seq(Row), NEW r \in Row
    PROVE  /\ Append(q, r) \in Seq(Row)
           /\ Len(Append(q, r)) = Len(q) + 1
           /\ Append(q, r)[Len(q) + 1] = r
           /\ \A i \in 1 .. Len(q) : Append(q, r)[i] = q[i]
OBVIOUS

\* The rows that the model makes are rows.
LEMMA RowTypes ==
    /\ \A r \in Row : Recovered(r) \in Row
    /\ \A w \in Workers, b \in BOOLEAN : Claimed(w, b) \in Row
BY DEF Row, Recovered, Claimed

-----------------------------------------------------------------------------
(* What a step of one worker does to the others                             *)

\* The rows of s change in a way that worker v can live with.
RowsMove(v, s) ==
    /\ Len(rows[s]) <= Len(rows'[s])
    /\ \A i \in 1 .. Len(rows[s]) :
          /\ rows[s][i].named => rows'[s][i].named
          /\ rows[s][i].status = "failed" => rows'[s][i].status = "failed"
          /\ rows[s][i].token = {} => rows'[s][i].token = {}
          /\ (rows[s][i].token = {v} /\ rows[s][i].status = "in_progress") =>
                \/ rows'[s][i].token = {v} /\ rows'[s][i].status = "in_progress"
                \/ rows'[s][i].token = {} /\ rows'[s][i].status = "failed"

\* Rows that move as RowsMove allows leave the invariant of the other workers alone.
LEMMA OthersOK ==
    ASSUME IInv, NEW v \in Workers, \A s \in Steps : RowsMove(v, s),
           rows' \in [Steps -> Seq(Row)], pc'[v] = pc[v], job'[v] = job[v]
    PROVE  WorkerOK(v)'
<1>1. WorkerOK(v)
  BY DEF IInv
<1> DEFINE s == job[v].at
           n == job[v].attempt
<1>2. job[v] \in Job /\ n \in Nat /\ job[v].latest \in Nat
  BY DEF IInv, TypeOK, Job
<1>3. ClaimIsNext(v)'
  <2> SUFFICES ASSUME pc[v] \in Claiming
               PROVE  ClaimIsNext(v)'
    BY DEF ClaimIsNext
  <2>1. s \in Steps /\ rows[s] \in Seq(Row) /\ rows'[s] \in Seq(Row)
    BY <1>1 DEF WorkerOK, IInv, TypeOK
  <2>2. RowsMove(v, s)
    BY <2>1
  <2>3. n \in 1 .. (Len(rows'[s]) + 1) /\ \A i \in 1 .. (n - 1) : rows'[s][i].named
    BY <1>1, <1>2, <2>1, <2>2 DEF WorkerOK, ClaimIsNext, RowsMove
  <2>4. pc[v] = "stale" => /\ job[v].latest \in 1 .. Len(rows'[s])
                           /\ Len(rows'[s]) >= n \/ job[v].latest = Len(rows'[s])
    BY <1>1, <1>2, <2>1, <2>2 DEF WorkerOK, ClaimIsNext, RowsMove
  <2>5. pc[v] = "insert" => \/ Len(rows'[s]) >= n \/ rows'[s] = <<>>
                            \/ rows'[s][Len(rows'[s])].status = "failed"
    BY <1>1, <1>2, <2>1, <2>2 DEF WorkerOK, ClaimIsNext, RowsMove
  <2> QED
    BY <2>3, <2>4, <2>5 DEF ClaimIsNext
<1>4. ClaimIsHeld(v)'
  <2> SUFFICES ASSUME pc[v] \in Working
               PROVE  ClaimIsHeld(v)'
    BY DEF ClaimIsHeld
  <2>1. s \in Steps /\ rows[s] \in Seq(Row) /\ rows'[s] \in Seq(Row)
    BY <1>1 DEF WorkerOK, IInv, TypeOK
  <2>2. RowsMove(v, s)
    BY <2>1
  <2> QED
    BY <1>1, <1>2, <2>1, <2>2 DEF WorkerOK, ClaimIsHeld, RowsMove
<1> QED
  BY <1>1, <1>3, <1>4 DEF WorkerOK

\* Steps that leave the rows alone.
LEMMA Unmoved ==
    ASSUME IInv, UNCHANGED rows
    PROVE  /\ rows' \in [Steps -> Seq(Row)] /\ OldAttempts'
           /\ \A v \in Workers, s \in Steps : RowsMove(v, s)
<1>1. \A s \in Steps : Len(rows[s]) \in Nat
  BY DEF IInv, TypeOK
<1> QED
  BY <1>1 DEF IInv, TypeOK, OldAttempts, RowsMove

\* Only the local state of w changes, and keeps its type.
LocalStep(w) ==
    /\ pc' \in [Workers -> PCs] /\ job' \in [Workers -> Job]
    /\ \A v \in Workers \ {w} : pc'[v] = pc[v] /\ job'[v] = job[v]

\* A step of w keeps the invariant if the others can live with it and w is well.
LEMMA Assemble ==
    ASSUME IInv, NEW w \in Workers, LocalStep(w), WorkerOK(w)',
           execution' \in ExecutionStatuses, requests' \in [Steps -> Nat],
           rows' \in [Steps -> Seq(Row)], OldAttempts',
           \A v \in Workers \ {w}, s \in Steps : RowsMove(v, s)
    PROVE  IInv'
<1>1. TypeOK'
  BY DEF LocalStep, TypeOK
<1>2. \A v \in Workers \ {w} : WorkerOK(v)'
  BY OthersOK DEF LocalStep
<1> QED
  BY <1>1, <1>2 DEF IInv

\* The outcomes of a statement for its worker.
LEMMA EndOK ==
    ASSUME TypeOK, NEW w \in Workers, NEW p \in PCs, End(w, p)
    PROVE  LocalStep(w) /\ pc'[w] = p
BY DEF TypeOK, End, Goto, LocalStep, Job, NoJob, Outcomes

\* A worker that goes on keeps its local variables.
LEMMA ThenOK ==
    ASSUME TypeOK, NEW w \in Workers, NEW p \in PCs, Then(w, p)
    PROVE  LocalStep(w) /\ pc'[w] = p /\ job' = job
BY DEF TypeOK, Then, Goto, LocalStep

\* A worker that advances is at a step of the plan, or at its end.
LEMMA AdvanceOK ==
    ASSUME TypeOK, NEW w \in Workers, NEW from, NEW done \in SUBSET Steps, Advance(w, from, done)
    PROVE  /\ LocalStep(w) /\ pc'[w] \in {"index", "finish"}
           /\ pc'[w] = "index" => job'[w].at \in Steps
<1>1. job[w] \in Job /\ \A s \in Steps : s \in Nat
  BY DEF TypeOK, Steps
<1>2. CASE job' = [job EXCEPT ![w].done = done] /\ Goto(w, "finish")
  BY <1>1, <1>2 DEF TypeOK, Goto, LocalStep, Job, PCs
<1>3. ASSUME NEW s \in Steps, job' = [job EXCEPT ![w].at = s, ![w].done = done], Goto(w, "index")
      PROVE  LocalStep(w) /\ pc'[w] = "index" /\ job'[w].at \in Steps
  <2>1. job' \in [Workers -> Job] /\ job'[w].at = s
    BY <1>1, <1>3 DEF TypeOK, Job
  <2> QED
    BY <1>3, <2>1 DEF TypeOK, Goto, LocalStep, PCs
<1> QED
  BY <1>2, <1>3 DEF Advance

\* A worker outside the claim of a step has nothing to keep.
LEMMA FreeOK ==
    ASSUME NEW w \in Workers, pc'[w] \notin Claiming \cup Working,
           pc'[w] = "index" => job'[w].at \in Steps
    PROVE  WorkerOK(w)'
BY DEF WorkerOK, ClaimIsNext, ClaimIsHeld, Claiming, Working, Fallback

\* Statements that change no row and leave the worker outside the claim of a step.
LEMMA QuietOK ==
    ASSUME IInv, NEW w \in Workers, LocalStep(w), UNCHANGED rows,
           execution' \in ExecutionStatuses, requests' \in [Steps -> Nat],
           pc'[w] \notin Claiming \cup Working,
           pc'[w] = "index" => job'[w].at \in Steps
    PROVE  IInv'
BY Unmoved, FreeOK, Assemble

-----------------------------------------------------------------------------
(* One lemma per action                                                     *)

\* Run, ClaimExecution, MarkRunning and Finish touch no row.
LEMMA BeforePlan ==
    ASSUME IInv, NEW w \in Workers,
           Run(w) \/ ClaimExecution(w) \/ MarkRunning(w) \/ Finish(w)
    PROVE  IInv'
<1>1. TypeOK
  BY DEF IInv
<1>2. execution' \in ExecutionStatuses /\ requests' \in [Steps -> Nat] /\ UNCHANGED rows
  BY <1>1 DEF TypeOK, ExecutionStatuses, Terminal, Run, ClaimExecution, MarkRunning, Finish
<1>3. \E p \in {"claim_execution", "load", "run", "plan", "idle"} : Then(w, p) \/ End(w, p)
  BY DEF Run, ClaimExecution, MarkRunning, Finish, Written, Return
<1>4. LocalStep(w) /\ pc'[w] \in {"claim_execution", "load", "run", "plan", "idle"}
  BY <1>1, <1>3, ThenOK, EndOK DEF PCs
<1> QED
  BY <1>2, <1>4, QuietOK DEF Claiming, Working

\* LoadSteps takes the completed steps from the rows.
LEMMA LoadStepsOK ==
    ASSUME IInv, NEW w \in Workers, LoadSteps(w)
    PROVE  IInv'
<1>1. TypeOK /\ Completed \in SUBSET Steps
  BY DEF IInv, Completed
<1>2. LocalStep(w) /\ pc'[w] \in {"finish", "run"}
  BY <1>1 DEF TypeOK, LoadSteps, Goto, LocalStep, PCs, Job
<1>3. UNCHANGED <<execution, rows, requests>>
  BY DEF LoadSteps
<1> QED
  BY <1>1, <1>2, <1>3, QuietOK DEF Claiming, Working, TypeOK

\* Plan sends the worker to the first step that is not done.
LEMMA PlanOK ==
    ASSUME IInv, NEW w \in Workers, Plan(w)
    PROVE  IInv'
<1>1. TypeOK /\ job[w].done \cup Completed \in SUBSET Steps
  BY DEF IInv, TypeOK, Completed, Job
<1>2. Advance(w, 0, job[w].done \cup Completed) /\ UNCHANGED <<execution, rows, requests>>
  BY DEF Plan
<1>3. LocalStep(w) /\ pc'[w] \in {"index", "finish"} /\ (pc'[w] = "index" => job'[w].at \in Steps)
  BY <1>1, <1>2, AdvanceOK
<1> QED
  BY <1>1, <1>2, <1>3, QuietOK DEF Claiming, Working, TypeOK

\* The number before a positive one is below it.
LEMMA Before == \A m \in Nat : m >= 1 /\ m # 1 => m - 1 \in 1 .. (m - 1)
OBVIOUS

\* The attempt after the named rows is one of the rows' successors.
LEMMA NextAttemptIs ==
    ASSUME IInv, NEW s \in Steps
    PROVE  /\ NextAttempt(s) \in 1 .. (Len(rows[s]) + 1)
           /\ \A i \in 1 .. (NextAttempt(s) - 1) : rows[s][i].named
<1> DEFINE q == rows[s]
           Good(n) == /\ n = 1 \/ q[n - 1].named
                      /\ \A i \in n .. Len(q) : ~q[i].named
<1>1. q \in Seq(Row) /\ Len(q) \in Nat /\ \A i \in 1 .. (Len(q) - 1) : q[i].named
  BY DEF IInv, TypeOK, OldAttempts
<1>2. \E n \in 1 .. (Len(q) + 1) : Good(n)
  <2>1. CASE q # <<>> /\ ~q[Len(q)].named
    <3>1. Len(q) \in 1 .. (Len(q) + 1)
      BY <1>1, <2>1
    <3>2. Len(q) = 1 \/ q[Len(q) - 1].named
      <4> HIDE DEF q
      <4>0. Len(q) \in Nat /\ Len(q) >= 1
        BY <1>1, <3>1
      <4>1. Len(q) # 1 => Len(q) - 1 \in 1 .. (Len(q) - 1)
        BY <4>0, Before
      <4> QED
        BY <1>1, <4>1
    <3>3. \A i \in Len(q) .. Len(q) : ~q[i].named
      BY <1>1, <2>1
    <3> QED
      BY <3>1, <3>2, <3>3
  <2>2. CASE q = <<>> \/ q[Len(q)].named
    <3>1. Len(q) + 1 \in 1 .. (Len(q) + 1) /\ Good(Len(q) + 1)
      BY <1>1, <2>2
    <3> QED
      BY <3>1
  <2> QED
    BY <2>1, <2>2
<1>3. NextAttempt(s) = CHOOSE n \in 1 .. (Len(q) + 1) : Good(n)
  BY DEF NextAttempt
<1> HIDE DEF Good
<1>4. NextAttempt(s) \in 1 .. (Len(q) + 1) /\ Good(NextAttempt(s))
  BY <1>2, <1>3
<1>5. \A i \in 1 .. (NextAttempt(s) - 1) : q[i].named
  BY <1>1, <1>4 DEF Good
<1> QED
  BY <1>4, <1>5

\* Index computes an attempt that follows named rows only.
LEMMA IndexOK ==
    ASSUME IInv, NEW w \in Workers, Index(w)
    PROVE  IInv'
<1> DEFINE s == job[w].at
           n == NextAttempt(s)
<1>1. TypeOK /\ s \in Steps /\ UNCHANGED <<execution, rows, requests>>
  BY DEF IInv, WorkerOK, Index
<1>2. n \in 1 .. (Len(rows[s]) + 1) /\ (\A i \in 1 .. (n - 1) : rows[s][i].named)
  BY <1>1, NextAttemptIs
<1>3. n \in Nat
  BY <1>1, <1>2 DEF TypeOK
<1>4. CASE Return(w)
  BY <1>1, <1>4, EndOK, QuietOK DEF Return, PCs, Claiming, Working, TypeOK
<1>5. CASE job' = [job EXCEPT ![w].attempt = n] /\ Goto(w, "claim")
  <2>1. LocalStep(w) /\ pc'[w] = "claim" /\ job'[w].at = s /\ job'[w].attempt = n
    BY <1>1, <1>3, <1>5 DEF TypeOK, Goto, LocalStep, PCs, Job
  <2>2. WorkerOK(w)'
    BY <1>1, <1>2, <2>1 DEF WorkerOK, ClaimIsNext, ClaimIsHeld, Claiming, Working, Fallback
  <2> QED
    BY <1>1, <2>1, <2>2, Unmoved, Assemble DEF TypeOK
<1> QED
  BY <1>4, <1>5 DEF Index

\* A refusal skips a completed step or ends the run.
LEMMA RefusedOK ==
    ASSUME IInv, NEW w \in Workers, job[w].at \in Steps, NEW row, Refused(w, row),
           UNCHANGED <<execution, rows, requests>>
    PROVE  IInv'
<1>1. TypeOK /\ job[w].done \cup {job[w].at} \in SUBSET Steps
  BY DEF IInv, TypeOK, Job
<1>2. CASE Advance(w, job[w].at, job[w].done \cup {job[w].at})
  BY <1>1, <1>2, AdvanceOK, QuietOK DEF Claiming, Working, TypeOK
<1>3. CASE Return(w)
  BY <1>1, <1>3, EndOK, QuietOK DEF Return, PCs, Claiming, Working, TypeOK
<1> QED
  BY <1>2, <1>3 DEF Refused

\* The rows of step s become q and r.
Inserts(s, q, r) == rows' = [rows EXCEPT ![s] = Append(q, r)]

\* The next attempt is inserted after rows that have all failed.
LEMMA InsertOK ==
    ASSUME IInv, NEW w \in Workers, pc[w] \in Claiming, NEW r \in Row,
           NEW q \in Seq(Row), Len(q) = Len(rows[job[w].at]), Len(q) < job[w].attempt,
           \A i \in 1 .. Len(q) :
               /\ q[i].status = "failed" /\ q[i].named = rows[job[w].at][i].named
               /\ q[i] = rows[job[w].at][i] \/ q[i].token = {},
           Inserts(job[w].at, q, r)
    PROVE  /\ rows' \in [Steps -> Seq(Row)] /\ OldAttempts'
           /\ \A v \in Workers \ {w}, s \in Steps : RowsMove(v, s)
           /\ job[w].attempt = Len(q) + 1
           /\ rows'[job[w].at][job[w].attempt] = r
           /\ Len(rows'[job[w].at]) = job[w].attempt
           /\ \A i \in 1 .. Len(q) : rows'[job[w].at][i].named
<1> DEFINE at == job[w].at
           n == job[w].attempt
           new == Append(q, r)
<1>1. at \in Steps /\ n \in 1 .. (Len(q) + 1) /\ \A i \in 1 .. (n - 1) : rows[at][i].named
  BY DEF IInv, WorkerOK, ClaimIsNext, Claiming
<1>2. n = Len(q) + 1
  BY <1>1
<1>3. rows[at] \in Seq(Row)
  BY <1>1 DEF IInv, TypeOK
<1>4. /\ new \in Seq(Row) /\ Len(new) = n /\ new[n] = r
      /\ \A i \in 1 .. Len(q) : new[i] = q[i]
  BY <1>2, <1>3, AddRow
<1> HIDE DEF new
<1>5. rows'[at] = new /\ rows' \in [Steps -> Seq(Row)]
      /\ \A s \in Steps \ {at} : rows'[s] = rows[s]
  BY <1>1, <1>4 DEF IInv, TypeOK, new, Inserts
<1>6. \A i \in 1 .. Len(q) : new[i].named
  BY <1>1, <1>2, <1>4
<1>7. OldAttempts'
  <2>1. \A i \in 1 .. (Len(new) - 1) : new[i].status = "failed" /\ new[i].named
    BY <1>2, <1>4, <1>6
  <2>2. \A i \in 1 .. (Len(rows'[at]) - 1) : rows'[at][i].status = "failed" /\ rows'[at][i].named
    BY <2>1, <1>5
  <2>3. \A s \in Steps \ {at} : \A i \in 1 .. (Len(rows'[s]) - 1) :
            rows'[s][i].status = "failed" /\ rows'[s][i].named
    BY <1>5 DEF IInv, OldAttempts
  <2> HIDE DEF at
  <2> QED
    BY <2>2, <2>3 DEF OldAttempts
<1>8. ASSUME NEW v \in Workers \ {w}, NEW s \in Steps
      PROVE  RowsMove(v, s)
  <2>1. CASE s = at
    <3>1. \A i \in 1 .. Len(rows[at]) : rows'[at][i] = q[i]
      BY <1>4, <1>5
    <3>2. Len(rows[at]) <= Len(rows'[at])
      BY <1>2, <1>4, <1>5
    <3> QED
      BY <2>1, <3>1, <3>2 DEF RowsMove
  <2>2. CASE s # at
    <3>1. rows'[s] = rows[s] /\ Len(rows[s]) \in Nat
      BY <2>2, <1>5 DEF IInv, TypeOK
    <3> QED
      BY <3>1 DEF RowsMove
  <2> QED
    BY <2>1, <2>2
<1> QED
  BY <1>2, <1>4, <1>5, <1>6, <1>7, <1>8

\* Row n of step s becomes r.
Changes(s, n, r) == rows' = [rows EXCEPT ![s] = [rows[s] EXCEPT ![n] = r]]

\* One row of a step changes: nothing else does.
LEMMA ChangeRow ==
    ASSUME TypeOK, NEW at \in Steps, NEW n \in 1 .. Len(rows[at]), NEW r \in Row,
           Changes(at, n, r)
    PROVE  /\ rows' \in [Steps -> Seq(Row)]
           /\ \A s \in Steps : Len(rows'[s]) = Len(rows[s]) /\ Len(rows[s]) \in Nat
           /\ \A s \in Steps : \A i \in 1 .. Len(rows[s]) :
                 rows'[s][i] = IF s = at /\ i = n THEN r ELSE rows[s][i]
<1>1. rows[at] \in Seq(Row)
  BY DEF TypeOK
<1>2. /\ [rows[at] EXCEPT ![n] = r] \in Seq(Row)
      /\ Len([rows[at] EXCEPT ![n] = r]) = Len(rows[at])
      /\ \A i \in 1 .. Len(rows[at]) :
            [rows[at] EXCEPT ![n] = r][i] = IF i = n THEN r ELSE rows[at][i]
  BY <1>1, SetRow
<1>3. rows'[at] = [rows[at] EXCEPT ![n] = r] /\ \A s \in Steps \ {at} : rows'[s] = rows[s]
  BY DEF TypeOK, Changes
<1>4. rows' \in [Steps -> Seq(Row)]
  BY <1>2 DEF TypeOK, Changes
<1>5. \A s \in Steps : Len(rows[s]) \in Nat
  BY DEF TypeOK
<1> QED
  BY <1>2, <1>3, <1>4, <1>5

\* A worker whose token is in its row writes the latest row, and nobody else's.
LEMMA UpdateOK ==
    ASSUME IInv, NEW w \in Workers, pc[w] \in Working, Holds(w),
           NEW status \in {"in_progress", "completed", "failed"}, Update(w, status)
    PROVE  /\ rows' \in [Steps -> Seq(Row)] /\ OldAttempts'
           /\ \A v \in Workers \ {w}, s \in Steps : RowsMove(v, s)
           /\ job[w].at \in Steps
           /\ job[w].attempt = Len(rows[job[w].at])
           /\ rows[job[w].at][job[w].attempt].status = "in_progress"
           /\ job[w].attempt \in 1 .. Len(rows'[job[w].at])
           /\ rows'[job[w].at][job[w].attempt].status = status
           /\ rows'[job[w].at][job[w].attempt].token = {w}
           /\ rows'[job[w].at][job[w].attempt].named
           /\ \A s \in Steps : Len(rows'[s]) = Len(rows[s])
           /\ \A s \in Steps : \A i \in 1 .. Len(rows[s]) :
                 s # job[w].at \/ i # job[w].attempt => rows'[s][i] = rows[s][i]
<1> DEFINE at == job[w].at
           n == job[w].attempt
           old == rows[at][n]
           r == [old EXCEPT !.status = status, !.named = TRUE]
<1>1. TypeOK /\ at \in Steps /\ n \in 1 .. Len(rows[at])
  BY DEF IInv, WorkerOK, ClaimIsHeld, Working
<1>2. old.token = {w} /\ old.status = "in_progress"
  BY DEF Holds, IInv, WorkerOK, ClaimIsHeld, Working
<1>3. old \in Row
  BY <1>1 DEF TypeOK
<1>4. r \in Row /\ r.status = status /\ r.token = {w} /\ r.named
  BY <1>2, <1>3 DEF Row
<1>5. Changes(at, n, r)
  BY <1>1, <1>3 DEF Update, TypeOK, Row, Changes
<1>6. /\ rows' \in [Steps -> Seq(Row)]
      /\ \A s \in Steps : Len(rows'[s]) = Len(rows[s]) /\ Len(rows[s]) \in Nat
      /\ \A s \in Steps : \A i \in 1 .. Len(rows[s]) :
            rows'[s][i] = IF s = at /\ i = n THEN r ELSE rows[s][i]
  <2> HIDE DEF at, n, old, r
  <2> QED
    BY <1>1, <1>4, <1>5, ChangeRow
<1>7. n = Len(rows[at])
  <2>1. ~(n \in 1 .. (Len(rows[at]) - 1))
    BY <1>1, <1>2 DEF IInv, OldAttempts
  <2> QED
    BY <1>1, <1>6, <2>1
<1> HIDE DEF r
<1>8. OldAttempts'
  BY <1>1, <1>6, <1>7 DEF IInv, OldAttempts
<1>9. ASSUME NEW v \in Workers \ {w}, NEW s \in Steps
      PROVE  RowsMove(v, s)
  <2>1. old.token # {} /\ old.token # {v} /\ old.status # "failed"
    BY <1>2
  <2> QED
    BY <1>1, <1>4, <1>6, <2>1 DEF RowsMove
<1> QED
  BY <1>1, <1>2, <1>4, <1>6, <1>7, <1>8, <1>9

\* The claim RPC keeps the invariant, granted, refused or failing.
LEMMA ClaimStepOK ==
    ASSUME IInv, NEW w \in Workers, ClaimStep(w)
    PROVE  IInv'
<1> DEFINE s == job[w].at
           n == job[w].attempt
<1>1. TypeOK /\ pc[w] \in Claiming /\ s \in Steps /\ rows[s] \in Seq(Row)
      /\ UNCHANGED <<execution, requests>> /\ n \in 1 .. (Len(rows[s]) + 1)
      /\ \A i \in 1 .. (n - 1) : rows[s][i].named
  BY DEF IInv, TypeOK, WorkerOK, ClaimIsNext, ClaimStep, Claiming
<1>2. CASE Grant(w, s) /\ (Then(w, "rename") \/ ("rpc" \in Faults /\ Then(w, "existing")))
  <2> DEFINE q == Superseded(s)
  <2>1. ~Obstructed(w, s) /\ Inserts(s, q, Claimed(w, FALSE)) /\ Claimed(w, FALSE) \in Row
    BY <1>2, RowTypes DEF Grant, Inserts
  <2>2. Len(rows[s]) \in Nat /\ n = Len(rows[s]) + 1
    BY <1>1, <2>1 DEF Obstructed
  <2>3. rows[s] # <<>> => /\ Len(rows[s]) \in 1 .. Len(rows[s]) /\ Last(s) \in Row
                          /\ Last(s).status \in {"in_progress", "failed"}
    <3> SUFFICES ASSUME rows[s] # <<>>
                 PROVE  /\ Len(rows[s]) \in 1 .. Len(rows[s]) /\ Last(s) \in Row
                        /\ Last(s).status \in {"in_progress", "failed"}
      OBVIOUS
    <3>1. Len(rows[s]) \in 1 .. Len(rows[s])
      BY <1>1
    <3>2. Last(s) \in Row
      BY <1>1, <3>1 DEF Last
    <3>3. Last(s).status # "completed"
      BY <2>1 DEF Obstructed, Blocks
    <3> QED
      BY <3>1, <3>2, <3>3 DEF Row
  <2>4. /\ q \in Seq(Row) /\ Len(q) = Len(rows[s])
        /\ \A i \in 1 .. Len(q) :
              /\ q[i].status = "failed" /\ q[i].named = rows[s][i].named
              /\ q[i] = rows[s][i] \/ q[i].token = {}
    <3>1. \A i \in 1 .. (Len(rows[s]) - 1) : rows[s][i].status = "failed"
      BY <1>1 DEF IInv, OldAttempts
    <3>2. CASE rows[s] # <<>> /\ Last(s).status = "in_progress"
      <4>1. q = [rows[s] EXCEPT ![Len(rows[s])] = Recovered(Last(s))]
        BY <3>2 DEF Superseded, Last
      <4>2. Recovered(Last(s)) \in Row
        BY <2>3, <3>2, RowTypes
      <4>3. Recovered(Last(s)).status = "failed" /\ Recovered(Last(s)).token = {}
            /\ Recovered(Last(s)).named = rows[s][Len(rows[s])].named
        BY <2>3, <3>2 DEF Recovered, Row, Last
      <4> HIDE DEF q
      <4>4. /\ q \in Seq(Row) /\ Len(q) = Len(rows[s])
            /\ \A i \in 1 .. Len(rows[s]) :
                  q[i] = IF i = Len(rows[s]) THEN Recovered(Last(s)) ELSE rows[s][i]
        BY <1>1, <2>3, <3>2, <4>1, <4>2, SetRow
      <4> QED
        BY <2>2, <3>1, <4>3, <4>4
    <3>3. CASE ~(rows[s] # <<>> /\ Last(s).status = "in_progress")
      <4>1. q = rows[s]
        BY <3>3 DEF Superseded
      <4>2. \A i \in 1 .. Len(rows[s]) : rows[s][i].status = "failed"
        BY <1>1, <2>2, <2>3, <3>1, <3>3 DEF Last
      <4> QED
        BY <1>1, <4>1, <4>2
    <3> QED
      BY <3>2, <3>3
  <2> HIDE DEF q
  <2>5. /\ rows' \in [Steps -> Seq(Row)] /\ OldAttempts'
        /\ \A v \in Workers \ {w}, t \in Steps : RowsMove(v, t)
        /\ rows'[s][n] = Claimed(w, FALSE) /\ Len(rows'[s]) = n
        /\ \A i \in 1 .. (n - 1) : rows'[s][i].named
    <3>1. Len(q) < n /\ Len(q) = n - 1
      BY <2>2, <2>4
    <3>2. /\ rows' \in [Steps -> Seq(Row)] /\ OldAttempts'
          /\ \A v \in Workers \ {w}, t \in Steps : RowsMove(v, t)
          /\ job[w].attempt = Len(q) + 1
          /\ rows'[job[w].at][job[w].attempt] = Claimed(w, FALSE)
          /\ Len(rows'[job[w].at]) = job[w].attempt
          /\ \A i \in 1 .. Len(q) : rows'[job[w].at][i].named
      BY <1>1, <2>1, <2>4, <3>1, InsertOK
    <3> QED
      BY <3>1, <3>2
  <2>6. LocalStep(w) /\ job' = job
        /\ (pc'[w] = "rename" \/ (pc'[w] = "existing" /\ "rpc" \in Faults))
    BY <1>1, <1>2, ThenOK DEF PCs
  <2>7. ClaimIsNext(w)' /\ ClaimIsHeld(w)'
    <3>1. job'[w].at = s /\ job'[w].attempt = n /\ Len(rows'[s]) = n /\ n \in Nat /\ n >= 1
      BY <1>1, <2>2, <2>5, <2>6
    <3>2. rows'[s][n].status = "in_progress" /\ rows'[s][n].token = {w}
      BY <2>5 DEF Claimed
    <3>3. CASE pc'[w] = "rename"
      BY <3>1, <3>2, <3>3 DEF ClaimIsNext, ClaimIsHeld, Claiming, Working
    <3>4. CASE pc'[w] = "existing"
      BY <2>5, <3>1, <3>4 DEF ClaimIsNext, ClaimIsHeld, Claiming, Working
    <3> QED
      BY <2>6, <3>3, <3>4
  <2>8. WorkerOK(w)'
    BY <1>1, <2>6, <2>7 DEF WorkerOK, Claiming, Working, Fallback
  <2> QED
    BY <1>1, <2>5, <2>6, <2>8, Assemble DEF TypeOK
<1>3. CASE Refused(w, Obstacle(w, s)) /\ UNCHANGED rows
  BY <1>1, <1>3, RefusedOK
<1>4. CASE "rpc" \in Faults /\ Then(w, "existing") /\ UNCHANGED rows
  <2>1. LocalStep(w) /\ job' = job /\ pc'[w] = "existing"
    BY <1>1, <1>4, ThenOK DEF PCs
  <2>2. WorkerOK(w)'
    BY <1>1, <1>4, <2>1 DEF WorkerOK, ClaimIsNext, ClaimIsHeld, Claiming, Working, Fallback
  <2> QED
    BY <1>1, <1>4, <2>1, <2>2, Unmoved, Assemble DEF TypeOK
<1> QED
  BY <1>2, <1>3, <1>4 DEF ClaimStep

\* The fallback finds its attempt taken, or goes on.
LEMMA ReadExistingOK ==
    ASSUME IInv, NEW w \in Workers, ReadExisting(w)
    PROVE  IInv'
<1> DEFINE s == job[w].at
           n == job[w].attempt
<1>1. TypeOK /\ pc[w] = "existing" /\ s \in Steps /\ UNCHANGED <<execution, rows, requests>>
      /\ n \in 1 .. (Len(rows[s]) + 1) /\ \A i \in 1 .. (n - 1) : rows[s][i].named
  BY DEF IInv, WorkerOK, ClaimIsNext, ReadExisting, Claiming
<1>2. CASE Refused(w, rows[s][n])
  BY <1>1, <1>2, RefusedOK
<1>3. CASE Then(w, "related")
  <2>1. LocalStep(w) /\ job' = job /\ pc'[w] = "related" /\ "rpc" \in Faults
    BY <1>1, <1>3, ThenOK DEF PCs, IInv, WorkerOK, Fallback
  <2>2. WorkerOK(w)'
    BY <1>1, <2>1 DEF WorkerOK, ClaimIsNext, ClaimIsHeld, Claiming, Working, Fallback
  <2> QED
    BY <1>1, <2>1, <2>2, Unmoved, Assemble DEF TypeOK
<1> QED
  BY <1>2, <1>3 DEF ReadExisting

\* The fallback finds the latest row absent, failed, stale or in its way.
LEMMA ReadRelatedOK ==
    ASSUME IInv, NEW w \in Workers, ReadRelated(w)
    PROVE  IInv'
<1> DEFINE s == job[w].at
           n == job[w].attempt
<1>1. TypeOK /\ pc[w] = "related" /\ s \in Steps /\ UNCHANGED <<execution, rows, requests>>
      /\ n \in 1 .. (Len(rows[s]) + 1) /\ (\A i \in 1 .. (n - 1) : rows[s][i].named)
      /\ "rpc" \in Faults /\ rows[s] \in Seq(Row) /\ Len(rows[s]) \in Nat
  BY DEF IInv, TypeOK, WorkerOK, ClaimIsNext, ReadRelated, Claiming, Fallback
<1>2. CASE (rows[s] # <<>> => Last(s).status = "failed") /\ Then(w, "insert")
  <2>1. LocalStep(w) /\ job' = job /\ pc'[w] = "insert"
    BY <1>1, <1>2, ThenOK DEF PCs
  <2>2. WorkerOK(w)'
    BY <1>1, <1>2, <2>1 DEF WorkerOK, ClaimIsNext, ClaimIsHeld, Claiming, Working, Fallback, Last
  <2> QED
    BY <1>1, <2>1, <2>2, Unmoved, Assemble DEF TypeOK
<1>3. CASE Stale(s) /\ job' = [job EXCEPT ![w].latest = Len(rows[s])] /\ Goto(w, "stale")
  <2>1. LocalStep(w) /\ pc'[w] = "stale" /\ job'[w].at = s /\ job'[w].attempt = n
        /\ job'[w].latest = Len(rows[s])
    BY <1>1, <1>3 DEF TypeOK, Goto, LocalStep, PCs, Job
  <2>2. Len(rows[s]) \in 1 .. Len(rows[s])
    BY <1>1, <1>3 DEF Stale
  <2>3. WorkerOK(w)'
    BY <1>1, <2>1, <2>2 DEF WorkerOK, ClaimIsNext, ClaimIsHeld, Claiming, Working, Fallback
  <2> QED
    BY <1>1, <2>1, <2>3, Unmoved, Assemble DEF TypeOK
<1>4. CASE Refused(w, Last(s))
  BY <1>1, <1>4, RefusedOK
<1> QED
  BY <1>2, <1>3, <1>4 DEF ReadRelated

\* A row that is marked failed leaves its worker without a token.
LEMMA RecoverStaleOK ==
    ASSUME IInv, NEW w \in Workers, RecoverStale(w)
    PROVE  IInv'
<1> DEFINE s == job[w].at
           n == job[w].attempt
           l == job[w].latest
           r == Recovered(rows[s][l])
<1>1. TypeOK /\ pc[w] = "stale" /\ s \in Steps /\ UNCHANGED <<execution, requests>>
      /\ n \in 1 .. (Len(rows[s]) + 1) /\ (\A i \in 1 .. (n - 1) : rows[s][i].named)
      /\ "rpc" \in Faults /\ rows[s] \in Seq(Row) /\ l \in 1 .. Len(rows[s])
      /\ (Len(rows[s]) >= n \/ l = Len(rows[s]))
  BY DEF IInv, TypeOK, WorkerOK, ClaimIsNext, RecoverStale, Claiming, Fallback
<1>2. r \in Row /\ r.status = "failed" /\ r.token = {} /\ r.named = rows[s][l].named
  <2>1. rows[s][l] \in Row
    BY <1>1
  <2>2. r \in Row
    BY <2>1, RowTypes
  <2> QED
    BY <2>1, <2>2 DEF Recovered, Row
<1>3. Changes(s, l, r)
  BY <1>1 DEF RecoverStale, Changes, TypeOK
<1>4. /\ rows' \in [Steps -> Seq(Row)]
      /\ \A t \in Steps : Len(rows'[t]) = Len(rows[t]) /\ Len(rows[t]) \in Nat
      /\ \A t \in Steps : \A i \in 1 .. Len(rows[t]) :
            rows'[t][i] = IF t = s /\ i = l THEN r ELSE rows[t][i]
  <2> HIDE DEF s, l, r
  <2> QED
    BY <1>1, <1>2, <1>3, ChangeRow
<1> HIDE DEF r
<1>5. OldAttempts'
  BY <1>1, <1>2, <1>4 DEF IInv, OldAttempts
<1>6. ASSUME NEW v \in Workers \ {w}, NEW t \in Steps
      PROVE  RowsMove(v, t)
  BY <1>1, <1>2, <1>4 DEF RowsMove
<1>7. CASE Then(w, "insert")
  <2>1. LocalStep(w) /\ job' = job /\ pc'[w] = "insert"
    BY <1>1, <1>7, ThenOK DEF PCs
  <2>2. Len(rows'[s]) = Len(rows[s]) /\ Len(rows[s]) \in Nat /\ Len(rows[s]) >= 1
    BY <1>1, <1>4
  <2>3. \A i \in 1 .. (n - 1) : rows'[s][i].named
    <3> SUFFICES ASSUME NEW i \in 1 .. (n - 1)
                 PROVE  rows'[s][i].named
      OBVIOUS
    <3>1. i \in 1 .. Len(rows[s]) /\ rows[s][i].named
      BY <1>1, <2>2
    <3>2. rows'[s][i] = IF i = l THEN r ELSE rows[s][i]
      BY <1>1, <1>4, <3>1
    <3>3. CASE i = l
      BY <1>2, <3>1, <3>2, <3>3
    <3>4. CASE i # l
      BY <3>1, <3>2, <3>4
    <3> QED
      BY <3>3, <3>4
  <2>4. Len(rows'[s]) >= n \/ rows'[s][Len(rows'[s])].status = "failed"
    BY <1>1, <1>2, <1>4, <2>2
  <2>5. ClaimIsNext(w)' /\ ClaimIsHeld(w)'
    BY <1>1, <2>1, <2>2, <2>3, <2>4 DEF ClaimIsNext, ClaimIsHeld, Claiming, Working
  <2>6. WorkerOK(w)'
    BY <1>1, <2>1, <2>5 DEF WorkerOK
  <2> QED
    BY <1>1, <1>4, <1>5, <1>6, <2>1, <2>6, Assemble DEF TypeOK
<1>8. CASE Return(w)
  <2>1. LocalStep(w) /\ pc'[w] = "idle"
    BY <1>1, <1>8, EndOK DEF Return, PCs
  <2>2. WorkerOK(w)'
    BY <2>1, FreeOK DEF Claiming, Working
  <2> QED
    BY <1>1, <1>4, <1>5, <1>6, <2>1, <2>2, Assemble DEF TypeOK
<1> QED
  BY <1>7, <1>8 DEF RecoverStale, Written

\* The insert of the fallback makes its attempt the latest row, or is refused.
LEMMA InsertClaimOK ==
    ASSUME IInv, NEW w \in Workers, InsertClaim(w)
    PROVE  IInv'
<1> DEFINE s == job[w].at
           n == job[w].attempt
           q == rows[s]
<1>1. TypeOK /\ pc[w] = "insert" /\ s \in Steps /\ UNCHANGED <<execution, requests>>
      /\ n \in 1 .. (Len(q) + 1) /\ q \in Seq(Row) /\ Len(q) \in Nat
      /\ (Len(q) >= n \/ q = <<>> \/ q[Len(q)].status = "failed") /\ "rpc" \in Faults
  BY DEF IInv, TypeOK, WorkerOK, ClaimIsNext, InsertClaim, Claiming, Fallback
<1>2. CASE /\ Len(q) < n /\ Written(w, "rename")
           /\ rows' = [rows EXCEPT ![s] = Append(@, Claimed(w, TRUE))]
  <2>1. Inserts(s, q, Claimed(w, TRUE)) /\ Claimed(w, TRUE) \in Row /\ pc[w] \in Claiming
    BY <1>1, <1>2, RowTypes DEF Inserts, Claiming, TypeOK
  <2>2. \A i \in 1 .. Len(q) : q[i].status = "failed"
    <3>1. \A i \in 1 .. (Len(q) - 1) : q[i].status = "failed"
      BY <1>1 DEF IInv, OldAttempts
    <3> QED
      BY <1>1, <1>2, <3>1
  <2>3. /\ rows' \in [Steps -> Seq(Row)] /\ OldAttempts'
        /\ \A v \in Workers \ {w}, t \in Steps : RowsMove(v, t)
        /\ job[w].attempt = Len(q) + 1
        /\ rows'[job[w].at][job[w].attempt] = Claimed(w, TRUE)
        /\ Len(rows'[job[w].at]) = job[w].attempt
        /\ \A i \in 1 .. Len(q) : rows'[job[w].at][i].named
    <3>1. \A i \in 1 .. Len(q) :
              /\ q[i].status = "failed" /\ q[i].named = rows[job[w].at][i].named
              /\ q[i] = rows[job[w].at][i] \/ q[i].token = {}
      BY <2>2
    <3>2. Len(q) = Len(rows[job[w].at]) /\ Len(q) < job[w].attempt
          /\ Inserts(job[w].at, q, Claimed(w, TRUE))
      BY <1>2, <2>1
    <3> HIDE DEF q
    <3> QED
      BY <1>1, <2>1, <3>1, <3>2, InsertOK
  <2>4. CASE Then(w, "rename")
    <3>1. LocalStep(w) /\ job' = job /\ pc'[w] = "rename"
      BY <1>1, <2>4, ThenOK DEF PCs
    <3>2. ClaimIsNext(w)' /\ ClaimIsHeld(w)'
      <4>1. job'[w].at = s /\ job'[w].attempt = n /\ Len(rows'[s]) = n /\ n \in Nat /\ n >= 1
        BY <1>1, <2>3, <3>1
      <4>2. rows'[s][n].status = "in_progress" /\ rows'[s][n].token = {w}
        BY <2>3 DEF Claimed
      <4> QED
        BY <3>1, <4>1, <4>2 DEF ClaimIsNext, ClaimIsHeld, Claiming, Working
    <3>3. WorkerOK(w)'
      BY <1>1, <3>1, <3>2 DEF WorkerOK, Fallback
    <3> QED
      BY <1>1, <2>3, <3>1, <3>3, Assemble DEF TypeOK
  <2>5. CASE Return(w)
    <3>1. LocalStep(w) /\ pc'[w] = "idle"
      BY <1>1, <2>5, EndOK DEF Return, PCs
    <3>2. WorkerOK(w)'
      BY <3>1, FreeOK DEF Claiming, Working
    <3> QED
      BY <1>1, <2>3, <3>1, <3>2, Assemble DEF TypeOK
  <2> QED
    BY <1>2, <2>4, <2>5 DEF Written
<1>3. CASE Return(w) /\ UNCHANGED rows
  BY <1>1, <1>3, EndOK, QuietOK DEF Return, PCs, Claiming, Working, TypeOK
<1> QED
  BY <1>2, <1>3 DEF InsertClaim

\* Naming a row changes no status, and only under the token of the worker.
LEMMA RenameOK ==
    ASSUME IInv, NEW w \in Workers, Rename(w)
    PROVE  IInv'
<1>1. TypeOK /\ pc[w] \in Working /\ UNCHANGED <<execution, requests>>
  BY DEF IInv, Rename, Working
<1>2. CASE Holds(w) /\ Update(w, "in_progress") /\ Written(w, "work")
  <2>1. /\ rows' \in [Steps -> Seq(Row)] /\ OldAttempts'
        /\ \A v \in Workers \ {w}, s \in Steps : RowsMove(v, s)
        /\ job[w].at \in Steps
        /\ job[w].attempt \in 1 .. Len(rows'[job[w].at])
        /\ rows'[job[w].at][job[w].attempt].status = "in_progress"
        /\ rows'[job[w].at][job[w].attempt].token = {w}
    BY <1>1, <1>2, UpdateOK
  <2>2. CASE Then(w, "work")
    <3>1. LocalStep(w) /\ job' = job /\ pc'[w] = "work"
      BY <1>1, <2>2, ThenOK DEF PCs
    <3>2. WorkerOK(w)'
      BY <2>1, <3>1 DEF WorkerOK, ClaimIsNext, ClaimIsHeld, Claiming, Working, Fallback
    <3> QED
      BY <1>1, <2>1, <3>1, <3>2, Assemble DEF TypeOK
  <2>3. CASE Return(w)
    <3>1. LocalStep(w) /\ pc'[w] = "idle"
      BY <1>1, <2>3, EndOK DEF Return, PCs
    <3>2. WorkerOK(w)'
      BY <3>1, FreeOK DEF Claiming, Working
    <3> QED
      BY <1>1, <2>1, <3>1, <3>2, Assemble DEF TypeOK
  <2> QED
    BY <1>2, <2>2, <2>3 DEF Written
<1>3. CASE UNCHANGED rows /\ Return(w)
  BY <1>1, <1>3, EndOK, QuietOK DEF Return, PCs, Claiming, Working, TypeOK
<1> QED
  BY <1>2, <1>3 DEF Rename

\* The work of a step touches no row.
LEMMA WorkOK ==
    ASSUME IInv, NEW w \in Workers, Work(w)
    PROVE  IInv'
<1>1. TypeOK /\ pc[w] = "work" /\ UNCHANGED <<execution, rows>> /\ Goto(w, "record")
      /\ job[w].at \in Steps
  BY DEF IInv, WorkerOK, Work, Working
<1>2. PICK o \in Outcomes : job' = [job EXCEPT ![w].outcome = o]
  BY DEF Work, Results
<1>3. requests' \in [Steps -> Nat]
  <2>1. requests' = requests \/ requests' = [requests EXCEPT ![job[w].at] = @ + 1]
    BY DEF Work
  <2> QED
    BY <1>1, <2>1 DEF TypeOK
<1>4. LocalStep(w) /\ pc'[w] = "record" /\ job'[w].at = job[w].at /\ job'[w].attempt = job[w].attempt
  BY <1>1, <1>2 DEF TypeOK, LocalStep, Goto, PCs, Job
<1>5. WorkerOK(w)'
  BY <1>1, <1>4 DEF IInv, WorkerOK, ClaimIsNext, ClaimIsHeld, Claiming, Working, Fallback
<1> QED
  BY <1>1, <1>3, <1>4, <1>5, Unmoved, Assemble DEF TypeOK

\* A result is recorded only under the token of the worker.
LEMMA RecordOK ==
    ASSUME IInv, NEW w \in Workers, Record(w)
    PROVE  IInv'
<1> DEFINE status == IF job[w].outcome.success THEN "completed" ELSE "failed"
<1>1. TypeOK /\ pc[w] \in Working /\ UNCHANGED <<execution, requests>>
  BY DEF IInv, Record, Working
<1>2. CASE Holds(w) /\ Update(w, status) /\ Written(w, "conclude")
  <2>1. /\ rows' \in [Steps -> Seq(Row)] /\ OldAttempts'
        /\ \A v \in Workers \ {w}, s \in Steps : RowsMove(v, s)
    BY <1>1, <1>2, UpdateOK
  <2>2. LocalStep(w) /\ pc'[w] \in {"conclude", "idle"}
    BY <1>1, <1>2, ThenOK, EndOK DEF Written, Return, PCs
  <2>3. WorkerOK(w)'
    BY <2>2, FreeOK DEF Claiming, Working
  <2> QED
    BY <1>1, <2>1, <2>2, <2>3, Assemble DEF TypeOK
<1>3. CASE UNCHANGED rows /\ Return(w)
  BY <1>1, <1>3, EndOK, QuietOK DEF Return, PCs, Claiming, Working, TypeOK
<1> QED
  BY <1>2, <1>3 DEF Record

\* The conclusion touches no row.
LEMMA ConcludeOK ==
    ASSUME IInv, NEW w \in Workers, Conclude(w)
    PROVE  IInv'
<1>1. TypeOK /\ UNCHANGED <<rows, requests>> /\ job[w].done \in SUBSET Steps
  BY DEF IInv, TypeOK, Conclude, Job
<1>2. CASE Advance(w, job[w].at, job[w].done) /\ UNCHANGED execution
  <2>1. LocalStep(w) /\ pc'[w] \in {"index", "finish"} /\ (pc'[w] = "index" => job'[w].at \in Steps)
    BY <1>1, <1>2, AdvanceOK
  <2> QED
    BY <1>1, <1>2, <2>1, QuietOK DEF Claiming, Working, TypeOK
<1>3. CASE execution' = Concluded(w) /\ Return(w)
  <2>1. execution' \in ExecutionStatuses
    BY <1>3 DEF Concluded, ExecutionStatuses, Terminal
  <2> QED
    BY <1>1, <1>3, <2>1, EndOK, QuietOK DEF Return, PCs, Claiming, Working, TypeOK
<1> QED
  BY <1>2, <1>3 DEF Conclude

\* A worker that fails or dies leaves everybody else as they were.
LEMMA FaultsOK ==
    ASSUME IInv, NEW w \in Workers, StatementFails(w) \/ Crash(w)
    PROVE  IInv'
<1>1. TypeOK /\ UNCHANGED <<execution, rows, requests>>
  BY DEF IInv, StatementFails, Crash
<1>2. End(w, "idle") \/ End(w, "dead")
  BY DEF StatementFails, Crash, Return
<1>3. LocalStep(w) /\ pc'[w] \in {"idle", "dead"}
  BY <1>1, <1>2, EndOK DEF PCs
<1> QED
  BY <1>1, <1>3, QuietOK DEF Claiming, Working, TypeOK

\* The end of a lease changes neither token nor status.
LEMMA ExpireOK ==
    ASSUME IInv, NEW s \in Steps, Expire(s)
    PROVE  IInv'
<1> DEFINE n == Len(rows[s])
           old == rows[s][n]
           r == [old EXCEPT !.live = FALSE]
<1>1. TypeOK /\ rows[s] \in Seq(Row) /\ rows[s] # <<>> /\ UNCHANGED <<execution, requests, pc, job>>
  BY DEF IInv, TypeOK, Expire
<1>2. n \in 1 .. Len(rows[s])
  BY <1>1
<1>3. old \in Row
  BY <1>1, <1>2
<1>4. r \in Row /\ r.status = old.status /\ r.token = old.token /\ r.named = old.named
  BY <1>3 DEF Row
<1>5. Changes(s, n, r)
  BY <1>1, <1>3 DEF Expire, TypeOK, Row, Changes
<1>6. /\ rows' \in [Steps -> Seq(Row)]
      /\ \A t \in Steps : Len(rows'[t]) = Len(rows[t]) /\ Len(rows[t]) \in Nat
      /\ \A t \in Steps : \A i \in 1 .. Len(rows[t]) :
            rows'[t][i] = IF t = s /\ i = n THEN r ELSE rows[t][i]
  <2> HIDE DEF n, old, r
  <2> QED
    BY <1>1, <1>2, <1>4, <1>5, ChangeRow
<1> HIDE DEF r
<1>7. OldAttempts'
  BY <1>4, <1>6 DEF IInv, OldAttempts
<1>8. \A v \in Workers, t \in Steps : RowsMove(v, t)
  BY <1>4, <1>6 DEF RowsMove
<1>9. \A v \in Workers : WorkerOK(v)'
  BY <1>1, <1>6, <1>8, OthersOK
<1> QED
  BY <1>1, <1>6, <1>7, <1>9 DEF IInv, TypeOK

-----------------------------------------------------------------------------
(* The invariant                                                            *)

\* The invariant holds before the first run.
LEMMA InitIInv ==
    ASSUME Init
    PROVE  IInv
<1>1. TypeOK
  BY DEF Init, TypeOK, ExecutionStatuses, PCs, Job, NoJob, Outcomes
<1>2. OldAttempts
  BY DEF Init, OldAttempts
<1>3. \A w \in Workers : WorkerOK(w)
  BY DEF Init, WorkerOK, ClaimIsNext, ClaimIsHeld, Claiming, Working, Fallback
<1> QED
  BY <1>1, <1>2, <1>3 DEF IInv

\* Every step keeps the invariant.
LEMMA NextIInv ==
    ASSUME IInv, [Next]_vars
    PROVE  IInv'
<1>1. CASE UNCHANGED vars
  BY <1>1 DEF vars, IInv, TypeOK, OldAttempts, WorkerOK, ClaimIsNext, ClaimIsHeld
<1>2. ASSUME NEW w \in Workers, Statement(w)
      PROVE  IInv'
  BY <1>2, BeforePlan, LoadStepsOK, PlanOK, IndexOK, ClaimStepOK, ReadExistingOK, ReadRelatedOK,
     RecoverStaleOK, InsertClaimOK, RenameOK, WorkOK, RecordOK, ConcludeOK DEF Statement
<1>3. ASSUME NEW w \in Workers, StatementFails(w) \/ Crash(w)
      PROVE  IInv'
  BY <1>3, FaultsOK
<1>4. ASSUME NEW s \in Steps, Expire(s)
      PROVE  IInv'
  BY <1>4, ExpireOK
<1> QED
  BY <1>1, <1>2, <1>3, <1>4 DEF Next

\* The inductive invariant holds of every execution.
THEOREM StepInvariance == Spec => []IInv
<1>1. Init => IInv
  BY InitIInv
<1>2. IInv /\ [Next]_vars => IInv'
  BY NextIInv
<1> QED
  BY <1>1, <1>2, PTL DEF Spec

\* The variables of the step claim keep their types.
THEOREM StepTypeCorrect == Spec => []TypeOK
<1>1. IInv => TypeOK
  BY DEF IInv
<1> QED
  BY <1>1, StepInvariance, PTL

\* However many workers race, fall back, crash and see leases expire, only the
\* latest attempt of a step is in progress.
THEOREM OneLiveAttemptAlways == Spec => []OneLiveAttempt
<1>1. IInv => OneLiveAttempt
  <2> SUFFICES ASSUME IInv, NEW s \in Steps, NEW i \in DOMAIN rows[s],
                      rows[s][i].status = "in_progress"
               PROVE  i = Len(rows[s])
    BY DEF OneLiveAttempt
  <2>1. rows[s] \in Seq(Row)
    BY DEF IInv, TypeOK
  <2>2. i \in 1 .. Len(rows[s]) /\ ~(i \in 1 .. (Len(rows[s]) - 1))
    BY <2>1 DEF IInv, OldAttempts
  <2> QED
    BY <2>1, <2>2
<1> QED
  BY <1>1, StepInvariance, PTL

\* A worker that works on an attempt holds its fencing token, or the attempt was
\* recovered from it.
THEOREM AttemptsAreOwnedAlways == Spec => []AttemptsAreOwned
<1>1. IInv => AttemptsAreOwned
  BY DEF IInv, WorkerOK, ClaimIsHeld, AttemptsAreOwned, Working
<1> QED
  BY <1>1, StepInvariance, PTL

-----------------------------------------------------------------------------
(* What is never written again, as long as the claim RPC answers            *)

\* The rows of a step before its latest one stay, and so do those of a completed step.
Keeps(s) ==
    /\ \A i \in 1 .. (Len(rows[s]) - 1) : rows'[s][i] = rows[s][i]
    /\ s \in Completed => rows'[s] = rows[s]

\* Only the latest attempt of a step can be completed.
LEMMA CompletedIsLast ==
    ASSUME IInv, NEW s \in Completed
    PROVE  rows[s] # <<>> /\ Last(s).status = "completed"
<1>1. PICK i \in DOMAIN rows[s] : rows[s][i].status = "completed"
  BY DEF Completed
<1>2. rows[s] \in Seq(Row)
  BY DEF IInv, TypeOK, Completed
<1>3. i \in 1 .. Len(rows[s]) /\ ~(i \in 1 .. (Len(rows[s]) - 1))
  BY <1>1, <1>2 DEF IInv, OldAttempts, Completed
<1>4. i = Len(rows[s])
  BY <1>2, <1>3
<1> QED
  BY <1>1, <1>2, <1>3, <1>4 DEF Last

\* The claim RPC writes the latest row at most, and not if it is completed.
LEMMA GrantKeeps ==
    ASSUME IInv, NEW w \in Workers, NEW at \in Steps, Grant(w, at), NEW s \in Steps
    PROVE  Keeps(s)
<1>1. rows[at] \in Seq(Row) /\ rows' = [rows EXCEPT ![at] = Append(Superseded(at), Claimed(w, FALSE))]
  BY DEF IInv, TypeOK, Grant
<1>2. CASE s # at
  <2>1. rows'[s] = rows[s]
    BY <1>1, <1>2 DEF IInv, TypeOK
  <2> QED
    BY <2>1 DEF Keeps
<1>3. CASE s = at
  <2>1. rows'[s] = Append(Superseded(s), Claimed(w, FALSE)) /\ s \notin Completed
    BY <1>1, <1>3, CompletedIsLast DEF Grant, Obstructed, Blocks, IInv, TypeOK
  <2>2. CASE rows[s] # <<>> /\ Last(s).status = "in_progress"
    <3>1. Len(rows[s]) \in 1 .. Len(rows[s]) /\ Len(rows[s]) \in Nat
      BY <1>1, <1>3, <2>2
    <3>2. Last(s) \in Row
      BY <1>1, <1>3, <3>1 DEF Last
    <3> DEFINE q == [rows[s] EXCEPT ![Len(rows[s])] = Recovered(Last(s))]
    <3>3. Superseded(s) = q
      BY <2>2 DEF Superseded, Last
    <3>4. /\ q \in Seq(Row) /\ Len(q) = Len(rows[s])
          /\ \A i \in 1 .. Len(rows[s]) :
                q[i] = IF i = Len(rows[s]) THEN Recovered(Last(s)) ELSE rows[s][i]
      BY <1>1, <1>3, <3>1, <3>2, RowTypes, SetRow
    <3> HIDE DEF q
    <3>5. \A i \in 1 .. Len(q) : Append(q, Claimed(w, FALSE))[i] = q[i]
      BY <3>4, RowTypes, AddRow
    <3>6. \A i \in 1 .. (Len(rows[s]) - 1) : i \in 1 .. Len(rows[s]) /\ i # Len(rows[s])
      BY <3>1
    <3>7. \A i \in 1 .. (Len(rows[s]) - 1) : rows'[s][i] = rows[s][i]
      BY <2>1, <3>3, <3>4, <3>5, <3>6
    <3> QED
      BY <2>1, <3>7 DEF Keeps
  <2>3. CASE ~(rows[s] # <<>> /\ Last(s).status = "in_progress")
    <3>1. Superseded(s) = rows[s]
      BY <2>3 DEF Superseded
    <3>2. \A i \in 1 .. Len(rows[s]) : Append(rows[s], Claimed(w, FALSE))[i] = rows[s][i]
      BY <1>1, <1>3, RowTypes, AddRow
    <3>3. \A i \in 1 .. (Len(rows[s]) - 1) : i \in 1 .. Len(rows[s])
      BY <1>1, <1>3
    <3>4. \A i \in 1 .. (Len(rows[s]) - 1) : rows'[s][i] = rows[s][i]
      BY <2>1, <3>1, <3>2, <3>3
    <3> QED
      BY <2>1, <3>4 DEF Keeps
  <2> QED
    BY <2>2, <2>3
<1> QED
  BY <1>2, <1>3

\* A worker writes its own row, which is the latest one and in progress.
LEMMA UpdateKeeps ==
    ASSUME IInv, NEW w \in Workers, pc[w] \in Working, Holds(w),
           NEW status \in {"in_progress", "completed", "failed"}, Update(w, status),
           NEW s \in Steps
    PROVE  Keeps(s)
<1> DEFINE at == job[w].at
           n == job[w].attempt
<1>1. /\ rows' \in [Steps -> Seq(Row)] /\ at \in Steps
      /\ n = Len(rows[at]) /\ rows[at][n].status = "in_progress"
      /\ \A t \in Steps : Len(rows'[t]) = Len(rows[t])
      /\ \A t \in Steps : \A i \in 1 .. Len(rows[t]) : t # at \/ i # n => rows'[t][i] = rows[t][i]
  BY UpdateOK
<1>2. rows[s] \in Seq(Row) /\ Len(rows[s]) \in Nat
  BY DEF IInv, TypeOK
<1>3. \A i \in 1 .. (Len(rows[s]) - 1) : rows'[s][i] = rows[s][i]
  BY <1>1, <1>2
<1>4. ASSUME s \in Completed
      PROVE  rows'[s] = rows[s]
  <2>1. s # at
    BY <1>1, <1>4, CompletedIsLast DEF Last
  <2> QED
    BY <1>1, <2>1 DEF Update, IInv, TypeOK
<1> QED
  BY <1>3, <1>4 DEF Keeps

\* The lease of the latest row expires while it is in progress.
LEMMA ExpireKeeps ==
    ASSUME IInv, NEW at \in Steps, Expire(at), NEW s \in Steps
    PROVE  Keeps(s)
<1>1. rows[at] \in Seq(Row) /\ rows[s] \in Seq(Row) /\ Len(rows[at]) \in Nat
  BY DEF IInv, TypeOK
<1>2. CASE s # at
  <2>1. rows'[s] = rows[s]
    BY <1>2 DEF Expire, IInv, TypeOK
  <2> QED
    BY <2>1 DEF Keeps
<1>3. CASE s = at
  <2>1. rows'[s] = [rows[s] EXCEPT ![Len(rows[s])] = [@ EXCEPT !.live = FALSE]]
    BY <1>3 DEF Expire, IInv, TypeOK
  <2>2. s \notin Completed
    BY <1>3, CompletedIsLast DEF Expire
  <2>3. \A i \in 1 .. (Len(rows[s]) - 1) : rows'[s][i] = rows[s][i]
    BY <1>1, <1>3, <2>1
  <2> QED
    BY <2>2, <2>3 DEF Keeps
<1> QED
  BY <1>2, <1>3

\* Every step of a specification without failing RPCs keeps what is superseded or completed.
LEMMA NextKeeps ==
    ASSUME IInv, "rpc" \notin Faults, [Next]_vars, NEW s \in Steps
    PROVE  Keeps(s)
<1>1. ASSUME UNCHANGED rows
      PROVE  Keeps(s)
  BY <1>1 DEF Keeps
<1>2. ASSUME NEW w \in Workers, ClaimStep(w)
      PROVE  Keeps(s)
  <2>1. job[w].at \in Steps
    BY <1>2 DEF IInv, WorkerOK, ClaimStep, Claiming
  <2> QED
    BY <1>1, <1>2, <2>1, GrantKeeps DEF ClaimStep
<1>3. ASSUME NEW w \in Workers, Rename(w) \/ Record(w)
      PROVE  Keeps(s)
  <2>1. pc[w] \in Working
    BY <1>3 DEF Rename, Record, Working
  <2>2. UNCHANGED rows \/ \E status \in {"in_progress", "completed", "failed"} :
                              Holds(w) /\ Update(w, status)
    BY <1>3 DEF Rename, Record
  <2> QED
    BY <1>1, <2>1, <2>2, UpdateKeeps
<1>4. ASSUME NEW w \in Workers, RecoverStale(w) \/ InsertClaim(w)
      PROVE  FALSE
  BY <1>4 DEF IInv, WorkerOK, RecoverStale, InsertClaim, Fallback
<1>5. ASSUME NEW w \in Workers, Statement(w) \/ StatementFails(w) \/ Crash(w)
      PROVE  UNCHANGED rows \/ ClaimStep(w) \/ Rename(w) \/ Record(w)
             \/ RecoverStale(w) \/ InsertClaim(w)
  BY <1>5 DEF Statement, Run, ClaimExecution, LoadSteps, MarkRunning, Finish, Plan, Index,
     ReadExisting, ReadRelated, Work, Conclude, StatementFails, Crash
<1>6. UNCHANGED vars => UNCHANGED rows
  BY DEF vars
<1> QED
  BY <1>1, <1>2, <1>3, <1>4, <1>5, <1>6, ExpireKeeps DEF Next

\* As long as the claim RPC answers, an attempt that was superseded is never
\* written again.
THEOREM SupersededIsFrozenAlways ==
    ASSUME "rpc" \notin Faults
    PROVE  Spec => SupersededIsFrozen
<1>1. IInv /\ [Next]_vars =>
        [\A s \in Steps : \A i \in 1 .. (Len(rows[s]) - 1) : rows'[s][i] = rows[s][i]]_vars
  BY NextKeeps DEF Keeps
<1> QED
  BY <1>1, StepInvariance, PTL DEF Spec, SupersededIsFrozen

\* As long as the claim RPC answers, a completed step stays as it is.
THEOREM CompletedIsFinalAlways ==
    ASSUME "rpc" \notin Faults
    PROVE  Spec => CompletedIsFinal
<1>1. IInv /\ [Next]_vars => [\A s \in Completed : rows'[s] = rows[s]]_vars
  BY NextKeeps DEF Keeps, Completed
<1> QED
  BY <1>1, StepInvariance, PTL DEF Spec, CompletedIsFinal

-----------------------------------------------------------------------------
(* No step is left behind, as long as the claim RPC answers                 *)

AtStep == {"index", "conclude"} \cup Claiming \cup Working

\* Only a row that carries the name of its step is completed.
CompletedIsNamed ==
    \A s \in Steps : \A i \in 1 .. Len(rows[s]) :
        rows[s][i].status = "completed" => rows[s][i].named

\* What a worker believes done is completed, and so is every step before the one
\* it is at; it remembers a result that its tool can have returned.
Behind(w) ==
    /\ job[w].done \subseteq Completed
    /\ pc[w] \in AtStep => job[w].at \in Steps /\ 1 .. (job[w].at - 1) \subseteq Completed
    /\ pc[w] \in {"record", "conclude"} => job[w].outcome \in Results(job[w].at)
    /\ pc[w] = "conclude" /\ job[w].outcome.success => job[w].at \in Completed
    /\ pc[w] = "finish" => Completed = Steps

\* FinishMeansFinished is not inductive: a worker comes to the end of the plan by
\* what it remembers of the steps, its own and those it was refused.
Progress ==
    /\ CompletedIsNamed
    /\ \A w \in Workers : Behind(w)
    /\ execution = "SUCCEEDED" => Completed # {}

\* A completed row completes its step.
LEMMA CompletedRow ==
    ASSUME IInv, Progress, NEW s \in Steps, NEW i \in 1 .. Len(rows[s]),
           rows[s][i].status = "completed"
    PROVE  s \in Completed
<1>1. rows[s] \in Seq(Row)
  BY DEF IInv, TypeOK
<1>2. i \in DOMAIN rows[s] /\ rows[s][i].named
  BY <1>1 DEF Progress, CompletedIsNamed
<1> QED
  BY <1>2 DEF Completed

\* A step that stays completed is not lost from sight.
LEMMA CompletedGrows ==
    ASSUME IInv, "rpc" \notin Faults, [Next]_vars
    PROVE  Completed \subseteq Completed' /\ Completed' \subseteq Steps
<1>1. \A s \in Completed : rows'[s] = rows[s]
  BY NextKeeps DEF Keeps, Completed
<1> QED
  BY <1>1 DEF Completed

\* A worker that does not move keeps what it remembers.
LEMMA BehindStays ==
    ASSUME NEW v \in Workers, Behind(v), pc'[v] = pc[v], job'[v] = job[v],
           Completed \subseteq Completed', Completed' \subseteq Steps
    PROVE  Behind(v)'
BY DEF Behind, Results

\* A run that ends forgets everything.
LEMMA EndBehind ==
    ASSUME TypeOK, NEW w \in Workers, End(w, "idle") \/ End(w, "dead")
    PROVE  Behind(w)'
<1>1. pc'[w] \in {"idle", "dead"} /\ job'[w].done = {}
  BY DEF TypeOK, End, Goto, NoJob
<1> QED
  BY <1>1 DEF Behind, AtStep, Claiming, Working

\* Advance comes to a step with nothing but completed ones before it.
LEMMA AdvanceBehind ==
    ASSUME TypeOK, NEW w \in Workers, NEW from \in 0 .. PlanLength, NEW done \in SUBSET Steps,
           1 .. from \subseteq Completed', done \subseteq Completed', Completed' \subseteq Steps,
           Advance(w, from, done)
    PROVE  Behind(w)'
<1>1. CASE job' = [job EXCEPT ![w].done = done] /\ Goto(w, "finish")
           /\ (from + 1) .. PlanLength \subseteq done
  <2>1. pc'[w] = "finish" /\ job'[w].done = done
    BY <1>1 DEF TypeOK, Goto, Job
  <2>2. Steps \subseteq Completed'
    <3> SUFFICES ASSUME NEW t \in Steps PROVE t \in Completed'
      OBVIOUS
    <3>1. t \in 1 .. from \/ t \in (from + 1) .. PlanLength
      BY StepClaimAssumption DEF Steps
    <3> QED
      BY <1>1, <3>1
  <2> QED
    BY <2>1, <2>2 DEF Behind, AtStep, Claiming, Working
<1>2. ASSUME NEW s \in Steps, s > from, (from + 1) .. (s - 1) \subseteq done,
             job' = [job EXCEPT ![w].at = s, ![w].done = done], Goto(w, "index")
      PROVE  Behind(w)'
  <2>1. pc'[w] = "index" /\ job'[w].done = done /\ job'[w].at = s
    BY <1>2 DEF TypeOK, Goto, Job
  <2>2. 1 .. (s - 1) \subseteq Completed'
    <3> SUFFICES ASSUME NEW t \in 1 .. (s - 1) PROVE t \in Completed'
      OBVIOUS
    <3>1. t \in 1 .. from \/ t \in (from + 1) .. (s - 1)
      BY <1>2 DEF Steps
    <3> QED
      BY <1>2, <3>1
  <2> QED
    BY <1>2, <2>1, <2>2 DEF Behind, AtStep, Claiming, Working
<1> QED
  BY <1>1, <1>2 DEF Advance

\* What the claim RPC leaves behind: attempts that failed, and its own in progress.
LEMMA GrantIs ==
    ASSUME IInv, NEW w \in Workers, NEW at \in Steps, Grant(w, at)
    PROVE  /\ rows' \in [Steps -> Seq(Row)] /\ \A t \in Steps \ {at} : rows'[t] = rows[t]
           /\ Len(rows[at]) \in Nat /\ Len(rows'[at]) = Len(rows[at]) + 1
           /\ rows'[at][Len(rows[at]) + 1] = Claimed(w, FALSE)
           /\ \A i \in 1 .. Len(rows[at]) : rows'[at][i].status = "failed"
<1> DEFINE q == Superseded(at)
           l == Len(rows[at])
<1>1. /\ rows[at] \in Seq(Row) /\ l \in Nat /\ ~(rows[at] # <<>> /\ Blocks(Last(at)))
      /\ rows' = [rows EXCEPT ![at] = Append(q, Claimed(w, FALSE))]
  BY DEF IInv, TypeOK, Grant, Obstructed
<1>2. \A i \in 1 .. (l - 1) : rows[at][i].status = "failed"
  BY DEF IInv, OldAttempts
<1>3. q \in Seq(Row) /\ Len(q) = l /\ \A i \in 1 .. l : q[i].status = "failed"
  <2>1. CASE rows[at] # <<>> /\ Last(at).status = "in_progress"
    <3>1. l \in 1 .. l /\ Last(at) \in Row
      BY <1>1, <2>1 DEF Last
    <3>2. Recovered(Last(at)) \in Row /\ Recovered(Last(at)).status = "failed"
      BY <3>1, RowTypes DEF Recovered, Row
    <3>3. q = [rows[at] EXCEPT ![l] = Recovered(Last(at))]
      BY <2>1 DEF Superseded, Last
    <3> HIDE DEF q
    <3>4. /\ q \in Seq(Row) /\ Len(q) = l
          /\ \A i \in 1 .. l : q[i] = IF i = l THEN Recovered(Last(at)) ELSE rows[at][i]
      BY <1>1, <3>1, <3>2, <3>3, SetRow
    <3> QED
      BY <1>1, <1>2, <3>2, <3>4
  <2>2. CASE ~(rows[at] # <<>> /\ Last(at).status = "in_progress")
    <3>1. q = rows[at]
      BY <2>2 DEF Superseded
    <3>2. ASSUME rows[at] # <<>> PROVE rows[at][l].status = "failed"
      <4>1. rows[at][l] \in Row
        BY <1>1, <3>2
      <4> QED
        BY <1>1, <2>2, <3>2, <4>1 DEF Blocks, Last, Row
    <3> QED
      BY <1>1, <1>2, <3>1, <3>2
  <2> QED
    BY <2>1, <2>2
<1> HIDE DEF q, l
<1>. Claimed(w, FALSE) \in Row
  BY RowTypes
<1>4. /\ Append(q, Claimed(w, FALSE)) \in Seq(Row) /\ Len(Append(q, Claimed(w, FALSE))) = l + 1
      /\ Append(q, Claimed(w, FALSE))[l + 1] = Claimed(w, FALSE)
      /\ \A i \in 1 .. l : Append(q, Claimed(w, FALSE))[i] = q[i]
  BY <1>3, AddRow
<1> QED
  BY <1>1, <1>3, <1>4 DEF IInv, TypeOK, l

\* The end of a lease leaves every status and every name as it is.
LEMMA ExpireIs ==
    ASSUME IInv, NEW at \in Steps, Expire(at)
    PROVE  \A t \in Steps :
               /\ Len(rows'[t]) = Len(rows[t])
               /\ \A i \in 1 .. Len(rows[t]) :
                     rows'[t][i].status = rows[t][i].status /\ rows'[t][i].named = rows[t][i].named
<1> DEFINE n == Len(rows[at])
           old == rows[at][n]
           r == [old EXCEPT !.live = FALSE]
<1>1. TypeOK /\ rows[at] \in Seq(Row) /\ n \in 1 .. Len(rows[at])
  BY DEF IInv, TypeOK, Expire
<1>2. old \in Row
  BY <1>1
<1>3. r \in Row /\ r.status = old.status /\ r.named = old.named
  BY <1>2 DEF Row
<1>4. Changes(at, n, r)
  BY <1>1, <1>2 DEF Expire, TypeOK, Row, Changes
<1>5. \A t \in Steps : /\ Len(rows'[t]) = Len(rows[t]) /\ Len(rows[t]) \in Nat
                       /\ \A i \in 1 .. Len(rows[t]) :
                             rows'[t][i] = IF t = at /\ i = n THEN r ELSE rows[t][i]
  <2> HIDE DEF n, old, r
  <2> QED
    BY <1>1, <1>3, <1>4, ChangeRow
<1> HIDE DEF r
<1> QED
  BY <1>3, <1>5

\* Who writes the rows while the claim RPC answers.
LEMMA WritersAre ==
    ASSUME IInv, "rpc" \notin Faults, [Next]_vars
    PROVE  \/ UNCHANGED rows
           \/ \E w \in Workers : /\ pc[w] = "claim" /\ job[w].at \in Steps
                                 /\ ClaimStep(w) /\ Grant(w, job[w].at)
           \/ \E w \in Workers, status \in {"in_progress", "completed", "failed"} :
                  pc[w] \in Working /\ Holds(w) /\ Update(w, status)
           \/ \E s \in Steps : Expire(s)
<1>1. ASSUME NEW w \in Workers, ClaimStep(w)
      PROVE  \/ UNCHANGED rows
             \/ pc[w] = "claim" /\ job[w].at \in Steps /\ ClaimStep(w) /\ Grant(w, job[w].at)
  BY <1>1 DEF ClaimStep, IInv, WorkerOK, Claiming
<1>2. ASSUME NEW w \in Workers, Rename(w) \/ Record(w)
      PROVE  \/ UNCHANGED rows
             \/ \E status \in {"in_progress", "completed", "failed"} :
                    pc[w] \in Working /\ Holds(w) /\ Update(w, status)
  BY <1>2 DEF Rename, Record, Working
<1>3. ASSUME NEW w \in Workers, RecoverStale(w) \/ InsertClaim(w) PROVE FALSE
  BY <1>3 DEF IInv, WorkerOK, RecoverStale, InsertClaim, Fallback
<1>4. ASSUME NEW w \in Workers, Statement(w) \/ StatementFails(w) \/ Crash(w)
      PROVE  UNCHANGED rows \/ ClaimStep(w) \/ Rename(w) \/ Record(w)
             \/ RecoverStale(w) \/ InsertClaim(w)
  BY <1>4 DEF Statement, Run, ClaimExecution, LoadSteps, MarkRunning, Finish, Plan, Index,
     ReadExisting, ReadRelated, Work, Conclude, StatementFails, Crash
<1>5. UNCHANGED vars => UNCHANGED rows
  BY DEF vars
<1> QED
  BY <1>1, <1>2, <1>3, <1>4, <1>5 DEF Next

\* A row is completed and named by one statement.
LEMMA NamedStays ==
    ASSUME IInv, "rpc" \notin Faults, [Next]_vars, CompletedIsNamed
    PROVE  CompletedIsNamed'
<1>1. CASE UNCHANGED rows
  BY <1>1 DEF CompletedIsNamed
<1>2. ASSUME NEW w \in Workers, NEW at \in Steps, Grant(w, at)
      PROVE  CompletedIsNamed'
  <2>1. /\ \A t \in Steps \ {at} : rows'[t] = rows[t]
        /\ Len(rows[at]) \in Nat /\ Len(rows'[at]) = Len(rows[at]) + 1
        /\ rows'[at][Len(rows[at]) + 1] = Claimed(w, FALSE)
        /\ \A i \in 1 .. Len(rows[at]) : rows'[at][i].status = "failed"
    BY <1>2, GrantIs
  <2>2. \A i \in 1 .. Len(rows'[at]) : rows'[at][i].status # "completed"
    BY <2>1 DEF Claimed
  <2> QED
    BY <2>1, <2>2 DEF CompletedIsNamed
<1>3. ASSUME NEW w \in Workers, NEW status \in {"in_progress", "completed", "failed"},
             pc[w] \in Working, Holds(w), Update(w, status)
      PROVE  CompletedIsNamed'
  BY <1>3, UpdateOK DEF CompletedIsNamed
<1>4. ASSUME NEW s \in Steps, Expire(s)
      PROVE  CompletedIsNamed'
  BY <1>4, ExpireIs DEF CompletedIsNamed
<1> QED
  BY <1>1, <1>2, <1>3, <1>4, WritersAre

\* A worker that goes on at its step, or before the plan, has what it had.
LEMMA ThenBehind ==
    ASSUME TypeOK, NEW w \in Workers, Behind(w), NEW p \in PCs, Then(w, p),
           Completed \subseteq Completed', Completed' \subseteq Steps,
           p \in AtStep => pc[w] \in AtStep,
           p \in {"record", "conclude"} => pc[w] \in {"record", "conclude"},
           p = "conclude" /\ job[w].outcome.success => job[w].at \in Completed',
           p # "finish"
    PROVE  Behind(w)'
<1>1. pc'[w] = p /\ job' = job
  BY ThenOK
<1> QED
  BY <1>1 DEF Behind, Results

\* A write that is answered, or not.
LEMMA WrittenBehind ==
    ASSUME TypeOK, NEW w \in Workers, Behind(w), NEW p \in PCs, Written(w, p),
           Completed \subseteq Completed', Completed' \subseteq Steps,
           p \in AtStep => pc[w] \in AtStep,
           p \in {"record", "conclude"} => pc[w] \in {"record", "conclude"},
           p = "conclude" /\ job[w].outcome.success => job[w].at \in Completed',
           p # "finish"
    PROVE  Behind(w)'
BY ThenBehind, EndBehind DEF Written, Return

\* A refusal goes on only past a row that is completed.
LEMMA RefusedBehind ==
    ASSUME IInv, Progress, NEW w \in Workers, pc[w] \in AtStep,
           Completed \subseteq Completed', Completed' \subseteq Steps,
           NEW i \in 1 .. Len(rows[job[w].at]), Refused(w, rows[job[w].at][i])
    PROVE  Behind(w)'
<1> DEFINE at == job[w].at
<1>1. TypeOK /\ Behind(w) /\ at \in Steps /\ job[w].done \in SUBSET Steps
  BY DEF IInv, TypeOK, Job, Progress, Behind
<1>2. CASE Return(w)
  BY <1>1, <1>2, EndBehind DEF Return
<1>3. CASE rows[at][i].status = "completed" /\ Advance(w, at, job[w].done \cup {at})
  <2>1. at \in Completed /\ 1 .. (at - 1) \subseteq Completed /\ job[w].done \subseteq Completed
    BY <1>1, <1>3, CompletedRow DEF Behind
  <2>2. 1 .. at \subseteq Completed' /\ job[w].done \cup {at} \subseteq Completed'
    BY <1>1, <2>1 DEF Steps
  <2>3. at \in 0 .. PlanLength /\ job[w].done \cup {at} \in SUBSET Steps
    BY <1>1 DEF Steps
  <2> QED
    BY <1>1, <1>3, <2>2, <2>3, AdvanceBehind
<1> QED
  BY <1>2, <1>3 DEF Refused

\* The worker that moves knows what it did, statement by statement.
LEMMA StatementBehind ==
    ASSUME IInv, "rpc" \notin Faults, Progress, [Next]_vars, NEW w \in Workers, Statement(w)
    PROVE  Behind(w)'
<1> DEFINE at == job[w].at
<1>1. /\ TypeOK /\ Behind(w) /\ job[w] \in Job /\ job[w].done \in SUBSET Steps
      /\ Completed \subseteq Completed' /\ Completed' \subseteq Steps
  BY CompletedGrows DEF IInv, TypeOK, Job, Progress
<1>2. ASSUME Run(w) \/ ClaimExecution(w) \/ MarkRunning(w) \/ Finish(w) PROVE Behind(w)'
  <2>1. \/ \E p \in {"claim_execution", "load", "run", "plan"} : Then(w, p)
        \/ Return(w)
    BY <1>2 DEF Run, ClaimExecution, MarkRunning, Finish, Written
  <2>2. {"claim_execution", "load", "run", "plan"} \subseteq PCs \ (AtStep \cup {"finish"})
    BY DEF PCs, AtStep, Claiming, Working
  <2> QED
    BY <1>1, <2>1, <2>2, ThenBehind, EndBehind DEF Return, AtStep
<1>3. ASSUME LoadSteps(w) PROVE Behind(w)'
  <2>1. /\ job'[w].done = Completed
        /\ pc'[w] = "run" \/ (pc'[w] = "finish" /\ Completed = Steps)
    BY <1>1, <1>3 DEF LoadSteps, Goto, TypeOK, Job
  <2> QED
    BY <1>1, <2>1 DEF Behind, AtStep, Claiming, Working
<1>4. ASSUME Plan(w) PROVE Behind(w)'
  <2>1. Advance(w, 0, job[w].done \cup Completed) /\ job[w].done \cup Completed \subseteq Completed'
    BY <1>1, <1>4 DEF Plan, Behind
  <2>2. 0 \in 0 .. PlanLength /\ 1 .. 0 \subseteq Completed'
    BY StepClaimAssumption
  <2>3. job[w].done \cup Completed \in SUBSET Steps
    BY <1>1 DEF Completed
  <2> QED
    BY <1>1, <2>1, <2>2, <2>3, AdvanceBehind
<1>5. ASSUME Index(w) PROVE Behind(w)'
  <2>1. CASE Return(w)
    BY <1>1, <2>1, EndBehind DEF Return
  <2>2. ASSUME NEW n, job' = [job EXCEPT ![w].attempt = n], Goto(w, "claim") PROVE Behind(w)'
    <3>1. /\ pc'[w] = "claim" /\ job'[w].done = job[w].done /\ job'[w].at = at
          /\ pc[w] = "index"
      BY <1>1, <1>5, <2>2 DEF Index, Goto, TypeOK, Job
    <3> QED
      BY <1>1, <3>1 DEF Behind, AtStep, Claiming, Working
  <2> QED
    BY <1>5, <2>1, <2>2 DEF Index
<1>6. ASSUME ClaimStep(w) PROVE Behind(w)'
  <2>1. pc[w] \in AtStep /\ {"rename", "existing"} \subseteq PCs \ {"finish", "record", "conclude"}
    BY <1>6 DEF ClaimStep, AtStep, Claiming, PCs
  <2>2. CASE Then(w, "rename") \/ Then(w, "existing")
    BY <1>1, <2>1, <2>2, ThenBehind
  <2>3. CASE Obstructed(w, at) /\ Refused(w, Obstacle(w, at))
    <3>1. \E i \in 1 .. Len(rows[at]) : Obstacle(w, at) = rows[at][i]
      <4>1. rows[at] \in Seq(Row) /\ job[w].attempt \in 1 .. (Len(rows[at]) + 1)
        BY <1>6 DEF ClaimStep, IInv, TypeOK, WorkerOK, ClaimIsNext, Claiming
      <4> QED
        BY <2>3, <4>1 DEF Obstructed, Obstacle, Last
    <3> QED
      BY <1>1, <2>1, <2>3, <3>1, RefusedBehind
  <2> QED
    BY <1>6, <2>2, <2>3 DEF ClaimStep
<1>7. ASSUME ReadExisting(w) \/ ReadRelated(w) \/ RecoverStale(w) \/ InsertClaim(w) PROVE FALSE
  BY <1>7 DEF IInv, WorkerOK, ReadExisting, ReadRelated, RecoverStale, InsertClaim, Fallback
<1>8. ASSUME Rename(w) PROVE Behind(w)'
  <2>1. pc[w] \in AtStep /\ "work" \in PCs \ {"finish", "record", "conclude"}
    BY <1>8 DEF Rename, AtStep, Working, PCs
  <2> QED
    BY <1>1, <1>8, <2>1, WrittenBehind, EndBehind DEF Rename, Return
<1>9. ASSUME Work(w) PROVE Behind(w)'
  <2>1. PICK o \in Results(at) : job' = [job EXCEPT ![w].outcome = o]
    BY <1>9 DEF Work
  <2>2. /\ pc[w] = "work" /\ pc'[w] = "record" /\ job'[w].done = job[w].done
        /\ job'[w].at = at /\ job'[w].outcome = o
    BY <1>1, <1>9, <2>1 DEF Work, Goto, TypeOK, Job
  <2> QED
    BY <1>1, <2>1, <2>2 DEF Behind, AtStep, Working, Results
<1>10. ASSUME Record(w) PROVE Behind(w)'
  <2>1. /\ pc[w] = "record" /\ pc[w] \in AtStep /\ pc[w] \in Working
        /\ "conclude" \in PCs \ {"finish"} /\ at \in Steps
    BY <1>1, <1>10 DEF Record, AtStep, Working, PCs, Behind
  <2>2. CASE /\ Holds(w) /\ Update(w, IF job[w].outcome.success THEN "completed" ELSE "failed")
             /\ Written(w, "conclude")
    <3>1. ASSUME job[w].outcome.success PROVE at \in Completed'
      <4>1. Update(w, "completed")
        BY <2>2, <3>1
      <4>2. /\ rows' \in [Steps -> Seq(Row)] /\ job[w].attempt \in 1 .. Len(rows'[at])
            /\ rows'[at][job[w].attempt].status = "completed"
            /\ rows'[at][job[w].attempt].named
        BY <2>1, <2>2, <4>1, UpdateOK
      <4>3. job[w].attempt \in DOMAIN rows'[at]
        BY <2>1, <4>2
      <4> QED
        BY <2>1, <4>2, <4>3 DEF Completed
    <3> QED
      BY <1>1, <2>1, <2>2, <3>1, WrittenBehind
  <2>3. CASE Return(w)
    BY <1>1, <2>3, EndBehind DEF Return
  <2> QED
    BY <1>10, <2>2, <2>3 DEF Record
<1>11. ASSUME Conclude(w) PROVE Behind(w)'
  <2>1. CASE Return(w)
    BY <1>1, <2>1, EndBehind DEF Return
  <2>2. CASE job[w].outcome.decision = "FOLLOW_UP" /\ Advance(w, at, job[w].done)
    <3>1. pc[w] = "conclude" /\ job[w].outcome.success
      BY <1>1, <1>11, <2>2 DEF Conclude, Behind, Results
    <3>2. at \in Steps /\ at \in Completed /\ 1 .. (at - 1) \subseteq Completed
          /\ job[w].done \subseteq Completed
      BY <1>1, <3>1 DEF Behind, AtStep
    <3>3. at \in 0 .. PlanLength /\ 1 .. at \subseteq Completed' /\ job[w].done \subseteq Completed'
      BY <1>1, <3>2 DEF Steps
    <3> QED
      BY <1>1, <2>2, <3>3, AdvanceBehind
  <2> QED
    BY <1>11, <2>1, <2>2 DEF Conclude
<1> QED
  BY <1>2, <1>3, <1>4, <1>5, <1>6, <1>7, <1>8, <1>9, <1>10, <1>11 DEF Statement

\* The execution succeeds at the end of the plan, or with a step that succeeded.
LEMMA SuccessIsDone ==
    ASSUME IInv, "rpc" \notin Faults, Progress, [Next]_vars, execution' = "SUCCEEDED"
    PROVE  Completed' # {}
<1>1. Completed \subseteq Completed'
  BY CompletedGrows
<1>2. Completed # {}
  <2>1. CASE execution = "SUCCEEDED"
    BY <2>1 DEF Progress
  <2>2. ASSUME NEW w \in Workers, Finish(w) PROVE Completed # {}
    <3>1. Completed = Steps
      BY <2>2 DEF Finish, Progress, Behind
    <3>2. 1 \in Steps
      BY StepClaimAssumption DEF Steps
    <3> QED
      BY <3>1, <3>2
  <2>3. ASSUME NEW w \in Workers, Conclude(w), execution' = Concluded(w) PROVE Completed # {}
    <3>1. job[w].outcome.decision = "COMPLETE"
      BY <2>3 DEF Concluded
    <3>2. pc[w] = "conclude" /\ job[w].outcome \in Results(job[w].at)
      BY <2>3 DEF Conclude, Progress, Behind
    <3>3. job[w].outcome.success
      BY <3>1, <3>2 DEF Results
    <3> QED
      BY <3>2, <3>3 DEF Progress, Behind
  <2>4. ASSUME NEW w \in Workers, ClaimExecution(w) \/ MarkRunning(w), execution' # execution
        PROVE  FALSE
    BY <2>4 DEF ClaimExecution, MarkRunning
  <2>5. \/ execution' = execution
        \/ \E w \in Workers : \/ Finish(w) \/ ClaimExecution(w) \/ MarkRunning(w)
                              \/ Conclude(w) /\ execution' = Concluded(w)
    BY DEF Next, Statement, Run, LoadSteps, Plan, Index, ClaimStep, ReadExisting, ReadRelated,
       RecoverStale, InsertClaim, Rename, Work, Record, Conclude, StatementFails, Crash, Expire, vars
  <2> QED
    BY <2>1, <2>2, <2>3, <2>4, <2>5
<1> QED
  BY <1>1, <1>2

\* Every step keeps what the workers remember true.
LEMMA NextProgress ==
    ASSUME IInv, "rpc" \notin Faults, Progress, [Next]_vars
    PROVE  Progress'
<1>1. TypeOK /\ Completed \subseteq Completed' /\ Completed' \subseteq Steps
  BY CompletedGrows DEF IInv
<1>2. CompletedIsNamed'
  BY NamedStays DEF Progress
<1>3. ASSUME NEW w \in Workers, Statement(w) \/ StatementFails(w) \/ Crash(w), NEW v \in Workers
      PROVE  Behind(v)'
  <2>1. CASE v = w
    <3>1. StatementFails(w) \/ Crash(w) => Behind(w)'
      BY <1>1, EndBehind DEF StatementFails, Crash, Return
    <3> QED
      BY <1>3, <2>1, <3>1, StatementBehind
  <2>2. CASE v # w
    <3>1. pc'[v] = pc[v] /\ job'[v] = job[v]
      BY <1>1, <1>3, <2>2 DEF Statement, Run, ClaimExecution, LoadSteps, MarkRunning, Finish,
         Plan, Index, ClaimStep, ReadExisting, ReadRelated, RecoverStale, InsertClaim, Rename,
         Work, Record, Conclude, StatementFails, Crash, Refused, Advance, Written, Return, Then,
         End, Goto, TypeOK
    <3> QED
      BY <1>1, <3>1, BehindStays DEF Progress
  <2> QED
    BY <2>1, <2>2
<1>4. ASSUME UNCHANGED <<pc, job>>, NEW v \in Workers
      PROVE  Behind(v)'
  BY <1>1, <1>4, BehindStays DEF Progress
<1>5. \A s \in Steps : Expire(s) => UNCHANGED <<pc, job>>
  BY DEF Expire
<1>6. UNCHANGED vars => UNCHANGED <<pc, job>>
  BY DEF vars
<1>7. \A v \in Workers : Behind(v)'
  BY <1>3, <1>4, <1>5, <1>6 DEF Next
<1> QED
  BY <1>2, <1>7, SuccessIsDone DEF Progress

\* What is remembered and what is recorded agree in every execution.
LEMMA ProgressInvariance ==
    ASSUME "rpc" \notin Faults
    PROVE  Spec => []Progress
<1>1. Init => Progress
  BY DEF Init, Progress, CompletedIsNamed, Behind, NoJob, AtStep, Claiming, Working
<1>2. IInv /\ Progress /\ [Next]_vars => Progress'
  BY NextProgress
<1> QED
  BY <1>1, <1>2, StepInvariance, PTL DEF Spec

\* As long as the claim RPC answers, a run comes to the end of the plan only when
\* every step of it is completed, whoever completed it.
THEOREM FinishMeansFinishedAlways ==
    ASSUME "rpc" \notin Faults
    PROVE  Spec => []FinishMeansFinished
<1>1. Progress => FinishMeansFinished
  BY DEF Progress, Behind, FinishMeansFinished
<1> QED
  BY <1>1, ProgressInvariance, PTL

-----------------------------------------------------------------------------
(* Who waits for an approval has asked for one                              *)

Asked == \E s \in Steps : requests[s] > 0

\* A tool that waits has asked, and so has an execution that waits.
WaitsAsked ==
    /\ \A w \in Workers :
          pc[w] \in {"record", "conclude"} /\ job[w].outcome.decision = "WAIT_FOR_APPROVAL" => Asked
    /\ execution = "WAITING_APPROVAL" => Asked

\* Requests are never taken back.
LEMMA AskedStays ==
    ASSUME IInv, [Next]_vars, Asked
    PROVE  Asked'
<1>1. PICK s \in Steps : requests[s] > 0
  BY DEF Asked
<1>2. requests \in [Steps -> Nat]
  BY DEF IInv, TypeOK
<1>3. requests' = requests \/ \E t \in Steps : requests' = [requests EXCEPT ![t] = @ + 1]
  <2>1. \A w \in Workers : Work(w) => job[w].at \in Steps
    BY DEF Work, IInv, WorkerOK, Working
  <2> QED
    BY <2>1 DEF Next, Statement, Run, ClaimExecution, LoadSteps, MarkRunning, Finish, Plan, Index,
       ClaimStep, ReadExisting, ReadRelated, RecoverStale, InsertClaim, Rename, Work, Record,
       Conclude, StatementFails, Crash, Expire, vars
<1>4. requests'[s] > 0
  BY <1>1, <1>2, <1>3
<1> QED
  BY <1>4 DEF Asked

\* A worker remembers the answer of its own tool, which asked.
LEMMA WorkerAsked ==
    ASSUME IInv, WaitsAsked, [Next]_vars, NEW v \in Workers,
           pc'[v] \in {"record", "conclude"}, job'[v].outcome.decision = "WAIT_FOR_APPROVAL"
    PROVE  Asked'
<1>1. TypeOK
  BY DEF IInv
<1>2. CASE pc[v] \in {"record", "conclude"} /\ job'[v] = job[v]
  BY <1>2, AskedStays DEF WaitsAsked
<1>3. CASE Work(v)
  <2>1. PICK o \in Results(job[v].at) :
            /\ job' = [job EXCEPT ![v].outcome = o]
            /\ \/ requests' = [requests EXCEPT ![job[v].at] = @ + 1]
               \/ o.decision # "WAIT_FOR_APPROVAL"
    BY <1>3 DEF Work
  <2>2. job'[v].outcome = o
    BY <1>1, <2>1 DEF TypeOK, Job
  <2>3. job[v].at \in Steps
    BY <1>3 DEF Work, IInv, WorkerOK, Working
  <2>4. requests'[job[v].at] > 0
    BY <1>1, <2>1, <2>2, <2>3 DEF TypeOK
  <2> QED
    BY <2>3, <2>4 DEF Asked
<1>4. ASSUME NEW w \in Workers, w # v, Statement(w) \/ StatementFails(w) \/ Crash(w)
      PROVE  pc'[v] = pc[v] /\ job'[v] = job[v]
  BY <1>1, <1>4 DEF Statement, Run, ClaimExecution, LoadSteps, MarkRunning, Finish,
     Plan, Index, ClaimStep, ReadExisting, ReadRelated, RecoverStale, InsertClaim, Rename,
     Work, Record, Conclude, StatementFails, Crash, Refused, Advance, Written, Return, Then,
     End, Goto, TypeOK
<1>5. ASSUME Record(v) PROVE pc[v] \in {"record", "conclude"} /\ job'[v] = job[v]
  BY <1>1, <1>5 DEF Record, Written, Then, Return, End, Goto, TypeOK
<1>6. ASSUME \/ Run(v) \/ ClaimExecution(v) \/ LoadSteps(v) \/ MarkRunning(v) \/ Finish(v)
             \/ Plan(v) \/ Index(v) \/ ClaimStep(v) \/ ReadExisting(v) \/ ReadRelated(v)
             \/ RecoverStale(v) \/ InsertClaim(v) \/ Rename(v) \/ Conclude(v)
             \/ StatementFails(v) \/ Crash(v)
      PROVE  FALSE
  BY <1>1, <1>6 DEF Run, ClaimExecution, LoadSteps, MarkRunning, Finish, Plan, Index, ClaimStep,
     ReadExisting, ReadRelated, RecoverStale, InsertClaim, Rename, Conclude, StatementFails,
     Crash, Refused, Advance, Written, Return, Then, End, Goto, TypeOK
<1>7. (UNCHANGED vars \/ \E s \in Steps : Expire(s)) => pc'[v] = pc[v] /\ job'[v] = job[v]
  BY DEF vars, Expire
<1> QED
  BY <1>2, <1>3, <1>4, <1>5, <1>6, <1>7 DEF Next, Statement

\* Every step keeps it: an execution waits because a worker's tool does.
LEMMA NextWaitsAsked ==
    ASSUME IInv, WaitsAsked, [Next]_vars
    PROVE  WaitsAsked'
<1>1. ASSUME execution' = "WAITING_APPROVAL" PROVE Asked'
  <2>1. CASE execution = "WAITING_APPROVAL"
    BY <2>1, AskedStays DEF WaitsAsked
  <2>2. ASSUME NEW w \in Workers, Conclude(w), execution' = Concluded(w) PROVE Asked'
    <3>1. job[w].outcome.decision = "WAIT_FOR_APPROVAL" /\ pc[w] = "conclude"
      BY <1>1, <2>2 DEF Concluded, Conclude
    <3> QED
      BY <3>1, AskedStays DEF WaitsAsked
  <2>3. ASSUME NEW w \in Workers, ClaimExecution(w) \/ MarkRunning(w) \/ Finish(w),
               execution' # execution
        PROVE  FALSE
    BY <1>1, <2>3 DEF ClaimExecution, MarkRunning, Finish
  <2>4. \/ execution' = execution
        \/ \E w \in Workers : \/ Finish(w) \/ ClaimExecution(w) \/ MarkRunning(w)
                              \/ Conclude(w) /\ execution' = Concluded(w)
    BY DEF Next, Statement, Run, LoadSteps, Plan, Index, ClaimStep, ReadExisting, ReadRelated,
       RecoverStale, InsertClaim, Rename, Work, Record, Conclude, StatementFails, Crash, Expire, vars
  <2> QED
    BY <1>1, <2>1, <2>2, <2>3, <2>4
<1> QED
  BY <1>1, WorkerAsked DEF WaitsAsked

\* Whatever fails, the claim RPC included: an execution waits for an approval only
\* if somebody was asked for one.
THEOREM WaitingWasAsked == Spec => [](execution = "WAITING_APPROVAL" => Asked)
<1>1. Init => WaitsAsked
  BY DEF Init, WaitsAsked
<1>2. IInv /\ WaitsAsked /\ [Next]_vars => WaitsAsked'
  BY NextWaitsAsked
<1>3. WaitsAsked => (execution = "WAITING_APPROVAL" => Asked)
  BY DEF WaitsAsked
<1> QED
  BY <1>1, <1>2, <1>3, StepInvariance, PTL DEF Spec

\* As long as the claim RPC answers, the execution tells what was recorded.
THEOREM ExecutionTellsTheTruthAlways ==
    ASSUME "rpc" \notin Faults
    PROVE  Spec => []ExecutionTellsTheTruth
<1>1. Progress /\ (execution = "WAITING_APPROVAL" => Asked) => ExecutionTellsTheTruth
  BY DEF Progress, Asked, ExecutionTellsTheTruth
<1> QED
  BY <1>1, ProgressInvariance, WaitingWasAsked, PTL

-----------------------------------------------------------------------------
(* The rows of the steps implement the log of attempts                      *)

Statuses(q) == [i \in DOMAIN q |-> q[i].status]

\* What the rows say of the attempts of each step.
Logs == [s \in Steps |-> Statuses(rows[s])]

\* The statuses of a sequence of rows are a sequence as long.
LEMMA StatusesAre ==
    ASSUME NEW q \in Seq(Row)
    PROVE  /\ DOMAIN Statuses(q) = 1 .. Len(q) /\ Len(q) \in Nat
           /\ Len(Statuses(q)) = Len(q)
           /\ \A i \in 1 .. Len(q) : Statuses(q)[i] = q[i].status
           /\ Statuses(q) = <<>> <=> q = <<>>
<1>1. DOMAIN q = 1 .. Len(q) /\ Len(q) \in Nat
  OBVIOUS
<1>2. \A i \in 1 .. Len(q) : q[i].status \in {"in_progress", "completed", "failed"}
  <2>1. \A i \in 1 .. Len(q) : q[i] \in Row
    BY ElementOfSeq
  <2> QED
    BY <2>1 DEF Row
<1>3. Statuses(q) \in [1 .. Len(q) -> {"in_progress", "completed", "failed"}]
  BY <1>1, <1>2 DEF Statuses
<1>4. Statuses(q) \in Seq({"in_progress", "completed", "failed"})
  BY <1>1, <1>3, SeqDef
<1>5. DOMAIN Statuses(q) = 1 .. Len(q)
  BY <1>3
<1>6. Len(Statuses(q)) = Len(q)
  BY <1>1, <1>4, <1>5
<1> QED
  BY <1>1, <1>4, <1>5, <1>6 DEF Statuses

\* Two logs of a step are the same if they agree on every attempt.
LEMMA SameLog ==
    ASSUME NEW q \in Seq(Row), NEW p, DOMAIN p = 1 .. Len(q), p = [i \in DOMAIN p |-> p[i]],
           \A i \in 1 .. Len(q) : p[i] = q[i].status
    PROVE  Statuses(q) = p
<1>1. DOMAIN q = 1 .. Len(q)
  OBVIOUS
<1> QED
  BY <1>1 DEF Statuses

\* A step of the rows that begins an attempt is a step of the log.
LEMMA AsBegin ==
    ASSUME NEW s \in Steps, \A t \in 1 .. (s - 1) : Log!Done(t), ~Log!Done(s),
           Logs' = [Logs EXCEPT ![s] = Log!Another(Logs[s])]
    PROVE  [Log!Next]_Logs
BY DEF Log!Next, Log!Begin, Log!Another, Logs, Statuses, Steps

\* A step of the rows that ends the latest attempt is a step of the log.
LEMMA AsEnd ==
    ASSUME NEW s \in Steps, Log!Begun(s), Log!Latest(s) = "in_progress",
           NEW outcome \in {"completed", "failed"},
           Logs' = [Logs EXCEPT ![s][Len(Logs[s])] = outcome]
    PROVE  [Log!Next]_Logs
BY DEF Log!Next, Log!End, Logs, Statuses, Steps

\* What the log says of a step is what its latest row says.
LEMMA LogIs ==
    ASSUME IInv, NEW s \in Steps
    PROVE  /\ Log!Begun(s) <=> rows[s] # <<>>
           /\ rows[s] # <<>> => Log!Latest(s) = Last(s).status
           /\ Log!Done(s) <=> rows[s] # <<>> /\ Last(s).status = "completed"
<1>1. rows[s] \in Seq(Row) /\ Logs[s] = Statuses(rows[s])
  BY DEF IInv, TypeOK, Logs
<1>2. /\ Log!Begun(s) = (Logs[s] # <<>>)
      /\ Log!Latest(s) = Logs[s][Len(Logs[s])]
      /\ Log!Done(s) = (Log!Begun(s) /\ Log!Latest(s) = "completed")
  BY DEF Log!Begun, Log!Latest, Log!Done, Logs, Statuses
<1>3. rows[s] # <<>> => Len(rows[s]) \in 1 .. Len(rows[s])
  BY <1>1
<1>4. /\ Len(Logs[s]) = Len(rows[s]) /\ (Logs[s] = <<>> <=> rows[s] = <<>>)
      /\ \A i \in 1 .. Len(rows[s]) : Logs[s][i] = rows[s][i].status
  BY <1>1, StatusesAre
<1> QED
  BY <1>2, <1>3, <1>4 DEF Last

\* A granted claim is the next attempt of a step that comes next in the plan.
LEMMA GrantLogs ==
    ASSUME IInv, Progress, NEW w \in Workers, pc[w] = "claim", NEW at \in Steps,
           at = job[w].at, Grant(w, at)
    PROVE  [Log!Next]_Logs
<1>1. /\ rows' \in [Steps -> Seq(Row)] /\ (\A t \in Steps \ {at} : rows'[t] = rows[t])
      /\ Len(rows[at]) \in Nat /\ Len(rows'[at]) = Len(rows[at]) + 1
      /\ rows'[at][Len(rows[at]) + 1] = Claimed(w, FALSE)
      /\ \A i \in 1 .. Len(rows[at]) : rows'[at][i].status = "failed"
  BY GrantIs
<1>2. \A t \in 1 .. (at - 1) : Log!Done(t)
  <2>1. 1 .. (at - 1) \subseteq Completed
    BY DEF Progress, Behind, AtStep, Claiming
  <2>2. Completed \subseteq Steps
    BY DEF Completed
  <2> QED
    BY <2>1, <2>2, CompletedIsLast, LogIs
<1>3. ~Log!Done(at)
  BY LogIs DEF Grant, Obstructed, Blocks
<1>4. Logs' = [Logs EXCEPT ![at] = Log!Another(Logs[at])]
  <2>1. rows[at] \in Seq(Row) /\ rows'[at] \in Seq(Row)
    BY <1>1 DEF IInv, TypeOK
  <2>2. Len(Logs[at]) = Len(rows[at])
    BY <2>1, StatusesAre DEF Logs
  <2> DEFINE p == [i \in 1 .. (Len(rows[at]) + 1) |->
                      IF i <= Len(rows[at]) THEN "failed" ELSE "in_progress"]
  <2>3. Log!Another(Logs[at]) = p
    BY <2>2 DEF Log!Another
  <2>4. DOMAIN p = 1 .. Len(rows'[at]) /\ p = [i \in DOMAIN p |-> p[i]]
    BY <1>1
  <2>5. \A i \in 1 .. Len(rows'[at]) : p[i] = rows'[at][i].status
    BY <1>1 DEF Claimed
  <2> HIDE DEF p
  <2>6. Statuses(rows'[at]) = p
    BY <2>1, <2>4, <2>5, SameLog
  <2> QED
    BY <1>1, <2>3, <2>6 DEF Logs
<1> QED
  BY <1>2, <1>3, <1>4, AsBegin

\* A worker's own write names its attempt, or ends it.
LEMMA UpdateLogs ==
    ASSUME IInv, NEW w \in Workers, pc[w] \in Working, Holds(w),
           NEW status \in {"in_progress", "completed", "failed"}, Update(w, status)
    PROVE  [Log!Next]_Logs
<1> DEFINE at == job[w].at
           n == job[w].attempt
           p == [Logs[at] EXCEPT ![n] = status]
<1>1. /\ rows' \in [Steps -> Seq(Row)] /\ at \in Steps
      /\ n = Len(rows[at]) /\ rows[at][n].status = "in_progress"
      /\ n \in 1 .. Len(rows'[at]) /\ rows'[at][n].status = status
      /\ \A s \in Steps : Len(rows'[s]) = Len(rows[s])
      /\ \A s \in Steps : \A i \in 1 .. Len(rows[s]) : s # at \/ i # n => rows'[s][i] = rows[s][i]
  BY UpdateOK
<1>2. rows[at] \in Seq(Row) /\ rows'[at] \in Seq(Row) /\ n \in 1 .. Len(rows[at])
  BY <1>1 DEF IInv, TypeOK
<1>3. /\ DOMAIN Logs[at] = 1 .. Len(rows[at]) /\ Len(Logs[at]) = n
      /\ \A i \in 1 .. Len(rows[at]) : Logs[at][i] = rows[at][i].status
  BY <1>1, <1>2, StatusesAre DEF Logs
<1>4. Statuses(rows'[at]) = p
  <2>1. DOMAIN p = 1 .. Len(rows'[at]) /\ p = [i \in DOMAIN p |-> p[i]]
    BY <1>1, <1>3
  <2>2. \A i \in 1 .. Len(rows'[at]) : p[i] = rows'[at][i].status
    BY <1>1, <1>2, <1>3
  <2> HIDE DEF p
  <2> QED
    BY <1>2, <2>1, <2>2, SameLog
<1>5. Logs' = [Logs EXCEPT ![at] = p]
  <2>1. \A s \in Steps \ {at} : rows'[s] = rows[s]
    BY <1>1 DEF Update, IInv, TypeOK
  <2> HIDE DEF p
  <2> QED
    BY <1>1, <1>4, <2>1 DEF Logs
<1>6. CASE status = "in_progress"
  <2>1. p = Logs[at]
    <3>1. DOMAIN p = 1 .. Len(rows[at]) /\ p = [i \in DOMAIN p |-> p[i]]
      BY <1>1, <1>3
    <3>2. \A i \in 1 .. Len(rows[at]) : p[i] = rows[at][i].status
      BY <1>1, <1>2, <1>3, <1>6
    <3> HIDE DEF p
    <3>3. Statuses(rows[at]) = p
      BY <1>2, <3>1, <3>2, SameLog
    <3> QED
      BY <1>1, <3>3 DEF Logs
  <2>2. Logs' = Logs
    BY <1>5, <2>1 DEF Logs
  <2> QED
    BY <2>2
<1>7. CASE status \in {"completed", "failed"}
  <2>1. rows[at] # <<>> /\ Last(at).status = "in_progress"
    BY <1>1, <1>2 DEF Last
  <2>2. Log!Begun(at) /\ Log!Latest(at) = "in_progress"
    BY <1>1, <2>1, LogIs
  <2>3. Logs' = [Logs EXCEPT ![at][Len(Logs[at])] = status]
    BY <1>3, <1>5
  <2> QED
    BY <1>1, <1>7, <2>2, <2>3, AsEnd
<1> QED
  BY <1>6, <1>7

\* The end of a lease is no event of the log.
LEMMA ExpireLogs ==
    ASSUME IInv, NEW at \in Steps, Expire(at)
    PROVE  UNCHANGED Logs
<1>1. rows' \in [Steps -> Seq(Row)]
  BY ExpireOK DEF IInv, TypeOK
<1>2. ASSUME NEW s \in Steps PROVE Statuses(rows'[s]) = Statuses(rows[s])
  <2>1. rows[s] \in Seq(Row) /\ rows'[s] \in Seq(Row)
    BY <1>1 DEF IInv, TypeOK
  <2>2. /\ Len(rows'[s]) = Len(rows[s])
        /\ \A i \in 1 .. Len(rows[s]) : rows'[s][i].status = rows[s][i].status
    BY ExpireIs
  <2>3. /\ DOMAIN Statuses(rows[s]) = 1 .. Len(rows[s])
        /\ \A i \in 1 .. Len(rows[s]) : Statuses(rows[s])[i] = rows[s][i].status
    BY <2>1, StatusesAre
  <2>4. Statuses(rows[s]) = [i \in DOMAIN Statuses(rows[s]) |-> Statuses(rows[s])[i]]
    BY <2>1 DEF Statuses
  <2> QED
    BY <2>1, <2>2, <2>3, <2>4, SameLog
<1> QED
  BY <1>2 DEF Logs

\* Every step of the claims is a step of the log, or none of its business.
LEMMA StepLogs ==
    ASSUME IInv, "rpc" \notin Faults, Progress, [Next]_vars
    PROVE  [Log!Next]_Logs
<1>1. CASE UNCHANGED rows
  <2>1. UNCHANGED Logs
    BY <1>1 DEF Logs, Statuses
  <2> QED
    BY <2>1
<1>2. ASSUME NEW w \in Workers, pc[w] = "claim", job[w].at \in Steps, Grant(w, job[w].at)
      PROVE  [Log!Next]_Logs
  BY <1>2, GrantLogs
<1>3. ASSUME NEW s \in Steps, Expire(s)
      PROVE  [Log!Next]_Logs
  BY <1>3, ExpireLogs
<1> QED
  BY <1>1, <1>2, <1>3, UpdateLogs, WritersAre

\* As long as the claim RPC answers, the step rows implement the log: whoever races,
\* crashes or comes late, the steps are attempted in the order of the plan, one
\* attempt at a time, and none again after it was completed.
THEOREM StepLogRefinement ==
    ASSUME "rpc" \notin Faults
    PROVE  Spec => ImplementsStepLog
<1>1. Init => Log!Init
  BY DEF Init, Log!Init, Steps
<1>2. IInv /\ Progress /\ [Next]_vars => [Log!Next]_Logs
  BY StepLogs
<1> QED
  BY <1>1, <1>2, StepInvariance, ProgressInvariance, PTL
     DEF Spec, ImplementsStepLog, Log!Spec, Logs, Statuses

-----------------------------------------------------------------------------
(* What remains true when the claim RPC fails and claim_step falls back     *)

\* Attempts only accumulate, and one that has failed is never revived.
Buries(s) ==
    \A i \in 1 .. Len(rows[s]) :
        /\ i \in 1 .. Len(rows'[s])
        /\ rows[s][i].status = "failed" => rows'[s][i].status = "failed"

\* A result is taken away by a worker that saw the row stale before it was there.
TakenAway(s) ==
    \A i \in 1 .. Len(rows[s]) :
        rows[s][i].status = "completed" /\ rows'[s][i].status # "completed"
        => \E w \in Workers : pc[w] = "stale" /\ job[w].at = s /\ job[w].latest = i

\* Both, for whoever writes the rows.
LEMMA WritersBury ==
    ASSUME IInv, [Next]_vars, NEW s \in Steps
    PROVE  Buries(s) /\ TakenAway(s)
<1>1. rows[s] \in Seq(Row) /\ Len(rows[s]) \in Nat
  BY DEF IInv, TypeOK
<1>2. CASE UNCHANGED rows
  BY <1>1, <1>2 DEF Buries, TakenAway
<1>3. ASSUME NEW w \in Workers, NEW at \in Steps, Grant(w, at)
      PROVE  Buries(s) /\ TakenAway(s)
  <2>1. /\ \A t \in Steps \ {at} : rows'[t] = rows[t]
        /\ Len(rows[at]) \in Nat /\ Len(rows'[at]) = Len(rows[at]) + 1
        /\ \A i \in 1 .. Len(rows[at]) : rows'[at][i].status = "failed"
    BY <1>3, GrantIs
  <2>2. \A i \in 1 .. Len(rows[at]) : rows[at][i].status # "completed"
    <3>1. \A i \in 1 .. (Len(rows[at]) - 1) : rows[at][i].status = "failed"
      BY DEF IInv, OldAttempts
    <3>2. rows[at] # <<>> => rows[at][Len(rows[at])].status # "completed"
      BY <1>3 DEF Grant, Obstructed, Blocks, Last
    <3>3. rows[at] \in Seq(Row)
      BY DEF IInv, TypeOK
    <3> QED
      BY <2>1, <3>1, <3>2, <3>3
  <2> QED
    BY <1>1, <2>1, <2>2 DEF Buries, TakenAway
<1>4. ASSUME NEW w \in Workers, NEW status \in {"in_progress", "completed", "failed"},
             pc[w] \in Working, Holds(w), Update(w, status)
      PROVE  Buries(s) /\ TakenAway(s)
  BY <1>1, <1>4, UpdateOK DEF Buries, TakenAway
<1>5. ASSUME NEW at \in Steps, Expire(at)
      PROVE  Buries(s) /\ TakenAway(s)
  BY <1>1, <1>5, ExpireIs DEF Buries, TakenAway
<1>6. ASSUME NEW w \in Workers, RecoverStale(w)
      PROVE  Buries(s) /\ TakenAway(s)
  <2> DEFINE at == job[w].at
             l == job[w].latest
             r == Recovered(rows[at][l])
  <2>1. /\ TypeOK /\ pc[w] = "stale" /\ at \in Steps /\ rows[at] \in Seq(Row)
        /\ l \in 1 .. Len(rows[at])
    BY <1>6 DEF IInv, TypeOK, WorkerOK, ClaimIsNext, RecoverStale, Claiming
  <2>2. rows[at][l] \in Row /\ r \in Row
    BY <2>1, RowTypes
  <2>3. r.status = "failed"
    BY <2>2 DEF Recovered, Row
  <2>4. Changes(at, l, r)
    BY <1>6, <2>1 DEF RecoverStale, Changes, TypeOK
  <2>5. \A t \in Steps : /\ Len(rows'[t]) = Len(rows[t])
                         /\ \A i \in 1 .. Len(rows[t]) :
                               rows'[t][i] = IF t = at /\ i = l THEN r ELSE rows[t][i]
    <3> HIDE DEF at, l, r
    <3> QED
      BY <2>1, <2>2, <2>4, ChangeRow
  <2> HIDE DEF r
  <2> QED
    BY <1>1, <2>1, <2>3, <2>5 DEF Buries, TakenAway
<1>7. ASSUME NEW w \in Workers, NEW at \in Steps,
             rows' = [rows EXCEPT ![at] = Append(@, Claimed(w, TRUE))]
      PROVE  Buries(s) /\ TakenAway(s)
  <2>1. CASE s # at
    <3>1. rows'[s] = rows[s]
      BY <1>7, <2>1 DEF IInv, TypeOK
    <3> QED
      BY <1>1, <3>1 DEF Buries, TakenAway
  <2>2. CASE s = at
    <3>1. rows'[s] = Append(rows[s], Claimed(w, TRUE)) /\ Claimed(w, TRUE) \in Row
      BY <1>7, <2>2, RowTypes DEF IInv, TypeOK
    <3>2. /\ Len(Append(rows[s], Claimed(w, TRUE))) = Len(rows[s]) + 1
          /\ \A i \in 1 .. Len(rows[s]) : Append(rows[s], Claimed(w, TRUE))[i] = rows[s][i]
      BY <1>1, <3>1, AddRow
    <3>3. Len(rows'[s]) = Len(rows[s]) + 1 /\ \A i \in 1 .. Len(rows[s]) : rows'[s][i] = rows[s][i]
      BY <3>1, <3>2
    <3> QED
      BY <1>1, <3>3 DEF Buries, TakenAway
  <2> QED
    BY <2>1, <2>2
<1>8. ASSUME NEW w \in Workers, ClaimStep(w)
      PROVE  UNCHANGED rows \/ (job[w].at \in Steps /\ Grant(w, job[w].at))
  BY <1>8 DEF ClaimStep, IInv, WorkerOK, Claiming
<1>9. ASSUME NEW w \in Workers, InsertClaim(w)
      PROVE  \/ UNCHANGED rows
             \/ job[w].at \in Steps /\ rows' = [rows EXCEPT ![job[w].at] = Append(@, Claimed(w, TRUE))]
  BY <1>9 DEF InsertClaim, IInv, WorkerOK, Claiming
<1>10. ASSUME NEW w \in Workers, Rename(w) \/ Record(w)
       PROVE  \/ UNCHANGED rows
              \/ \E status \in {"in_progress", "completed", "failed"} :
                     pc[w] \in Working /\ Holds(w) /\ Update(w, status)
  BY <1>10 DEF Rename, Record, Working
<1>11. ASSUME NEW w \in Workers, Statement(w) \/ StatementFails(w) \/ Crash(w)
       PROVE  UNCHANGED rows \/ ClaimStep(w) \/ Rename(w) \/ Record(w)
              \/ RecoverStale(w) \/ InsertClaim(w)
  BY <1>11 DEF Statement, Run, ClaimExecution, LoadSteps, MarkRunning, Finish, Plan, Index,
     ReadExisting, ReadRelated, Work, Conclude, StatementFails, Crash
<1>12. UNCHANGED vars => UNCHANGED rows
  BY DEF vars
<1>13. ASSUME NEW w \in Workers, Statement(w) \/ StatementFails(w) \/ Crash(w)
       PROVE  Buries(s) /\ TakenAway(s)
  BY <1>2, <1>3, <1>4, <1>6, <1>7, <1>8, <1>9, <1>10, <1>11, <1>13
<1> QED
  BY <1>2, <1>5, <1>12, <1>13 DEF Next

\* Whatever fails: no row of a step is ever lost, and an attempt that was given up is
\* not revived by the worker it was taken from, however late its answer comes.
THEOREM FailedIsFinal ==
    Spec => [][\A s \in Steps : \A i \in 1 .. Len(rows[s]) :
                   /\ i \in 1 .. Len(rows'[s])
                   /\ rows[s][i].status = "failed" => rows'[s][i].status = "failed"]_vars
<1>1. IInv /\ [Next]_vars =>
        [\A s \in Steps : \A i \in 1 .. Len(rows[s]) :
             /\ i \in 1 .. Len(rows'[s])
             /\ rows[s][i].status = "failed" => rows'[s][i].status = "failed"]_vars
  BY WritersBury DEF Buries
<1> QED
  BY <1>1, StepInvariance, PTL DEF Spec

\* Whatever fails: an attempt keeps its result, but for a completed one that the
\* fallback's write takes away, by a worker that had read it as a stale claim.
THEOREM OutcomesAreFinalAlways == Spec => OutcomesAreFinal
<1>1. ASSUME IInv, [Next]_vars, NEW s \in Steps, NEW i \in DOMAIN rows[s],
             rows[s][i].status # "in_progress", rows'[s][i].status # rows[s][i].status
      PROVE  /\ rows[s][i].status = "completed"
             /\ \E w \in Workers : pc[w] = "stale" /\ job[w].at = s /\ job[w].latest = i
  <2>1. rows[s] \in Seq(Row)
    BY <1>1 DEF IInv, TypeOK
  <2>2. i \in 1 .. Len(rows[s])
    BY <2>1
  <2>3. rows[s][i].status \in {"in_progress", "completed", "failed"}
    <3>1. rows[s][i] \in Row
      BY <2>1, <2>2
    <3>. QED  BY <3>1 DEF Row
  <2>4. rows[s][i].status # "failed"
    BY <1>1, <2>2, WritersBury DEF Buries
  <2>5. rows[s][i].status = "completed"
    BY <1>1, <2>3, <2>4
  <2>. QED  BY <1>1, <2>2, <2>5, WritersBury DEF TakenAway
<1>2. IInv /\ [Next]_vars =>
        [\A s \in Steps : \A i \in DOMAIN rows[s] :
            rows[s][i].status # "in_progress" /\ rows'[s][i].status # rows[s][i].status =>
                /\ rows[s][i].status = "completed"
                /\ \E w \in Workers : pc[w] = "stale" /\ job[w].at = s /\ job[w].latest = i]_vars
  BY <1>1
<1>. QED  BY <1>2, StepInvariance, PTL DEF Spec, OutcomesAreFinal
=============================================================================
