----------------------- MODULE OAuthOnboardingProofs ------------------------
(***************************************************************************)
(* Proofs about OAuthOnboarding, for any number of start requests,         *)
(* callbacks, approvals and requests of the person: tokens are exchanged   *)
(* once per state, a claim has one holder and is settled or lost, and a    *)
(* consumed state stands for a whole connection.                           *)
(***************************************************************************)
EXTENDS OAuthOnboarding, TLAPS

USE ConstantsAssumption

-----------------------------------------------------------------------------
(* The inductive invariant                                                  *)

Role(r) ==
    IF r \in Starts THEN {"idle", "create", "checkpoint", "mark", "gone"}
    ELSE IF r \in Callbacks THEN {"idle", "gone", "deny", "claim"} \cup Working
    ELSE {"idle", "gone", "read", "write", "advance", "link"}

\* All that a consumed state stands for.
Consummated(s) ==
    exchanges[s] = 1 /\ cp[s].status = "completed" /\ OwnerOf(s) = "owner" /\ "owner" \in vault \cap conn

\* A state no callback has claimed yet.
Unclaimed == {"none", "awaiting_human"}

\* What a request at statement p with the locals j stands for.
Fits(r, p, j) ==
    /\ p \in Role(r)
    /\ r \in Starts /\ p \in {"idle", "create", "checkpoint"} => cp[r].status = "none"
    /\ r \in Callbacks /\ p \notin {"idle", "gone"} => cp[j.about].status # "none"
    /\ p \in Working => cp[j.about].status \notin Unclaimed
    /\ p \in {"exchange", "await", "fail"} => exchanges[j.about] = 0
    /\ p \in {"save", "complete"} => exchanges[j.about] = 1
    /\ p = "complete" => OwnerOf(j.about) \in vault
    /\ \A s1, s2 \in j.closes : s1 = s2
    /\ p = "write" => \A s \in j.closes : cp[s].status # "none" /\ (j.consumed => Consummated(s))

Placed == \A r \in Requests : Fits(r, pc[r], job[r])

\* What the row of a state stands for.
Sound(s) ==
    /\ cp[s].status \in Unclaimed => exchanges[s] = 0
    /\ exchanges[s] <= 1
    /\ cp[s].consumed => Consummated(s)
    /\ cp[s].status = "processing" => Holders(s) # {} \/ s \in lost

Alone == \A s \in Starts : \A k1, k2 \in Holders(s) : k1 = k2

IInv == TypeOK /\ Placed /\ (\A s \in Starts : Sound(s)) /\ Alone /\ OneWorkflowPerApproval

-----------------------------------------------------------------------------
(* What one request does to its own state, and to the others                *)

\* The same in the next state, for what is known now.
ConsummatedNext(s) ==
    exchanges'[s] = 1 /\ cp'[s].status = "completed" /\ OwnerOf(s) = "owner" /\ "owner" \in vault' \cap conn'

FitsNext(r, p, j) ==
    /\ p \in Role(r)
    /\ r \in Starts /\ p \in {"idle", "create", "checkpoint"} => cp'[r].status = "none"
    /\ r \in Callbacks /\ p \notin {"idle", "gone"} => cp'[j.about].status # "none"
    /\ p \in Working => cp'[j.about].status \notin Unclaimed
    /\ p \in {"exchange", "await", "fail"} => exchanges'[j.about] = 0
    /\ p \in {"save", "complete"} => exchanges'[j.about] = 1
    /\ p = "complete" => OwnerOf(j.about) \in vault'
    /\ \A s1, s2 \in j.closes : s1 = s2
    /\ p = "write" => \A s \in j.closes : cp'[s].status # "none" /\ (j.consumed => ConsummatedNext(s))

\* What a step of request r may do to a checkpoint, its tokens and the connection:
\* only the holder of a state exchanges its code, and no status goes back.
Progress(r) ==
    /\ \A s \in Starts :
          /\ cp[s].status # "none" => cp'[s].status # "none"
          /\ cp[s].status \notin Unclaimed => cp'[s].status \notin Unclaimed
          /\ cp[s].status = "completed" => cp'[s].status = "completed"
          /\ cp[s].status = "none" => cp'[s].status = "none" \/ r = s
          /\ \/ exchanges'[s] = exchanges[s]
             \/ exchanges[s] = 0 /\ exchanges'[s] = 1 /\ r \in Holders(s)
    /\ vault \subseteq vault' /\ conn \subseteq conn' /\ lost \subseteq lost'
    /\ start' = start

\* The stored rows stay typed, and an approval has one workflow.
StoreNext ==
    /\ wf' \in [Starts -> Workflow] /\ cp' \in [Starts -> Checkpoint]
    /\ lapsed' \subseteq Starts /\ lost' \subseteq Starts
    /\ conn' \subseteq Owners /\ vault' \subseteq Owners
    /\ mission' \in {"running", "waiting_human", "pending"}
    /\ exchanges' \in [Starts -> Nat]
    /\ OneWorkflowPerApproval'

\* A claim is taken from nobody, and given up by settling or losing the state.
Claims(r, p, j) ==
    /\ p \in Working => r \in Holders(j.about) \/ Holders(j.about) = {}
    /\ \A s \in Starts : r \in Holders(s) /\ cp'[s].status = "processing" =>
          (p \in Working /\ j.about = s) \/ s \in lost'
    /\ \A s \in Starts : cp[s].status # "processing" /\ cp'[s].status = "processing" =>
          (p \in Working /\ j.about = s) \/ s \in lost'

\* What the rows of a state stand for next.
SoundNext(s) ==
    /\ cp'[s].status \in Unclaimed => exchanges'[s] = 0
    /\ cp'[s].consumed => ConsummatedNext(s)

\* A request that is not running has the type of a job.
LEMMA IdleIsJob ==
    ASSUME NEW r
    PROVE  Idle(r) \in Job /\ Idle(r).closes = {} /\ Idle(r).about \in Starts
           /\ (r \in Starts => Idle(r).about = r)
  BY DEF Idle, Fresh, Job

\* So has one that begins with a state.
LEMMA FreshIsJob ==
    ASSUME NEW s \in Starts
    PROVE  Fresh(s) \in Job /\ Fresh(s).closes = {} /\ Fresh(s).about = s
  BY DEF Fresh, Job

\* Only callbacks hold claims.
LEMMA HoldersAre ==
    ASSUME TypeOK, Placed, NEW r \in Requests, NEW s \in Starts
    PROVE  r \in Holders(s) <=> pc[r] \in Working /\ job[r].about = s
  <1>1. pc[r] \in Role(r)
    BY DEF Placed, Fits
  <1>. QED  BY <1>1 DEF Holders, Of, Role, Working, Requests

\* The others keep their place.
LEMMA PlacedNext ==
    ASSUME TypeOK, Placed, Alone, \A s \in Starts : Sound(s), NEW r \in Requests, NEW p \in PCs, NEW j \in Job,
           Call(r, p, j), FitsNext(r, p, j), Progress(r)
    PROVE  Placed'
  <1>. SUFFICES ASSUME NEW q \in Requests PROVE Fits(q, pc[q], job[q])'
    BY DEF Placed
  <1>0. start' = start
    BY DEF Progress
  <1>1. CASE q = r
    <2>1. pc'[q] = p /\ job'[q] = j
      BY <1>1 DEF TypeOK, Call
    <2>. QED  BY <1>0, <1>1, <2>1 DEF Fits, FitsNext, Consummated, ConsummatedNext, OwnerOf
  <1>2. CASE q # r
    <2>. DEFINE s == job[q].about
    <2>1. pc'[q] = pc[q] /\ job'[q] = job[q] /\ s \in Starts /\ job[q].closes \subseteq Starts
      BY <1>2 DEF TypeOK, Call, Job
    <2>2. Fits(q, pc[q], job[q])
      BY DEF Placed
    <2>3. pc[q] \in Working => exchanges'[s] = exchanges[s]
      <3>. SUFFICES ASSUME pc[q] \in Working, r \in Holders(s) PROVE FALSE
        BY <2>1 DEF Progress
      <3>1. q \in Holders(s)
        BY <2>1, HoldersAre
      <3>. QED  BY <1>2, <2>1, <3>1 DEF Alone
    <2>4. ASSUME NEW c \in Starts, Consummated(c) PROVE ConsummatedNext(c)
      BY <2>4 DEF Consummated, ConsummatedNext, Progress
    <2>5. pc[q] = "write" =>
             \A c \in job[q].closes : cp'[c].status # "none" /\ (job[q].consumed => ConsummatedNext(c))
      BY <2>1, <2>2, <2>4 DEF Fits, Progress
    <2>6. /\ q \in Starts /\ pc[q] \in {"idle", "create", "checkpoint"} => cp'[q].status = "none"
          /\ q \in Callbacks /\ pc[q] \notin {"idle", "gone"} => cp'[s].status # "none"
          /\ pc[q] \in Working => cp'[s].status \notin Unclaimed
      BY <1>2, <2>1, <2>2 DEF Fits, Progress
    <2>7. /\ pc[q] \in {"exchange", "await", "fail"} => exchanges'[s] = 0
          /\ pc[q] \in {"save", "complete"} => exchanges'[s] = 1
          /\ pc[q] = "complete" => OwnerOf(s) \in vault'
      BY <2>1, <2>2, <2>3 DEF Fits, Progress, Working
    <2>. QED
      BY <1>0, <2>1, <2>2, <2>5, <2>6, <2>7 DEF Fits, Consummated, ConsummatedNext, OwnerOf
  <1>. QED  BY <1>1, <1>2

\* A step whose request fits, and that keeps the claims and the rows in order.
LEMMA Keeps ==
    ASSUME IInv, NEW r \in Requests, NEW p \in PCs, NEW j \in Job,
           Call(r, p, j), FitsNext(r, p, j), Progress(r), StoreNext, Claims(r, p, j),
           \A s \in Starts : SoundNext(s)
    PROVE  IInv'
  <1>0. TypeOK /\ Placed /\ Alone /\ start' = start
    BY DEF IInv, Progress
  <1>1. TypeOK'
    BY <1>0 DEF TypeOK, Call, StoreNext
  <1>2. Placed'
    BY PlacedNext DEF IInv
  <1>3. \A q \in Requests : /\ q # r => pc'[q] = pc[q] /\ job'[q] = job[q]
                            /\ q = r => pc'[q] = p /\ job'[q] = j
    BY <1>0 DEF TypeOK, Call
  <1>4. \A q \in Requests : \A s \in Starts : q # r => (q \in Holders(s)' <=> q \in Holders(s))
    BY <1>3 DEF Holders, Of
  <1>5. \A s \in Starts : r \in Holders(s)' <=> p \in Working /\ j.about = s
    <2>1. p \in Working => r \in Callbacks
      BY DEF FitsNext, Role, Working, Requests
    <2>. QED  BY <1>3, <2>1 DEF Holders, Of
  <1>6. Alone'
    <2>. SUFFICES ASSUME NEW s \in Starts, NEW k1 \in Holders(s)', NEW k2 \in Holders(s)', k1 # r
                  PROVE  k1 = k2
      BY DEF Alone
    <2>1. k1 \in Requests /\ k2 \in Requests
      BY DEF Holders, Requests
    <2>2. k1 \in Holders(s)
      BY <1>4, <2>1
    <2>3. CASE k2 # r
      BY <1>0, <1>4, <2>1, <2>2, <2>3 DEF Alone
    <2>4. CASE k2 = r
      BY <1>0, <1>5, <2>2, <2>4 DEF Claims, Alone
    <2>. QED  BY <2>3, <2>4
  <1>7. ASSUME NEW s \in Starts PROVE Sound(s)'
    <2>1. exchanges'[s] <= 1
      BY DEF IInv, Sound, Progress, TypeOK
    <2>2. cp'[s].status = "processing" => Holders(s)' # {} \/ s \in lost'
      <3>. SUFFICES ASSUME cp'[s].status = "processing", s \notin lost' PROVE Holders(s)' # {}
        OBVIOUS
      <3>1. CASE cp[s].status = "processing"
        <4>1. PICK k \in Holders(s) : TRUE
          BY <3>1 DEF IInv, Sound, Progress
        <4>2. k \in Requests
          BY DEF Holders, Requests
        <4>3. CASE k = r
          BY <1>5, <4>1, <4>3 DEF Claims
        <4>. QED  BY <1>4, <4>1, <4>2, <4>3
      <3>2. CASE cp[s].status # "processing"
        BY <1>5, <3>2 DEF Claims
      <3>. QED  BY <3>1, <3>2
    <2>3. cp'[s].consumed => Consummated(s)'
      BY <1>0 DEF SoundNext, Consummated, ConsummatedNext, OwnerOf
    <2>. QED  BY <2>1, <2>2, <2>3 DEF Sound, SoundNext
  <1>8. OneWorkflowPerApproval'
    BY DEF StoreNext
  <1>. QED  BY <1>1, <1>2, <1>6, <1>7, <1>8 DEF IInv

-----------------------------------------------------------------------------
(* Steps of one shape                                                       *)

\* The locals of a request name a state, and a holder's is its own.
LEMMA Locals ==
    ASSUME IInv, NEW r \in Requests
    PROVE  /\ TypeOK /\ Placed /\ job[r] \in Job /\ Of(r) \in Starts /\ Of(r) = job[r].about
           /\ job[r].closes \subseteq Starts /\ Fits(r, pc[r], job[r])
           /\ \A s \in Starts : r \in Holders(s) <=> pc[r] \in Working /\ Of(r) = s
  BY HoldersAre DEF IInv, TypeOK, Job, Of, Placed

\* A request that goes on with its locals.
LEMMA GotoCalls ==
    ASSUME IInv, NEW r \in Requests, NEW p, Goto(r, p)
    PROVE  Call(r, p, job[r])
  BY DEF IInv, TypeOK, Goto, Call

\* Rows that no statement wrote.
LEMMA SameRows ==
    ASSUME IInv, UNCHANGED <<wf, cp, conn, vault, mission, lapsed, exchanges>>, lost' \subseteq Starts
    PROVE  StoreNext
  BY DEF IInv, TypeOK, StoreNext, OneWorkflowPerApproval

\* A workflow that keeps its approval.
LEMMA SameApprovals ==
    ASSUME IInv, wf' \in [Starts -> Workflow], \A s \in Starts : wf'[s].approval = wf[s].approval
    PROVE  OneWorkflowPerApproval'
  BY DEF IInv, OneWorkflowPerApproval

\* A step that leaves checkpoints and exchanges alone.
LEMMA QuietKeeps ==
    ASSUME IInv, NEW r \in Requests, NEW p \in PCs, NEW j \in Job,
           Call(r, p, j), FitsNext(r, p, j), UNCHANGED <<start, cp, exchanges>>, StoreNext,
           vault \subseteq vault', conn \subseteq conn', lost \subseteq lost',
           p \in Working => r \in Holders(j.about),
           \A s \in Starts : r \in Holders(s) /\ cp[s].status = "processing" =>
               (p \in Working /\ j.about = s) \/ s \in lost'
    PROVE  IInv'
  <1>1. Progress(r)
    BY DEF Progress
  <1>2. Claims(r, p, j)
    BY DEF Claims
  <1>3. \A s \in Starts : SoundNext(s)
    BY DEF IInv, Sound, SoundNext, Consummated, ConsummatedNext
  <1>. QED  BY <1>1, <1>2, <1>3, Keeps

\* A request that is over.
LEMMA AnswerKeeps ==
    ASSUME IInv, NEW r \in Requests, Answer(r), Progress(r), StoreNext, \A s \in Starts : SoundNext(s),
           pc[r] \in Working => Of(r) \in lost' \/ cp'[Of(r)].status # "processing",
           \A s \in Starts : cp[s].status # "processing" /\ cp'[s].status = "processing" => s \in lost'
    PROVE  IInv'
  <1>. DEFINE p == IF r \in Starts THEN "gone" ELSE "idle"
              j == Idle(r)
  <1>1. p \in PCs /\ j \in Job /\ j.closes = {} /\ Call(r, p, j)
    BY IdleIsJob DEF PCs, Answer
  <1>2. p \in Role(r) /\ p \notin Working /\ p \in {"gone", "idle"} /\ (r \in Starts => p = "gone")
    BY DEF Role, Working
  <1>3. FitsNext(r, p, j)
    <2>. HIDE DEF p, j
    <2>. QED  BY <1>1, <1>2 DEF FitsNext, Working
  <1>4. Claims(r, p, j)
    <2>. HIDE DEF p, j
    <2>. QED  BY <1>2, Locals DEF Claims
  <1>. HIDE DEF p, j
  <1>. QED  BY <1>1, <1>3, <1>4, Keeps

\* A request that is over without having touched a checkpoint.
LEMMA QuietAnswer ==
    ASSUME IInv, NEW r \in Requests, Answer(r), UNCHANGED <<start, cp, exchanges>>, StoreNext,
           vault \subseteq vault', conn \subseteq conn', lost \subseteq lost',
           pc[r] \in Working => Of(r) \in lost' \/ cp[Of(r)].status # "processing"
    PROVE  IInv'
  <1>1. Progress(r)
    BY DEF Progress
  <1>2. \A s \in Starts : SoundNext(s)
    BY DEF IInv, Sound, SoundNext, Consummated, ConsummatedNext
  <1>. QED  BY <1>1, <1>2, AnswerKeeps

-----------------------------------------------------------------------------
(* Starting an onboarding                                                   *)

\* A start request is not of another kind.
LEMMA StartIsStart ==
    ASSUME NEW s \in Starts
    PROVE  s \in Requests /\ s \notin Callbacks /\ s \notin Hands
           /\ Role(s) = {"idle", "create", "checkpoint", "mark", "gone"}
  BY DEF Requests, Role

\* A start request that goes to its next statement.
LEMMA StartGoes ==
    ASSUME IInv, NEW s \in Starts, NEW p \in {"create", "checkpoint", "mark"}, NEW j \in Job,
           Call(s, p, j), j.closes = job[s].closes \/ j.closes = {},
           p \in {"create", "checkpoint"} => cp[s].status = "none",
           UNCHANGED <<start, cp, exchanges, vault, conn, lost>>, StoreNext,
           pc[s] \notin Working
    PROVE  IInv'
  <1>1. FitsNext(s, p, j)
    <2>1. \A s1, s2 \in j.closes : s1 = s2
      BY StartIsStart, Locals DEF Fits
    <2>. QED  BY <2>1, StartIsStart DEF FitsNext, Working
  <1>2. \A c \in Starts : s \notin Holders(c)
    BY StartIsStart, Locals
  <1>. QED  BY <1>1, <1>2, StartIsStart, QuietKeeps DEF PCs, Working

\* The guards of a start request change nothing.
LEMMA BeginKeeps == ASSUME IInv, NEW s \in Starts, Begin(s) PROVE IInv'
  <1>1. pc[s] = "idle" /\ (Goto(s, "create") \/ Answer(s)) /\ UNCHANGED <<start, rows, lapsed, past>>
    BY DEF Begin, StartByRoute, StartPlain, StartByRuntime, StartApproved
  <1>2. UNCHANGED <<start, wf, cp, conn, vault, mission, lapsed, exchanges, lost>>
    BY <1>1 DEF rows, past
  <1>3. s \in Requests /\ StoreNext /\ cp[s].status = "none" /\ job[s] \in Job
    BY <1>1, <1>2, StartIsStart, SameRows, Locals DEF IInv, TypeOK, Fits
  <1>4. CASE Goto(s, "create")
    BY <1>1, <1>2, <1>3, <1>4, GotoCalls, StartGoes DEF Working
  <1>5. CASE Answer(s)
    BY <1>1, <1>2, <1>3, <1>5, QuietAnswer DEF Working
  <1>. QED  BY <1>1, <1>4, <1>5

\* An inserted workflow is the only one of its approval.
LEMMA InsertNext ==
    ASSUME IInv, NEW s \in Starts, Bound(s) = {}, Insert(s)
    PROVE  wf' \in [Starts -> Workflow] /\ OneWorkflowPerApproval'
  <1>1. start[s].approval \in SUBSET Approvals
    BY DEF IInv, TypeOK
  <1>2. /\ wf' \in [Starts -> Workflow]
        /\ \A w \in Starts : wf'[w].approval = IF w = s THEN start[s].approval ELSE wf[w].approval
    BY <1>1 DEF IInv, TypeOK, Insert, Workflow
  <1>3. \A w \in Starts : start[s].approval # {} => wf[w].approval # start[s].approval
    BY DEF Bound
  <1>. QED  BY <1>2, <1>3 DEF IInv, OneWorkflowPerApproval

\* A workflow is inserted, or the one of the approval is found.
LEMMA CreateWorkflowKeeps == ASSUME IInv, NEW s \in Starts, CreateWorkflow(s) PROVE IInv'
  <1>1. pc[s] = "create" /\ UNCHANGED <<start, cp, conn, vault, mission, lapsed, exchanges, lost>>
    BY DEF CreateWorkflow, past
  <1>2. s \in Requests /\ cp[s].status = "none" /\ job[s] \in Job /\ lost \subseteq Starts
    BY <1>1, StartIsStart, Locals DEF IInv, TypeOK, Fits
  <1>3. (Bound(s) = {} /\ Insert(s)) \/ UNCHANGED wf
    BY DEF CreateWorkflow
  <1>4. StoreNext
    <2>1. CASE Bound(s) = {} /\ Insert(s)
      BY <1>1, <2>1, InsertNext DEF StoreNext, IInv, TypeOK
    <2>2. CASE UNCHANGED wf
      BY <1>1, <1>2, <2>2, SameRows
    <2>. QED  BY <1>3, <2>1, <2>2
  <1>5. CASE Answer(s)
    BY <1>1, <1>2, <1>4, <1>5, QuietAnswer DEF Working
  <1>6. CASE Goto(s, "checkpoint")
    BY <1>1, <1>2, <1>4, <1>6, GotoCalls, StartGoes DEF Working
  <1>7. CASE \E w \in Bound(s) : Call(s, "checkpoint", Fresh(w))
    <2>1. PICK w \in Starts : Call(s, "checkpoint", Fresh(w))
      BY <1>7 DEF Bound
    <2>. QED  BY <1>1, <1>2, <1>4, <2>1, FreshIsJob, StartGoes DEF Working
  <1>. QED  BY <1>5, <1>6, <1>7 DEF CreateWorkflow

\* A checkpoint is created where there was none: no token was given for its state.
LEMMA CreateCheckpointKeeps == ASSUME IInv, NEW s \in Starts, CreateCheckpoint(s) PROVE IInv'
  <1>1. /\ pc[s] = "checkpoint"
        /\ UNCHANGED <<start, wf, conn, vault, mission, lapsed, exchanges, lost>>
        /\ Goto(s, "mark") \/ Answer(s)
    BY DEF CreateCheckpoint, past
  <1>2. s \in Requests /\ cp[s].status = "none" /\ job[s] \in Job /\ Of(s) \in Starts /\ lost \subseteq Starts
    BY <1>1, StartIsStart, Locals DEF IInv, TypeOK, Fits
  <1>3. exchanges[s] = 0 /\ ~cp[s].consumed
    BY <1>2 DEF IInv, Sound, Unclaimed, Consummated
  <1>4. CASE UNCHANGED cp
    <2>1. StoreNext
      BY <1>1, <1>2, <1>4, SameRows
    <2>2. CASE Goto(s, "mark")
      BY <1>1, <1>2, <1>4, <2>1, <2>2, GotoCalls, StartGoes DEF Working
    <2>3. CASE Answer(s)
      BY <1>1, <1>2, <1>4, <2>1, <2>3, QuietAnswer DEF Working
    <2>. QED  BY <1>1, <2>2, <2>3
  <1>5. CASE cp' = [cp EXCEPT ![s].status = "awaiting_human", ![s].workflow = Of(s)]
    <2>1. /\ cp' \in [Starts -> Checkpoint]
          /\ \A c \in Starts : c # s => cp'[c] = cp[c]
          /\ cp'[s].status = "awaiting_human" /\ cp'[s].consumed = cp[s].consumed
      BY <1>2, <1>5 DEF IInv, TypeOK, Checkpoint, CheckpointStatuses
    <2>2. StoreNext
      BY <1>1, <2>1 DEF StoreNext, IInv, TypeOK, OneWorkflowPerApproval
    <2>3. Progress(s)
      <3>. SUFFICES ASSUME NEW c \in Starts
                    PROVE  /\ cp[c].status # "none" => cp'[c].status # "none"
                           /\ cp[c].status \notin Unclaimed => cp'[c].status \notin Unclaimed
                           /\ cp[c].status = "completed" => cp'[c].status = "completed"
                           /\ cp[c].status = "none" => cp'[c].status = "none" \/ s = c
        BY <1>1 DEF Progress
      <3>. QED  BY <1>2, <2>1 DEF Unclaimed
    <2>4. \A c \in Starts : SoundNext(c)
      <3>. SUFFICES ASSUME NEW c \in Starts PROVE SoundNext(c)
        OBVIOUS
      <3>1. CASE c = s
        BY <1>1, <1>3, <2>1, <3>1 DEF SoundNext
      <3>2. CASE c # s
        BY <1>1, <2>1, <3>2 DEF SoundNext, IInv, Sound, Consummated, ConsummatedNext
      <3>. QED  BY <3>1, <3>2
    <2>5. \A c \in Starts : cp[c].status # "processing" => cp'[c].status # "processing"
      BY <2>1
    <2>6. CASE Answer(s)
      BY <1>1, <1>2, <2>2, <2>3, <2>4, <2>5, <2>6, AnswerKeeps DEF Working
    <2>7. CASE Goto(s, "mark")
      <3>1. Call(s, "mark", job[s])
        BY <1>2, <2>7, GotoCalls
      <3>2. FitsNext(s, "mark", job[s])
        BY <1>2, StartIsStart, Locals DEF FitsNext, Fits, Working
      <3>3. Claims(s, "mark", job[s])
        BY <1>1, <1>2, <2>5, Locals DEF Claims, Working
      <3>. QED  BY <1>2, <2>2, <2>3, <2>4, <3>1, <3>2, <3>3, Keeps DEF PCs
    <2>. QED  BY <1>1, <2>6, <2>7
  <1>. QED  BY <1>4, <1>5 DEF CreateCheckpoint

\* The status of the mission is none of the checkpoint's.
LEMMA MarkWaitingKeeps == ASSUME IInv, NEW s \in Starts, MarkWaiting(s) PROVE IInv'
  <1>1. /\ pc[s] = "mark" /\ Answer(s)
        /\ UNCHANGED <<start, wf, cp, conn, vault, lapsed, exchanges, lost>>
        /\ mission' \in {"running", "waiting_human", "pending"}
    BY DEF MarkWaiting, past, IInv, TypeOK
  <1>2. StoreNext
    BY <1>1 DEF StoreNext, IInv, TypeOK, OneWorkflowPerApproval
  <1>. QED  BY <1>1, <1>2, StartIsStart, QuietAnswer DEF Working

-----------------------------------------------------------------------------
(* The callback                                                             *)

\* A callback is not of another kind.
LEMMA CallbackIsCallback ==
    ASSUME NEW k \in Callbacks
    PROVE  k \in Requests /\ k \notin Starts /\ k \notin Hands
           /\ Role(k) = {"idle", "gone", "deny", "claim"} \cup Working
  BY DEF Requests, Role

\* A state grows old.
LEMMA LapseKeeps == ASSUME IInv, NEW s \in Starts, Lapse(s) PROVE IInv'
  <1>1. lapsed' \subseteq Starts
    BY DEF Lapse, IInv, TypeOK
  <1>2. UNCHANGED <<start, wf, cp, conn, vault, mission, pc, job, exchanges, lost>>
    BY DEF Lapse, rows, past
  <1>. QED  BY <1>1, <1>2 DEF IInv, TypeOK, Placed, Fits, Consummated, OwnerOf, Sound, Alone, Holders, Of,
                              OneWorkflowPerApproval

\* A callback that arrives finds the row of its state.
LEMMA ArriveKeeps ==
    ASSUME IInv, NEW k \in Callbacks, NEW s \in Starts, Arrive(k, s) \/ Denied(k, s)
    PROVE  IInv'
  <1>1. /\ pc[k] = "idle" /\ cp[s].status # "none"
        /\ Call(k, "claim", Fresh(s)) \/ Call(k, "deny", Fresh(s))
        /\ UNCHANGED <<start, wf, cp, conn, vault, mission, lapsed, exchanges, lost>>
    BY DEF Arrive, Denied, rows, past
  <1>2. StoreNext
    BY <1>1, SameRows DEF IInv, TypeOK
  <1>3. \A p \in {"claim", "deny"} : FitsNext(k, p, Fresh(s))
    BY <1>1, CallbackIsCallback, FreshIsJob DEF FitsNext, Working
  <1>4. \A c \in Starts : k \notin Holders(c)
    BY <1>1, CallbackIsCallback, Locals DEF Working
  <1>5. ASSUME NEW p \in {"claim", "deny"}, Call(k, p, Fresh(s)) PROVE IInv'
    <2>1. p \in PCs /\ p \notin Working /\ Fresh(s) \in Job /\ k \in Requests /\ FitsNext(k, p, Fresh(s))
      BY <1>3, CallbackIsCallback, FreshIsJob DEF PCs, Working
    <2>. DEFINE j == Fresh(s)
    <2>2. j \in Job /\ FitsNext(k, p, j) /\ Call(k, p, j)
      BY <1>5, <2>1
    <2>. HIDE DEF j
    <2>. QED  BY <1>1, <1>2, <1>4, <2>1, <2>2, QuietKeeps
  <1>. QED  BY <1>1, <1>5

\* What a callback that works on a state knows.
LEMMA CallbackKnows ==
    ASSUME IInv, NEW k \in Callbacks, pc[k] \notin {"idle", "gone"}
    PROVE  /\ k \in Requests /\ Of(k) \in Starts /\ Of(k) = job[k].about /\ job[k] \in Job
           /\ cp[Of(k)].status # "none" /\ Sound(Of(k)) /\ Fits(k, pc[k], job[k])
           /\ pc[k] \in Working => cp[Of(k)].status \notin Unclaimed
           /\ \A s1, s2 \in job[k].closes : s1 = s2
           /\ \A s \in Starts : k \in Holders(s) <=> pc[k] \in Working /\ Of(k) = s
  BY CallbackIsCallback, Locals DEF Fits, IInv

\* A status that is set moves no other row.
LEMMA StatusSet ==
    ASSUME IInv, NEW s \in Starts, NEW v \in CheckpointStatuses, SetStatus(s, v)
    PROVE  /\ cp' \in [Starts -> Checkpoint]
           /\ \A c \in Starts : c # s => cp'[c] = cp[c]
           /\ cp'[s].status = v /\ cp'[s].consumed = cp[s].consumed
  BY DEF IInv, TypeOK, Checkpoint, SetStatus

\* What a status that is set by a claim or a failure keeps in order.
LEMMA SettingKeeps ==
    ASSUME IInv, NEW r \in Requests, NEW s \in Starts, NEW v \in {"processing", "failed"},
           cp[s].status \in {"awaiting_human", "processing"}, SetStatus(s, v),
           UNCHANGED <<start, wf, conn, vault, mission, lapsed, exchanges>>,
           lost \subseteq lost', lost' \subseteq Starts
    PROVE  StoreNext /\ Progress(r) /\ \A c \in Starts : SoundNext(c)
  <1>1. /\ cp' \in [Starts -> Checkpoint]
        /\ \A c \in Starts : c # s => cp'[c] = cp[c]
        /\ cp'[s].status = v /\ cp'[s].consumed = cp[s].consumed
    BY StatusSet DEF CheckpointStatuses
  <1>2. StoreNext
    BY <1>1 DEF StoreNext, IInv, TypeOK, OneWorkflowPerApproval
  <1>3. Progress(r)
    <2>. SUFFICES ASSUME NEW c \in Starts
                  PROVE  /\ cp[c].status # "none" => cp'[c].status # "none"
                         /\ cp[c].status \notin Unclaimed => cp'[c].status \notin Unclaimed
                         /\ cp[c].status = "completed" => cp'[c].status = "completed"
                         /\ cp[c].status = "none" => cp'[c].status = "none" \/ r = c
      BY DEF Progress
    <2>. QED  BY <1>1 DEF Unclaimed
  <1>4. ASSUME NEW c \in Starts PROVE SoundNext(c)
    <2>1. CASE c = s
      <3>1. ~cp[s].consumed
        BY DEF IInv, Sound, Consummated
      <3>. QED  BY <1>1, <2>1, <3>1 DEF SoundNext, Unclaimed
    <2>2. CASE c # s
      BY <1>1, <2>2 DEF SoundNext, IInv, Sound, Consummated, ConsummatedNext
    <2>. QED  BY <2>1, <2>2
  <1>. QED  BY <1>2, <1>3, <1>4

\* The claim is taken by one callback, from nobody.
LEMMA ClaimKeeps == ASSUME IInv, NEW k \in Callbacks, ClaimCheckpoint(k) PROVE IInv'
  <1>. DEFINE s == Of(k)
  <1>1. /\ pc[k] = "claim" /\ pc[k] \notin Working
        /\ UNCHANGED <<start, wf, conn, vault, mission, lapsed, exchanges>>
    BY DEF ClaimCheckpoint, Working
  <1>2. /\ k \in Requests /\ s \in Starts /\ s = job[k].about /\ job[k] \in Job /\ Sound(s)
        /\ \A s1, s2 \in job[k].closes : s1 = s2
        /\ \A c \in Starts : k \notin Holders(c)
    BY <1>1, CallbackKnows
  <1>3. lost \subseteq lost' /\ lost' \subseteq Starts
    BY <1>2 DEF ClaimCheckpoint, IInv, TypeOK
  <1>4. CASE Answer(k) /\ UNCHANGED <<cp, lost>>
    <2>1. StoreNext
      BY <1>1, <1>3, <1>4, SameRows
    <2>. QED  BY <1>1, <1>2, <1>4, <2>1, QuietAnswer
  <1>5. CASE /\ cp[s].status = "awaiting_human" /\ SetStatus(s, "processing")
             /\ \/ Goto(k, "exchange") \/ Goto(k, "fail")
                \/ Answer(k) /\ lost' = lost \cup {s}
    <2>1. StoreNext /\ Progress(k) /\ \A c \in Starts : SoundNext(c)
      BY <1>1, <1>2, <1>3, <1>5, SettingKeeps
    <2>2. /\ \A c \in Starts : c # s => cp'[c] = cp[c]
          /\ cp'[s].status = "processing"
      BY <1>2, <1>5, StatusSet DEF CheckpointStatuses
    <2>3. CASE Answer(k) /\ lost' = lost \cup {s}
      BY <1>1, <1>2, <2>1, <2>2, <2>3, AnswerKeeps
    <2>4. ASSUME NEW p \in {"exchange", "fail"}, Goto(k, p) PROVE IInv'
      <3>1. Call(k, p, job[k])
        BY <1>2, <2>4, GotoCalls
      <3>2. exchanges'[s] = 0 /\ cp'[s].status \notin Unclaimed
        BY <1>1, <1>2, <1>5, <2>2 DEF Sound, Unclaimed
      <3>3. FitsNext(k, p, job[k])
        BY <1>2, <3>2, <2>4, CallbackIsCallback DEF FitsNext, Working, Unclaimed
      <3>4. Holders(s) = {}
        <4>. SUFFICES ASSUME NEW q \in Holders(s) PROVE FALSE
          OBVIOUS
        <4>1. q \in Callbacks /\ pc[q] \in Working /\ Of(q) = s
          BY DEF Holders
        <4>2. pc[q] \notin {"idle", "gone"}
          BY <4>1 DEF Working
        <4>. QED  BY <1>5, <4>1, <4>2, CallbackKnows DEF Unclaimed
      <3>5. Claims(k, p, job[k])
        BY <1>2, <2>2, <2>4, <3>4 DEF Claims, Working
      <3>. QED  BY <1>2, <2>1, <2>4, <3>1, <3>3, <3>5, Keeps DEF PCs
    <2>. QED  BY <1>5, <2>3, <2>4
  <1>. QED  BY <1>4, <1>5 DEF ClaimCheckpoint

\* A holder that goes on, or is done, without writing its checkpoint.
LEMMA HolderGoes ==
    ASSUME IInv, NEW k \in Callbacks, pc[k] \in Working, NEW p \in Working, Goto(k, p),
           UNCHANGED <<start, cp, exchanges>>, StoreNext,
           vault \subseteq vault', conn \subseteq conn', lost \subseteq lost',
           p \in {"exchange", "await", "fail"} => exchanges[Of(k)] = 0,
           p \in {"save", "complete"} => exchanges[Of(k)] = 1,
           p = "complete" => OwnerOf(Of(k)) \in vault'
    PROVE  IInv'
  <1>1. pc[k] \notin {"idle", "gone"}
    BY DEF Working
  <1>2. /\ k \in Requests /\ job[k] \in Job /\ Of(k) = job[k].about /\ cp[Of(k)].status \notin Unclaimed
        /\ cp[Of(k)].status # "none"
        /\ \A s1, s2 \in job[k].closes : s1 = s2
        /\ \A s \in Starts : k \in Holders(s) <=> Of(k) = s
    BY <1>1, CallbackKnows
  <1>3. Call(k, p, job[k])
    BY <1>2, GotoCalls
  <1>4. FitsNext(k, p, job[k])
    BY <1>2, CallbackIsCallback DEF FitsNext, Working
  <1>5. Of(k) \in Starts
    BY <1>2, Locals
  <1>. QED  BY <1>2, <1>3, <1>4, <1>5, QuietKeeps DEF PCs, Working

\* The code is posted once, by the holder.
LEMMA ExchangeKeeps == ASSUME IInv, NEW k \in Callbacks, Exchange(k) PROVE IInv'
  <1>1. /\ pc[k] = "exchange" /\ Goto(k, "await")
        /\ UNCHANGED <<start, wf, cp, conn, vault, mission, lapsed, exchanges, lost>>
    BY DEF Exchange, rows, past
  <1>2. StoreNext
    BY <1>1, SameRows DEF IInv, TypeOK
  <1>3. exchanges[Of(k)] = 0
    BY <1>1, CallbackKnows DEF Fits
  <1>. QED  BY <1>1, <1>2, <1>3, HolderGoes DEF Working

\* Tokens that are given are the first ones.
LEMMA TokensGiven ==
    ASSUME IInv, NEW k \in Callbacks, pc[k] = "await", GiveTokens(Of(k)),
           UNCHANGED <<start, wf, cp, conn, vault, mission, lapsed>>,
           lost \subseteq lost', lost' \subseteq Starts
    PROVE  /\ StoreNext /\ Progress(k) /\ \A c \in Starts : SoundNext(c)
           /\ exchanges'[Of(k)] = 1 /\ \A c \in Starts : c # Of(k) => exchanges'[c] = exchanges[c]
  <1>. DEFINE s == Of(k)
  <1>1. /\ s \in Starts /\ exchanges[s] = 0 /\ cp[s].status \notin Unclaimed /\ k \in Holders(s)
        /\ Sound(s)
    BY CallbackKnows DEF Fits, Working
  <1>2. /\ exchanges' \in [Starts -> Nat] /\ exchanges'[s] = 1
        /\ \A c \in Starts : c # s => exchanges'[c] = exchanges[c]
    BY <1>1 DEF GiveTokens, IInv, TypeOK
  <1>3. StoreNext
    BY <1>2 DEF StoreNext, IInv, TypeOK, OneWorkflowPerApproval
  <1>4. Progress(k)
    BY <1>1, <1>2 DEF Progress
  <1>5. ASSUME NEW c \in Starts PROVE SoundNext(c)
    <2>1. CASE c = s
      <3>1. ~cp[s].consumed
        BY <1>1 DEF Sound, Consummated
      <3>. QED  BY <1>1, <2>1, <3>1 DEF SoundNext
    <2>2. CASE c # s
      BY <1>2, <2>2 DEF SoundNext, IInv, Sound, Consummated, ConsummatedNext
    <2>. QED  BY <2>1, <2>2
  <1>. QED  BY <1>2, <1>3, <1>4, <1>5

\* Tokens, a refusal, or no answer.
LEMMA TokenAnswerKeeps == ASSUME IInv, NEW k \in Callbacks, TokenAnswer(k) PROVE IInv'
  <1>. DEFINE s == Of(k)
  <1>1. pc[k] = "await" /\ UNCHANGED <<start, wf, cp, conn, vault, mission, lapsed>>
    BY DEF TokenAnswer, rows
  <1>2. /\ k \in Requests /\ s \in Starts /\ s = job[k].about /\ job[k] \in Job /\ Sound(s)
        /\ exchanges[s] = 0 /\ cp[s].status \notin Unclaimed /\ cp[s].status # "none"
        /\ \A s1, s2 \in job[k].closes : s1 = s2
        /\ \A c \in Starts : k \in Holders(c) <=> s = c
    BY <1>1, CallbackKnows DEF Fits, Working
  <1>3. lost \subseteq lost' /\ lost' \subseteq Starts
    BY <1>2 DEF TokenAnswer, IInv, TypeOK
  <1>4. CASE Goto(k, "fail") /\ UNCHANGED <<exchanges, lost>>
    <2>1. StoreNext
      BY <1>1, <1>3, <1>4, SameRows
    <2>. QED  BY <1>1, <1>2, <1>4, <2>1, HolderGoes DEF Working
  <1>5. CASE GiveTokens(s) /\ Goto(k, "save") /\ UNCHANGED lost
    <2>1. /\ StoreNext /\ Progress(k) /\ \A c \in Starts : SoundNext(c)
          /\ exchanges'[s] = 1
      BY <1>1, <1>3, <1>5, TokensGiven
    <2>2. Call(k, "save", job[k])
      BY <1>2, <1>5, GotoCalls
    <2>3. FitsNext(k, "save", job[k])
      BY <1>1, <1>2, <2>1, CallbackIsCallback DEF FitsNext, Working
    <2>4. Claims(k, "save", job[k])
      BY <1>1, <1>2 DEF Claims, Working
    <2>. QED  BY <1>2, <2>1, <2>2, <2>3, <2>4, Keeps DEF PCs
  <1>6. CASE (GiveTokens(s) \/ UNCHANGED exchanges) /\ Answer(k) /\ lost' = lost \cup {s}
    <2>1. CASE GiveTokens(s)
      <3>1. StoreNext /\ Progress(k) /\ \A c \in Starts : SoundNext(c)
        BY <1>1, <1>3, <2>1, TokensGiven
      <3>. QED  BY <1>1, <1>2, <1>6, <3>1, AnswerKeeps
    <2>2. CASE UNCHANGED exchanges
      <3>1. StoreNext
        BY <1>1, <1>3, <2>2, SameRows
      <3>. QED  BY <1>1, <1>2, <1>3, <1>6, <2>2, <3>1, QuietAnswer
    <2>. QED  BY <1>6, <2>1, <2>2
  <1>. QED  BY <1>4, <1>5, <1>6 DEF TokenAnswer

\* A claim is failed, or lost.
LEMMA FailKeeps == ASSUME IInv, NEW k \in Callbacks, Fail(k) PROVE IInv'
  <1>. DEFINE s == Of(k)
  <1>1. /\ pc[k] \in {"fail", "deny"} /\ Answer(k)
        /\ UNCHANGED <<start, wf, conn, vault, mission, lapsed, exchanges>>
        /\ lost' = IF pc[k] = "fail" /\ cp'[s].status = "processing" THEN lost \cup {s} ELSE lost
        /\ UNCHANGED cp \/ (cp[s].status = "processing" /\ SetStatus(s, "failed"))
    BY DEF Fail
  <1>2. k \in Requests /\ s \in Starts
    BY <1>1, CallbackKnows
  <1>3. lost \subseteq lost' /\ lost' \subseteq Starts
    BY <1>1, <1>2 DEF IInv, TypeOK
  <1>4. pc[k] \in Working => pc[k] = "fail"
    BY <1>1 DEF Working
  <1>5. CASE UNCHANGED cp
    <2>1. StoreNext
      BY <1>1, <1>3, <1>5, SameRows
    <2>2. pc[k] \in Working => s \in lost' \/ cp[s].status # "processing"
      BY <1>1, <1>4, <1>5
    <2>. QED  BY <1>1, <1>2, <1>3, <1>5, <2>1, <2>2, QuietAnswer
  <1>6. CASE cp[s].status = "processing" /\ SetStatus(s, "failed")
    <2>1. StoreNext /\ Progress(k) /\ \A c \in Starts : SoundNext(c)
      BY <1>1, <1>2, <1>3, <1>6, SettingKeeps
    <2>2. cp'[s].status = "failed" /\ \A c \in Starts : c # s => cp'[c] = cp[c]
      BY <1>2, <1>6, StatusSet DEF CheckpointStatuses
    <2>. QED  BY <1>1, <1>2, <2>1, <2>2, AnswerKeeps
  <1>. QED  BY <1>1, <1>5, <1>6

\* The tokens are in the vault when the holder goes on.
LEMMA SaveTokensKeeps == ASSUME IInv, NEW k \in Callbacks, SaveTokens(k) PROVE IInv'
  <1>. DEFINE s == Of(k)
  <1>1. pc[k] = "save" /\ UNCHANGED <<start, wf, cp, conn, mission, lapsed, exchanges>>
    BY DEF SaveTokens
  <1>2. k \in Requests /\ s \in Starts /\ exchanges[s] = 1
    BY <1>1, CallbackKnows DEF Fits
  <1>3. /\ lost \subseteq lost' /\ lost' \subseteq Starts
        /\ vault' = vault \/ vault' = vault \cup {OwnerOf(s)}
    BY <1>2 DEF SaveTokens, IInv, TypeOK
  <1>4. vault \subseteq vault' /\ vault' \subseteq Owners /\ StoreNext
    <2>1. OwnerOf(s) \in Owners
      BY DEF OwnerOf, Owners
    <2>2. vault \subseteq vault' /\ vault' \subseteq Owners
      BY <1>3, <2>1 DEF IInv, TypeOK
    <2>. QED  BY <1>1, <1>3, <2>2 DEF StoreNext, IInv, TypeOK, OneWorkflowPerApproval
  <1>5. CASE vault' = vault \cup {OwnerOf(s)} /\ Goto(k, "complete")
    BY <1>1, <1>2, <1>3, <1>4, <1>5, HolderGoes DEF Working
  <1>6. CASE Answer(k) /\ lost' = lost \cup {s}
    BY <1>1, <1>2, <1>3, <1>4, <1>6, QuietAnswer
  <1>. QED  BY <1>5, <1>6 DEF SaveTokens

\* The transaction completes a claim whose tokens are saved.
LEMMA CompleteKeeps == ASSUME IInv, NEW k \in Callbacks, Complete(k) PROVE IInv'
  <1>. DEFINE s == Of(k)
  <1>1. /\ pc[k] = "complete" /\ Answer(k) /\ UNCHANGED <<start, vault, lapsed, exchanges>>
        /\ lost' = IF cp'[s].status = "processing" THEN lost \cup {s} ELSE lost
    BY DEF Complete
  <1>2. /\ k \in Requests /\ s \in Starts /\ exchanges[s] = 1 /\ OwnerOf(s) \in vault
    BY <1>1, CallbackKnows DEF Fits, Working
  <1>3. lost \subseteq lost' /\ lost' \subseteq Starts
    BY <1>1, <1>2 DEF IInv, TypeOK
  <1>4. CASE UNCHANGED <<wf, conn, mission, cp>>
    <2>1. StoreNext
      BY <1>1, <1>3, <1>4, SameRows
    <2>. QED  BY <1>1, <1>2, <1>3, <1>4, <2>1, QuietAnswer
  <1>5. CASE cp[s].status = "processing" /\ OwnerOf(s) = "owner" /\ Connected(s)
    <2>1. cp[s].workflow \in Starts
      BY <1>2 DEF IInv, TypeOK, Checkpoint
    <2>2. /\ wf' \in [Starts -> Workflow] /\ \A c \in Starts : wf'[c].approval = wf[c].approval
      <3>1. PICK w \in Starts : wf' = [wf EXCEPT ![w].status = "completed"]
        BY <1>5, <2>1 DEF Connected
      <3>2. \A row \in Workflow : /\ [row EXCEPT !.status = "completed"] \in Workflow
                                 /\ [row EXCEPT !.status = "completed"].approval = row.approval
        BY DEF Workflow
      <3>. QED  BY <3>1, <3>2 DEF IInv, TypeOK
    <2>3. /\ conn' = conn \cup {"owner"} /\ conn' \subseteq Owners
          /\ mission' \in {"running", "waiting_human", "pending"}
      BY <1>5 DEF Connected, IInv, TypeOK, Owners
    <2>4. /\ cp' \in [Starts -> Checkpoint]
          /\ \A c \in Starts : c # s => cp'[c] = cp[c]
          /\ cp'[s].status = "completed"
      BY <1>2, <1>5 DEF Connected, IInv, TypeOK, Checkpoint, CheckpointStatuses
    <2>5. StoreNext
      BY <1>1, <1>3, <2>2, <2>3, <2>4, SameApprovals DEF StoreNext, IInv, TypeOK
    <2>6. Progress(k)
      <3>. SUFFICES ASSUME NEW c \in Starts
                    PROVE  /\ cp[c].status # "none" => cp'[c].status # "none"
                           /\ cp[c].status \notin Unclaimed => cp'[c].status \notin Unclaimed
                           /\ cp[c].status = "completed" => cp'[c].status = "completed"
                           /\ cp[c].status = "none" => cp'[c].status = "none" \/ k = c
        BY <1>1, <1>3, <2>3 DEF Progress
      <3>. QED  BY <1>5, <2>4 DEF Unclaimed
    <2>7. ASSUME NEW c \in Starts PROVE SoundNext(c)
      <3>1. CASE c = s
        BY <1>1, <1>2, <1>5, <2>3, <2>4, <3>1 DEF SoundNext, ConsummatedNext, Unclaimed
      <3>2. CASE c # s
        BY <1>1, <2>3, <2>4, <3>2 DEF SoundNext, IInv, Sound, Consummated, ConsummatedNext
      <3>. QED  BY <3>1, <3>2
    <2>. QED  BY <1>1, <1>2, <2>4, <2>5, <2>6, <2>7, AnswerKeeps
  <1>. QED  BY <1>4, <1>5 DEF Complete

-----------------------------------------------------------------------------
(* By hand                                                                  *)

\* A request of the person is not of another kind, and holds no claim.
LEMMA HandIsHand ==
    ASSUME IInv, NEW h \in Hands
    PROVE  /\ h \in Requests /\ h \notin Starts /\ h \notin Callbacks
           /\ Role(h) = {"idle", "gone", "read", "write", "advance", "link"}
           /\ pc[h] \notin Working /\ \A s \in Starts : h \notin Holders(s)
           /\ Of(h) \in Starts /\ job[h] \in Job /\ job[h].closes \subseteq Starts
           /\ \A s1, s2 \in job[h].closes : s1 = s2
  <1>1. /\ h \in Requests /\ h \notin Starts /\ h \notin Callbacks
        /\ Role(h) = {"idle", "gone", "read", "write", "advance", "link"}
    BY DEF Requests, Role
  <1>2. pc[h] \notin Working
    BY <1>1, Locals DEF Fits, Working
  <1>. QED  BY <1>1, <1>2, Locals DEF Fits

\* A request that goes to its next statement.
LEMMA HandGoes ==
    ASSUME IInv, NEW h \in Hands, NEW p \in {"read", "write", "advance", "link"}, NEW j \in Job,
           Call(h, p, j), \A s1, s2 \in j.closes : s1 = s2,
           p = "write" => \A s \in j.closes : cp[s].status # "none" /\ (j.consumed => Consummated(s)),
           UNCHANGED <<start, cp, exchanges, vault, lost>>, conn \subseteq conn', StoreNext
    PROVE  IInv'
  <1>1. j.closes \subseteq Starts
    BY DEF Job
  <1>2. FitsNext(h, p, j)
    BY <1>1, HandIsHand DEF FitsNext, Working, Consummated, ConsummatedNext
  <1>. QED  BY <1>2, HandIsHand, QuietKeeps DEF PCs, Working

\* One that closes a checkpoint at its end, or is over.
LEMMA CloseKeeps ==
    ASSUME IInv, NEW h \in Hands, ThenClose(h) \/ Answer(h) \/ Goto(h, "link"),
           UNCHANGED <<start, cp, exchanges, vault, lost>>, conn \subseteq conn', StoreNext
    PROVE  IInv'
  <1>1. Goto(h, "read") \/ Answer(h) \/ Goto(h, "link")
    BY DEF ThenClose
  <1>2. ASSUME NEW p \in {"read", "link"}, Goto(h, p) PROVE IInv'
    BY <1>2, HandIsHand, GotoCalls, HandGoes
  <1>3. CASE Answer(h)
    BY <1>3, HandIsHand, QuietAnswer
  <1>. QED  BY <1>1, <1>2, <1>3

\* A person names a checkpoint, or a workflow, or an account.
LEMMA HandBegins ==
    ASSUME IInv, NEW h \in Hands, NEW s \in Starts,
           \/ CompleteByHand(h, s) \/ ConnectAccount(h)
           \/ \E closes \in CheckpointIds(s) : ResumeByRoute(h, s, closes) \/ ResumeApproved(h, s, closes)
    PROVE  IInv'
  <1>1. UNCHANGED <<start, wf, cp, conn, vault, mission, lapsed, exchanges, lost>>
    BY DEF CompleteByHand, ConnectAccount, ResumeByRoute, ResumeApproved, ReadWorkflow, rows, past
  <1>2. StoreNext
    BY <1>1, SameRows DEF IInv, TypeOK
  <1>3. CASE CompleteByHand(h, s)
    <2>. DEFINE j == [Fresh(s) EXCEPT !.closes = {s}]
    <2>1. j \in Job /\ j.closes = {s} /\ Call(h, "read", j)
      BY <1>3, FreshIsJob DEF Job, CompleteByHand
    <2>. HIDE DEF j
    <2>. QED  BY <1>1, <1>2, <2>1, HandGoes
  <1>4. CASE ConnectAccount(h)
    BY <1>1, <1>2, <1>4, CloseKeeps DEF ConnectAccount
  <1>5. ASSUME NEW closes \in CheckpointIds(s), NEW approved \in BOOLEAN, ReadWorkflow(h, s, approved, closes)
        PROVE  IInv'
    <2>. DEFINE j == [Fresh(s) EXCEPT !.step = wf[s].step, !.approved = approved, !.closes = closes]
    <2>1. closes \subseteq Starts /\ \A s1, s2 \in closes : s1 = s2
      BY DEF CheckpointIds
    <2>2. wf[s].step \in 1..3
      BY DEF IInv, TypeOK, Workflow
    <2>3. j \in Job /\ j.closes = closes /\ Call(h, "advance", j)
      BY <1>5, <2>1, <2>2 DEF Fresh, Job, ReadWorkflow
    <2>. HIDE DEF j
    <2>. QED  BY <1>1, <1>2, <2>1, <2>3, HandGoes
  <1>. QED  BY <1>3, <1>4, <1>5 DEF ResumeByRoute, ResumeApproved

\* The metadata of a checkpoint are read.
LEMMA ReadCheckpointKeeps == ASSUME IInv, NEW h \in Hands, ReadCheckpoint(h) PROVE IInv'
  <1>1. UNCHANGED <<start, wf, cp, conn, vault, mission, lapsed, exchanges, lost>>
    BY DEF ReadCheckpoint, rows, past
  <1>2. StoreNext
    BY <1>1, SameRows DEF IInv, TypeOK
  <1>3. CASE Answer(h)
    BY <1>1, <1>2, <1>3, CloseKeeps
  <1>4. ASSUME NEW s \in job[h].closes, cp[s].status # "none",
               Call(h, "write", [job[h] EXCEPT !.consumed = cp[s].consumed])
        PROVE  IInv'
    <2>. DEFINE j == [job[h] EXCEPT !.consumed = cp[s].consumed]
    <2>1. s \in Starts /\ cp[s].consumed \in BOOLEAN /\ job[h] \in Job /\ \A s1, s2 \in job[h].closes : s1 = s2
      BY HandIsHand DEF IInv, TypeOK, Checkpoint
    <2>2. /\ j \in Job /\ j.closes = job[h].closes /\ j.consumed = cp[s].consumed
          /\ Call(h, "write", j)
      BY <1>4, <2>1 DEF Job
    <2>3. cp[s].consumed => Consummated(s)
      BY <2>1 DEF IInv, Sound
    <2>. HIDE DEF j
    <2>. QED  BY <1>1, <1>2, <1>4, <2>1, <2>2, <2>3, HandGoes
  <1>. QED  BY <1>3, <1>4 DEF ReadCheckpoint

\* And written back: what they say was consumed still is.
LEMMA WriteCheckpointKeeps == ASSUME IInv, NEW h \in Hands, WriteCheckpoint(h) PROVE IInv'
  <1>1. pc[h] = "write" /\ Answer(h) /\ UNCHANGED <<start, wf, conn, vault, mission, lapsed, exchanges, lost>>
    BY DEF WriteCheckpoint, past
  <1>2. CASE UNCHANGED cp
    <2>1. StoreNext
      BY <1>1, <1>2, SameRows DEF IInv, TypeOK
    <2>. QED  BY <1>1, <1>2, <2>1, CloseKeeps
  <1>3. ASSUME NEW s \in job[h].closes,
               cp' = [cp EXCEPT ![s].status = "completed", ![s].consumed = job[h].consumed]
        PROVE  IInv'
    <2>1. /\ h \in Requests /\ s \in Starts /\ job[h].consumed \in BOOLEAN
          /\ cp[s].status # "none" /\ (job[h].consumed => Consummated(s))
          /\ pc[h] \notin Working
      BY <1>1, HandIsHand, Locals DEF Fits, Job
    <2>2. /\ cp' \in [Starts -> Checkpoint]
          /\ \A c \in Starts : c # s => cp'[c] = cp[c]
          /\ cp'[s].status = "completed" /\ cp'[s].consumed = job[h].consumed
      <3>1. PICK b \in BOOLEAN : b = job[h].consumed
        BY <2>1
      <3>2. cp' = [cp EXCEPT ![s].status = "completed", ![s].consumed = b]
        BY <1>3, <3>1
      <3>3. \A row \in Checkpoint :
               /\ [row EXCEPT !.status = "completed", !.consumed = b] \in Checkpoint
               /\ [row EXCEPT !.status = "completed", !.consumed = b].status = "completed"
               /\ [row EXCEPT !.status = "completed", !.consumed = b].consumed = b
        BY DEF Checkpoint, CheckpointStatuses
      <3>4. cp' = [cp EXCEPT ![s] = [cp[s] EXCEPT !.status = "completed", !.consumed = b]]
        BY <2>1, <3>2 DEF IInv, TypeOK
      <3>. QED  BY <2>1, <3>1, <3>3, <3>4 DEF IInv, TypeOK
    <2>3. StoreNext
      BY <1>1, <2>2 DEF StoreNext, IInv, TypeOK, OneWorkflowPerApproval
    <2>4. Progress(h)
      <3>. SUFFICES ASSUME NEW c \in Starts
                    PROVE  /\ cp[c].status # "none" => cp'[c].status # "none"
                           /\ cp[c].status \notin Unclaimed => cp'[c].status \notin Unclaimed
                           /\ cp[c].status = "completed" => cp'[c].status = "completed"
                           /\ cp[c].status = "none" => cp'[c].status = "none" \/ h = c
        BY <1>1 DEF Progress
      <3>. QED  BY <2>1, <2>2 DEF Unclaimed
    <2>5. ASSUME NEW c \in Starts PROVE SoundNext(c)
      <3>1. CASE c = s
        BY <1>1, <2>1, <2>2, <3>1 DEF SoundNext, Consummated, ConsummatedNext, Unclaimed
      <3>2. CASE c # s
        BY <1>1, <2>2, <3>2 DEF SoundNext, IInv, Sound, Consummated, ConsummatedNext
      <3>. QED  BY <3>1, <3>2
    <2>6. \A c \in Starts : cp[c].status # "processing" => cp'[c].status # "processing"
      BY <2>2
    <2>. QED  BY <1>1, <2>1, <2>3, <2>4, <2>5, <2>6, AnswerKeeps
  <1>. QED  BY <1>2, <1>3 DEF WriteCheckpoint

\* A workflow is advanced; its approval stays.
LEMMA AdvanceKeeps == ASSUME IInv, NEW h \in Hands, Advance(h) PROVE IInv'
  <1>. DEFINE w == Of(h)
  <1>1. /\ UNCHANGED <<start, cp, conn, vault, mission, lapsed, exchanges, lost>>
        /\ ThenClose(h) \/ Answer(h) \/ Goto(h, "link")
        /\ wf' = wf \/ wf' = NextStep(w, job[h].step)
    BY DEF Advance, past
  <1>2. wf' \in [Starts -> Workflow] /\ \A s \in Starts : wf'[s].approval = wf[s].approval
    <2>1. CASE wf' = wf
      BY <2>1 DEF IInv, TypeOK
    <2>2. CASE wf' = NextStep(w, job[h].step)
      <3>1. job[h].step \in 1..3
        BY HandIsHand DEF Job
      <3>2. PICK v \in {"completed", "awaiting_human"}, n \in 1..3 :
               wf' = [wf EXCEPT ![w].status = v, ![w].step = n]
        <4>1. CASE job[h].step = 3
          BY <2>2, <4>1 DEF NextStep
        <4>2. CASE job[h].step # 3
          <5>1. job[h].step + 1 \in 1..3
            BY <3>1, <4>2
          <5>2. wf' = [wf EXCEPT ![w].status = "awaiting_human", ![w].step = job[h].step + 1]
            BY <2>2, <4>2 DEF NextStep
          <5>. QED  BY <5>1, <5>2
        <4>. QED  BY <4>1, <4>2
      <3>3. \A row \in Workflow :
               /\ [row EXCEPT !.status = v, !.step = n] \in Workflow
               /\ [row EXCEPT !.status = v, !.step = n].approval = row.approval
        BY DEF Workflow
      <3>4. wf' = [wf EXCEPT ![w] = [wf[w] EXCEPT !.status = v, !.step = n]]
        BY <3>2, HandIsHand DEF IInv, TypeOK
      <3>. QED  BY <3>3, <3>4, HandIsHand DEF IInv, TypeOK
    <2>. QED  BY <1>1, <2>1, <2>2
  <1>3. StoreNext
    BY <1>1, <1>2, SameApprovals DEF StoreNext, IInv, TypeOK
  <1>. QED  BY <1>1, <1>3, CloseKeeps

\* An account that is linked shows as connected.
LEMMA LinkKeeps == ASSUME IInv, NEW h \in Hands, Link(h) PROVE IInv'
  <1>1. /\ UNCHANGED <<start, wf, cp, vault, mission, lapsed, exchanges, lost>> /\ ThenClose(h)
        /\ conn' = conn \cup {WorkerKey} \/ conn' = conn
    BY DEF Link, past
  <1>2. conn \subseteq conn' /\ conn' \subseteq Owners
    BY <1>1 DEF IInv, TypeOK, Owners
  <1>3. StoreNext
    BY <1>1, <1>2 DEF StoreNext, IInv, TypeOK, OneWorkflowPerApproval
  <1>. QED  BY <1>1, <1>2, <1>3, CloseKeeps

\* A process that dies loses its claim, and perhaps the tokens it asked for.
LEMMA CrashKeeps == ASSUME IInv, NEW r \in Requests, Crash(r) PROVE IInv'
  <1>1. /\ Answer(r) /\ UNCHANGED <<start, wf, cp, conn, vault, mission, lapsed>>
        /\ lost' = IF pc[r] \in Working THEN lost \cup {Of(r)} ELSE lost
        /\ UNCHANGED exchanges \/ (pc[r] = "await" /\ GiveTokens(Of(r)))
    BY DEF Crash, rows
  <1>2. Of(r) \in Starts /\ Fits(r, pc[r], job[r])
    BY Locals
  <1>3. lost \subseteq lost' /\ lost' \subseteq Starts
    BY <1>1, <1>2 DEF IInv, TypeOK
  <1>4. CASE UNCHANGED exchanges
    <2>1. StoreNext
      BY <1>1, <1>3, <1>4, SameRows
    <2>. QED  BY <1>1, <1>3, <1>4, <2>1, QuietAnswer
  <1>5. CASE pc[r] = "await" /\ GiveTokens(Of(r))
    <2>1. r \in Callbacks
      BY <1>2, <1>5 DEF Fits, Role
    <2>2. StoreNext /\ Progress(r) /\ \A c \in Starts : SoundNext(c)
      BY <1>1, <1>3, <1>5, <2>1, TokensGiven
    <2>. QED  BY <1>1, <1>5, <2>2, AnswerKeeps DEF Working
  <1>. QED  BY <1>1, <1>4, <1>5

-----------------------------------------------------------------------------
(* The invariants                                                           *)

\* The invariant holds at the start.
LEMMA InitHolds == ASSUME Init PROVE IInv
  <1>1. TypeOK
    <2>1. /\ start \in [Starts -> [kind : Kinds, approval : SUBSET Approvals]]
          /\ wf \in [Starts -> Workflow] /\ cp \in [Starts -> Checkpoint] /\ exchanges \in [Starts -> Nat]
      BY DEF Init, Workflow, Checkpoint, CheckpointStatuses
    <2>2. pc \in [Requests -> PCs] /\ job \in [Requests -> Job]
      BY IdleIsJob DEF Init, PCs
    <2>. QED  BY <2>1, <2>2 DEF Init, TypeOK
  <1>2. Placed
    <2>. SUFFICES ASSUME NEW r \in Requests PROVE Fits(r, pc[r], job[r])
      BY DEF Placed
    <2>1. pc[r] \in {"idle", "gone"} /\ job[r].closes = {}
      BY IdleIsJob DEF Init
    <2>2. pc[r] \in Role(r) /\ pc[r] \notin Working /\ (r \in Starts => cp[r].status = "none")
      BY <2>1 DEF Role, Working, Init
    <2>. QED  BY <2>1, <2>2 DEF Fits
  <1>3. \A s \in Starts : Holders(s) = {}
    BY DEF Holders, Working, Init, Requests
  <1>4. \A s \in Starts : Sound(s)
    BY DEF Init, Sound
  <1>. QED  BY <1>1, <1>2, <1>3, <1>4 DEF Init, IInv, Alone, OneWorkflowPerApproval

\* Nothing happens.
LEMMA StutterKeeps == ASSUME IInv, UNCHANGED vars PROVE IInv'
  BY DEF vars, IInv, TypeOK, Placed, Fits, Consummated, OwnerOf, Sound, Alone, Holders, Of,
         OneWorkflowPerApproval

\* Every step keeps it.
LEMMA StepHolds == ASSUME IInv, [Next]_vars PROVE IInv'
  <1>1. ASSUME NEW s \in Starts, Starting(s) \/ Lapse(s) PROVE IInv'
    BY <1>1, BeginKeeps, CreateWorkflowKeeps, CreateCheckpointKeeps, MarkWaitingKeeps, LapseKeeps DEF Starting
  <1>2. ASSUME NEW k \in Callbacks, Callback(k) \/ \E s \in Starts : Arrive(k, s) \/ Denied(k, s) PROVE IInv'
    BY <1>2, ArriveKeeps, ClaimKeeps, ExchangeKeeps, TokenAnswerKeeps, FailKeeps, SaveTokensKeeps,
       CompleteKeeps DEF Callback
  <1>3. ASSUME NEW h \in Hands, ByHand(h) PROVE IInv'
    <2>1. PICK s \in Starts : TRUE
      OBVIOUS
    <2>. QED  BY <1>3, <2>1, HandBegins, ReadCheckpointKeeps, WriteCheckpointKeeps, AdvanceKeeps, LinkKeeps
              DEF ByHand
  <1>4. ASSUME NEW r \in Requests, Crash(r) PROVE IInv'
    BY <1>4, CrashKeeps
  <1>. QED  BY <1>1, <1>2, <1>3, <1>4, StutterKeeps DEF Next

\* The invariant holds always.
LEMMA Invariant == Spec => []IInv
  <1>1. Init => IInv
    BY InitHolds
  <1>2. IInv /\ [Next]_vars => IInv'
    BY StepHolds
  <1>. QED  BY <1>1, <1>2, PTL DEF Spec

\* Workflows, checkpoints and requests keep their types.
THEOREM OnboardingTypeCorrect == Spec => []TypeOK
  <1>1. IInv => TypeOK
    BY DEF IInv
  <1>. QED  BY <1>1, Invariant, PTL

\* Redirects may be repeated and overlap: tokens are given once for a state.
THEOREM ExchangedOnceAlways == Spec => []ExchangedOnce
  <1>1. IInv => ExchangedOnce
    BY DEF IInv, Sound, ExchangedOnce
  <1>. QED  BY <1>1, Invariant, PTL

\* One callback holds the claim of a state, and its exchange is the first.
THEOREM OneHolderAlways == Spec => []OneHolder
  <1>1. ASSUME IInv PROVE OneHolder
    <2>1. \A s \in Starts : \A k \in Holders(s) :
             /\ cp[s].status \notin Unclaimed
             /\ pc[k] \in {"exchange", "await", "fail"} => exchanges[s] = 0
      BY <1>1, Locals DEF Holders, Requests, Fits
    <2>. QED  BY <1>1, <2>1 DEF IInv, Alone, OneHolder, Unclaimed
  <1>. QED  BY <1>1, Invariant, PTL

\* A consumed state has tokens in the vault and a connected account.
THEOREM ConsumedMeansConnectedAlways == Spec => []ConsumedMeansConnected
  <1>1. IInv => ConsumedMeansConnected
    BY DEF IInv, Sound, Consummated, ConsumedMeansConnected
  <1>. QED  BY <1>1, Invariant, PTL

\* An approval that is resumed again and again binds one workflow.
THEOREM OneWorkflowPerApprovalAlways == Spec => []OneWorkflowPerApproval
  <1>1. IInv => OneWorkflowPerApproval
    BY DEF IInv
  <1>. QED  BY <1>1, Invariant, PTL

\* A claim is held, settled, or known to be lost.
THEOREM ClaimsAreSettledAlways == Spec => []ClaimsAreSettled
  <1>1. IInv => ClaimsAreSettled
    BY DEF IInv, Sound, ClaimsAreSettled
  <1>. QED  BY <1>1, Invariant, PTL

-----------------------------------------------------------------------------
(* A failed checkpoint                                                      *)

\* A step that does not write checkpoints leaves the failed ones failed.
LEMMA FailedStays ==
    ASSUME IInv, [Next]_vars, NEW s \in Starts, cp[s].status = "failed"
    PROVE  cp'[s].status \in {"failed", "completed"} /\ cp'[s].consumed = cp[s].consumed
  <1>1. TypeOK /\ ~cp[s].consumed
    BY DEF IInv, Sound, Consummated
  <1>2. CASE cp' = cp
    BY <1>2
  <1>3. ASSUME NEW c \in Starts, NEW v \in CheckpointStatuses, cp[c].status \in {"awaiting_human", "processing"},
               SetStatus(c, v)
        PROVE  cp'[s] = cp[s]
    BY <1>1, <1>3 DEF SetStatus, TypeOK
  <1>4. ASSUME NEW c \in Starts, CreateCheckpoint(c) PROVE cp'[s] = cp[s]
    <2>1. cp[c].status = "none"
      BY <1>4, StartIsStart, Locals DEF CreateCheckpoint, Fits
    <2>. QED  BY <1>1, <1>4, <2>1 DEF CreateCheckpoint, TypeOK
  <1>5. ASSUME NEW k \in Callbacks, ClaimCheckpoint(k) \/ Fail(k) PROVE cp'[s] = cp[s]
    <2>1. Of(k) \in Starts
      BY CallbackIsCallback, Locals
    <2>2. \/ cp' = cp
          \/ \E v \in {"processing", "failed"} :
                cp[Of(k)].status \in {"awaiting_human", "processing"} /\ SetStatus(Of(k), v)
      BY <1>5 DEF ClaimCheckpoint, Fail
    <2>. QED  BY <1>3, <2>1, <2>2 DEF CheckpointStatuses
  <1>6. ASSUME NEW k \in Callbacks, Complete(k) PROVE cp'[s] = cp[s]
    <2>1. cp' = cp \/ (cp[Of(k)].status = "processing" /\ Connected(Of(k)))
      BY <1>6 DEF Complete
    <2>. QED  BY <1>1, <2>1 DEF Connected, TypeOK
  <1>7. ASSUME NEW h \in Hands, WriteCheckpoint(h)
        PROVE  cp'[s].status \in {"failed", "completed"} /\ cp'[s].consumed = cp[s].consumed
    <2>1. ASSUME NEW c \in job[h].closes,
                 cp' = [cp EXCEPT ![c].status = "completed", ![c].consumed = job[h].consumed]
          PROVE  cp'[s].status \in {"failed", "completed"} /\ cp'[s].consumed = cp[s].consumed
      <3>1. c \in Starts /\ (job[h].consumed => Consummated(c)) /\ job[h].consumed \in BOOLEAN
        BY <1>7, HandIsHand, Locals DEF WriteCheckpoint, Fits, Job
      <3>2. CASE c = s
        <4>1. ~job[h].consumed
          BY <3>1, <3>2 DEF Consummated
        <4>2. /\ cp[s] \in Checkpoint /\ cp[s].consumed = FALSE /\ job[h].consumed = FALSE
          BY <1>1, <3>1, <4>1 DEF TypeOK, Checkpoint
        <4>3. cp'[s].status = "completed" /\ cp'[s].consumed = FALSE
          BY <1>1, <2>1, <3>2, <4>2 DEF TypeOK, Checkpoint
        <4>. QED  BY <4>2, <4>3
      <3>3. CASE c # s
        BY <1>1, <2>1, <3>3 DEF TypeOK
      <3>. QED  BY <3>2, <3>3
    <2>. QED  BY <1>2, <1>7, <2>1 DEF WriteCheckpoint
  <1>8. ASSUME NEW c \in Starts, Starting(c) \/ Lapse(c) PROVE cp' = cp \/ CreateCheckpoint(c)
    BY <1>8 DEF Starting, Begin, CreateWorkflow, MarkWaiting, Lapse, rows
  <1>9. ASSUME NEW k \in Callbacks, Callback(k) \/ \E c \in Starts : Arrive(k, c) \/ Denied(k, c)
        PROVE  cp' = cp \/ ClaimCheckpoint(k) \/ Fail(k) \/ Complete(k)
    BY <1>9 DEF Callback, Exchange, TokenAnswer, SaveTokens, Arrive, Denied, rows
  <1>10. ASSUME NEW h \in Hands, ByHand(h) PROVE cp' = cp \/ WriteCheckpoint(h)
    BY <1>10 DEF ByHand, ReadCheckpoint, Advance, Link, ConnectAccount, CompleteByHand, ResumeByRoute,
                 ResumeApproved, ReadWorkflow, rows
  <1>11. (\E r \in Requests : Crash(r)) \/ UNCHANGED vars => cp' = cp
    BY DEF Crash, vars, rows
  <1>. QED  BY <1>2, <1>4, <1>5, <1>6, <1>7, <1>8, <1>9, <1>10, <1>11 DEF Next

\* A refusal, be it in the middle of an exchange, keeps the state unconsumed.
THEOREM FailedIsNotConnectedAlways == Spec => FailedIsNotConnected
  <1>1. IInv /\ [Next]_vars =>
           [\A s \in Starts : cp[s].status = "failed" =>
               cp'[s].status \in {"failed", "completed"} /\ cp'[s].consumed = cp[s].consumed]_vars
    BY FailedStays
  <1>. QED  BY <1>1, Invariant, PTL DEF Spec, FailedIsNotConnected

-----------------------------------------------------------------------------
(* The token exchange implements OncePerKey                                 *)

Phases == [s \in Starts |-> Phase(s)]

\* The moves OncePerKey allows a state, and what each does to the exchanges.
Allowed(s, from, to) ==
    \/ /\ <<from, to>> \in {<<"open", "held">>, <<"held", "sent">>, <<"sent", "held">>,
                            <<"open", "closed">>, <<"held", "closed">>, <<"sent", "closed">>}
       /\ exchanges' = exchanges
    \/ from = "sent" /\ to = "closed" /\ exchanges' = [exchanges EXCEPT ![s] = 1]
    \/ from = to /\ exchanges' = exchanges

\* One state moves as allowed and the others stay.
LEMMA MoveOne ==
    ASSUME NEW s \in Starts, Allowed(s, Phase(s), Phase(s)'),
           \A c \in Starts \ {s} : Phase(c)' = Phase(c)
    PROVE  [Once!Next]_<<Phases, exchanges>>
  <1>1. Phases' = [Phases EXCEPT ![s] = Phase(s)'] /\ Phases[s] = Phase(s)
    BY DEF Phases
  <1>2. CASE Phases' = Phases /\ exchanges' = exchanges
    BY <1>2
  <1>3. CASE Phase(s) # Phase(s)'
    BY <1>1, <1>3 DEF Allowed, Once!Next, Once!Take, Once!Release, Once!Send, Once!Refused,
                      Once!Created, Once!Doubt, Once!Move, Phases
  <1>4. Phase(s) = Phase(s)' => Phases' = Phases
    BY <1>1 DEF Phases
  <1>. QED  BY <1>2, <1>3, <1>4 DEF Allowed

\* A request moves no state that it does not hold, before or after.
LEMMA PhaseFrame ==
    ASSUME IInv, NEW r \in Requests, NEW p, NEW j, Call(r, p, j), NEW c \in Starts,
           exchanges'[c] = exchanges[c], cp'[c].status \in Unclaimed <=> cp[c].status \in Unclaimed,
           r \notin Holders(c), ~(p \in Working /\ j.about = c)
    PROVE  Phase(c)' = Phase(c)
  <1>1. \A q \in Callbacks : q # r => pc'[q] = pc[q] /\ job'[q] = job[q]
    BY DEF IInv, TypeOK, Call, Requests
  <1>2. pc'[r] = p /\ job'[r] = j
    BY DEF IInv, TypeOK, Call
  <1>3. \A q \in Callbacks : q \in Holders(c)' <=> q \in Holders(c)
    BY <1>1, <1>2 DEF Holders, Of
  <1>4. Holders(c)' = Holders(c) /\ \A q \in Holders(c) : pc'[q] = pc[q]
    BY <1>1, <1>3 DEF Holders
  <1>. QED  BY <1>4 DEF Phase, Unclaimed

\* The phase of a state that is held is where its holder stands.
Standing(p) ==
    IF p \in {"save", "complete"} THEN "closed" ELSE IF p = "await" THEN "sent" ELSE "held"

\* A state that is held has that phase.
LEMMA PhaseOfHeld ==
    ASSUME IInv, NEW k \in Callbacks, pc[k] \in Working
    PROVE  Phase(Of(k)) = Standing(pc[k])
  <1>1. pc[k] \notin {"idle", "gone"}
    BY DEF Working
  <1>2. /\ k \in Holders(Of(k)) /\ Of(k) \in Starts /\ Fits(k, pc[k], job[k]) /\ Of(k) = job[k].about
    BY <1>1, CallbackKnows
  <1>3. Holders(Of(k)) = {k}
    BY <1>2 DEF IInv, Alone
  <1>. QED  BY <1>2, <1>3 DEF Phase, Standing, Fits, Working

\* The same of a state that is held next.
LEMMA PhaseOfHeldNext ==
    ASSUME IInv, IInv', NEW k \in Callbacks, NEW s \in Starts, NEW p \in Working, NEW j,
           Call(k, p, j), j.about = s
    PROVE  Phase(s)' = Standing(p)
  <1>1. pc'[k] = p /\ job'[k] = j /\ k \in Requests
    BY DEF IInv, TypeOK, Call, Requests
  <1>2. Fits(k, pc[k], job[k])'
    BY <1>1 DEF IInv, Placed
  <1>3. /\ p \in {"exchange", "await", "fail"} => exchanges'[s] = 0
        /\ p \in {"save", "complete"} => exchanges'[s] = 1
    BY <1>1, <1>2 DEF Fits
  <1>4. k \in Holders(s)'
    BY <1>1 DEF Holders, Of
  <1>5. Holders(s)' = {k}
    BY <1>4 DEF IInv, Alone
  <1>. QED  BY <1>1, <1>3, <1>5 DEF Phase, Standing, Working

\* A state that was claimed and that nobody holds any more is closed.
LEMMA PhaseOfReleased ==
    ASSUME IInv, NEW r \in Requests, NEW s \in Starts, NEW p, NEW j, Call(r, p, j), p \notin Working,
           Holders(s) \subseteq {r}, cp'[s].status \notin Unclaimed
    PROVE  Phase(s)' = "closed"
  <1>1. \A q \in Callbacks : q # r => pc'[q] = pc[q] /\ job'[q] = job[q]
    BY DEF IInv, TypeOK, Call, Requests
  <1>2. pc'[r] = p
    BY DEF IInv, TypeOK, Call
  <1>3. Holders(s)' = {}
    BY <1>1, <1>2 DEF Holders, Of
  <1>. QED  BY <1>3 DEF Phase, Unclaimed

\* A step of a request that holds nothing, and takes nothing.
LEMMA QuietPhases ==
    ASSUME IInv, NEW r \in Requests, NEW p, NEW j, Call(r, p, j), exchanges' = exchanges,
           \A c \in Starts : cp'[c].status \in Unclaimed <=> cp[c].status \in Unclaimed,
           pc[r] \notin Working, p \notin Working
    PROVE  Phases' = Phases
  <1>1. \A c \in Starts : r \notin Holders(c)
    BY Locals
  <1>2. \A c \in Starts : Phase(c)' = Phase(c)
    BY <1>1, PhaseFrame
  <1>. QED  BY <1>2 DEF Phases

\* The statements of a start request.
LEMMA StartingIsQuiet == ASSUME IInv, NEW s \in Starts, Starting(s) PROVE Phases' = Phases /\ exchanges' = exchanges
  <1>1. exchanges' = exchanges /\ pc[s] \notin Working /\ s \in Requests
    BY StartIsStart DEF Starting, Begin, StartByRoute, StartPlain, StartByRuntime, StartApproved, CreateWorkflow,
           CreateCheckpoint, MarkWaiting, past, Working
  <1>2. \E p \in {"create", "checkpoint", "mark", "gone"} : \E j : Call(s, p, j)
    <2>1. \/ Answer(s) \/ Goto(s, "create") \/ Goto(s, "checkpoint") \/ Goto(s, "mark")
          \/ \E w \in Starts : Call(s, "checkpoint", Fresh(w))
      BY DEF Starting, Begin, StartByRoute, StartPlain, StartByRuntime, StartApproved, CreateWorkflow, Bound,
             CreateCheckpoint, MarkWaiting
    <2>2. \A p : Goto(s, p) => Call(s, p, job[s])
      BY <1>1, GotoCalls
    <2>. QED  BY <2>1, <2>2 DEF Answer
  <1>3. ASSUME NEW c \in Starts PROVE cp'[c].status \in Unclaimed <=> cp[c].status \in Unclaimed
    <2>1. CASE UNCHANGED cp
      BY <2>1
    <2>2. CASE CreateCheckpoint(s)
      <3>1. cp[s].status = "none"
        BY <2>2, StartIsStart, Locals DEF CreateCheckpoint, Fits
      <3>2. cp' = cp \/ cp' = [cp EXCEPT ![s].status = "awaiting_human", ![s].workflow = Of(s)]
        BY <2>2 DEF CreateCheckpoint
      <3>3. cp[c] \in Checkpoint /\ cp[s] \in Checkpoint /\ cp \in [Starts -> Checkpoint]
        BY DEF IInv, TypeOK
      <3>4. CASE cp' = [cp EXCEPT ![s].status = "awaiting_human", ![s].workflow = Of(s)]
        <4>1. CASE c = s
          <5>1. cp'[s].status = "awaiting_human"
            BY <3>3, <3>4 DEF Checkpoint
          <5>. QED  BY <3>1, <4>1, <5>1 DEF Unclaimed
        <4>2. CASE c # s
          BY <3>3, <3>4, <4>2
        <4>. QED  BY <4>1, <4>2
      <3>. QED  BY <2>1, <3>2, <3>4
    <2>. QED  BY <2>1, <2>2 DEF Starting, Begin, rows, CreateWorkflow, MarkWaiting
  <1>4. PICK p, j : p \in {"create", "checkpoint", "mark", "gone"} /\ Call(s, p, j)
    BY <1>2
  <1>. QED  BY <1>1, <1>3, <1>4, QuietPhases DEF Working

\* The statements of the person that write no checkpoint.
LEMMA HandIsQuiet ==
    ASSUME IInv, NEW h \in Hands, ByHand(h), ~WriteCheckpoint(h)
    PROVE  Phases' = Phases /\ exchanges' = exchanges
  <1>1. /\ exchanges' = exchanges /\ cp' = cp
    BY DEF ByHand, ReadCheckpoint, Advance, Link, ConnectAccount, CompleteByHand, ResumeByRoute,
           ResumeApproved, ReadWorkflow, rows, past
  <1>2. \/ Answer(h) \/ Goto(h, "read") \/ Goto(h, "link")
        \/ \E j : Call(h, "read", j) \/ Call(h, "write", j) \/ Call(h, "advance", j)
    BY DEF ByHand, ReadCheckpoint, Advance, Link, ConnectAccount, CompleteByHand, ResumeByRoute,
           ResumeApproved, ReadWorkflow, ThenClose
  <1>3. h \in Requests /\ h \notin Starts /\ pc[h] \notin Working
    BY HandIsHand
  <1>4. \E p \in {"idle", "read", "link", "write", "advance"} : \E j : Call(h, p, j)
    <2>1. \A p : Goto(h, p) => Call(h, p, job[h])
      BY <1>3, GotoCalls
    <2>. QED  BY <1>2, <1>3, <2>1 DEF Answer
  <1>5. PICK p, j : p \in {"idle", "read", "link", "write", "advance"} /\ Call(h, p, j)
    BY <1>4
  <1>. QED  BY <1>1, <1>3, <1>5, QuietPhases DEF Working

\* A checkpoint completed by hand closes its state, if nobody holds it.
LEMMA WriteRefines == ASSUME IInv, NEW h \in Hands, WriteCheckpoint(h) PROVE [Once!Next]_<<Phases, exchanges>>
  <1>1. /\ Answer(h) /\ exchanges' = exchanges /\ pc[h] = "write"
        /\ h \in Requests /\ h \notin Starts /\ pc[h] \notin Working /\ \A c \in Starts : h \notin Holders(c)
    BY HandIsHand DEF WriteCheckpoint, past
  <1>2. Call(h, "idle", Idle(h))
    BY <1>1 DEF Answer
  <1>3. CASE UNCHANGED cp
    <2>1. Phases' = Phases
      BY <1>1, <1>2, <1>3, QuietPhases DEF Working
    <2>. QED  BY <1>1, <2>1
  <1>4. ASSUME NEW s \in job[h].closes,
               cp' = [cp EXCEPT ![s].status = "completed", ![s].consumed = job[h].consumed]
        PROVE  [Once!Next]_<<Phases, exchanges>>
    <2>1. s \in Starts /\ cp[s] \in Checkpoint /\ cp \in [Starts -> Checkpoint]
      BY HandIsHand DEF IInv, TypeOK
    <2>2. cp'[s].status = "completed" /\ \A c \in Starts \ {s} : cp'[c] = cp[c]
      BY <1>4, <2>1 DEF Checkpoint
    <2>3. \A c \in Starts \ {s} : Phase(c)' = Phase(c)
      BY <1>1, <1>2, <2>2, PhaseFrame DEF Working
    <2>4. CASE cp[s].status \in Unclaimed
      <3>1. Holders(s) \subseteq {h} /\ exchanges[s] = 0
        <4>1. exchanges[s] = 0
          BY <2>1, <2>4 DEF IInv, Sound
        <4>2. ASSUME NEW q \in Holders(s) PROVE FALSE
          <5>1. q \in Callbacks /\ pc[q] \in Working /\ Of(q) = s /\ pc[q] \notin {"idle", "gone"}
            BY DEF Holders, Working
          <5>. QED  BY <2>4, <5>1, CallbackKnows
        <4>. QED  BY <4>1, <4>2
      <3>2. Phase(s)' = "closed"
        BY <1>1, <1>2, <2>1, <2>2, <3>1, PhaseOfReleased DEF Working, Unclaimed
      <3>3. Holders(s) = {}
        BY <1>1, <2>1, <3>1
      <3>4. Phase(s) = "open"
        BY <2>4, <3>1, <3>3 DEF Phase, Unclaimed
      <3>5. Allowed(s, Phase(s), Phase(s)')
        BY <1>1, <3>2, <3>4 DEF Allowed
      <3>. QED  BY <2>1, <2>3, <3>5, MoveOne
    <2>5. CASE cp[s].status \notin Unclaimed
      <3>1. Phase(s)' = Phase(s)
        BY <1>1, <1>2, <2>1, <2>2, <2>5, PhaseFrame DEF Working, Unclaimed
      <3>2. Allowed(s, Phase(s), Phase(s)')
        BY <1>1, <3>1 DEF Allowed
      <3>. QED  BY <2>1, <2>3, <3>2, MoveOne
    <2>. QED  BY <2>4, <2>5
  <1>. QED  BY <1>3, <1>4 DEF WriteCheckpoint

\* A callback that arrives, or says that the person refused.
LEMMA ArriveIsQuiet ==
    ASSUME IInv, NEW k \in Callbacks, NEW s \in Starts, Arrive(k, s) \/ Denied(k, s)
    PROVE  Phases' = Phases /\ exchanges' = exchanges
  <1>1. exchanges' = exchanges /\ cp' = cp /\ pc[k] \notin Working /\ k \in Requests
    BY CallbackIsCallback DEF Arrive, Denied, rows, past, Working
  <1>2. PICK p \in {"claim", "deny"} : Call(k, p, Fresh(s))
    BY DEF Arrive, Denied
  <1>. QED  BY <1>1, <1>2, QuietPhases DEF Working

\* A holder whose step leaves the other states alone.
LEMMA HolderMoves ==
    ASSUME IInv, IInv', NEW k \in Callbacks, pc[k] \in Working, NEW p, NEW j, Call(k, p, j),
           p \in Working => j.about = Of(k),
           \A c \in Starts \ {Of(k)} : exchanges'[c] = exchanges[c] /\ cp'[c] = cp[c],
           p \notin Working => cp'[Of(k)].status \notin Unclaimed,
           Allowed(Of(k), Standing(pc[k]), IF p \in Working THEN Standing(p) ELSE "closed")
    PROVE  [Once!Next]_<<Phases, exchanges>>
  <1>. DEFINE s == Of(k)
  <1>1. pc[k] \notin {"idle", "gone"}
    BY DEF Working
  <1>2. k \in Requests /\ s \in Starts /\ \A c \in Starts : k \in Holders(c) <=> s = c
    BY <1>1, CallbackKnows
  <1>3. \A c \in Starts \ {s} : Phase(c)' = Phase(c)
    BY <1>2, PhaseFrame
  <1>4. Phase(s) = Standing(pc[k])
    BY PhaseOfHeld
  <1>5. PICK t \in Starts : t = s
    BY <1>2
  <1>6. Holders(t) \subseteq {k}
    BY <1>2, <1>5 DEF IInv, Alone
  <1>7. Phase(t)' = IF p \in Working THEN Standing(p) ELSE "closed"
    BY <1>2, <1>5, <1>6, PhaseOfHeldNext, PhaseOfReleased
  <1>8. Allowed(t, Phase(t), Phase(t)') /\ \A c \in Starts \ {t} : Phase(c)' = Phase(c)
    BY <1>3, <1>4, <1>5, <1>7
  <1>. QED  BY <1>8, MoveOne

\* Where a holder goes when it answers.
LEMMA AnswerCalls ==
    ASSUME NEW k \in Callbacks, Answer(k)
    PROVE  Call(k, "idle", Idle(k)) /\ "idle" \notin Working
  BY CallbackIsCallback DEF Answer, Working

\* The claim takes an open state; one whose answer is lost closes it.
LEMMA ClaimRefines ==
    ASSUME IInv, IInv', NEW k \in Callbacks, ClaimCheckpoint(k)
    PROVE  [Once!Next]_<<Phases, exchanges>>
  <1>. DEFINE s == Of(k)
  <1>1. pc[k] = "claim" /\ pc[k] \notin Working /\ exchanges' = exchanges
    BY DEF ClaimCheckpoint, Working
  <1>2. /\ k \in Requests /\ s \in Starts /\ s = job[k].about /\ Sound(s)
        /\ \A c \in Starts : k \notin Holders(c)
    BY <1>1, CallbackKnows
  <1>3. CASE Answer(k) /\ UNCHANGED cp
    <2>1. Phases' = Phases
      BY <1>1, <1>2, <1>3, AnswerCalls, QuietPhases
    <2>. QED  BY <1>1, <2>1
  <1>4. CASE /\ cp[s].status = "awaiting_human" /\ SetStatus(s, "processing")
             /\ Goto(k, "exchange") \/ Goto(k, "fail") \/ Answer(k)
    <2>1. PICK p, j : p \in {"exchange", "fail", "idle"} /\ Call(k, p, j) /\ (p # "idle" => j = job[k])
      <3>1. \A q : Goto(k, q) => Call(k, q, job[k])
        BY <1>2, GotoCalls
      <3>. QED  BY <1>4, <3>1, AnswerCalls
    <2>2. PICK t \in Starts : t = s
      BY <1>2
    <2>3. cp'[t].status = "processing" /\ \A c \in Starts : c # t => cp'[c] = cp[c]
      BY <1>4, <2>2, StatusSet DEF CheckpointStatuses
    <2>4. \A c \in Starts \ {t} : Phase(c)' = Phase(c)
      BY <1>1, <1>2, <2>1, <2>2, <2>3, PhaseFrame DEF Working
    <2>5. Holders(t) = {}
      <3>. SUFFICES ASSUME NEW q \in Holders(t) PROVE FALSE
        OBVIOUS
      <3>1. q \in Callbacks /\ pc[q] \in Working /\ Of(q) = t /\ pc[q] \notin {"idle", "gone"}
        BY DEF Holders, Working
      <3>. QED  BY <1>4, <2>2, <3>1, CallbackKnows DEF Unclaimed
    <2>6. Phase(t) = "open"
      BY <1>2, <1>4, <2>2, <2>5 DEF Phase, Sound, Unclaimed
    <2>7. Phase(t)' \in {"held", "closed"}
      <3>1. CASE p \in {"exchange", "fail"}
        <4>1. Phase(t)' = Standing(p)
          BY <1>2, <2>1, <2>2, <3>1, PhaseOfHeldNext DEF Working
        <4>. QED  BY <3>1, <4>1 DEF Standing
      <3>2. CASE p = "idle"
        BY <1>2, <2>1, <2>3, <2>5, <3>2, PhaseOfReleased DEF Working, Unclaimed
      <3>. QED  BY <2>1, <3>1, <3>2
    <2>8. Allowed(t, Phase(t), Phase(t)')
      BY <1>1, <2>6, <2>7 DEF Allowed
    <2>. QED  BY <2>4, <2>8, MoveOne
  <1>. QED  BY <1>3, <1>4 DEF ClaimCheckpoint

\* The holder posts the code, and hears of it.
LEMMA ExchangeRefines ==
    ASSUME IInv, IInv', NEW k \in Callbacks, Exchange(k) \/ TokenAnswer(k)
    PROVE  [Once!Next]_<<Phases, exchanges>>
  <1>. DEFINE s == Of(k)
  <1>1. pc[k] \in {"exchange", "await"} /\ pc[k] \in Working /\ cp' = cp
    BY DEF Exchange, TokenAnswer, rows, Working
  <1>2. /\ k \in Requests /\ s \in Starts /\ s = job[k].about /\ cp[s].status \notin Unclaimed
        /\ exchanges[s] = 0
    BY <1>1, CallbackKnows DEF Fits
  <1>3. \A p : Goto(k, p) => Call(k, p, job[k])
    BY <1>2, GotoCalls
  <1>4. GiveTokens(s) => /\ exchanges' = [exchanges EXCEPT ![s] = 1]
                         /\ \A c \in Starts \ {s} : exchanges'[c] = exchanges[c]
    BY <1>2 DEF GiveTokens, IInv, TypeOK
  <1>5. CASE Exchange(k)
    <2>1. pc[k] = "exchange" /\ Call(k, "await", job[k]) /\ exchanges' = exchanges
      BY <1>3, <1>5 DEF Exchange, past
    <2>2. Allowed(s, Standing(pc[k]), Standing("await"))
      BY <2>1 DEF Allowed, Standing
    <2>. QED  BY <1>1, <1>2, <2>1, <2>2, HolderMoves DEF Working
  <1>6. CASE TokenAnswer(k)
    <2>1. pc[k] = "await"
      BY <1>6 DEF TokenAnswer
    <2>2. CASE GiveTokens(s) /\ Goto(k, "save")
      <3>1. Allowed(s, Standing(pc[k]), Standing("save"))
        BY <1>4, <2>1, <2>2 DEF Allowed, Standing
      <3>. QED  BY <1>1, <1>2, <1>3, <1>4, <2>2, <3>1, HolderMoves DEF Working
    <2>3. CASE Goto(k, "fail") /\ UNCHANGED exchanges
      <3>1. Allowed(s, Standing(pc[k]), Standing("fail"))
        BY <2>1, <2>3 DEF Allowed, Standing
      <3>. QED  BY <1>1, <1>2, <1>3, <2>3, <3>1, HolderMoves DEF Working
    <2>4. CASE (GiveTokens(s) \/ UNCHANGED exchanges) /\ Answer(k)
      <3>1. Allowed(s, Standing(pc[k]), "closed")
        BY <1>4, <2>1, <2>4 DEF Allowed, Standing
      <3>. QED  BY <1>1, <1>2, <1>4, <2>4, <3>1, AnswerCalls, HolderMoves
    <2>. QED  BY <1>6, <2>2, <2>3, <2>4 DEF TokenAnswer
  <1>. QED  BY <1>5, <1>6

\* A failure closes the state that its callback holds.
LEMMA FailRefines ==
    ASSUME IInv, IInv', NEW k \in Callbacks, Fail(k)
    PROVE  [Once!Next]_<<Phases, exchanges>>
  <1>. DEFINE s == Of(k)
  <1>1. /\ pc[k] \in {"fail", "deny"} /\ Answer(k) /\ exchanges' = exchanges
        /\ cp' = cp \/ (cp[s].status = "processing" /\ SetStatus(s, "failed"))
    BY DEF Fail
  <1>2. k \in Requests /\ s \in Starts
    BY <1>1, CallbackKnows
  <1>3. \A c \in Starts : c # s => cp'[c] = cp[c]
    BY <1>1, <1>2, StatusSet DEF CheckpointStatuses
  <1>4. cp[s].status \notin Unclaimed <=> cp'[s].status \notin Unclaimed
    BY <1>1, <1>2, StatusSet DEF CheckpointStatuses, Unclaimed
  <1>5. CASE pc[k] = "deny"
    <2>1. \A c \in Starts : cp'[c].status \in Unclaimed <=> cp[c].status \in Unclaimed
      BY <1>3, <1>4
    <2>2. Phases' = Phases
      BY <1>1, <1>2, <1>5, <2>1, AnswerCalls, QuietPhases DEF Working
    <2>. QED  BY <1>1, <2>2
  <1>6. CASE pc[k] = "fail"
    <2>1. pc[k] \in Working /\ cp[s].status \notin Unclaimed
      BY <1>6, CallbackKnows DEF Working
    <2>2. Allowed(s, Standing(pc[k]), "closed")
      BY <1>1, <1>6 DEF Allowed, Standing
    <2>. QED  BY <1>1, <1>3, <1>4, <2>1, <2>2, AnswerCalls, HolderMoves
  <1>. QED  BY <1>1, <1>5, <1>6

\* What follows the exchange leaves the state closed.
LEMMA EndRefines ==
    ASSUME IInv, IInv', NEW k \in Callbacks, SaveTokens(k) \/ Complete(k)
    PROVE  [Once!Next]_<<Phases, exchanges>>
  <1>. DEFINE s == Of(k)
  <1>1. /\ pc[k] \in {"save", "complete"} /\ pc[k] \in Working /\ exchanges' = exchanges
        /\ Answer(k) \/ Goto(k, "complete")
        /\ cp' = cp \/ (cp[s].status = "processing" /\ Connected(s))
    BY DEF SaveTokens, Complete, Working
  <1>2. k \in Requests /\ s \in Starts /\ cp[s].status \notin Unclaimed
    BY <1>1, CallbackKnows
  <1>3. (\A c \in Starts \ {s} : cp'[c] = cp[c]) /\ cp'[s].status \notin Unclaimed
    <2>1. CASE cp' = cp
      BY <1>2, <2>1
    <2>2. CASE Connected(s)
      <3>1. cp' = [cp EXCEPT ![s].status = "completed", ![s].consumed = TRUE]
        BY <2>2 DEF Connected
      <3>2. cp \in [Starts -> Checkpoint] /\ cp[s] \in Checkpoint
        BY <1>2 DEF IInv, TypeOK
      <3>3. cp'[s].status = "completed"
        BY <1>2, <3>1, <3>2 DEF Checkpoint
      <3>4. \A c \in Starts \ {s} : cp'[c] = cp[c]
        BY <3>1, <3>2
      <3>. QED  BY <3>3, <3>4 DEF Unclaimed
    <2>. QED  BY <1>1, <2>1, <2>2
  <1>4. CASE Answer(k)
    <2>1. Allowed(s, Standing(pc[k]), "closed")
      BY <1>1 DEF Allowed, Standing
    <2>. QED  BY <1>1, <1>3, <1>4, <2>1, AnswerCalls, HolderMoves
  <1>5. CASE Goto(k, "complete")
    <2>1. Call(k, "complete", job[k]) /\ job[k].about = s
      BY <1>2, <1>5, GotoCalls DEF Of
    <2>2. Allowed(s, Standing(pc[k]), Standing("complete"))
      BY <1>1 DEF Allowed, Standing
    <2>. QED  BY <1>1, <1>3, <2>1, <2>2, HolderMoves DEF Working
  <1>. QED  BY <1>1, <1>4, <1>5

\* A holder that dies leaves its state in doubt.
LEMMA CrashRefines ==
    ASSUME IInv, IInv', NEW r \in Requests, Crash(r)
    PROVE  [Once!Next]_<<Phases, exchanges>>
  <1>. DEFINE s == Of(r)
  <1>1. /\ Answer(r) /\ cp' = cp
        /\ exchanges' = exchanges \/ (pc[r] = "await" /\ GiveTokens(s))
    BY DEF Crash, rows
  <1>2. s \in Starts /\ Fits(r, pc[r], job[r])
    BY Locals
  <1>3. CASE pc[r] \notin Working
    <2>1. exchanges' = exchanges
      BY <1>1, <1>3 DEF Working
    <2>2. PICK p, j : p \in {"gone", "idle"} /\ Call(r, p, j)
      BY <1>1 DEF Answer
    <2>3. Phases' = Phases
      BY <1>1, <1>3, <2>1, <2>2, QuietPhases DEF Working
    <2>. QED  BY <2>1, <2>3
  <1>4. CASE pc[r] \in Working
    <2>1. r \in Callbacks
      BY <1>2, <1>4 DEF Fits, Role, Working
    <2>2. cp[s].status \notin Unclaimed
      BY <1>2, <1>4, Locals DEF Fits
    <2>3. pc[r] = "await" => exchanges[s] = 0
      BY <1>2, Locals DEF Fits
    <2>4. \/ exchanges' = exchanges
          \/ /\ pc[r] = "await" /\ exchanges' = [exchanges EXCEPT ![s] = 1]
             /\ \A c \in Starts \ {s} : exchanges'[c] = exchanges[c]
      BY <1>1, <1>2, <2>3 DEF GiveTokens, IInv, TypeOK
    <2>5. Allowed(s, Standing(pc[r]), "closed")
      BY <2>4 DEF Allowed, Standing
    <2>. QED  BY <1>1, <1>4, <2>1, <2>2, <2>4, <2>5, AnswerCalls, HolderMoves
  <1>. QED  BY <1>3, <1>4

\* Every step is a step, or a stutter, of OncePerKey.
LEMMA StepRefines == ASSUME IInv, IInv', [Next]_vars PROVE [Once!Next]_<<Phases, exchanges>>
  <1>1. ASSUME NEW s \in Starts, Starting(s) \/ Lapse(s) PROVE [Once!Next]_<<Phases, exchanges>>
    <2>1. CASE Starting(s)
      BY <2>1, StartingIsQuiet
    <2>2. CASE Lapse(s)
      BY <2>2 DEF Lapse, rows, past, Phases, Phase, Holders, Of
    <2>. QED  BY <1>1, <2>1, <2>2
  <1>2. ASSUME NEW k \in Callbacks, Callback(k) \/ \E s \in Starts : Arrive(k, s) \/ Denied(k, s)
        PROVE  [Once!Next]_<<Phases, exchanges>>
    <2>1. CASE \E s \in Starts : Arrive(k, s) \/ Denied(k, s)
      BY <2>1, ArriveIsQuiet
    <2>2. CASE Callback(k)
      BY <2>2, ClaimRefines, ExchangeRefines, FailRefines, EndRefines DEF Callback
    <2>. QED  BY <1>2, <2>1, <2>2
  <1>3. ASSUME NEW h \in Hands, ByHand(h) PROVE [Once!Next]_<<Phases, exchanges>>
    BY <1>3, HandIsQuiet, WriteRefines
  <1>4. ASSUME NEW r \in Requests, Crash(r) PROVE [Once!Next]_<<Phases, exchanges>>
    BY <1>4, CrashRefines
  <1>5. CASE UNCHANGED vars
    BY <1>5 DEF vars, Phases, Phase, Holders, Of
  <1>. QED  BY <1>1, <1>2, <1>3, <1>4, <1>5 DEF Next

\* The token exchange keeps the promise the publish ledger keeps.
THEOREM ExchangeImplementsOncePerKey == Spec => ImplementsOncePerKey
  <1>1. Init => Once!Init
    <2>. SUFFICES ASSUME Init PROVE Once!Init
      OBVIOUS
    <2>1. \A s \in Starts : Phase(s) = "open"
      <3>. SUFFICES ASSUME NEW s \in Starts PROVE Phase(s) = "open"
        OBVIOUS
      <3>1. exchanges[s] = 0 /\ cp[s].status = "none"
        BY DEF Init
      <3>2. Holders(s) = {}
        BY DEF Init, Holders, Working, Requests
      <3>. QED  BY <3>1, <3>2 DEF Phase
    <2>. QED  BY <2>1 DEF Once!Init, Init
  <1>2. IInv /\ IInv' /\ [Next]_vars => [Once!Next]_<<Phases, exchanges>>
    BY StepRefines
  <1>. QED  BY <1>1, <1>2, Invariant, PTL DEF Spec, ImplementsOncePerKey, Once!Spec, Phases
=============================================================================
