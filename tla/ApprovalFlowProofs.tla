------------------------- MODULE ApprovalFlowProofs -------------------------
(***************************************************************************)
(* ApprovalFlow for every set of approvals, drafts and requests: it uses   *)
(* the ledger as PinPublish specifies, so what is proved of PinPublish     *)
(* carries over; decisions are final; nothing unapproved is published.     *)
(***************************************************************************)
EXTENDS ApprovalFlow, PinPublishRefinement

-----------------------------------------------------------------------------
(* The ledger inside the flow                                               *)

\* A step of the flow is a step of the ledger or leaves the ledger alone.
LEMMA LedgerStep == ASSUME [FlowNext]_flowVars PROVE [Next]_vars
<1>1. ASSUME NEW r \in Requests, Guard(r) PROVE Next
  <2>1. job[r] \in Keys /\ Resume(r, job[r])
    BY <1>1 DEF Guard
  <2> QED
    BY <2>1 DEF Next
<1>2. ASSUME InLedger PROVE Next
  BY <1>2 DEF InLedger, Next
<1>3. ASSUME UNCHANGED flowVars PROVE UNCHANGED vars
  BY <1>3 DEF flowVars
<1>4. ASSUME NEW r \in Requests,
             \/ \E d \in Drafts : Submit(r, d)
             \/ \E k \in Keys : Approve(r, k)
             \/ CreateRequest(r) \/ Load(r) \/ SendToMeta(r) \/ Stop(r)
      PROVE  UNCHANGED vars
  BY <1>4 DEF Submit, Approve, CreateRequest, Load, SendToMeta, Stop
<1>5. ASSUME NEW k \in Keys, Ask(k) \/ RejectRequest(k) \/ Expire(k) \/ Lapse(k)
      PROVE  UNCHANGED vars
  BY <1>5 DEF Ask, RejectRequest, Expire, Lapse
<1> QED
  BY <1>1, <1>2, <1>3, <1>4, <1>5 DEF FlowNext

\* The handlers use the ledger the way PinPublish specifies.
THEOREM LedgerAsSpecifiedAlways == FlowSpec => LedgerAsSpecified
<1>1. FlowInit => Init
  BY DEF FlowInit
<1> QED
  BY <1>1, LedgerStep, PTL DEF FlowSpec, LedgerAsSpecified, Spec

\* Approved twice, by two requests, or after a crash: one approval, one Pin.
THEOREM FlowAtMostOnePin == FlowSpec => []AtMostOnePin
BY LedgerAsSpecifiedAlways, AtMostOnePinAlways DEF LedgerAsSpecified

\* However the handlers race for an approval, the ledger keeps its promises to it: a
\* row tells the truth, a Pin is asked for only while there is none, a success is real,
\* no doubt is retried, and each approval is an operation that happens at most once.
THEOREM FlowKeepsTheLedger ==
    FlowSpec => /\ []RowTellsTheTruth /\ []SendIsSafe /\ []SuccessIsReal
                /\ NoRetryAfterDoubt /\ ImplementsOncePerKey
BY LedgerAsSpecifiedAlways, RowTellsTheTruthAlways, SendIsSafeAlways, SuccessIsRealAlways,
   NoRetryAfterDoubtAlways, Refinement DEF LedgerAsSpecified

-----------------------------------------------------------------------------
(* Types                                                                    *)

\* Each action gives the variables it writes a value of their type.
LEMMA StepTypeFlow == ASSUME TypeOK, TypeOKFlow, [FlowNext]_flowVars PROVE TypeOKFlow'
<1> USE FlowAssumption DEF TypeOKFlow, ApprovalStatuses, Stages
<1>1. ASSUME NEW r \in Requests, NEW d \in Drafts, Submit(r, d) PROVE TypeOKFlow'
  BY <1>1 DEF Submit, Free, To, vars
<1>2. ASSUME NEW r \in Requests, NEW k \in Keys, Approve(r, k) PROVE TypeOKFlow'
  BY <1>2 DEF Approve, Decided, Free, To, vars
<1>3. ASSUME NEW r \in Requests, CreateRequest(r) PROVE TypeOKFlow'
  BY <1>3 DEF CreateRequest, Insert, Finish, vars
<1>4. ASSUME NEW r \in Requests, Load(r) PROVE TypeOKFlow'
  BY <1>4 DEF Load, To, Finish, vars
<1>5. ASSUME NEW r \in Requests, Guard(r) PROVE TypeOKFlow'
  BY <1>5 DEF Guard, Resume, Goto, Return, Finish, TypeOK
<1>6. ASSUME NEW r \in Requests, SendToMeta(r) PROVE TypeOKFlow'
  <2>1. messages' \in [Keys -> 0..MaxMessages]
    BY <1>6 DEF SendToMeta
  <2> QED
    BY <1>6, <2>1 DEF SendToMeta, Finish, vars
<1>7. ASSUME NEW r \in Requests, Stop(r) PROVE TypeOKFlow'
  BY <1>7 DEF Stop, Finish, vars
<1>8. ASSUME NEW k \in Keys, Ask(k) \/ RejectRequest(k) \/ Expire(k) \/ Lapse(k)
      PROVE  TypeOKFlow'
  BY <1>8 DEF Ask, Insert, RejectRequest, Expire, Lapse, Decided, vars
<1>9. ASSUME InLedger PROVE TypeOKFlow'
  <2>1. ASSUME NEW r \in Requests, Publish(r) \/ Crash(r)
        PROVE  \A q \in Requests : pc[q] = "idle" => pc'[q] = "idle"
    BY <2>1 DEF Publish, Refuse, Claim, ReadExisting, Reclaim, Board, SendPost, Timeout,
                Settle, Crash, Decide, Goto, Return, TypeOK
  <2>2. ASSUME NEW m \in posts, Create(m) \/ Reject(m) \/ Drop(m)
        PROVE  \A q \in Requests : pc[q] = "idle" => pc'[q] = "idle"
    BY <2>2 DEF Create, Reject, Drop, Awaits, Decide, Goto, Return, TypeOK, Post
  <2>3. \A q \in Requests : stage[q] # "free" => pc'[q] = "idle"
    BY <1>9, <2>1, <2>2 DEF InLedger, Pinterest
  <2> QED
    BY <1>9, <2>3 DEF InLedger, flow
<1>10. ASSUME UNCHANGED flowVars PROVE TypeOKFlow'
  BY <1>10 DEF flowVars, flow, vars
<1> QED
  BY <1>1, <1>2, <1>3, <1>4, <1>5, <1>6, <1>7, <1>8, <1>9, <1>10 DEF FlowNext

\* Type correctness of the gateway, the handlers and the service.
THEOREM FlowTypeCorrect == FlowSpec => []TypeOKFlow
<1>1. FlowInit => TypeOKFlow
  BY FlowAssumption DEF FlowInit, Init, TypeOKFlow, ApprovalStatuses, Stages
<1>2. FlowSpec => []TypeOK
  BY LedgerAsSpecifiedAlways, TypeCorrect DEF LedgerAsSpecified
<1> QED
  BY <1>1, <1>2, StepTypeFlow, PTL DEF FlowSpec

-----------------------------------------------------------------------------
(* Decisions                                                                *)

FinalDecisions ==
    \A k \in Keys : approval[k] \in {"approved", "rejected", "expired"}
                    => approval'[k] = approval[k]

\* Every write of a status compares it with "pending" or "absent" first.
LEMMA StepDecisions == ASSUME TypeOKFlow, [FlowNext]_flowVars PROVE FinalDecisions
BY DEF TypeOKFlow, FinalDecisions, FlowNext, flowVars, flow, Submit, Approve, CreateRequest,
       Insert, Decided, Load, Guard, SendToMeta, Stop, Ask, RejectRequest, Expire, Lapse,
       InLedger

\* An approve, a reject and an expiry that race: one wins, and for good.
THEOREM DecisionsAreFinalAlways == FlowSpec => DecisionsAreFinal
<1>1. TypeOKFlow /\ [FlowNext]_flowVars => [FinalDecisions]_flowVars
  BY StepDecisions
<1> QED
  BY <1>1, FlowTypeCorrect, PTL DEF FlowSpec, DecisionsAreFinal, FinalDecisions

-----------------------------------------------------------------------------
(* Only what was approved is published                                      *)

\* A step touches only approvals that are touched already, or approved.
LEMMA StepTouched ==
    ASSUME TypeOK, TypeOKFlow, [FlowNext]_flowVars
    PROVE  \A k \in Keys : Touched(k)' => Touched(k) \/ approval[k] = "approved"
<1> USE DEF TypeOK, TypeOKFlow, Touched, Busy
<1>1. ASSUME UNCHANGED <<vars, messages>>,
             \A r \in Requests : stage'[r] = "guard" => stage[r] = "guard" /\ job'[r] = job[r]
      PROVE  \A k \in Keys : Touched(k)' => Touched(k)
  BY <1>1 DEF vars
<1>2. ASSUME NEW r \in Requests, NEW d \in Drafts, Submit(r, d)
      PROVE  \A k \in Keys : Touched(k)' => Touched(k)
  BY <1>1, <1>2 DEF Submit, To
<1>3. ASSUME NEW r \in Requests, NEW j \in Keys, Approve(r, j)
      PROVE  \A k \in Keys : Touched(k)' => Touched(k)
  BY <1>1, <1>3 DEF Approve, To
<1>4. ASSUME NEW r \in Requests, CreateRequest(r) \/ Stop(r)
      PROVE  \A k \in Keys : Touched(k)' => Touched(k)
  BY <1>1, <1>4 DEF CreateRequest, Stop, Finish
<1>5. ASSUME NEW j \in Keys, Ask(j) \/ RejectRequest(j) \/ Expire(j) \/ Lapse(j)
      PROVE  \A k \in Keys : Touched(k)' => Touched(k)
  BY <1>1, <1>5 DEF Ask, RejectRequest, Expire, Lapse
<1>6. ASSUME NEW r \in Requests, Load(r)
      PROVE  \A k \in Keys : Touched(k)' => Touched(k) \/ approval[k] = "approved"
  BY <1>6 DEF Load, To, Finish, vars
<1>7. ASSUME NEW r \in Requests, Guard(r)
      PROVE  \A k \in Keys : Touched(k)' => Touched(k)
  BY <1>7 DEF Guard, Resume, Goto, Return, Finish
<1>8. ASSUME NEW r \in Requests, SendToMeta(r)
      PROVE  \A k \in Keys : Touched(k)' => Touched(k)
  BY <1>8 DEF SendToMeta, Finish, vars
<1>9. ASSUME NEW r \in Requests, Publish(r) \/ Crash(r), UNCHANGED flow
      PROVE  \A k \in Keys : Touched(k)' => Touched(k)
  <2>1. pc[r] # "idle" /\ key' = key /\ pins' = pins
        /\ \A q \in Requests \ {r} : pc'[q] = pc[q]
    BY <1>9 DEF Publish, Refuse, Claim, ReadExisting, Reclaim, Board, SendPost, Timeout,
                Settle, Crash, Decide, Goto, Return
  <2>2. \A k \in Keys \ {key[r]} : row'[k] = row[k]
    BY <1>9 DEF Publish, Refuse, Claim, ReadExisting, Reclaim, Board, SendPost, Timeout,
                Settle, Crash, SetRow, Transition
  <2>3. \A m \in posts' : m \in posts \/ m.key = key[r]
    BY <1>9 DEF Publish, Refuse, Claim, ReadExisting, Reclaim, Board, SendPost, Timeout,
                Settle, Crash
  <2>4. Touched(key[r])
    BY <2>1
  <2> QED
    BY <1>9, <2>1, <2>2, <2>3, <2>4 DEF flow
<1>10. ASSUME NEW m \in posts, Create(m) \/ Reject(m) \/ Drop(m), UNCHANGED flow
       PROVE  \A k \in Keys : Touched(k)' => Touched(k)
  <2>1. row' = row /\ key' = key /\ posts' \in SUBSET posts /\ m.key \in Keys
        /\ \A k \in Keys \ {m.key} : pins'[k] = pins[k]
    BY <1>10 DEF Create, Reject, Drop, Post
  <2>2. \A q \in Requests : pc'[q] # "idle" => pc[q] # "idle"
    BY <1>10 DEF Create, Reject, Drop, Awaits, Decide, Goto, Return
  <2> QED
    BY <1>10, <2>1, <2>2 DEF flow
<1> QED
  BY <1>1, <1>2, <1>3, <1>4, <1>5, <1>6, <1>7, <1>8, <1>9, <1>10
     DEF FlowNext, InLedger, Pinterest, flowVars, flow

\* Nothing is claimed, sent or published for a request nobody approved, and no
\* approval is withdrawn under a publish that is under way.
THEOREM OnlyApprovedPublishesAlways == FlowSpec => []OnlyApprovedPublishes
<1>1. FlowInit => OnlyApprovedPublishes
  BY DEF FlowInit, Init, OnlyApprovedPublishes, Touched, Busy
<1>2. TypeOK /\ TypeOKFlow /\ OnlyApprovedPublishes /\ [FlowNext]_flowVars
      => OnlyApprovedPublishes'
  BY StepTouched, StepDecisions DEF OnlyApprovedPublishes, FinalDecisions
<1>3. FlowSpec => []TypeOK
  BY LedgerAsSpecifiedAlways, TypeCorrect DEF LedgerAsSpecified
<1> QED
  BY <1>1, <1>2, <1>3, FlowTypeCorrect, PTL DEF FlowSpec

-----------------------------------------------------------------------------
(* What has expired is not begun again                                      *)

\* Row, messages and requests of k stay out of reach.
Quiet(k) == row'[k] = row[k] /\ messages'[k] = messages[k] /\ ~Busy(k)'

\* The ledger writes the row of the key a request works on, and no other.
LEMMA LedgerIsOwn ==
    ASSUME TypeOK, TypeOKFlow, InLedger, NEW k \in Keys, ~Busy(k)
    PROVE  Quiet(k)
<1> USE DEF TypeOK, TypeOKFlow, Busy
<1>1. ASSUME NEW r \in Requests, Publish(r) \/ Crash(r)
      PROVE  row'[k] = row[k] /\ \A q \in Requests : pc'[q] = "idle" \/ key'[q] # k
  <2>1. pc[r] # "idle" /\ key' = key /\ \A q \in Requests \ {r} : pc'[q] = pc[q]
    BY <1>1 DEF Publish, Refuse, Claim, ReadExisting, Reclaim, Board, SendPost, Timeout,
                Settle, Crash, Decide, Goto, Return
  <2>2. \A j \in Keys \ {key[r]} : row'[j] = row[j]
    BY <1>1 DEF Publish, Refuse, Claim, ReadExisting, Reclaim, Board, SendPost, Timeout,
                Settle, Crash, SetRow, Transition
  <2>3. key[r] # k
    BY <2>1
  <2> QED
    BY <2>1, <2>2, <2>3
<1>2. ASSUME NEW m \in posts, Create(m) \/ Reject(m) \/ Drop(m)
      PROVE  row'[k] = row[k] /\ \A q \in Requests : pc'[q] = "idle" \/ key'[q] # k
  <2>1. row' = row /\ key' = key
    BY <1>2 DEF Create, Reject, Drop
  <2>2. \A q \in Requests : pc'[q] # "idle" => pc[q] # "idle"
    BY <1>2 DEF Create, Reject, Drop, Awaits, Decide, Goto, Return
  <2> QED
    BY <2>1, <2>2
<1> QED
  BY <1>1, <1>2 DEF InLedger, Pinterest, Quiet, flow

\* A request gets past the checks of resume() only while the approval is not late.
LEMMA StepLapsed ==
    ASSUME TypeOK, TypeOKFlow, [FlowNext]_flowVars, NEW k \in Keys, late[k], ~Busy(k)
    PROVE  Quiet(k)
<1> USE DEF TypeOK, TypeOKFlow, Busy, Quiet
<1>1. ASSUME UNCHANGED <<vars, messages>>,
             \A r \in Requests : stage'[r] = "guard" => stage[r] = "guard" /\ job'[r] = job[r]
      PROVE  Quiet(k)
  BY <1>1 DEF vars
<1>2. ASSUME NEW r \in Requests, NEW d \in Drafts, Submit(r, d) PROVE Quiet(k)
  BY <1>1, <1>2 DEF Submit, To
<1>3. ASSUME NEW r \in Requests, NEW j \in Keys, Approve(r, j) PROVE Quiet(k)
  BY <1>1, <1>3 DEF Approve, To
<1>4. ASSUME NEW r \in Requests, CreateRequest(r) \/ Stop(r) PROVE Quiet(k)
  BY <1>1, <1>4 DEF CreateRequest, Stop, Finish
<1>5. ASSUME NEW j \in Keys, Ask(j) \/ RejectRequest(j) \/ Expire(j) \/ Lapse(j) PROVE Quiet(k)
  BY <1>1, <1>5 DEF Ask, RejectRequest, Expire, Lapse
<1>6. ASSUME NEW r \in Requests, Load(r) PROVE Quiet(k)
  BY <1>6 DEF Load, To, Finish, vars
<1>7. ASSUME NEW r \in Requests, Guard(r) PROVE Quiet(k)
  BY <1>7 DEF Guard, Resume, Goto, Return, Finish
<1>8. ASSUME NEW r \in Requests, SendToMeta(r) PROVE Quiet(k)
  BY <1>8 DEF SendToMeta, Finish, vars
<1>9. CASE UNCHANGED flowVars
  BY <1>1, <1>9 DEF flowVars, flow
<1> QED
  BY <1>2, <1>3, <1>4, <1>5, <1>6, <1>7, <1>8, <1>9, LedgerIsOwn DEF FlowNext

\* After its expiry an approval can be approved again and again: no row, no message
\* and no request of it moves, unless a resume that was past the checks still runs.
THEOREM LapsedStaysQuietAlways == FlowSpec => LapsedStaysQuiet
<1>1. TypeOK /\ TypeOKFlow /\ [FlowNext]_flowVars =>
        [\A k \in Keys : late[k] /\ ~Busy(k) =>
            row'[k] = row[k] /\ messages'[k] = messages[k] /\ ~Busy(k)']_flowVars
  BY StepLapsed DEF Quiet
<1>2. FlowSpec => []TypeOK
  BY LedgerAsSpecifiedAlways, TypeCorrect DEF LedgerAsSpecified
<1> QED
  BY <1>1, <1>2, FlowTypeCorrect, PTL DEF FlowSpec, LapsedStaysQuiet
=============================================================================
