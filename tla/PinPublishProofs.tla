-------------------------- MODULE PinPublishProofs --------------------------
(***************************************************************************)
(* PinPublish for every set of keys and requests and every choice of       *)
(* faults: the ledger's safety properties are consequences of one          *)
(* inductive invariant.                                                    *)
(***************************************************************************)
EXTENDS PinPublish, TLAPS

\* OneOwner gives a key to one request, SendIsSafe says what that request and
\* the create requests still under way may assume, and RowTellsTheTruth ties
\* the row to the Pins.  None is inductive alone.
IInv == TypeOK /\ AtMostOnePin /\ RowTellsTheTruth /\ OneOwner /\ SendIsSafe

\* The invariant holds before the first request.
LEMMA InitIInv == Init => IInv
BY DEF Init, IInv, TypeOK, AtMostOnePin, RowTellsTheTruth, OneOwner, Owners,
       SendIsSafe, MaySend, Row, Statuses, Steps, Answers, NoPin

\* The state guard only reads.
LEMMA ResumeIInv ==
    ASSUME IInv, NEW r \in Requests, NEW k \in Keys, Resume(r, k)
    PROVE  IInv'
<1> USE DEF IInv, Resume, Goto, Return
<1>0. pc'[r] \in {"claim", "idle"} /\ GuardAnswer(k) \in Answers \cup {"proceed"}
  BY DEF TypeOK, GuardAnswer, Answers
<1>1. TypeOK'
  BY <1>0 DEF TypeOK, Row, Statuses, Steps, Answers, Post, NoPin
<1>2. AtMostOnePin'
  BY <1>0 DEF AtMostOnePin, SendIsSafe, MaySend, TypeOK, Post
<1>3. RowTellsTheTruth'
  BY <1>0 DEF RowTellsTheTruth, OneOwner, Owners, SendIsSafe, MaySend, TypeOK, Row, Post, NoPin
<1>4. OneOwner'
  BY <1>0 DEF OneOwner, Owners, TypeOK, Post, Row
<1>5. SendIsSafe'
  BY <1>0 DEF SendIsSafe, MaySend, OneOwner, Owners, RowTellsTheTruth, TypeOK, Row, Post, NoPin
<1> QED BY <1>1, <1>2, <1>3, <1>4, <1>5

\* A refusal before the claim touches no row.
LEMMA RefuseIInv ==
    ASSUME IInv, NEW r \in Requests, Refuse(r)
    PROVE  IInv'
<1> USE DEF IInv, Refuse, Goto, Return
<1>1. TypeOK'
  BY DEF TypeOK, Row, Statuses, Steps, Answers, Post, NoPin
<1>2. AtMostOnePin'
  BY DEF AtMostOnePin, SendIsSafe, MaySend, TypeOK, Post
<1>3. RowTellsTheTruth'
  BY DEF RowTellsTheTruth, OneOwner, Owners, SendIsSafe, MaySend, TypeOK, Row, Post, NoPin
<1>4. OneOwner'
  BY DEF OneOwner, Owners, TypeOK, Post, Row
<1>5. SendIsSafe'
  BY DEF SendIsSafe, MaySend, OneOwner, Owners, RowTellsTheTruth, TypeOK, Row, Post, NoPin
<1> QED BY <1>1, <1>2, <1>3, <1>4, <1>5

\* The insert makes the caller the owner of a row nobody had.
LEMMA ClaimIInv ==
    ASSUME IInv, NEW r \in Requests, Claim(r)
    PROVE  IInv'
<1> USE DEF IInv, Claim, Goto, Return, SetRow
<1>1. TypeOK'
  <2>1. row' \in [Keys -> Row]
    BY DEF TypeOK, Row, Statuses, NoPin
  <2>2. pc' \in [Requests -> Steps] /\ answer' \in [Requests -> Answers]
    BY DEF TypeOK, Steps, Answers
  <2> QED
    BY <2>1, <2>2 DEF TypeOK
<1>2. AtMostOnePin'
  BY DEF AtMostOnePin, SendIsSafe, MaySend, TypeOK, Post
<1>3. RowTellsTheTruth'
  BY DEF RowTellsTheTruth, OneOwner, Owners, SendIsSafe, MaySend, TypeOK, Row, Post, NoPin
<1>4. OneOwner'
  BY DEF OneOwner, Owners, TypeOK, Post, Row
<1>5. SendIsSafe'
  BY DEF SendIsSafe, MaySend, OneOwner, Owners, RowTellsTheTruth, TypeOK, Row, Post, NoPin
<1> QED BY <1>1, <1>2, <1>3, <1>4, <1>5

\* Reading the row of another request changes nothing.
LEMMA ReadExistingIInv ==
    ASSUME IInv, NEW r \in Requests, ReadExisting(r)
    PROVE  IInv'
<1> USE DEF IInv, ReadExisting, Goto, Return
<1>1. TypeOK'
  BY DEF TypeOK, Row, Statuses, Steps, Answers, Post, NoPin
<1>2. AtMostOnePin'
  BY DEF AtMostOnePin, SendIsSafe, MaySend, TypeOK, Post
<1>3. RowTellsTheTruth'
  BY DEF RowTellsTheTruth, OneOwner, Owners, SendIsSafe, MaySend, TypeOK, Row, Post, NoPin
<1>4. OneOwner'
  BY DEF OneOwner, Owners, TypeOK, Post, Row
<1>5. SendIsSafe'
  BY DEF SendIsSafe, MaySend, OneOwner, Owners, RowTellsTheTruth, TypeOK, Row, Post, NoPin
<1> QED BY <1>1, <1>2, <1>3, <1>4, <1>5

\* The takeover compares the status, so one retry becomes the owner.
LEMMA ReclaimIInv ==
    ASSUME IInv, NEW r \in Requests, Reclaim(r)
    PROVE  IInv'
<1> USE DEF IInv, Reclaim, Goto, Return, Transition
<1>1. TypeOK'
  <2>1. row' \in [Keys -> Row]
    BY DEF TypeOK, Row, Statuses, NoPin
  <2>2. pc' \in [Requests -> Steps] /\ answer' \in [Requests -> Answers]
    BY DEF TypeOK, Steps, Answers
  <2> QED
    BY <2>1, <2>2 DEF TypeOK
<1>2. AtMostOnePin'
  BY DEF AtMostOnePin, SendIsSafe, MaySend, TypeOK, Post
<1>3. RowTellsTheTruth'
  BY DEF RowTellsTheTruth, OneOwner, Owners, SendIsSafe, MaySend, TypeOK, Row, Post, NoPin
<1>4. OneOwner'
  BY DEF OneOwner, Owners, TypeOK, Post, Row
<1>5. SendIsSafe'
  BY DEF SendIsSafe, MaySend, OneOwner, Owners, RowTellsTheTruth, TypeOK, Row, Post, NoPin
<1> QED BY <1>1, <1>2, <1>3, <1>4, <1>5

\* The board lookup asks for no Pin.
LEMMA BoardIInv ==
    ASSUME IInv, NEW r \in Requests, Board(r)
    PROVE  IInv'
<1> USE DEF IInv, Board, Goto, Return, Decide
<1>1. TypeOK'
  <2>1. verdict' \in [Requests -> Row]
    BY DEF TypeOK, Row, Statuses, Post, NoPin
  <2>2. pc' \in [Requests -> Steps] /\ answer' \in [Requests -> Answers]
    BY DEF TypeOK, Steps, Answers, Post
  <2>3. posts' \in SUBSET Post /\ pins' \in [Keys -> Nat]
    BY DEF TypeOK, Post
  <2> QED
    BY <2>1, <2>2, <2>3 DEF TypeOK
<1>2. AtMostOnePin'
  BY DEF AtMostOnePin, SendIsSafe, MaySend, TypeOK, Post
<1>3. RowTellsTheTruth'
  BY DEF RowTellsTheTruth, OneOwner, Owners, SendIsSafe, MaySend, TypeOK, Row, Post, NoPin
<1>4. OneOwner'
  BY DEF OneOwner, Owners, TypeOK, Post, Row
<1>5. SendIsSafe'
  BY DEF SendIsSafe, MaySend, OneOwner, Owners, RowTellsTheTruth, TypeOK, Row, Post, NoPin
<1> QED BY <1>1, <1>2, <1>3, <1>4, <1>5

\* The owner sends while no Pin and no other post exist.
LEMMA SendPostIInv ==
    ASSUME IInv, NEW r \in Requests, SendPost(r)
    PROVE  IInv'
<1> USE DEF IInv, SendPost, Goto, Return
<1>1. TypeOK'
  BY DEF TypeOK, Row, Statuses, Steps, Answers, Post, NoPin
<1>2. AtMostOnePin'
  BY DEF AtMostOnePin, SendIsSafe, MaySend, TypeOK, Post
<1>3. RowTellsTheTruth'
  BY DEF RowTellsTheTruth, OneOwner, Owners, SendIsSafe, MaySend, TypeOK, Row, Post, NoPin
<1>4. OneOwner'
  BY DEF OneOwner, Owners, TypeOK, Post, Row
<1>5. SendIsSafe'
  BY DEF SendIsSafe, MaySend, OneOwner, Owners, RowTellsTheTruth, TypeOK, Row, Post, NoPin
<1> QED BY <1>1, <1>2, <1>3, <1>4, <1>5

\* A timeout is never taken for a refusal.
LEMMA TimeoutIInv ==
    ASSUME IInv, NEW r \in Requests, Timeout(r)
    PROVE  IInv'
<1> USE DEF IInv, Timeout, Goto, Return, Decide
<1>1. TypeOK'
  <2>1. verdict' \in [Requests -> Row]
    BY DEF TypeOK, Row, Statuses, Post, NoPin
  <2>2. pc' \in [Requests -> Steps] /\ answer' \in [Requests -> Answers]
    BY DEF TypeOK, Steps, Answers, Post
  <2>3. posts' \in SUBSET Post /\ pins' \in [Keys -> Nat]
    BY DEF TypeOK, Post
  <2> QED
    BY <2>1, <2>2, <2>3 DEF TypeOK
<1>2. AtMostOnePin'
  BY DEF AtMostOnePin, SendIsSafe, MaySend, TypeOK, Post
<1>3. RowTellsTheTruth'
  BY DEF RowTellsTheTruth, OneOwner, Owners, SendIsSafe, MaySend, TypeOK, Row, Post, NoPin
<1>4. OneOwner'
  BY DEF OneOwner, Owners, TypeOK, Post, Row
<1>5. SendIsSafe'
  BY DEF SendIsSafe, MaySend, OneOwner, Owners, RowTellsTheTruth, TypeOK, Row, Post, NoPin
<1> QED BY <1>1, <1>2, <1>3, <1>4, <1>5

\* The owner writes what it knows and gives the row up.
LEMMA SettleIInv ==
    ASSUME IInv, NEW r \in Requests, Settle(r)
    PROVE  IInv'
<1> USE DEF IInv, Settle, Goto, Return, Transition
<1>1. TypeOK'
  <2>1. row' \in [Keys -> Row]
    BY DEF TypeOK, Row, Statuses, NoPin
  <2>2. pc' \in [Requests -> Steps] /\ answer' \in [Requests -> Answers]
    BY DEF TypeOK, Steps, Answers
  <2> QED
    BY <2>1, <2>2 DEF TypeOK
<1>2. AtMostOnePin'
  BY DEF AtMostOnePin, SendIsSafe, MaySend, TypeOK, Post
<1>3. RowTellsTheTruth'
  BY DEF RowTellsTheTruth, OneOwner, Owners, SendIsSafe, MaySend, TypeOK, Row, Post, NoPin
<1>4. OneOwner'
  BY DEF OneOwner, Owners, TypeOK, Post, Row
<1>5. SendIsSafe'
  BY DEF SendIsSafe, MaySend, OneOwner, Owners, RowTellsTheTruth, TypeOK, Row, Post, NoPin
<1> QED BY <1>1, <1>2, <1>3, <1>4, <1>5

\* A crash leaves a claimed row without an owner.
LEMMA CrashIInv ==
    ASSUME IInv, NEW r \in Requests, Crash(r)
    PROVE  IInv'
<1> USE DEF IInv, Crash, Goto, Return
<1>1. TypeOK'
  BY DEF TypeOK, Row, Statuses, Steps, Answers, Post, NoPin
<1>2. AtMostOnePin'
  BY DEF AtMostOnePin, SendIsSafe, MaySend, TypeOK, Post
<1>3. RowTellsTheTruth'
  BY DEF RowTellsTheTruth, OneOwner, Owners, SendIsSafe, MaySend, TypeOK, Row, Post, NoPin
<1>4. OneOwner'
  BY DEF OneOwner, Owners, TypeOK, Post, Row
<1>5. SendIsSafe'
  BY DEF SendIsSafe, MaySend, OneOwner, Owners, RowTellsTheTruth, TypeOK, Row, Post, NoPin
<1> QED BY <1>1, <1>2, <1>3, <1>4, <1>5

\* Pinterest creates a Pin for the one post of the key.
LEMMA CreateIInv ==
    ASSUME IInv, NEW m \in posts, Create(m)
    PROVE  IInv'
<1> USE DEF IInv, Create, Awaits, Decide, Goto, Return
<1>1. TypeOK'
  <2>0. /\ m.req \in Requests /\ pins[m.key] + 1 \in Nat
        /\ \A s \in Statuses, p \in Nat : [status |-> s, pin_id |-> p] \in Row
    BY DEF TypeOK, Post, Row
  <2>1. verdict' \in [Requests -> Row]
    BY <2>0 DEF TypeOK, Statuses, NoPin
  <2>2. pc' \in [Requests -> Steps] /\ answer' \in [Requests -> Answers]
    BY DEF TypeOK, Steps, Answers, Post
  <2>3. posts' \in SUBSET Post /\ pins' \in [Keys -> Nat]
    BY DEF TypeOK, Post
  <2> QED
    BY <2>1, <2>2, <2>3 DEF TypeOK
<1>2. AtMostOnePin'
  BY DEF AtMostOnePin, SendIsSafe, MaySend, TypeOK, Post
<1>3. RowTellsTheTruth'
  BY DEF RowTellsTheTruth, OneOwner, Owners, SendIsSafe, MaySend, TypeOK, Row, Post, NoPin
<1>4. OneOwner'
  BY DEF OneOwner, Owners, TypeOK, Post, Row
<1>5. SendIsSafe'
  BY DEF SendIsSafe, MaySend, OneOwner, Owners, RowTellsTheTruth, TypeOK, Row, Post, NoPin
<1> QED BY <1>1, <1>2, <1>3, <1>4, <1>5

\* A refused post leaves no Pin.
LEMMA RejectIInv ==
    ASSUME IInv, NEW m \in posts, Reject(m)
    PROVE  IInv'
<1> USE DEF IInv, Reject, Awaits, Decide, Goto, Return
<1>1. TypeOK'
  <2>1. verdict' \in [Requests -> Row]
    BY DEF TypeOK, Row, Statuses, Post, NoPin
  <2>2. pc' \in [Requests -> Steps] /\ answer' \in [Requests -> Answers]
    BY DEF TypeOK, Steps, Answers, Post
  <2>3. posts' \in SUBSET Post /\ pins' \in [Keys -> Nat]
    BY DEF TypeOK, Post
  <2> QED
    BY <2>1, <2>2, <2>3 DEF TypeOK
<1>2. AtMostOnePin'
  BY DEF AtMostOnePin, SendIsSafe, MaySend, TypeOK, Post
<1>3. RowTellsTheTruth'
  BY DEF RowTellsTheTruth, OneOwner, Owners, SendIsSafe, MaySend, TypeOK, Row, Post, NoPin
<1>4. OneOwner'
  BY DEF OneOwner, Owners, TypeOK, Post, Row
<1>5. SendIsSafe'
  BY DEF SendIsSafe, MaySend, OneOwner, Owners, RowTellsTheTruth, TypeOK, Row, Post, NoPin
<1> QED BY <1>1, <1>2, <1>3, <1>4, <1>5

\* A lost post leaves no Pin, and a doubt.
LEMMA DropIInv ==
    ASSUME IInv, NEW m \in posts, Drop(m)
    PROVE  IInv'
<1> USE DEF IInv, Drop, Awaits, Decide, Goto, Return
<1>1. TypeOK'
  <2>1. verdict' \in [Requests -> Row]
    BY DEF TypeOK, Row, Statuses, Post, NoPin
  <2>2. pc' \in [Requests -> Steps] /\ answer' \in [Requests -> Answers]
    BY DEF TypeOK, Steps, Answers, Post
  <2>3. posts' \in SUBSET Post /\ pins' \in [Keys -> Nat]
    BY DEF TypeOK, Post
  <2> QED
    BY <2>1, <2>2, <2>3 DEF TypeOK
<1>2. AtMostOnePin'
  BY DEF AtMostOnePin, SendIsSafe, MaySend, TypeOK, Post
<1>3. RowTellsTheTruth'
  BY DEF RowTellsTheTruth, OneOwner, Owners, SendIsSafe, MaySend, TypeOK, Row, Post, NoPin
<1>4. OneOwner'
  BY DEF OneOwner, Owners, TypeOK, Post, Row
<1>5. SendIsSafe'
  BY DEF SendIsSafe, MaySend, OneOwner, Owners, RowTellsTheTruth, TypeOK, Row, Post, NoPin
<1> QED BY <1>1, <1>2, <1>3, <1>4, <1>5

\* The invariant speaks of nothing but the variables.
LEMMA StutterIInv == ASSUME IInv, UNCHANGED vars PROVE IInv'
BY DEF IInv, vars, TypeOK, AtMostOnePin, RowTellsTheTruth, OneOwner, Owners, SendIsSafe, MaySend

\* Every step preserves the invariant, one lemma above for each action.
LEMMA NextIInv == ASSUME IInv, [Next]_vars PROVE IInv'
<1>1. ASSUME NEW r \in Requests, NEW k \in Keys, Resume(r, k) PROVE IInv'
  BY <1>1, ResumeIInv
<1>2. ASSUME NEW r \in Requests, Publish(r) PROVE IInv'
  BY <1>2, RefuseIInv, ClaimIInv, ReadExistingIInv, ReclaimIInv, BoardIInv,
     SendPostIInv, TimeoutIInv, SettleIInv DEF Publish
<1>3. ASSUME NEW r \in Requests, Crash(r) PROVE IInv'
  BY <1>3, CrashIInv
<1>4. ASSUME NEW m \in posts, Create(m) \/ Reject(m) \/ Drop(m) PROVE IInv'
  BY <1>4, CreateIInv, RejectIInv, DropIInv
<1> QED
  BY <1>1, <1>2, <1>3, <1>4, StutterIInv DEF Next, Pinterest

\* The inductive invariant of the publish path.
THEOREM Invariance == Spec => []IInv
BY InitIInv, NextIInv, PTL DEF Spec

\* Type correctness of the ledger, its requests and the posts under way.
THEOREM TypeCorrect == Spec => []TypeOK
<1>1. IInv => TypeOK
  BY DEF IInv
<1> QED
  BY <1>1, Invariance, PTL

\* No approval makes Pinterest create two Pins, whatever crashes, is lost or
\* comes late, and however many requests resume it (publish_content).
THEOREM AtMostOnePinAlways == Spec => []AtMostOnePin
<1>1. IInv => AtMostOnePin
  BY DEF IInv
<1> QED
  BY <1>1, Invariance, PTL

\* A row that invites a retry has no Pin behind it, and a published row holds
\* the id of the one Pin there is.
THEOREM RowTellsTheTruthAlways == Spec => []RowTellsTheTruth
<1>1. IInv => RowTellsTheTruth
  BY DEF IInv
<1> QED
  BY <1>1, Invariance, PTL

\* The compare-and-set lets one request at a time past the claim.
THEOREM OneOwnerAlways == Spec => []OneOwner
<1>1. IInv => OneOwner
  BY DEF IInv
<1> QED
  BY <1>1, Invariance, PTL

\* A Pin is requested, and a key freed for a retry, only while no Pin exists and
\* no older create request can make one.
THEOREM SendIsSafeAlways == Spec => []SendIsSafe
<1>1. IInv => SendIsSafe
  BY DEF IInv
<1> QED
  BY <1>1, Invariance, PTL

-----------------------------------------------------------------------------
(* Settled rows and the answers given about them                            *)

FinalRows ==
    \A k \in Keys :
        /\ row[k].status \in {"published", "uncertain"} => row'[k] = row[k]
        /\ row[k].status # "none" => row'[k].status # "none"

\* Only Claim, Reclaim and Settle write rows, each to a row in a status it checks.
LEMMA StepFinalRows == ASSUME IInv, [Next]_vars PROVE FinalRows
<1> USE DEF IInv, FinalRows
<1>1. ASSUME NEW r \in Requests, Claim(r) PROVE FinalRows
  BY <1>1 DEF Claim, SetRow, TypeOK, Row
<1>2. ASSUME NEW r \in Requests, Reclaim(r) PROVE FinalRows
  BY <1>2 DEF Reclaim, Transition, TypeOK, Row
<1>3. ASSUME NEW r \in Requests, Settle(r) PROVE FinalRows
  BY <1>3 DEF Settle, Transition, TypeOK, Row, SendIsSafe
<1>4. ASSUME UNCHANGED row PROVE FinalRows
  BY <1>4
<1> QED
  BY <1>1, <1>2, <1>3, <1>4
     DEF Next, vars, Publish, Pinterest, Resume, Refuse, ReadExisting, Board,
         SendPost, Timeout, Crash, Create, Reject, Drop

\* Published and uncertain rows never change again; no claim is ever given back
\* to "none": nothing retries after a doubt.
THEOREM NoRetryAfterDoubtAlways == Spec => NoRetryAfterDoubt
<1>1. IInv /\ [Next]_vars => [FinalRows]_vars
  BY StepFinalRows
<1> QED
  BY <1>1, Invariance, PTL DEF Spec, NoRetryAfterDoubt, FinalRows

\* No step takes a Pin away from under an answer already given.
LEMMA StepSuccess == ASSUME IInv, SuccessIsReal, [Next]_vars PROVE SuccessIsReal'
<1>0. \A k \in Keys : Published(k) => Published(k)'
  BY StepFinalRows DEF FinalRows, Published
<1> USE DEF IInv, SuccessIsReal, TypeOK, Return, Goto
<1>1. ASSUME NEW r \in Requests, NEW k \in Keys, Resume(r, k) PROVE SuccessIsReal'
  BY <1>0, <1>1 DEF Resume, GuardAnswer
<1>2. ASSUME NEW r \in Requests, Settle(r) PROVE SuccessIsReal'
  <2>1. ASSUME answer'[r] = "resumed" PROVE Published(key[r])'
    BY <1>2, <2>1 DEF Settle, Transition, Published, SendIsSafe, MaySend, NoPin, Row
  <2> QED
    BY <1>0, <1>2, <2>1 DEF Settle
<1>3. ASSUME NEW r \in Requests, Refuse(r) \/ Claim(r) \/ ReadExisting(r) \/ Reclaim(r)
                               \/ Board(r) \/ SendPost(r) \/ Timeout(r) \/ Crash(r)
      PROVE SuccessIsReal'
  BY <1>0, <1>3 DEF Refuse, Claim, ReadExisting, Reclaim, Board, SendPost, Timeout,
                    Crash, Decide
<1>4. ASSUME NEW m \in posts, Create(m) \/ Reject(m) \/ Drop(m) PROVE SuccessIsReal'
  BY <1>0, <1>4 DEF Create, Reject, Drop, Decide, Post
<1>5. ASSUME UNCHANGED vars PROVE SuccessIsReal'
  BY <1>0, <1>5 DEF vars
<1> QED
  BY <1>1, <1>2, <1>3, <1>4, <1>5 DEF Next, Publish, Pinterest

\* A caller told "completed" or "resumed" can rely on the Pin being recorded.
THEOREM SuccessIsRealAlways == Spec => []SuccessIsReal
<1>1. Init => SuccessIsReal
  BY DEF Init, SuccessIsReal
<1> QED
  BY <1>1, StepSuccess, Invariance, PTL DEF Spec
=============================================================================
