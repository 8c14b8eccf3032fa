------------------------ MODULE PinPublishRefinement ------------------------
(***************************************************************************)
(* The publish ledger implements OncePerKey: every step of PinPublish is a *)
(* step, or a stutter, of the abstract specification under the mapping     *)
(* Phase.  A step of one request moves the phase of its own key alone.     *)
(***************************************************************************)
EXTENDS PinPublishProofs

Phases == [k \in Keys |-> Phase(k)]

\* The moves OncePerKey allows a key, and what each does to the Pins.
Allowed(k, from, to) ==
    \/ /\ <<from, to>> \in {<<"open", "held">>, <<"held", "open">>, <<"held", "sent">>,
                            <<"sent", "held">>, <<"open", "closed">>,
                            <<"held", "closed">>, <<"sent", "closed">>}
       /\ pins' = pins
    \/ from = "sent" /\ to = "closed" /\ pins' = [pins EXCEPT ![k] = 1]
    \/ from = to /\ pins' = pins

\* One key moves as allowed and the others stay: a step of the abstract spec.
LEMMA MoveOne ==
    ASSUME NEW k \in Keys, Allowed(k, Phase(k), Phase(k)'),
           \A j \in Keys \ {k} : Phase(j)' = Phase(j)
    PROVE  [Once!Next]_<<Phases, pins>>
<1>1. Phases' = [Phases EXCEPT ![k] = Phase(k)'] /\ Phases[k] = Phase(k)
  BY DEF Phases
<1>2. CASE Phases' = Phases /\ pins' = pins
  BY <1>2
<1>3. CASE Phase(k) # Phase(k)'
  BY <1>1, <1>3 DEF Allowed, Once!Next, Once!Take, Once!Release, Once!Send, Once!Refused,
                    Once!Created, Once!Doubt, Once!Move, Phases
<1>4. Phase(k) = Phase(k)' => Phases' = Phases
  BY <1>1 DEF Phases
<1> QED
  BY <1>2, <1>3, <1>4 DEF Allowed

\* The steps that leave the phase of every key alone.
LEMMA QuietSteps ==
    ASSUME IInv, NEW r \in Requests,
           \/ \E k \in Keys : Resume(r, k)
           \/ Refuse(r) \/ ReadExisting(r) \/ Timeout(r)
    PROVE  Phases' = Phases /\ pins' = pins
<1>1. row' = row /\ posts' = posts /\ pins' = pins
  BY DEF Resume, Refuse, ReadExisting, Timeout
<1>2. \A j \in Keys, q \in Requests :
         (key[q] = j /\ MaySend(q)) <=> (key'[q] = j /\ MaySend(q)')
  BY DEF Resume, Refuse, ReadExisting, Timeout, Goto, Return, Decide, MaySend, IInv, TypeOK
<1>3. \A j \in Keys : Phase(j)' = Phase(j)
  BY <1>1, <1>2 DEF Phase
<1> QED
  BY <1>1, <1>3 DEF Phases

\* A step of request r that keeps its key moves the phase of that key only.
LEMMA OwnKeyOnly ==
    ASSUME IInv, NEW r \in Requests,
           \A j \in Keys \ {key[r]} : row'[j] = row[j],
           \A m \in Post : m.key # key[r] => (m \in posts <=> m \in posts'),
           posts' \in SUBSET Post, key' = key,
           \A q \in Requests \ {r} : MaySend(q)' <=> MaySend(q)
    PROVE  \A j \in Keys \ {key[r]} : Phase(j)' = Phase(j)
BY DEF Phase, IInv, TypeOK, Post

\* The seven steps of a request that write its row, send its post or give up.
LEMMA OwnSteps ==
    ASSUME IInv, NEW r \in Requests, NEW k \in Keys, key[r] = k,
           Claim(r) \/ Reclaim(r) \/ Board(r) \/ SendPost(r) \/ Settle(r) \/ Crash(r)
    PROVE  /\ Allowed(k, Phase(k), Phase(k)')
           /\ \A j \in Keys \ {k} : Phase(j)' = Phase(j)
<1>0. k \in Keys /\ r \in Requests /\ key[r] = k
  OBVIOUS
<1>1. CASE Claim(r)
  <2>1. \A q \in Requests \ {r} : MaySend(q)' <=> MaySend(q)
    BY <1>1 DEF Claim, Goto, Return, MaySend, IInv, TypeOK
  <2>2. \A j \in Keys \ {k} : Phase(j)' = Phase(j)
    BY <1>1, <2>1, OwnKeyOnly DEF Claim, SetRow, IInv, TypeOK
  <2>3. Allowed(k, Phase(k), Phase(k)')
    BY <1>0, <1>1 DEF Claim, SetRow, Goto, Return, Phase, MaySend, Allowed, IInv, TypeOK,
                      Row, Statuses
  <2> QED
    BY <2>2, <2>3
<1>2. CASE Reclaim(r)
  <2>1. \A q \in Requests \ {r} : MaySend(q)' <=> MaySend(q)
    BY <1>2 DEF Reclaim, Goto, Return, MaySend, IInv, TypeOK
  <2>2. \A j \in Keys \ {k} : Phase(j)' = Phase(j)
    BY <1>2, <2>1, OwnKeyOnly DEF Reclaim, Transition, IInv, TypeOK
  <2>3. Allowed(k, Phase(k), Phase(k)')
    BY <1>0, <1>2 DEF Reclaim, Transition, Goto, Return, Phase, MaySend, Allowed, IInv, TypeOK,
                      Row, Statuses
  <2> QED
    BY <2>2, <2>3
<1>3. CASE Board(r)
  <2>1. \A q \in Requests \ {r} : MaySend(q)' <=> MaySend(q)
    BY <1>3 DEF Board, Goto, Return, Decide, MaySend, IInv, TypeOK
  <2>2. \A j \in Keys \ {k} : Phase(j)' = Phase(j)
    BY <1>3, <2>1, OwnKeyOnly DEF Board, IInv, TypeOK
  <2>3. Phase(k) = "held" /\ row[k].status = "publishing" /\ \A m \in posts : m.key # k
    BY <1>0, <1>3 DEF Board, Phase, MaySend, IInv, SendIsSafe, OneOwner, Owners
  <2>4. Phase(k)' \in {"held", "closed"}
    BY <2>3, <1>3 DEF Board, Phase
  <2> QED
    BY <1>3, <2>2, <2>3, <2>4 DEF Board, Allowed
<1>4. CASE SendPost(r)
  <2>1. \A q \in Requests \ {r} : MaySend(q)' <=> MaySend(q)
    BY <1>4 DEF SendPost, Goto, MaySend, IInv, TypeOK
  <2>2. \A j \in Keys \ {k} : Phase(j)' = Phase(j)
    BY <1>4, <2>1, OwnKeyOnly DEF SendPost, IInv, TypeOK, Post
  <2>3. Phase(k) = "held"
    BY <1>0, <1>4 DEF SendPost, Phase, MaySend, IInv, SendIsSafe, OneOwner, Owners
  <2>4. Phase(k)' = "sent"
    <3>1. [key |-> k, req |-> r] \in posts' /\ [key |-> k, req |-> r].key = k
      BY <1>4 DEF SendPost
    <3> QED
      BY <3>1 DEF Phase
  <2> QED
    BY <1>4, <2>2, <2>3, <2>4 DEF SendPost, Allowed
<1>5. CASE Settle(r)
  <2>1. \A q \in Requests \ {r} : MaySend(q)' <=> MaySend(q)
    BY <1>5 DEF Settle, Goto, Return, MaySend, IInv, TypeOK
  <2>2. \A j \in Keys \ {k} : Phase(j)' = Phase(j)
    BY <1>5, <2>1, OwnKeyOnly DEF Settle, Transition, IInv, TypeOK
  <2>3. row[k].status = "publishing" /\ \A q \in Requests \ {r} : key[q] = k => ~MaySend(q)
    BY <1>0, <1>5 DEF Settle, MaySend, IInv, OneOwner, Owners
  <2>4. ~MaySend(r)' /\ \A q \in Requests : key'[q] = k => ~MaySend(q)'
    BY <1>0, <1>5, <2>1, <2>3 DEF Settle, Goto, Return, MaySend, IInv, TypeOK
  <2>5. CASE verdict[r].status = "failed"
    <3>1. Phase(k) = "held"
      BY <1>0, <1>5, <2>3, <2>5 DEF Settle, Phase, MaySend, IInv, SendIsSafe
    <3>2. Phase(k)' \in {"open", "closed"}
      BY <1>0, <1>5, <2>4, <2>5 DEF Settle, Transition, Phase, MaySend, IInv, SendIsSafe
    <3> QED
      BY <1>5, <2>2, <3>1, <3>2 DEF Settle, Allowed
  <2>6. CASE verdict[r].status # "failed"
    <3>1. ~MaySend(r)
      BY <1>5, <2>6 DEF Settle, MaySend
    <3>2. row'[k].status \in {"publishing", "uncertain", "published"}
      BY <1>0, <1>5, <2>3, <2>6 DEF Settle, Transition, IInv, SendIsSafe, TypeOK
    <3>3. Phase(k)' = Phase(k)
      BY <1>0, <1>5, <2>3, <2>4, <3>1, <3>2 DEF Settle, Phase
    <3> QED
      BY <1>5, <2>2, <3>3 DEF Settle, Allowed
  <2> QED
    BY <2>5, <2>6
<1>6. CASE Crash(r)
  <2>1. \A q \in Requests \ {r} : MaySend(q)' <=> MaySend(q)
    BY <1>6 DEF Crash, Goto, Return, MaySend, IInv, TypeOK
  <2>2. \A j \in Keys \ {k} : Phase(j)' = Phase(j)
    BY <1>6, <2>1, OwnKeyOnly DEF Crash, IInv, TypeOK
  <2>3. ~MaySend(r)'
    BY <1>6 DEF Crash, Goto, Return, MaySend, IInv, TypeOK
  <2>4. Phase(k) # Phase(k)' => Phase(k) = "held" /\ Phase(k)' = "closed"
    BY <1>0, <1>6, <2>1, <2>3 DEF Crash, Phase
  <2> QED
    BY <1>6, <2>2, <2>4 DEF Crash, Allowed
<1> QED
  BY <1>1, <1>2, <1>3, <1>4, <1>5, <1>6

\* Pinterest serves a post: the phase of its key moves, "sent" to "closed" or,
\* after a refusal somebody heard, back to "held".
LEMMA PinterestSteps ==
    ASSUME IInv, NEW m \in posts, NEW k \in Keys, m.key = k,
           Create(m) \/ Reject(m) \/ Drop(m)
    PROVE  /\ Allowed(k, Phase(k), Phase(k)')
           /\ \A j \in Keys \ {k} : Phase(j)' = Phase(j)
<1>0. k \in Keys /\ m.req \in Requests /\ Phase(k) = "sent" /\ pins[k] = 0
  BY DEF IInv, TypeOK, Post, Phase, SendIsSafe
<1>1. row' = row /\ key' = key /\ posts' = posts \ {m}
  BY DEF Create, Reject, Drop
<1>2. \A q \in Requests : key[q] # k => (MaySend(q)' <=> MaySend(q))
  BY <1>0 DEF Create, Reject, Drop, Awaits, Decide, Goto, Return, MaySend, IInv, TypeOK
<1>3. \A j \in Keys \ {k} : Phase(j)' = Phase(j)
  BY <1>1, <1>2 DEF Phase
<1>4. \A n \in posts' : n.key # k
  BY <1>1 DEF IInv, SendIsSafe
<1>5. row'[k].status \notin {"none", "failed"}
  BY <1>0, <1>1 DEF IInv, RowTellsTheTruth
<1>6. Phase(k)' \in {"held", "closed"}
  BY <1>4, <1>5 DEF Phase
<1>7. CASE Create(m)
  <2>1. \A q \in Requests : key[q] = k => ~MaySend(q)
    BY DEF IInv, SendIsSafe
  <2>2. \A q \in Requests : key'[q] = k => ~MaySend(q)'
    BY <1>0, <1>7, <2>1 DEF Create, Awaits, Decide, Goto, Return, MaySend, IInv, TypeOK
  <2>3. Phase(k)' = "closed"
    BY <1>4, <1>5, <2>2 DEF Phase
  <2>4. pins' = [pins EXCEPT ![k] = 1]
    <3>1. pins' = [pins EXCEPT ![k] = pins[k] + 1]
      BY <1>7 DEF Create
    <3>2. pins[k] + 1 = 1
      BY <1>0
    <3> QED
      BY <3>1, <3>2
  <2> QED
    BY <1>0, <1>3, <2>3, <2>4 DEF Allowed
<1>8. CASE Reject(m) \/ Drop(m)
  BY <1>0, <1>3, <1>6, <1>8 DEF Reject, Drop, Allowed
<1> QED
  BY <1>7, <1>8

\* Initially every key is open.
LEMMA InitOnce == Init => Once!Init
BY DEF Init, Once!Init, Phase, Phases

\* Every step of the ledger is a step of OncePerKey or leaves it as it is.
LEMMA StepOnce == ASSUME IInv, [Next]_vars PROVE [Once!Next]_<<Phases, pins>>
<1>1. ASSUME NEW r \in Requests,
             \/ \E k \in Keys : Resume(r, k)
             \/ Refuse(r) \/ ReadExisting(r) \/ Timeout(r)
      PROVE  [Once!Next]_<<Phases, pins>>
  BY <1>1, QuietSteps
<1>2. ASSUME NEW r \in Requests,
             Claim(r) \/ Reclaim(r) \/ Board(r) \/ SendPost(r) \/ Settle(r) \/ Crash(r)
      PROVE  [Once!Next]_<<Phases, pins>>
  <2>1. PICK k \in Keys : key[r] = k
    BY DEF IInv, TypeOK
  <2>2. Allowed(k, Phase(k), Phase(k)') /\ \A j \in Keys \ {k} : Phase(j)' = Phase(j)
    BY <1>2, <2>1, OwnSteps
  <2> QED
    BY <2>1, <2>2, MoveOne
<1>3. ASSUME NEW m \in posts, Create(m) \/ Reject(m) \/ Drop(m)
      PROVE  [Once!Next]_<<Phases, pins>>
  <2>1. PICK k \in Keys : m.key = k
    BY DEF IInv, TypeOK, Post
  <2> QED
    BY <1>3, <2>1, PinterestSteps, MoveOne
<1>4. ASSUME UNCHANGED vars PROVE Phases' = Phases /\ pins' = pins
  BY <1>4 DEF vars, Phases, Phase, MaySend
<1> QED
  BY <1>1, <1>2, <1>3, <1>4 DEF Next, Publish, Pinterest

\* The ledger implements at-most-once publishing: a key is sent again only
\* after a definite refusal, and a Pin or a doubt closes it for good.
THEOREM Refinement == Spec => ImplementsOncePerKey
<1>1. IInv /\ [Next]_vars => [Once!Next]_<<Phases, pins>>
  BY StepOnce
<1> QED
  BY <1>1, InitOnce, Invariance, PTL DEF Spec, ImplementsOncePerKey, Once!Spec, Phases
=============================================================================
