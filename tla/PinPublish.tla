----------------------------- MODULE PinPublish -----------------------------
(***************************************************************************)
(* The Pinterest publish ledger and its users.  A row of                   *)
(* public.published_pins reserves an operation key ("p1-11:" followed by   *)
(* the id of an approval) BEFORE the Pin is requested from Pinterest, whose *)
(* API has no idempotency key.  Every HTTP request that resumes an approved *)
(* approval runs the same sequence: the state guard of                     *)
(* ApprovalResumeService, then PinterestConnector.publish_content, which   *)
(* claims the row, looks the board up, posts the Pin and settles the row.  *)
(*                                                                         *)
(* Each database statement, each call of Pinterest and each crash is a     *)
(* step of its own; several requests may work on the same key.  The store  *)
(* is the durable one (durable_required = True), as both routers build it. *)
(***************************************************************************)
EXTENDS Naturals, FiniteSets

CONSTANTS
    Keys,       \* operation keys: one for each approved publish approval
    Requests,   \* HTTP requests (threads) that may run a resume
    Faults      \* the failures that may happen; a subset of AllFaults

AllFaults == {"crash",    \* the process dies between two steps
              "db",       \* a statement fails: unapplied, or applied and unanswered
              "decode"}   \* an answer of Pinterest is not the JSON the code expects

ASSUME FaultsAssumption == Faults \subseteq AllFaults

VARIABLES
    row,      \* row[k]: the row of published_pins; status "none" before the insert
    pc,       \* pc[r]: the next statement of request r
    key,      \* key[r]: the operation key request r works on
    verdict,  \* verdict[r]: what r is about to settle its row to
    answer,   \* answer[r]: the status ApprovalResumeService.resume returned to r
    posts,    \* create requests on their way to Pinterest
    pins      \* pins[k]: how many Pins Pinterest has created for k

vars == <<row, pc, key, verdict, answer, posts, pins>>

-----------------------------------------------------------------------------
(* State                                                                    *)

Statuses == {"none", "publishing", "published", "failed", "uncertain"}

\* NoPin is the NULL pin_id.  The n-th Pin created for a key has the id n.
NoPin == 0

Row == [status : Statuses, pin_id : Nat]

Steps == {"idle", "claim", "existing", "reclaim", "board", "post", "wait", "settle"}

Answers == {"none", "completed", "resumed", "publish_in_progress",
            "publish_uncertain", "resume_failed"}

Post == [key : Keys, req : Requests]

TypeOK ==
    /\ row \in [Keys -> Row]
    /\ pc \in [Requests -> Steps]
    /\ key \in [Requests -> Keys]
    /\ verdict \in [Requests -> Row]
    /\ answer \in [Requests -> Answers]
    /\ posts \in SUBSET Post
    /\ pins \in [Keys -> Nat]

Published(k) == row[k].status = "published" /\ row[k].pin_id # NoPin

Init ==
    /\ row = [k \in Keys |-> [status |-> "none", pin_id |-> NoPin]]
    /\ pc = [r \in Requests |-> "idle"]
    /\ key \in [Requests -> Keys]
    /\ verdict = [r \in Requests |-> [status |-> "none", pin_id |-> NoPin]]
    /\ answer = [r \in Requests |-> "none"]
    /\ posts = {}
    /\ pins = [k \in Keys |-> 0]

Goto(r, step) == pc' = [pc EXCEPT ![r] = step]

Return(r, status) ==
    /\ Goto(r, "idle")
    /\ answer' = [answer EXCEPT ![r] = status]

-----------------------------------------------------------------------------
(* ApprovalResumeService.resume: the state guard                            *)

\* What the guard answers for a row it could read; "proceed" is its None.
GuardAnswer(k) ==
    CASE row[k].status \in {"none", "failed"} -> "proceed"
      [] Published(k)                         -> "completed"
      [] row[k].status = "publishing"         -> "publish_in_progress"
      [] OTHER                                -> "publish_uncertain"

\* The guard reads the row; a read that fails counts as no row.
Resume(r, k) ==
    /\ pc[r] = "idle"
    /\ key' = [key EXCEPT ![r] = k]
    /\ \/ /\ GuardAnswer(k) = "proceed" \/ "db" \in Faults
          /\ Goto(r, "claim")
          /\ answer' = [answer EXCEPT ![r] = "none"]
       \/ /\ GuardAnswer(k) # "proceed"
          /\ Return(r, GuardAnswer(k))
    /\ UNCHANGED <<row, verdict, posts, pins>>

-----------------------------------------------------------------------------
(* PinterestConnector.publish_content                                       *)

\* Content that does not validate, or a vault without a usable token.
Refuse(r) ==
    /\ pc[r] = "claim"
    /\ Return(r, "resume_failed")
    /\ UNCHANGED <<row, key, verdict, posts, pins>>

SetRow(k, status, pin) == row' = [row EXCEPT ![k] = [status |-> status, pin_id |-> pin]]

\* Mutant: the "created" flag is not looked at.
ClaimIgnoresCreated(r) ==
    /\ pc[r] = "claim"
    /\ IF row[key[r]].status = "none" THEN SetRow(key[r], "publishing", NoPin) ELSE UNCHANGED row
    /\ Goto(r, "board")
    /\ UNCHANGED <<key, verdict, answer, posts, pins>>

\* Mutant: the upsert merges duplicates instead of ignoring them.
ClaimOverwrites(r) ==
    /\ pc[r] = "claim"
    /\ SetRow(key[r], "publishing", NoPin)
    /\ Goto(r, "board")
    /\ UNCHANGED <<key, verdict, answer, posts, pins>>

\* INSERT ... ON CONFLICT DO NOTHING: the row is ours, or there is one already.
Claim(r) ==
    /\ pc[r] = "claim"
    /\ \/ /\ row[key[r]].status = "none"
          /\ SetRow(key[r], "publishing", NoPin)
          /\ Goto(r, "board")
          /\ UNCHANGED answer
       \/ /\ row[key[r]].status # "none"
          /\ Goto(r, "existing")
          /\ UNCHANGED <<row, answer>>
       \/ /\ "db" \in Faults                    \* "nothing was sent to Pinterest"
          /\ \/ UNCHANGED row
             \/ row[key[r]].status = "none" /\ SetRow(key[r], "publishing", NoPin)
          /\ Return(r, "resume_failed")
    /\ UNCHANGED <<key, verdict, posts, pins>>

\* The row another request inserted is read by a statement of its own.
ReadExisting(r) ==
    /\ pc[r] = "existing"
    /\ \/ /\ row[key[r]].status = "failed"
          /\ Goto(r, "reclaim")
          /\ UNCHANGED answer
       \/ /\ row[key[r]].status # "failed"
          /\ Return(r, IF Published(key[r]) THEN "resumed" ELSE "resume_failed")
       \/ /\ "db" \in Faults
          /\ Return(r, "resume_failed")
    /\ UNCHANGED <<row, key, verdict, posts, pins>>

\* transition(): UPDATE ... WHERE operation_key = k AND status IN (from).
\* It tells its caller only whether a row came back.
Transition(k, from, new, ok) ==
    \/ ok /\ row[k].status \in from /\ row' = [row EXCEPT ![k] = new]
    \/ ~ok /\ row[k].status \notin from /\ UNCHANGED row
    \/ /\ ~ok /\ "db" \in Faults
       /\ \/ UNCHANGED row
          \/ row[k].status \in from /\ row' = [row EXCEPT ![k] = new]

\* Mutant: the takeover accepts a doubtful row.
ReclaimDoubtful(r) ==
    /\ pc[r] = "reclaim"
    /\ \E ok \in BOOLEAN :
        /\ Transition(key[r], {"failed", "uncertain"}, [row[key[r]] EXCEPT !.status = "publishing"], ok)
        /\ IF ok THEN Goto(r, "board") /\ UNCHANGED answer
                 ELSE Return(r, "resume_failed")
    /\ UNCHANGED <<key, verdict, posts, pins>>

\* One retry takes a definitively failed reservation over.
Reclaim(r) ==
    /\ pc[r] = "reclaim"
    /\ \E ok \in BOOLEAN :
        /\ Transition(key[r], {"failed"},
                      [row[key[r]] EXCEPT !.status = "publishing"], ok)
        /\ IF ok THEN Goto(r, "board") /\ UNCHANGED answer
                 ELSE Return(r, "resume_failed")
    /\ UNCHANGED <<key, verdict, posts, pins>>

Decide(r, status, pin) ==
    /\ Goto(r, "settle")
    /\ verdict' = [verdict EXCEPT ![r] = [status |-> status, pin_id |-> pin]]

\* Mutant: a failed lookup returns without settling the row.
BoardUnsettled(r) ==
    /\ pc[r] = "board"
    /\ \/ Goto(r, "post") /\ UNCHANGED answer
       \/ Return(r, "resume_failed")
    /\ UNCHANGED <<row, key, verdict, posts, pins>>

\* The board is known, or found, or the lookup fails before a Pin is requested.
\* Undecodable boards raise out of publish_content: the row keeps its claim.
Board(r) ==
    /\ pc[r] = "board"
    /\ \/ Goto(r, "post") /\ UNCHANGED <<verdict, answer>>
       \/ Decide(r, "failed", NoPin) /\ UNCHANGED answer
       \/ "decode" \in Faults /\ Return(r, "resume_failed") /\ UNCHANGED verdict
    /\ UNCHANGED <<row, key, posts, pins>>

SendPost(r) ==
    /\ pc[r] = "post"
    /\ posts' = posts \cup {[key |-> key[r], req |-> r]}
    /\ Goto(r, "wait")
    /\ UNCHANGED <<row, key, verdict, answer, pins>>

\* Mutant: a timeout is taken for a refusal.
TimeoutIsFailure(r) ==
    /\ pc[r] = "wait"
    /\ Decide(r, "failed", NoPin)
    /\ UNCHANGED <<row, key, answer, posts, pins>>

\* No answer within 25 seconds, or a transport error: the Pin may yet appear.
Timeout(r) ==
    /\ pc[r] = "wait"
    /\ Decide(r, "uncertain", NoPin)
    /\ UNCHANGED <<row, key, answer, posts, pins>>

\* Mutant: success is reported whether or not the row was settled.
SettleUnchecked(r) ==
    /\ pc[r] = "settle"
    /\ \E ok \in BOOLEAN : Transition(key[r], {"publishing"}, verdict[r], ok)
    /\ Return(r, IF verdict[r].status = "published" THEN "resumed" ELSE "resume_failed")
    /\ UNCHANGED <<key, verdict, posts, pins>>

\* The settling UPDATE.  Only a confirmed "published" is reported as success.
Settle(r) ==
    /\ pc[r] = "settle"
    /\ \E ok \in BOOLEAN :
        /\ Transition(key[r], {"publishing"},
                      [status |-> verdict[r].status,
                       pin_id |-> IF verdict[r].status = "published"
                                  THEN verdict[r].pin_id ELSE row[key[r]].pin_id], ok)
        /\ Return(r, IF ok /\ verdict[r].status = "published"
                     THEN "resumed" ELSE "resume_failed")
    /\ UNCHANGED <<key, verdict, posts, pins>>

\* The process dies; its claim stays in the database, nobody gets an answer.
Crash(r) ==
    /\ "crash" \in Faults
    /\ pc[r] # "idle"
    /\ Return(r, "none")
    /\ UNCHANGED <<row, key, verdict, posts, pins>>

-----------------------------------------------------------------------------
(* Pinterest (external).  A create request may be served long after its     *)
(* sender gave up, or never.                                                *)

Awaits(m) == pc[m.req] = "wait" /\ key[m.req] = m.key

\* Mutant: every answer other than 201 is taken for a refusal.
CreateServerErrorIsFailure(m) ==
    /\ posts' = posts \ {m}
    /\ pins' = [pins EXCEPT ![m.key] = @ + 1]
    /\ Awaits(m) /\ Decide(m.req, "failed", NoPin)
    /\ UNCHANGED <<row, key, answer>>

\* 201: with the id of the Pin; without one; or with no usable answer (5xx,
\* a lost response).  A body that is not an object raises in the connector.
Create(m) ==
    /\ posts' = posts \ {m}
    /\ pins' = [pins EXCEPT ![m.key] = @ + 1]
    /\ \/ Awaits(m) /\ Decide(m.req, "published", pins[m.key] + 1) /\ UNCHANGED answer
       \/ Awaits(m) /\ Decide(m.req, "uncertain", NoPin) /\ UNCHANGED answer
       \/ /\ Awaits(m) /\ "decode" \in Faults
          /\ Return(m.req, "resume_failed")
          /\ UNCHANGED verdict
       \/ UNCHANGED <<pc, verdict, answer>>
    /\ UNCHANGED <<row, key>>

\* 4xx: Pinterest refuses and creates nothing.
Reject(m) ==
    /\ posts' = posts \ {m}
    /\ IF Awaits(m) THEN Decide(m.req, "failed", NoPin) ELSE UNCHANGED <<pc, verdict>>
    /\ UNCHANGED <<row, key, answer, pins>>

\* 5xx without a Pin, or a request the network lost.
Drop(m) ==
    /\ posts' = posts \ {m}
    /\ \/ Awaits(m) /\ Decide(m.req, "uncertain", NoPin)
       \/ UNCHANGED <<pc, verdict>>
    /\ UNCHANGED <<row, key, answer, pins>>

-----------------------------------------------------------------------------
Publish(r) ==
    \/ Refuse(r) \/ Claim(r) \/ ReadExisting(r) \/ Reclaim(r)
    \/ Board(r) \/ SendPost(r) \/ Timeout(r) \/ Settle(r)

Pinterest == \E m \in posts : Create(m) \/ Reject(m) \/ Drop(m)

Next ==
    \/ \E r \in Requests :
          \/ \E k \in Keys : Resume(r, k)
          \/ Publish(r)
          \/ Crash(r)
    \/ Pinterest

Spec == Init /\ [][Next]_vars

\* Every statement of a running request ends: the database answers or fails,
\* and the HTTP client gives up after its timeout.
Fairness == \A r \in Requests : WF_vars(Publish(r))

FairSpec == Spec /\ Fairness

-----------------------------------------------------------------------------
(* Properties                                                               *)

\* However many requests, retries, timeouts and crashes: an approval never
\* makes Pinterest create a second Pin (publish_content claims before it posts).
AtMostOnePin == \A k \in Keys : pins[k] <= 1

\* The row tells the truth: "failed" (which invites a retry) only when no Pin
\* exists and none can appear any more; "published" only with the id of the
\* Pin that Pinterest created.
RowTellsTheTruth ==
    \A k \in Keys :
        /\ row[k].status \in {"none", "failed"} =>
               pins[k] = 0 /\ \A m \in posts : m.key # k
        /\ row[k].status = "published" => row[k].pin_id = pins[k] /\ pins[k] = 1

\* At most one request at a time is past the claim of a key, and the row shows
\* "publishing" as long as it is: the compare-and-set hands the row to one.
Owners(k) == {r \in Requests : key[r] = k /\ pc[r] \in {"board", "post", "wait", "settle"}}

OneOwner ==
    \A k \in Keys :
        /\ \A r1, r2 \in Owners(k) : r1 = r2
        /\ Owners(k) # {} => row[k].status = "publishing"

\* Requests that may still ask for a Pin, or free the key for a retry.
MaySend(r) ==
    \/ pc[r] \in {"board", "post"}
    \/ pc[r] = "settle" /\ verdict[r].status = "failed"

\* A Pin is requested, and a row is freed for a retry, only while no Pin exists
\* and no older create request can still make one; a request about to record a
\* Pin holds the id Pinterest gave it.
SendIsSafe ==
    /\ \A m \in posts : pins[m.key] = 0
    /\ \A m1, m2 \in posts : m1.key = m2.key => m1 = m2
    /\ \A r \in Requests :
        /\ MaySend(r) => pins[key[r]] = 0 /\ \A m \in posts : m.key # key[r]
        /\ pc[r] = "settle" => verdict[r].status \in {"failed", "uncertain", "published"}
        /\ pc[r] = "settle" /\ verdict[r].status = "published"
           => pins[key[r]] = 1 /\ verdict[r].pin_id = 1

\* A caller told that the Pin is there can rely on it.
SuccessIsReal ==
    \A r \in Requests : answer[r] \in {"completed", "resumed"} => Published(key[r])

\* "published" and "uncertain" rows never change again, and a claimed key is
\* never free again: no automatic retry after a doubt.
NoRetryAfterDoubt ==
    [][\A k \in Keys :
        /\ row[k].status \in {"published", "uncertain"} => row'[k] = row[k]
        /\ row[k].status # "none" => row'[k].status # "none"]_vars

\* A request for k that has no answer: it died, or it has not come yet.
Unanswered(k) == \E r \in Requests : key[r] = k /\ pc[r] = "idle" /\ answer[r] = "none"

\* As long as no statement fails, only the death of its owner leaves a claim open:
\* the row of every key that a request has claimed is settled.
ClaimsAreSettled ==
    \A k \in Keys : Owners(k) # {} ~> row[k].status # "publishing" \/ Unanswered(k)

-----------------------------------------------------------------------------
(* The ledger implements at-most-once publishing                            *)

\* What the ledger, the requests and the posts under way together know about a
\* key.  A claim whose owner is gone is as closed as a doubtful row: nothing
\* will move it again.
Phase(k) ==
    IF \E m \in posts : m.key = k THEN "sent"
    ELSE IF row[k].status \in {"none", "failed"} THEN "open"
    ELSE IF \E r \in Requests : key[r] = k /\ MaySend(r) THEN "held"
    ELSE "closed"

Once == INSTANCE OncePerKey WITH phase <- [k \in Keys |-> Phase(k)]

\* Seen from outside, a key is sent to Pinterest again only after a definite
\* refusal, and is closed for good by a Pin or by any doubt.
ImplementsOncePerKey == Once!Spec
=============================================================================
