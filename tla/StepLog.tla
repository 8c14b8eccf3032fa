------------------------------- MODULE StepLog -------------------------------
(***************************************************************************)
(* What the claims of steps promise, seen from outside: a log of attempts  *)
(* for each step of a plan.  A step is begun when every step before it is  *)
(* completed and it is not; beginning it again gives up what was begun     *)
(* before.  Only the last attempt can end, once, and what is completed is   *)
(* never attempted again.                                                  *)
(***************************************************************************)
EXTENDS Naturals, Sequences

CONSTANT PlanLength

VARIABLE log  \* log[s]: the state of every attempt of step s, in order

Init == log = [s \in 1 .. PlanLength |-> <<>>]

Begun(s) == log[s] # <<>>

Latest(s) == log[s][Len(log[s])]

Done(s) == Begun(s) /\ Latest(s) = "completed"

\* One more attempt after q, all of which has failed by now.
Another(q) ==
    [i \in 1 .. (Len(q) + 1) |-> IF i <= Len(q) THEN "failed" ELSE "in_progress"]

Begin(s) ==
    /\ \A t \in 1 .. (s - 1) : Done(t)
    /\ ~Done(s)
    /\ log' = [log EXCEPT ![s] = Another(@)]

End(s, outcome) ==
    /\ Begun(s) /\ Latest(s) = "in_progress"
    /\ log' = [log EXCEPT ![s][Len(log[s])] = outcome]

Next ==
    \E s \in 1 .. PlanLength :
        Begin(s) \/ \E outcome \in {"completed", "failed"} : End(s, outcome)

Spec == Init /\ [][Next]_log
=============================================================================
