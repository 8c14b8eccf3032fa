----------------------------- MODULE OncePerKey -----------------------------
(***************************************************************************)
(* What the publish ledger promises: an operation that must happen at most *)
(* once against a provider that offers no idempotency key.  An operation   *)
(* is open until somebody holds it; it is sent by its holder only; a       *)
(* definite refusal gives it back to the holder, who may reopen it; a Pin, *)
(* or any doubt about one, closes it for good.                             *)
(***************************************************************************)
EXTENDS Naturals

CONSTANT Keys

VARIABLES phase, pins

Phases == {"open", "held", "sent", "closed"}

Init == phase = [k \in Keys |-> "open"] /\ pins = [k \in Keys |-> 0]

Move(k, from, to) == phase[k] = from /\ phase' = [phase EXCEPT ![k] = to]

Take(k)    == Move(k, "open", "held") /\ UNCHANGED pins
Release(k) == Move(k, "held", "open") /\ UNCHANGED pins
Send(k)    == Move(k, "held", "sent") /\ UNCHANGED pins
Refused(k) == Move(k, "sent", "held") /\ UNCHANGED pins
Created(k) == Move(k, "sent", "closed") /\ pins' = [pins EXCEPT ![k] = 1]

\* The outcome is lost: a crash, an unanswered statement, a timeout.
Doubt(k) == \E p \in {"open", "held", "sent"} : Move(k, p, "closed") /\ UNCHANGED pins

Next == \E k \in Keys :
    Take(k) \/ Release(k) \/ Send(k) \/ Refused(k) \/ Created(k) \/ Doubt(k)

Spec == Init /\ [][Next]_<<phase, pins>>
=============================================================================
