--------------------------- MODULE MCLeadPipeline ---------------------------
(* An instance of LeadPipeline for TLC.                                     *)
EXTENDS LeadPipeline

CONSTANTS m1, m2

\* One payload with two messages.
OneBatch == {<<m1, m2>>}
=============================================================================
