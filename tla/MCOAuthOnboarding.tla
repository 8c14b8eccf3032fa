------------------------- MODULE MCOAuthOnboarding --------------------------
(* Instances of OAuthOnboarding for TLC.                                    *)
EXTENDS OAuthOnboarding, TLC

CONSTANT Busy  \* how many of the requests come in one behaviour

Symmetry == Permutations(Callbacks)

\* Every choice of that many requests is a behaviour of its own; of what kind
\* a start that never comes would have been makes no difference.
MCInit ==
    /\ Init
    /\ Cardinality({r \in Requests : pc[r] = "idle"}) = Busy
    /\ \A s \in Starts : pc[s] = "gone" => start[s].kind = "route"

MCSpec == MCInit /\ [][Next]_vars
=============================================================================
