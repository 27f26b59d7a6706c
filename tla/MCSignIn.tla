------------------------------ MODULE MCSignIn ------------------------------
(* Constants for model checking SignIn with TLC.                            *)
EXTENDS SignIn, TLC

CONSTANTS u1, i1, t1, t2

\* One user; one session at the identity server, of which two logout tokens tell.
OneSid       == i1 :> u1
BothTokens   == t1 :> i1 @@ t2 :> i1

\* One logout token, which tells of that session.
OneToken     == t1 :> i1

\* Bound of the safety run: beyond two logouts or deliveries in all, a state is
\* checked and not explored further.
FewCascades == Cardinality({c \in Cascades : phase[c] # "idle"}) <= 2

Symmetry == Permutations(Requests) \cup Permutations(States) \cup Permutations(Deliveries)
=============================================================================
