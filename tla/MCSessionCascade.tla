-------------------------- MODULE MCSessionCascade --------------------------
(* Constants and bounds for model checking SessionCascade with TLC.         *)
EXTENDS SessionCascade, TLC

\* Session ids, chats and cascades are interchangeable.
Symmetry == Permutations(Sids) \cup Permutations(Chats) \cup Permutations(Cascades)

\* Bound: one consent is cancelled at most, and then one logout is asked for at
\* most.  What this forbids are actions of users, never of the event loop.
Focus ==
  LET cancels == agentCancel \cup cancelCalls IN
  /\ Cardinality(cancels) <= 1
  /\ cancels # {} => Cardinality({k \in Cascades : casPc[k] # "idle"}) <= 1

FocusedNext == Next /\ Focus'
FocusedSpec == Init /\ [][FocusedNext]_vars
FairFocusedSpec == FocusedSpec /\ Fairness
=============================================================================
