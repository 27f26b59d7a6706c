----------------------------- MODULE MCFairness -----------------------------
(* The agent and the sign-in, which share no state, side by side under fair  *)
(* scheduling: a behaviour is one of the component that "subject" names, the *)
(* other stays as it starts, where nothing fair can happen.                  *)
EXTENDS MCAgentDispatcher

CONSTANTS
  SignInUsers, SignInRequests, States, Sids, LogoutTokens, Deliveries, SidUser, TokenSid,
  NamesSub, LoginCap, LoginTTL, SeenCap, Tolerance, Skew, MaxTime,
  v1, i1, i2, t1

\* Sign-in: a user with two sessions, of which one logout token tells.
TwoSids  == i1 :> v1 @@ i2 :> v1
OneToken == t1 :> i1

VARIABLES
  subject,
  now, issued, logins, crowded, session, popped, user, sid, sidIndex, iat, seen,
  phase, target, token, started, runs, evicted, late

SignIn == INSTANCE SignIn WITH
  Users <- SignInUsers, Requests <- SignInRequests, Tokens <- LogoutTokens

signInVars == <<now, issued, logins, crowded, session, popped, user, sid, sidIndex, iat, seen,
                phase, target, token, started, runs, evicted, late>>

FairnessInit == subject \in {"agent", "signin"} /\ Init /\ SignIn!Init

FairnessNext ==
  /\ UNCHANGED subject
  /\ \/ subject = "agent" /\ Next /\ UNCHANGED signInVars
     \/ subject = "signin" /\ SignIn!Next /\ UNCHANGED vars

BothFair ==
  /\ FairnessInit /\ [][FairnessNext]_<<subject, vars, signInVars>>
  /\ Fairness /\ SignIn!Fairness

\* Every session of a user whom a logout token names ends, as SignIn has it.
NamedSessionsEnd == SignIn!NamedSessionsEnd
=============================================================================
