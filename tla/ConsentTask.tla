----------------------------- MODULE ConsentTask -----------------------------
(***************************************************************************)
(* What the agent's side of a consent promises, whoever looks at it.       *)
(* AgentDispatcher is the agent itself, with its requests, keys, restarts  *)
(* and expired entries; SessionCascade has the agent as the orchestrator   *)
(* meets it.  Both implement this.                                         *)
(*                                                                         *)
(* A consent's background task only goes forward, but for a poll that is   *)
(* answered "pending"; no poll is sent for a consent that is cancelled,    *)
(* and a cancel is forgotten only with the polling; a token is cached by   *)
(* the step that ends its task, so a token that was dropped from the cache *)
(* never returns to it.  Any number of consents may move at once: a crash  *)
(* ends them all.                                                          *)
(***************************************************************************)
CONSTANTS Consents

VARIABLES stage, stopped, cached

vars == <<stage, stopped, cached>>

Moves ==
  {<<"none", "sleeping">>, <<"sleeping", "posting">>, <<"sleeping", "error">>,
   <<"posting", "sleeping">>, <<"posting", "minted">>, <<"posting", "error">>,
   <<"minted", "result">>, <<"minted", "error">>}

Polls == {"sleeping", "posting"}

Init ==
  /\ stage = [c \in Consents |-> "none"]
  /\ stopped = {}
  /\ cached = {}

Moved(c) == stage'[c] # stage[c]

Next ==
  /\ \A c \in Consents : Moved(c) => <<stage[c], stage'[c]>> \in Moves
  /\ \A c \in Consents : Moved(c) /\ stage'[c] = "posting" => c \notin stopped
  /\ \A c \in stopped \ stopped' : stage'[c] \notin Polls
  /\ \A c \in cached' \ cached : stage[c] = "minted" /\ stage'[c] = "result"

Spec == Init /\ [][Next]_vars

=============================================================================
