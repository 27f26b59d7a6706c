-------------------------- MODULE MCAgentDispatcher --------------------------
(* Constants for model checking AgentDispatcher with TLC.                   *)
EXTENDS AgentDispatcher, TLC

Symmetry == Permutations(Requests) \cup Permutations(Users)
==============================================================================
