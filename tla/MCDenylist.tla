----------------------------- MODULE MCDenylist -----------------------------
(* Constants for model checking Denylist with TLC.                          *)
EXTENDS Denylist, TLC

CONSTANTS t1

OneExpiry == t1 :> 0
=============================================================================
