--------------------------- MODULE MCConsentScreen ---------------------------
(* Constants for model checking ConsentScreen with TLC.                      *)
EXTENDS ConsentScreen, TLC
==============================================================================
