----------------------------- MODULE MCHistory -----------------------------
(* An instance of History: circuits with two delays.                        *)
EXTENDS History

CONSTANTS v1, v2
=============================================================================
