---------------------------- MODULE MCTransient ----------------------------
(***************************************************************************)
(* Instances of Transient for TLC.                                         *)
(***************************************************************************)
EXTENDS Transient

\* Three requested time points whose distance is the largest step size.
EvenPoints == <<0, 6, 12>>
=============================================================================
