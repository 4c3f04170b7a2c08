--------------------------- MODULE MCAnalysisOrder ---------------------------
(* Small netlists for AnalysisOrder. *)
EXTENDS AnalysisOrder

\* Sweeps of different lengths.
TwoOrThree == [s \in Sweeps |-> IF s = "SW1" THEN 3 ELSE 2]

\* Two analyses below two sweeps, or one below three, with and without DC.
FourOrFive ==
  LET some == {{"SW1", "SW2", "AC1", "SP1"}, {"SW1", "SW2", "SW3", "AC1"}}
  IN  some \cup {as \cup {dc} : as \in some}
=============================================================================
