---------------------------- MODULE MCDocuments -----------------------------
(* Documents for TLC: document objects are interchangeable.  What is drawn  *)
(* has a subcircuit of the first file; the second one is also reached under *)
(* another spelling.                                                        *)
EXTENDS Documents, TLC

UsesFirst == [c \in Contents |-> IF c = Blank THEN {} ELSE {"n1"}]

CleanSecond == [r \in Spellings |-> "n2"]

Symmetry == Permutations(Docs)
=============================================================================
