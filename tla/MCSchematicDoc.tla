--------------------------- MODULE MCSchematicDoc ---------------------------
(***************************************************************************)
(* An instance of SchematicDoc for TLC.                                    *)
(***************************************************************************)
EXTENDS SchematicDoc, TLC

\* No operation tells one value of the document settings from another.
AnySettings == Permutations(Settings)

\* Once a load failed or an optimization ended behind the symbol only the stack
\* positions are of interest, which do not depend on the contents: short stacks
\* will do.
Explored == intact \/ Len(undoAction) + Len(undoSymbol) <= 2
=============================================================================
