-------------------------- MODULE MCEnvironments --------------------------
(* A netlist for Environments: two instances X1 and X2 of T, which contains  *)
(* an instance of U; another instance of U between them.                     *)
EXTENDS Environments

Expanded == <<"X1", "X1.Y", "Z", "X2", "X2.Y">>
TypeTable == [e \in Range(Expanded) |-> IF e \in {"X1", "X2"} THEN "T" ELSE "U"]
ParentTable ==
  [e \in Range(Expanded) |->
     CASE e = "X1.Y" -> "X1" [] e = "X2.Y" -> "X2" [] OTHER -> "top"]
LineTable == [e \in Range(Expanded) |-> IF e \in {"X1.Y", "X2.Y"} THEN "Y" ELSE e]

Given ==
  {[kind |-> "none"], [kind |-> "number", value |-> 5]}
    \cup {[kind |-> "reference", name |-> n] : n \in {"p", "q"}}
=============================================================================
