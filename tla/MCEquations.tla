---------------------------- MODULE MCEquations ----------------------------
(* Small netlists for Equations. *)
EXTENDS Equations

a == Equation("a", "netlist")
b == Equation("b", "netlist")
c == Equation("c", "netlist")

Three == {<<a, b, c>>}
=============================================================================
