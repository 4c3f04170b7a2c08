---------------------------- MODULE StepHistory ----------------------------
(***************************************************************************)
(* What the integrators and the predictor of the transient analysis expect *)
(* of the save-state ring: a register of the accepted time steps, newest   *)
(* first.  Every entry holds a solution and the step size that led to it.  *)
(* An accepted step follows the newest one in time; a rejected step leaves *)
(* no trace.                                                               *)
(***************************************************************************)
EXTENDS Integers

CONSTANTS
  Depth,       \* number of entries
  Entries,     \* [step, sol] with a converged solution, whose time is sol.t
  FirstEntry   \* what the register is filled with before an analysis

VARIABLE reg

Fresh == [k \in 1 .. Depth |-> FirstEntry]

Init == reg = Fresh

\* Time zero is the only time that may be solved repeatedly.
Follows(new, old) ==
  \/ new.sol.t = old.sol.t + new.step
  \/ new.sol.t = 0 /\ old.sol.t = 0

Accept ==
  /\ reg' \in [1 .. Depth -> Entries]
  /\ Follows(reg'[1], reg[1])
  /\ \A k \in 1 .. Depth - 1 : reg'[k + 1] = reg[k]

Restart == reg' = Fresh

Next == Accept \/ Restart

Spec == Init /\ [][Next]_reg
=============================================================================
