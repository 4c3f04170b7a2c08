----------------------------- MODULE LineSearch -----------------------------
(***************************************************************************)
(* The damping factor search of nasolver::lineSearch, a damped             *)
(* Newton-Raphson step.                                                    *)
(*                                                                         *)
(* The code's alpha, aprev and astep are exact binary fractions, and astep *)
(* is halved in every turn.  Here they are counted in units of half the    *)
(* current astep: astep is always two units, `one' is the number of units  *)
(* in 1.0, and halving astep doubles every count.  The norm of the right   *)
(* hand side is left open: a turn finds a new minimum or it does not, and  *)
(* a norm that is not a number is never one.                               *)
(***************************************************************************)
EXTENDS Integers

CONSTANT Resolution   \* inverse of the smallest change of alpha (200)

ASSUME ResolutionAssumption == Resolution \in Nat \ {0}

VARIABLES
  phase,   \* "search", "done"
  one,     \* units in a damping factor of 1.0
  alpha,   \* damping factor
  aprev,   \* damping factor of the turn before
  dir,     \* direction of the search, -1 or 1
  isMin    \* did the last turn find the smallest norm so far?

searchVars == <<phase, one, alpha, aprev, dir, isMin>>

astep == 2

StartSearch ==
  /\ phase = "search"
  /\ one = 4
  /\ alpha = 2
  /\ aprev = 4
  /\ dir = -1
  /\ isMin = FALSE

adiff == IF alpha > aprev THEN alpha - aprev ELSE aprev - alpha

TenfoldFiner == 10 * Resolution * adiff > one

StillMoving == Resolution * adiff > one

NeverFlips == dir

\* A new minimum at alpha = 1 cannot be improved by going up further.
BetterDir == IF alpha = one THEN -dir ELSE dir

\* The way back after overshooting, 1.5 times the halved step.
BackStep == 3

\* The norm is the smallest so far: go on in the same direction.
Better ==
  /\ phase = "search"
  /\ StillMoving
  /\ one' = 2 * one
  /\ aprev' = 2 * alpha
  /\ dir' = BetterDir
  /\ alpha' = 2 * alpha + astep * dir'
  /\ isMin' = TRUE
  /\ UNCHANGED phase

\* The norm got worse: turn round.
Worse ==
  /\ phase = "search"
  /\ StillMoving
  /\ one' = 2 * one
  /\ aprev' = 2 * alpha
  /\ dir' = -dir
  /\ alpha' = 2 * alpha + BackStep * dir'
  /\ isMin' = FALSE
  /\ UNCHANGED phase

\* The factor hardly moved: it is applied as it is.
Finish ==
  /\ phase = "search"
  /\ ~StillMoving
  /\ phase' = "done"
  /\ isMin' \in BOOLEAN
  /\ UNCHANGED <<one, alpha, aprev, dir>>

SearchTurn == Better \/ Worse \/ Finish

SearchSpec == StartSearch /\ [][SearchTurn]_searchVars /\ WF_searchVars(SearchTurn)

-----------------------------------------------------------------------------
(* Properties. *)

\* The types of the state of applyAttenuation's "line search" branch.
SearchTypeOK ==
  /\ phase \in {"search", "done"}
  /\ one \in Nat \ {0}
  /\ alpha \in Int
  /\ aprev \in Int
  /\ dir \in {-1, 1}
  /\ isMin \in BOOLEAN

\* assert (alpha > 0 && alpha <= 1), not only after the search but for every
\* factor it tries.
AlphaInRange == 0 < alpha /\ alpha <= one

\* The room the search keeps below and above it, by direction: going down it
\* is a full step away from both ends, going up it has passed the lower end.
Room ==
  /\ dir = -1 => alpha >= 2 /\ one - alpha >= 2
  /\ dir = 1 => alpha >= 3 /\ one - alpha >= 0

\* The nested iteration is short: with every turn the factor moves by at most
\* one and a half of the halved step, so the number of times the step has been
\* halved is bounded by the resolution (nine evaluations for the code's 200).
FewTurns == one <= 4 \/ one < 6 * Resolution

\* What the last turn moved the factor by.
LastMove == phase = "search" => adiff \in {2, 3}

\* "It identifies a damping factor in the interval [0,1] which minimizes the
\* right hand side vector": the factor that is applied is the best one tried.
\* Not kept by the code: README, section 3.
AppliesMinimum == phase = "done" => isMin
=============================================================================
