----------------------------- MODULE Transient -----------------------------
(***************************************************************************)
(* The time-step control of the transient analysis (trsolver::solve and    *)
(* the functions it calls) on top of the eight-slot ring of save-state     *)
(* variables (class states).                                               *)
(*                                                                         *)
(* Time is counted in ticks.  A solution vector is represented by the time *)
(* at which it was computed and by whether the corrector reached it.  What *)
(* the numerics decide is left open: whether the corrector converges, the  *)
(* step size the truncation error suggests, whether the Jacobian stays     *)
(* finite.  One action is one turn of the do-while loop.                   *)
(***************************************************************************)
EXTENDS Integers, Sequences

CONSTANTS
  StateNum,      \* slots of the save-state ring (STATE_NUM, 8 in the code)
  TimePoints,    \* the requested time points, an increasing sequence
  deltaMin,      \* smallest step size
  deltaMax,      \* largest step size
  FirstStep,     \* the initial step size after its division by ten
  corrMaxOrder,  \* maximum order of the corrector
  relaxTSR,      \* relaxed time step raster requested?
  GoodGuess,     \* converged steps before breakpoints count again (64)
  MayDiverge     \* can the corrector fail to converge for this circuit?

ASSUME RingAssumption == StateNum \in Nat /\ StateNum > 2

ASSUME StepAssumption ==
  /\ deltaMin \in Nat \ {0}
  /\ deltaMax \in Nat \ {0}
  /\ FirstStep \in Nat \ {0}
  /\ deltaMin <= deltaMax
  /\ FirstStep <= deltaMax

ASSUME OrderAssumption ==
  /\ corrMaxOrder \in Nat \ {0}
  /\ corrMaxOrder + 2 <= StateNum
  /\ GoodGuess \in Nat
  /\ relaxTSR \in BOOLEAN
  /\ MayDiverge \in BOOLEAN

ASSUME PointsAssumption ==
  /\ TimePoints \in Seq(Nat)
  /\ TimePoints # <<>>
  /\ \A p, q \in DOMAIN TimePoints : p < q => TimePoints[p] < TimePoints[q]

VARIABLES
  pc,            \* "start", "step" (do-while body), "save", "done", "failed"
  point,         \* index of the requested time point (the for loop's i, plus 1)
  current,       \* time at which the corrector solves
  saveCurrent,   \* time of the last accepted turn
  delta,         \* step size
  stepDelta,     \* step size to restore after a breakpoint, or -1
  running,       \* turns taken so far, counted up to 2
  statRejected,  \* parity of the number of rejected turns
  rejected,      \* was the last step size choice rejected?
  converged,     \* turns since the last non-convergence, up to GoodGuess + 1
  diverged,      \* statConvergence # 0
  convError,     \* countdown of the damped Newton-Raphson, not below -1
  convHelper,    \* "none", "LineSearch", "SteepestDescent"
  corrOrder,     \* order of corrector and predictor
  currentstate,  \* position of the ring
  dState,        \* ring of step sizes
  solution,      \* ring of solution vectors (SOL macro)
  statSteps,     \* calls of nextStates, counted up to StateNum
  x,             \* the solution vector
  tHistory,      \* last entry of the circuits' history, or -1
  result         \* the last entry written to the dataset

vars == <<pc, point, current, saveCurrent, delta, stepDelta, running,
          statRejected, rejected, converged, diverged, convError, convHelper, corrOrder, currentstate,
          dState, solution, statSteps, x, tHistory, result>>

-----------------------------------------------------------------------------
(* The ring of save-state variables. *)

Slots == 0 .. StateNum - 1

\* Ring index of a position; higher positions mean earlier states.
Slot(n, cur) == (n + cur) % StateNum

getState(ring, cur, n) == ring[Slot(n, cur)]

setState(ring, cur, n, val) == [ring EXCEPT ![Slot(n, cur)] = val]

nextState(cur) == IF cur - 1 < 0 THEN StateNum - 1 ELSE cur - 1

fillState(val) == [s \in Slots |-> val]

SOL(n) == getState(solution, currentstate, n)

-----------------------------------------------------------------------------
(* Step sizes. *)

AtMost(d, hi) == IF d > hi THEN hi ELSE d
AtLeast(d, lo) == IF d < lo THEN lo ELSE d

Clamp(d) == AtLeast(AtMost(d, deltaMax), deltaMin)

\* Half of a step size lies on a tick or between two of them.
Halves(d) == {d \div 2, (d + 1) \div 2}

\* The step size for an estimate n of the truncation error.
checkDelta(d, n) == AtMost(IF 10 * n > 19 * d THEN 2 * d ELSE d, n)

\* A vector solved at time t; ok iff the corrector reached convergence.
Vector(t, ok) == [t |-> t, ok |-> ok]

time == TimePoints[point]

-----------------------------------------------------------------------------
NoResult == [label |-> -1, vec |-> Vector(0, TRUE)]

\* The values every call of trsolver::solve starts from.
FreshRun ==
  /\ pc = "start"
  /\ point = 1
  /\ current = 0
  /\ saveCurrent = 0
  /\ delta = FirstStep
  /\ stepDelta = -1
  /\ running = 0
  /\ statRejected = 0
  /\ rejected = FALSE
  /\ converged = 0
  /\ diverged = FALSE
  /\ convError = 0
  /\ corrOrder = corrMaxOrder
  /\ currentstate = 0
  /\ dState = fillState(FirstStep)
  /\ solution = fillState(Vector(0, TRUE))
  /\ statSteps = 0
  /\ x = Vector(0, TRUE)
  /\ tHistory = -1
  /\ result = NoResult

Init ==
  /\ FreshRun
  /\ convHelper = "none"

-----------------------------------------------------------------------------
\* The initial DC analysis fails, or it converges at once or with the line
\* search fallback; then the integrators are prepared with order one.
InitialDC ==
  /\ pc = "start"
  /\ \/ /\ pc' = "failed"
        /\ convHelper' \in {convHelper, "LineSearch"}
        /\ UNCHANGED corrOrder
     \/ /\ pc' = "step"
        /\ convHelper' \in {convHelper, "LineSearch"}
        /\ corrOrder' = 1
  /\ UNCHANGED <<point, current, saveCurrent, delta, stepDelta, running,
                 statRejected, rejected, converged, diverged, convError, currentstate, dState,
                 solution, statSteps, x, tHistory, result>>

-----------------------------------------------------------------------------
(* One turn of the do-while loop. *)

\* Leave the loop once the requested time point is hit.
LoopTest == pc' = IF saveCurrent' < time THEN "step" ELSE "save"

KeepsDeltas == dState

updateCoefficients == setState(dState, currentstate, 0, delta)

\* The predictor's guess occupies slot 0 until a turn is accepted.
predictor == setState(solution, currentstate, 0, Vector(current, FALSE))

StaysAhead(t, d) == t

\* Back from time t by step d, unless time has not started yet.
StepBack(t, d) == IF t > 0 THEN t - d ELSE t

GrowsAnyway(reduce, rej) ==
  IF reduce THEN 1 ELSE AtMost(corrOrder + 1, corrMaxOrder)

\* The order of corrector and predictor after a turn.
adjustOrder(reduce, rej) ==
  IF reduce THEN 1
  ELSE IF corrOrder < corrMaxOrder /\ ~rej THEN corrOrder + 1
  ELSE corrOrder

\* The corrector gives up: go back and retry with half the step size.
NoConvergence ==
  /\ pc = "step"
  /\ MayDiverge
  /\ LET back == StepBack(current, delta) IN
     \E h \in Halves(delta) :
       LET small == h <= deltaMin
           d == IF small THEN deltaMin ELSE h IN
       /\ delta' = d
       /\ current' = IF back > 0 THEN back + d ELSE back
       /\ corrOrder' = IF small THEN adjustOrder(TRUE, rejected) ELSE corrOrder
  /\ statRejected' = 1 - statRejected
  /\ rejected' = TRUE
  /\ converged' = 0
  /\ diverged' = TRUE
  /\ convError' = 2
  /\ convHelper' = "SteepestDescent"
  /\ dState' = updateCoefficients
  /\ solution' = predictor
  /\ x' = Vector(current, FALSE)
  /\ UNCHANGED <<point, saveCurrent, stepDelta, running, currentstate,
                 statSteps, tHistory, result>>
  /\ LoopTest

\* Any other exception, or a Jacobian that is not finite, ends the analysis.
Failure ==
  /\ pc = "step"
  /\ pc' = "failed"
  /\ rejected' = FALSE
  /\ UNCHANGED statRejected
  /\ dState' = updateCoefficients
  /\ solution' = predictor
  /\ x' = Vector(current, FALSE)
  /\ UNCHANGED <<point, current, saveCurrent, delta, stepDelta, running,
                 converged, diverged, convError, convHelper, corrOrder,
                 currentstate, statSteps, tHistory, result>>

\* The solution becomes SOL (0) and the ring moves on.
nextStates ==
  /\ rejected' = FALSE
  /\ solution' = setState(solution, currentstate, 0, Vector(current, TRUE))
  /\ currentstate' = nextState(currentstate)
  /\ statSteps' = AtMost(statSteps + 1, StateNum)

\* What every turn with a converged corrector does around the step control.
ConvergedTurn ==
  /\ pc = "step"
  /\ dState' = updateCoefficients
  /\ x' = Vector(current, TRUE)
  /\ convError' = AtLeast(convError - 1, -1)
  /\ convHelper' = IF convError - 1 < 0 THEN "none" ELSE convHelper
  /\ running' = AtMost(running + 1, 2)
  /\ converged' = AtMost(converged + 1, GoodGuess + 1)
  /\ tHistory' = IF running = 0 \/ saveCurrent' > tHistory
                 THEN saveCurrent' ELSE tHistory
  /\ UNCHANGED <<point, diverged, result>>
  /\ LoopTest

\* The first two turns keep the step size and fill the circuits' states.
StartTurn ==
  /\ running <= 1
  /\ nextStates
  /\ saveCurrent' = current
  /\ current' = current + delta
  /\ UNCHANGED <<delta, stepDelta, corrOrder, statRejected>>
  /\ ConvergedTurn

Choice(d, s, g) == [delta |-> d, stepDelta |-> s, good |-> g]

IgnoresPoint(d, t) == {Choice(d, -1, FALSE)}

\* Step sizes adjustDelta may choose to hit breakpoint t when the truncation
\* error allows d.
Breakpoint(d, t) ==
  IF stepDelta > 0
    THEN {Choice(stepDelta, -1, FALSE)}
  ELSE IF t - (current + d) < deltaMin /\ current + d < t
    THEN {Choice(h, stepDelta, FALSE) : h \in Halves(d)}
  ELSE IF d > t - current /\ t > current
    THEN {Choice(t - current, delta, TRUE)}
  ELSE {Choice(d, -1, FALSE)}

BreakpointsCount == ~relaxTSR /\ (~diverged \/ converged > GoodGuess)

\* All outcomes of adjustDelta for a truncation error estimate n.
adjustDelta(n) ==
  LET d == Clamp(checkDelta(delta, n)) IN
  IF BreakpointsCount
    THEN {[c EXCEPT !.delta = Clamp(@)] : c \in Breakpoint(d, time)}
    ELSE {Choice(d, stepDelta, FALSE)}

OnlyGrowth(c) == c.delta > delta \/ c.good

Accepts(c) == 10 * c.delta > 9 * delta \/ c.good

Estimates == 1 .. 2 * deltaMax

\* The turn is accepted: time advances and the order may grow.
AcceptTurn ==
  /\ running > 1
  /\ \E n \in Estimates : \E c \in adjustDelta(n) :
       /\ Accepts(c)
       /\ delta' = c.delta
       /\ stepDelta' = c.stepDelta
       /\ current' = current + c.delta
  /\ nextStates
  /\ saveCurrent' = current
  /\ corrOrder' = adjustOrder(FALSE, FALSE)
  /\ UNCHANGED statRejected
  /\ ConvergedTurn

\* The truncation error is too large: step back and retry.
RejectTurn ==
  /\ running > 1
  /\ \E n \in Estimates : \E c \in adjustDelta(n) :
       /\ ~Accepts(c)
       /\ delta' = c.delta
       /\ stepDelta' = c.stepDelta
       /\ saveCurrent' = StepBack(current, delta)
       /\ current' = saveCurrent' + c.delta
  /\ statRejected' = 1 - statRejected
  /\ rejected' = TRUE
  /\ solution' = predictor
  /\ corrOrder' = adjustOrder(FALSE, TRUE)
  /\ UNCHANGED <<currentstate, statSteps>>
  /\ ConvergedTurn

-----------------------------------------------------------------------------
\* The results of a requested time point go into the dataset.
SavePoint ==
  /\ pc = "save"
  /\ result' = [label |-> time, vec |-> x]
  /\ IF point < Len(TimePoints)
       THEN point' = point + 1 /\ pc' = "step"
       ELSE pc' = "done" /\ UNCHANGED point
  /\ UNCHANGED <<current, saveCurrent, delta, stepDelta, running,
                 statRejected, rejected, converged, diverged, convError, convHelper, corrOrder,
                 currentstate, dState, solution, statSteps, x, tHistory>>

\* The recorded step sizes are reset together with the step size.
RefillDeltas == fillState(FirstStep)

\* A parameter sweep solves again; only the convergence helper carries over.
Again ==
  /\ pc \in {"done", "failed"}
  /\ pc' = "start"
  /\ point' = 1
  /\ current' = 0
  /\ saveCurrent' = 0
  /\ delta' = FirstStep
  /\ stepDelta' = -1
  /\ running' = 0
  /\ statRejected' = 0
  /\ rejected' = FALSE
  /\ converged' = 0
  /\ diverged' = FALSE
  /\ convError' = 0
  /\ corrOrder' = corrMaxOrder
  /\ currentstate' = 0
  /\ dState' = RefillDeltas
  /\ solution' = fillState(Vector(0, TRUE))
  /\ statSteps' = 0
  /\ x' = Vector(0, TRUE)
  /\ tHistory' = -1
  /\ result' = NoResult
  /\ UNCHANGED convHelper

Next ==
  \/ InitialDC
  \/ NoConvergence
  \/ Failure
  \/ StartTurn
  \/ AcceptTurn
  \/ RejectTurn
  \/ SavePoint
  \/ Again

Spec == Init /\ [][Next]_vars /\ WF_vars(Next)

-----------------------------------------------------------------------------
(* Properties. *)

VectorSet == [t : Nat, ok : BOOLEAN]
StepSizes == 1 .. deltaMax

\* The types of the state. The step sizes stay between one unit and deltaMax
\* however they are halved, doubled or fitted to the raster (trsolver::solve,
\* adjustDelta), and the ring index stays on the ring.
TypeOK ==
  /\ pc \in {"start", "step", "save", "done", "failed"}
  /\ point \in DOMAIN TimePoints
  /\ current \in Nat
  /\ saveCurrent \in Nat
  /\ delta \in StepSizes
  /\ stepDelta \in StepSizes \cup {-1}
  /\ running \in 0 .. 2
  /\ statRejected \in {0, 1}
  /\ rejected \in BOOLEAN
  /\ converged \in 0 .. GoodGuess + 1
  /\ diverged \in BOOLEAN
  /\ convError \in -1 .. 2
  /\ convHelper \in {"none", "LineSearch", "SteepestDescent"}
  /\ corrOrder \in 1 .. corrMaxOrder
  /\ currentstate \in Slots
  /\ dState \in [Slots -> StepSizes]
  /\ solution \in [Slots -> VectorSet]
  /\ statSteps \in 0 .. StateNum
  /\ x \in VectorSet
  /\ tHistory \in Nat \cup {-1}
  /\ result \in [label : Nat \cup {-1}, vec : VectorSet]

\* Two solutions of the initial time point: a step that had to be repeated
\* before time left zero.
AtOrigin(v, w) == v.t = 0 /\ w.t = 0

\* The divided differences of the predictor divide by the right step: every
\* recorded step size is the distance of the two accepted solutions it lies
\* between, whatever was rejected or repeated in the meantime.
StepsMatchSolutions ==
  \A k \in 1 .. StateNum - 2 :
    k < statSteps =>
      \/ getState(dState, currentstate, k) = SOL(k).t - SOL(k + 1).t
      \/ AtOrigin(SOL(k), SOL(k + 1))

\* The corrector solves exactly one step size after the last accepted
\* solution, except that time zero may be solved again.
CurrentFollowsSolution ==
  statSteps > 0 =>
    \/ current = SOL(1).t + delta
    \/ current = 0 /\ SOL(1).t = 0

\* Only accepted solutions stay in the ring, and the circuits' histories end
\* with the newest of them.
AcceptedOnly ==
  /\ \A k \in 1 .. StateNum - 1 : SOL(k).ok
  /\ statSteps > 0 => tHistory = SOL(1).t /\ saveCurrent = SOL(1).t

\* Once the step control is at work the predictor never reaches back beyond
\* the accepted solutions.
OrderHasHistory ==
  running > 1 => corrOrder + 1 <= AtMost(statSteps, StateNum - 1)

Saved == result.label # -1

\* As long as the corrector converges, the vector stored in the dataset for a
\* requested time point was solved at that point or less than one smallest
\* step behind it.
SavedNearPoint ==
  Saved /\ ~diverged =>
    result.vec.t >= result.label /\ result.vec.t - result.label < deltaMin

\* "delta correction in order to hit exact breakpoint": the stored vector was
\* solved at the very time it is stored for.
\* Not kept by the code: README, section 3.
SavedAtPoint == Saved => result.vec.t = result.label

\* "if the step was rejected, the solution loop is restarted here": nothing is
\* stored that the corrector did not reach.
\* Not kept by the code: README, section 3.
SavedConverged == Saved => result.vec.ok

\* What goes into the dataset is the newest accepted solution, never one of a
\* rejected turn; only the initial time point may be stored unsolved.
\* Not kept by the code: README, section 3.
SavedIsNewest ==
  pc = "save" => x = SOL(1) \/ time = 0

\* "step forward to the new current time value": after every turn the
\* corrector solves one step size after the newest accepted solution.
\* Not kept by the code: README, section 3.
SteppedForward ==
  pc = "step" /\ statSteps > 0 => current = SOL(1).t + delta

\* The step control, its rejections, breakpoint corrections and lower limit
\* together, always reaches the end of the run, unless the corrector itself
\* fails to converge.
RunEnds == pc = "step" ~> pc \in {"done", "failed"} \/ diverged

\* The register of accepted steps as the rings represent it.
Register ==
  [k \in 1 .. StateNum - 1 |->
     [step |-> getState(dState, currentstate, k), sol |-> SOL(k)]]

AcceptedEntries == [step : StepSizes, sol : [t : Nat, ok : {TRUE}]]

Abstract ==
  INSTANCE StepHistory WITH
    Depth <- StateNum - 1, Entries <- AcceptedEntries, reg <- Register,
    FirstEntry <- [step |-> FirstStep, sol |-> Vector(0, TRUE)]

\* The two rings, shared position and all, implement one register of accepted
\* steps: rejected turns and failures leave it as it is, an accepted turn puts
\* one entry in front that follows the newest one in time, and every run of a
\* parameter sweep starts from a fresh one.
ImplementsStepHistory == Abstract!Spec
=============================================================================
