-------------------------- MODULE TransientProofs --------------------------
(***************************************************************************)
(* The rings of step sizes and solutions of the transient analysis stay    *)
(* consistent with the time, for every ring size, step size limits, set of *)
(* requested points and order, and whatever converges or is rejected.      *)
(***************************************************************************)
EXTENDS Transient, TLAPS

-----------------------------------------------------------------------------
(* The ring. *)

\* A remainder between once and twice the modulus.
LEMMA ModAbove ==
  ASSUME NEW N \in Nat \ {0}, NEW i \in N .. N + N - 1
  PROVE  i % N = i - N
OBVIOUS

\* Positions of the ring are slots.
LEMMA SlotType ==
  ASSUME NEW n \in Nat, NEW cur \in Slots
  PROVE  Slot(n, cur) \in Slots
BY RingAssumption DEF Slots, Slot

\* The ring moves on to a slot.
LEMMA NextStateType ==
  ASSUME NEW cur \in Slots
  PROVE  nextState(cur) \in Slots
BY RingAssumption DEF Slots, nextState

\* Below twice the ring size a position wraps round at most once.
LEMMA SlotIs ==
  ASSUME NEW n \in Slots, NEW cur \in Slots
  PROVE  Slot(n, cur) = IF n + cur < StateNum THEN n + cur ELSE n + cur - StateNum
<1>1. PICK i \in Nat : i = n + cur
  BY RingAssumption DEF Slots
<1>2. StateNum \in Nat \ {0}
  BY RingAssumption
<1>3. CASE i < StateNum
  BY <1>1, <1>2, <1>3 DEF Slot
<1>4. CASE ~(i < StateNum)
  <2>1. i \in StateNum .. StateNum + StateNum - 1
    BY <1>1, <1>2, <1>4 DEF Slots
  <2>2. i % StateNum = i - StateNum
    BY <1>2, <2>1, ModAbove
  <2>3. QED
    BY <1>1, <1>2, <1>4, <2>2 DEF Slot, Slots
<1>5. QED
  BY <1>3, <1>4

\* Writing the current position leaves the earlier ones alone.
LEMMA EarlierKept ==
  ASSUME NEW S, NEW ring \in [Slots -> S], NEW cur \in Slots, NEW v \in S,
         NEW k \in 1 .. StateNum - 1
  PROVE  getState(setState(ring, cur, 0, v), cur, k) = getState(ring, cur, k)
<1>1. 0 \in Slots /\ k \in Slots /\ k # 0
  BY RingAssumption DEF Slots
<1>2. Slot(k, cur) # Slot(0, cur)
  <2>1. Slot(k, cur) = IF k + cur < StateNum THEN k + cur ELSE k + cur - StateNum
    BY <1>1, SlotIs
  <2>2. Slot(0, cur) = IF 0 + cur < StateNum THEN 0 + cur ELSE 0 + cur - StateNum
    BY <1>1, SlotIs
  <2>3. StateNum \in Nat /\ cur \in 0 .. StateNum - 1 /\ k \in 1 .. StateNum - 1
    BY RingAssumption DEF Slots
  <2>4. QED
    BY <2>1, <2>2, <2>3
<1>3. Slot(k, cur) \in Slots
  BY SlotType, RingAssumption
<1>4. QED
  BY <1>2, <1>3 DEF getState, setState

\* After the ring has moved on, the value written last is at position one.
LEMMA NewestAfterShift ==
  ASSUME NEW S, NEW ring \in [Slots -> S], NEW cur \in Slots, NEW v \in S
  PROVE  getState(setState(ring, cur, 0, v), nextState(cur), 1) = v
<1>1. 0 \in Slots /\ 1 \in Slots
  BY RingAssumption DEF Slots
<1>2. Slot(1, nextState(cur)) = Slot(0, cur)
  BY <1>1, SlotIs, NextStateType, RingAssumption DEF Slots, nextState
<1>3. Slot(0, cur) \in Slots
  BY SlotType
<1>4. QED
  BY <1>2, <1>3 DEF getState, setState

\* After the ring has moved on, what was at position k is at position k + 1.
LEMMA EarlierAfterShift ==
  ASSUME NEW S, NEW ring \in [Slots -> S], NEW cur \in Slots, NEW v \in S,
         NEW k \in 1 .. StateNum - 2
  PROVE  getState(setState(ring, cur, 0, v), nextState(cur), k + 1)
           = getState(ring, cur, k)
<1>1. k \in Slots /\ k + 1 \in Slots /\ k \in 1 .. StateNum - 1
  BY RingAssumption DEF Slots
<1>2. Slot(k + 1, nextState(cur)) = Slot(k, cur)
  BY <1>1, SlotIs, NextStateType, RingAssumption DEF Slots, nextState
<1>3. getState(setState(ring, cur, 0, v), nextState(cur), k + 1)
        = getState(setState(ring, cur, 0, v), cur, k)
  BY <1>2 DEF getState
<1>4. QED
  BY <1>1, <1>3, EarlierKept

\* Writing a position keeps the type of the ring.
LEMMA RingType ==
  ASSUME NEW S, NEW ring \in [Slots -> S], NEW cur \in Slots, NEW v \in S
  PROVE  setState(ring, cur, 0, v) \in [Slots -> S]
BY DEF setState

\* A solution vector's representation.
LEMMA VectorType ==
  ASSUME NEW t \in Nat, NEW ok \in BOOLEAN
  PROVE  /\ Vector(t, ok) \in VectorSet
         /\ Vector(t, ok).t = t
         /\ Vector(t, ok).ok = ok
BY DEF Vector, VectorSet

-----------------------------------------------------------------------------
(* The inductive invariant. *)

\* How the counters of turns and accepted turns start together with time.
Counters ==
  /\ running = 0 <=> statSteps = 0
  /\ running > 1 => statSteps > 1
  /\ statSteps = 0 => current = 0 /\ saveCurrent = 0

\* Until the step control starts to work, the order is one.
LowOrder == pc \in {"step", "save"} /\ running <= 1 => corrOrder = 1

RingInv == StepsMatchSolutions /\ CurrentFollowsSolution /\ AcceptedOnly

IInv == TypeOK /\ Counters /\ LowOrder /\ RingInv /\ OrderHasHistory

\* A turn that is not accepted touches the current position only.
LEMMA RejectedKeepsRing ==
  ASSUME TypeOK, dState' = updateCoefficients, solution' = predictor,
         currentstate' = currentstate
  PROVE  /\ dState' \in [Slots -> StepSizes]
         /\ solution' \in [Slots -> VectorSet]
         /\ \A k \in 1 .. StateNum - 1 :
              /\ getState(dState, currentstate, k)' = getState(dState, currentstate, k)
              /\ SOL(k)' = SOL(k)
<1>1. /\ dState \in [Slots -> StepSizes]
      /\ solution \in [Slots -> VectorSet]
      /\ currentstate \in Slots
      /\ delta \in StepSizes
      /\ current \in Nat
  BY DEF TypeOK
<1>2. Vector(current, FALSE) \in VectorSet
  BY <1>1, VectorType
<1>3. dState' \in [Slots -> StepSizes] /\ solution' \in [Slots -> VectorSet]
  BY <1>1, <1>2, RingType DEF updateCoefficients, predictor
<1>4. ASSUME NEW k \in 1 .. StateNum - 1
      PROVE  /\ getState(dState', currentstate, k) = getState(dState, currentstate, k)
             /\ getState(solution', currentstate, k) = getState(solution, currentstate, k)
  BY <1>1, <1>2, EarlierKept DEF updateCoefficients, predictor
<1>5. QED
  BY <1>3, <1>4 DEF SOL, getState

\* A turn that is accepted moves both rings on by one position.
LEMMA AcceptedShiftsRing ==
  ASSUME TypeOK, dState' = updateCoefficients, nextStates
  PROVE  /\ dState' \in [Slots -> StepSizes]
         /\ solution' \in [Slots -> VectorSet]
         /\ currentstate' \in Slots
         /\ getState(dState, currentstate, 1)' = delta
         /\ SOL(1)' = Vector(current, TRUE)
         /\ \A k \in 1 .. StateNum - 2 :
              /\ getState(dState, currentstate, k + 1)' = getState(dState, currentstate, k)
              /\ SOL(k + 1)' = SOL(k)
<1>1. /\ dState \in [Slots -> StepSizes]
      /\ solution \in [Slots -> VectorSet]
      /\ currentstate \in Slots
      /\ delta \in StepSizes
      /\ current \in Nat
  BY DEF TypeOK
<1>2. Vector(current, TRUE) \in VectorSet
  BY <1>1, VectorType
<1>3. /\ solution' = setState(solution, currentstate, 0, Vector(current, TRUE))
      /\ dState' = setState(dState, currentstate, 0, delta)
      /\ currentstate' = nextState(currentstate)
  BY DEF nextStates, updateCoefficients
<1>4. /\ dState' \in [Slots -> StepSizes]
      /\ solution' \in [Slots -> VectorSet]
      /\ currentstate' \in Slots
  <2>1. dState' \in [Slots -> StepSizes]
    BY <1>1, <1>3, RingType
  <2>2. solution' \in [Slots -> VectorSet]
    BY <1>1, <1>2, <1>3, RingType
  <2>3. QED
    BY <1>1, <1>3, <2>1, <2>2, NextStateType
<1> DEFINE v == Vector(current, TRUE)
           next == nextState(currentstate)
<1>10. v \in VectorSet
  BY <1>2
<1> HIDE DEF v
<1>5. getState(dState', currentstate', 1) = delta
  <2>1. getState(setState(dState, currentstate, 0, delta), next, 1) = delta
    BY <1>1, NewestAfterShift
  <2>2. QED
    BY <1>3, <2>1
<1>6. getState(solution', currentstate', 1) = Vector(current, TRUE)
  <2>1. getState(setState(solution, currentstate, 0, v), next, 1) = v
    BY <1>1, <1>10, NewestAfterShift
  <2>2. QED
    BY <1>3, <2>1 DEF v
<1>7. ASSUME NEW k \in 1 .. StateNum - 2
      PROVE  getState(dState', currentstate', k + 1) = getState(dState, currentstate, k)
  <2>1. getState(setState(dState, currentstate, 0, delta), next, k + 1)
          = getState(dState, currentstate, k)
    BY <1>1, EarlierAfterShift
  <2>2. QED
    BY <1>3, <2>1
<1>8. ASSUME NEW k \in 1 .. StateNum - 2
      PROVE  getState(solution', currentstate', k + 1) = getState(solution, currentstate, k)
  <2>1. getState(setState(solution, currentstate, 0, v), next, k + 1)
          = getState(solution, currentstate, k)
    BY <1>1, <1>10, EarlierAfterShift
  <2>2. QED
    BY <1>3, <2>1 DEF v
<1>9. QED
  BY <1>4, <1>5, <1>6, <1>7, <1>8 DEF SOL, getState

\* Every solution vector in the ring has a time.
LEMMA SolutionType ==
  ASSUME TypeOK, NEW k \in 1 .. StateNum - 1
  PROVE  SOL(k) \in VectorSet /\ SOL(k).t \in Nat
<1>1. Slot(k, currentstate) \in Slots
  BY SlotType, RingAssumption DEF TypeOK
<1>2. SOL(k) \in VectorSet
  BY <1>1 DEF SOL, getState, TypeOK
<1>3. QED
  BY <1>2 DEF VectorSet

\* Whatever adjustDelta chooses is a step size within the limits.
LEMMA ChoiceType ==
  ASSUME TypeOK, NEW n \in Estimates, NEW c \in adjustDelta(n)
  PROVE  c.delta \in StepSizes /\ c.stepDelta \in StepSizes \cup {-1}
<1>1. time \in Nat
  BY PointsAssumption DEF time, TypeOK
<1>2. ASSUME NEW e \in Int
      PROVE  Clamp(e) \in StepSizes
  BY StepAssumption DEF Clamp, AtMost, AtLeast, StepSizes
<1> DEFINE d == Clamp(checkDelta(delta, n))
<1>3. d \in StepSizes
  <2>1. checkDelta(delta, n) \in Int
    BY StepAssumption DEF checkDelta, AtMost, Estimates, TypeOK, StepSizes
  <2>2. QED
    BY <1>2, <2>1
<1> HIDE DEF d
<1>4. ASSUME NEW b \in Breakpoint(d, time)
      PROVE  /\ b = Choice(b.delta, b.stepDelta, b.good)
             /\ b.delta \in Int
             /\ b.stepDelta \in StepSizes \cup {-1}
  BY <1>1, <1>3 DEF Breakpoint, Choice, Halves, TypeOK, StepSizes
<1>5. CASE BreakpointsCount
  <2>1. PICK b \in Breakpoint(d, time) : c = [b EXCEPT !.delta = Clamp(@)]
    BY <1>5 DEF adjustDelta, d
  <2>2. c.delta = Clamp(b.delta) /\ c.stepDelta = b.stepDelta
    BY <1>4, <2>1 DEF Choice
  <2>3. QED
    BY <1>2, <1>4, <2>2
<1>6. CASE ~BreakpointsCount
  <2>1. c = Choice(d, stepDelta, FALSE)
    BY <1>6 DEF adjustDelta, d
  <2>2. QED
    BY <1>3, <2>1 DEF Choice, TypeOK
<1>7. QED
  BY <1>5, <1>6

\* Between the turns the newest accepted solution is at position one, and the
\* positions behind it keep matching when nothing is accepted.
LEMMA RejectedRingInv ==
  ASSUME IInv, dState' = updateCoefficients, solution' = predictor,
         currentstate' = currentstate, statSteps' = statSteps
  PROVE  /\ StepsMatchSolutions'
         /\ SOL(1)' = SOL(1)
         /\ \A k \in 1 .. StateNum - 1 : SOL(k)'.ok
<1>1. \A k \in 1 .. StateNum - 1 :
        /\ getState(dState, currentstate, k)' = getState(dState, currentstate, k)
        /\ SOL(k)' = SOL(k)
  BY RejectedKeepsRing DEF IInv
<1>2. 1 \in 1 .. StateNum - 1
  BY RingAssumption
<1>3. \A k \in 1 .. StateNum - 2 : k \in 1 .. StateNum - 1 /\ k + 1 \in 1 .. StateNum - 1
  BY RingAssumption
<1>4. StepsMatchSolutions'
  BY <1>1, <1>3 DEF StepsMatchSolutions, AtOrigin, IInv, RingInv
<1>5. QED
  BY <1>1, <1>2, <1>4 DEF IInv, RingInv, AcceptedOnly

\* An accepted turn adds the step from the last accepted solution to it.
LEMMA AcceptedRingInv ==
  ASSUME IInv, dState' = updateCoefficients, nextStates
  PROVE  /\ StepsMatchSolutions'
         /\ SOL(1)'.t = current
         /\ \A k \in 1 .. StateNum - 1 : SOL(k)'.ok
<1>1. TypeOK /\ StepsMatchSolutions /\ CurrentFollowsSolution /\ AcceptedOnly
  BY DEF IInv, RingInv
<1>2. /\ getState(dState, currentstate, 1)' = delta
      /\ SOL(1)' = Vector(current, TRUE)
      /\ \A k \in 1 .. StateNum - 2 :
           /\ getState(dState, currentstate, k + 1)' = getState(dState, currentstate, k)
           /\ SOL(k + 1)' = SOL(k)
  BY <1>1, AcceptedShiftsRing
<1>3. SOL(1)'.t = current /\ SOL(1)'.ok
  BY <1>2 DEF Vector
<1>4. statSteps' <= statSteps + 1 /\ statSteps \in Nat /\ statSteps' \in Nat
  BY <1>1, RingAssumption DEF nextStates, AtMost, TypeOK
<1>5. ASSUME NEW k \in 1 .. StateNum - 2, k < statSteps'
      PROVE  \/ getState(dState, currentstate, k)' = SOL(k)'.t - SOL(k + 1)'.t
             \/ AtOrigin(SOL(k), SOL(k + 1))'
  <2>1. CASE k = 1
    <3>1. SOL(2)' = SOL(1) /\ SOL(1).t \in Nat
      <4>1. 1 \in 1 .. StateNum - 2 /\ 1 \in 1 .. StateNum - 1
        BY RingAssumption
      <4>2. SOL(1 + 1)' = SOL(1)
        BY <1>2, <4>1
      <4>3. QED
        BY <1>1, <4>1, <4>2, SolutionType
    <3>2. statSteps > 0
      BY <1>4, <1>5, <2>1
    <3>3. QED
      BY <1>1, <1>2, <1>3, <2>1, <3>1, <3>2
      DEF CurrentFollowsSolution, AtOrigin, TypeOK, StepSizes
  <2>2. CASE k # 1
    <3>1. k - 1 \in 1 .. StateNum - 2 /\ k \in 1 .. StateNum - 2 /\ (k - 1) + 1 = k
      BY <2>2, RingAssumption
    <3>2. /\ getState(dState, currentstate, k)' = getState(dState, currentstate, k - 1)
          /\ SOL(k)' = SOL(k - 1)
          /\ SOL(k + 1)' = SOL(k)
      BY <1>2, <3>1
    <3>3. k - 1 < statSteps
      BY <1>4, <1>5, <3>1
    <3>4. \/ getState(dState, currentstate, k - 1) = SOL(k - 1).t - SOL(k).t
          \/ AtOrigin(SOL(k - 1), SOL(k))
      BY <1>1, <3>1, <3>3 DEF StepsMatchSolutions
    <3>5. QED
      BY <3>2, <3>4 DEF AtOrigin
  <2>3. QED
    BY <2>1, <2>2
<1>6. ASSUME NEW k \in 1 .. StateNum - 1
      PROVE  SOL(k)'.ok
  <2>1. CASE k = 1
    BY <1>3, <2>1
  <2>2. CASE k # 1
    <3>1. k - 1 \in 1 .. StateNum - 2 /\ k - 1 \in 1 .. StateNum - 1 /\ (k - 1) + 1 = k
      BY <2>2, RingAssumption
    <3>2. SOL(k)' = SOL(k - 1)
      BY <1>2, <3>1
    <3>3. QED
      BY <1>1, <3>1, <3>2 DEF AcceptedOnly
  <2>3. QED
    BY <2>1, <2>2
<1>7. QED
  BY <1>3, <1>5, <1>6 DEF StepsMatchSolutions

\* Stepping back from the current time leads to the newest accepted solution.
LEMMA StepBackToSolution ==
  ASSUME IInv
  PROVE  /\ StepBack(current, delta) \in Nat
         /\ statSteps > 0 => StepBack(current, delta) = SOL(1).t
         /\ statSteps = 0 => StepBack(current, delta) = 0
<1>1. SOL(1).t \in Nat
  BY SolutionType, RingAssumption DEF IInv
<1>2. current \in Nat /\ delta \in Nat \ {0} /\ statSteps \in Nat
  BY DEF IInv, TypeOK, StepSizes
<1>3. statSteps = 0 => current = 0
  BY DEF IInv, Counters
<1>4. statSteps > 0 => current = SOL(1).t + delta \/ (current = 0 /\ SOL(1).t = 0)
  BY DEF IInv, RingInv, CurrentFollowsSolution
<1>5. QED
  BY <1>1, <1>2, <1>3, <1>4 DEF StepBack

\* As long as nothing is accepted and the order does not grow, the history is
\* long enough.
LEMMA OrderKept ==
  ASSUME TypeOK, OrderHasHistory, running' = running, statSteps' = statSteps,
         corrOrder' \in Nat, corrOrder' <= corrOrder
  PROVE  OrderHasHistory'
<1>1. running \in Nat /\ statSteps \in Nat /\ corrOrder \in Nat /\ StateNum \in Nat
  BY RingAssumption, OrderAssumption DEF TypeOK
<1>2. AtMost(statSteps, StateNum - 1)' = AtMost(statSteps, StateNum - 1)
  BY DEF AtMost
<1>3. AtMost(statSteps, StateNum - 1) \in Int
  BY <1>1 DEF AtMost
<1>4. QED
  BY <1>1, <1>2, <1>3 DEF OrderHasHistory

\* The start of a run, with whatever convergence helper the one before left.
FreshStart == FreshRun /\ convHelper \in {"none", "LineSearch", "SteepestDescent"}

\* The start of a run satisfies the inductive invariant.
LEMMA FreshIInv == FreshStart => IInv
<1> SUFFICES ASSUME FreshStart PROVE IInv
  OBVIOUS
<1> USE DEF FreshStart
<1>1. rejected \in BOOLEAN /\ diverged \in BOOLEAN
  BY Zenon DEF FreshRun
<1>2. Vector(0, TRUE) \in VectorSet /\ Vector(0, TRUE).ok
  BY VectorType
<1>3. dState \in [Slots -> StepSizes] /\ solution \in [Slots -> VectorSet]
  <2>1. FirstStep \in StepSizes
    BY StepAssumption DEF StepSizes
  <2>2. QED
    BY <1>2, <2>1 DEF FreshRun, fillState
<1>4. result \in [label : Nat \cup {-1}, vec : VectorSet]
  BY <1>2 DEF FreshRun, NoResult
<1>5. TypeOK
  <2>1. point \in DOMAIN TimePoints
    BY PointsAssumption DEF FreshRun
  <2>2. /\ pc \in {"start", "step", "save", "done", "failed"}
        /\ current \in Nat /\ saveCurrent \in Nat
        /\ delta \in StepSizes /\ stepDelta \in StepSizes \cup {-1}
        /\ running \in 0 .. 2 /\ statRejected \in {0, 1}
        /\ converged \in 0 .. GoodGuess + 1 /\ convError \in -1 .. 2
        /\ convHelper \in {"none", "LineSearch", "SteepestDescent"}
        /\ corrOrder \in 1 .. corrMaxOrder
        /\ currentstate \in Slots /\ statSteps \in 0 .. StateNum
        /\ tHistory \in Nat \cup {-1} /\ x = Vector(0, TRUE)
    BY RingAssumption, StepAssumption, OrderAssumption DEF FreshRun, Slots, StepSizes
  <2>3. QED
    BY <1>1, <1>2, <1>3, <1>4, <2>1, <2>2, Zenon DEF TypeOK
<1>6. ASSUME NEW k \in 1 .. StateNum - 1
      PROVE  SOL(k).ok
  <2>1. Slot(k, currentstate) \in Slots
    BY <1>5, SlotType, RingAssumption DEF TypeOK
  <2>2. QED
    BY <1>2, <2>1 DEF FreshRun, SOL, getState, fillState
<1>7. StepsMatchSolutions /\ CurrentFollowsSolution /\ Counters /\ LowOrder /\ OrderHasHistory
  BY DEF FreshRun, StepsMatchSolutions, CurrentFollowsSolution, Counters, LowOrder, OrderHasHistory
<1>8. AcceptedOnly
  BY <1>6 DEF FreshRun, AcceptedOnly
<1>9. QED
  BY <1>5, <1>7, <1>8 DEF IInv, RingInv

\* A corrector that gives up keeps the invariant.
LEMMA NoConvergenceIInv == IInv /\ NoConvergence => IInv'
<1> SUFFICES ASSUME IInv, NoConvergence PROVE IInv'
  OBVIOUS
<1> DEFINE back == StepBack(current, delta)
<1>1. PICK h \in Halves(delta) :
        /\ delta' = (IF h <= deltaMin THEN deltaMin ELSE h)
        /\ current' = (IF back > 0 THEN back + delta' ELSE back)
        /\ corrOrder' = (IF h <= deltaMin THEN adjustOrder(TRUE, rejected) ELSE corrOrder)
  BY DEF NoConvergence
<1>2. /\ dState' = updateCoefficients
      /\ solution' = predictor
      /\ x' = Vector(current, FALSE)
      /\ rejected' = TRUE /\ diverged' = TRUE
      /\ converged' = 0 /\ convError' = 2 /\ convHelper' = "SteepestDescent"
      /\ statRejected' = 1 - statRejected
      /\ UNCHANGED <<point, saveCurrent, stepDelta, running, currentstate,
                     statSteps, tHistory, result>>
      /\ pc' = (IF saveCurrent < time THEN "step" ELSE "save")
      /\ pc = "step"
  BY DEF NoConvergence, LoopTest, time
<1>3. TypeOK
  BY DEF IInv
<1>4. /\ back \in Nat
      /\ statSteps > 0 => back = SOL(1).t
      /\ statSteps = 0 => back = 0
  BY StepBackToSolution
<1>5. delta' \in StepSizes
  BY <1>1, <1>3, StepAssumption DEF Halves, TypeOK, StepSizes
<1>6. current' \in Nat
  BY <1>1, <1>4, <1>5 DEF StepSizes
<1>7. corrOrder' \in 1 .. corrMaxOrder /\ corrOrder' <= corrOrder
  BY <1>1, <1>3, OrderAssumption DEF adjustOrder, TypeOK
<1>8. TypeOK'
  <2>1. rejected' \in BOOLEAN /\ diverged' \in BOOLEAN
    BY <1>2, Zenon
  <2>2. dState' \in [Slots -> StepSizes] /\ solution' \in [Slots -> VectorSet]
    BY <1>2, <1>3, RejectedKeepsRing
  <2>3. x' \in VectorSet
    BY <1>2, <1>3, VectorType DEF TypeOK
  <2>4. /\ pc' \in {"start", "step", "save", "done", "failed"}
        /\ statRejected' \in {0, 1}
        /\ converged' \in 0 .. GoodGuess + 1
        /\ convError' \in -1 .. 2
        /\ convHelper' \in {"none", "LineSearch", "SteepestDescent"}
    BY <1>2, <1>3, OrderAssumption DEF TypeOK
  <2>5. /\ point' \in DOMAIN TimePoints /\ saveCurrent' \in Nat
        /\ stepDelta' \in StepSizes \cup {-1} /\ running' \in 0 .. 2
        /\ currentstate' \in Slots /\ statSteps' \in 0 .. StateNum
        /\ tHistory' \in Nat \cup {-1}
        /\ result' \in [label : Nat \cup {-1}, vec : VectorSet]
    BY <1>2, <1>3 DEF TypeOK
  <2>6. QED
    BY <1>5, <1>6, <1>7, <2>1, <2>2, <2>3, <2>4, <2>5, Zenon DEF TypeOK
<1>9. /\ StepsMatchSolutions'
      /\ SOL(1)' = SOL(1)
      /\ \A k \in 1 .. StateNum - 1 : SOL(k)'.ok
  BY <1>2, RejectedRingInv
<1>10. CurrentFollowsSolution'
  BY <1>1, <1>2, <1>3, <1>4, <1>5, <1>9 DEF CurrentFollowsSolution, TypeOK, StepSizes
<1>11. AcceptedOnly'
  BY <1>2, <1>9 DEF AcceptedOnly, IInv, RingInv
<1>12. Counters'
  BY <1>1, <1>2, <1>4 DEF Counters, IInv
<1>13. LowOrder' /\ OrderHasHistory'
  <2>1. LowOrder'
    BY <1>2, <1>3, <1>7, OrderAssumption DEF LowOrder, IInv, TypeOK
  <2>2. OrderHasHistory'
    BY <1>2, <1>3, <1>7, OrderKept DEF IInv
  <2>3. QED
    BY <2>1, <2>2
<1>14. QED
  BY <1>8, <1>9, <1>10, <1>11, <1>12, <1>13 DEF IInv, RingInv

\* A turn that ends the analysis keeps the invariant.
LEMMA FailureIInv == IInv /\ Failure => IInv'
<1> SUFFICES ASSUME IInv, Failure PROVE IInv'
  OBVIOUS
<1>1. /\ pc' = "failed" /\ rejected' = FALSE
      /\ dState' = updateCoefficients
      /\ solution' = predictor
      /\ x' = Vector(current, FALSE)
      /\ point' = point /\ current' = current /\ saveCurrent' = saveCurrent
      /\ delta' = delta /\ stepDelta' = stepDelta /\ running' = running
      /\ statRejected' = statRejected /\ converged' = converged
      /\ diverged' = diverged /\ convError' = convError
      /\ convHelper' = convHelper /\ corrOrder' = corrOrder
      /\ currentstate' = currentstate /\ statSteps' = statSteps
      /\ tHistory' = tHistory /\ result' = result
  BY DEF Failure
<1>2. TypeOK
  BY DEF IInv
<1>3. TypeOK'
  <2>1. rejected' \in BOOLEAN
    BY <1>1, Zenon
  <2>2. dState' \in [Slots -> StepSizes] /\ solution' \in [Slots -> VectorSet]
    BY <1>1, <1>2, RejectedKeepsRing
  <2>3. x' \in VectorSet
    BY <1>1, <1>2, VectorType DEF TypeOK
  <2>4. QED
    BY <1>1, <1>2, <2>1, <2>2, <2>3, Zenon DEF TypeOK
<1>4. /\ StepsMatchSolutions'
      /\ SOL(1)' = SOL(1)
      /\ \A k \in 1 .. StateNum - 1 : SOL(k)'.ok
  BY <1>1, RejectedRingInv
<1>5. CurrentFollowsSolution'
  BY <1>1, <1>4 DEF CurrentFollowsSolution, IInv, RingInv
<1>6. AcceptedOnly'
  BY <1>1, <1>4 DEF AcceptedOnly, IInv, RingInv
<1>7. Counters' /\ LowOrder'
  BY <1>1 DEF Counters, LowOrder, IInv
<1>8. OrderHasHistory'
  BY <1>1, <1>2, OrderKept, OrderAssumption DEF IInv, TypeOK
<1>9. QED
  BY <1>3, <1>4, <1>5, <1>6, <1>7, <1>8 DEF IInv, RingInv

\* What a turn with a converged corrector leaves in the state it sets.
LEMMA ConvergedTurnType ==
  ASSUME TypeOK, ConvergedTurn, saveCurrent' \in Nat
  PROVE  /\ pc' \in {"start", "step", "save", "done", "failed"}
         /\ x' \in VectorSet
         /\ convError' \in -1 .. 2
         /\ convHelper' \in {"none", "LineSearch", "SteepestDescent"}
         /\ running' \in 0 .. 2
         /\ converged' \in 0 .. GoodGuess + 1
         /\ tHistory' \in Nat \cup {-1}
         /\ point' \in DOMAIN TimePoints
         /\ diverged' \in BOOLEAN
         /\ result' \in [label : Nat \cup {-1}, vec : VectorSet]
<1>1. x' \in VectorSet
  BY VectorType DEF TypeOK, ConvergedTurn
<1>2. /\ convError' \in -1 .. 2
      /\ running' \in 0 .. 2
      /\ converged' \in 0 .. GoodGuess + 1
  BY OrderAssumption DEF TypeOK, ConvergedTurn, AtMost, AtLeast
<1>3. pc' \in {"start", "step", "save", "done", "failed"}
  BY DEF ConvergedTurn, LoopTest
<1>4. /\ convHelper' \in {"none", "LineSearch", "SteepestDescent"}
      /\ tHistory' \in Nat \cup {-1}
  BY DEF TypeOK, ConvergedTurn
<1>5. /\ point' = point /\ diverged' = diverged /\ result' = result
  BY DEF ConvergedTurn
<1>6. QED
  BY <1>1, <1>2, <1>3, <1>4, <1>5, Zenon DEF TypeOK

\* An accepted turn: the rings move on and time follows.
LEMMA AcceptedTurn ==
  ASSUME IInv, nextStates, ConvergedTurn, saveCurrent' = current,
         NEW d \in StepSizes, delta' = d, current' = current + d
  PROVE  RingInv' /\ Counters' /\ current' \in Nat /\ saveCurrent' \in Nat
<1>1. TypeOK
  BY DEF IInv
<1>2. /\ StepsMatchSolutions'
      /\ SOL(1)'.t = current
      /\ \A k \in 1 .. StateNum - 1 : SOL(k)'.ok
  BY AcceptedRingInv DEF ConvergedTurn
<1>3. /\ current \in Nat /\ delta \in Nat \ {0} /\ d \in Nat \ {0}
      /\ running \in 0 .. 2 /\ statSteps \in 0 .. StateNum
      /\ SOL(1).t \in Nat
  BY <1>1, SolutionType, RingAssumption DEF TypeOK, StepSizes
<1>4. CurrentFollowsSolution'
  BY <1>2 DEF CurrentFollowsSolution
<1>5. running' = AtMost(running + 1, 2) /\ statSteps' = AtMost(statSteps + 1, StateNum)
  BY DEF ConvergedTurn, nextStates
<1>6. running = 0 <=> statSteps = 0
  BY DEF IInv, Counters
<1>7. running > 1 => statSteps > 1
  BY DEF IInv, Counters
<1>8. Counters'
  <2>1. running' \in 1 .. 2 /\ statSteps' \in 1 .. StateNum
    BY <1>3, <1>5, RingAssumption DEF AtMost
  <2>2. running' > 1 => statSteps' > 1
    BY <1>3, <1>5, <1>6, <1>7, RingAssumption DEF AtMost
  <2>3. QED
    BY <2>1, <2>2, RingAssumption DEF Counters
<1>9. tHistory' = current
  <2>1. tHistory' = IF running = 0 \/ current > tHistory THEN current ELSE tHistory
    BY DEF ConvergedTurn
  <2>2. CASE running = 0
    BY <2>1, <2>2
  <2>3. CASE running # 0
    <3>1. tHistory = SOL(1).t
      BY <1>3, <1>6, <2>3 DEF IInv, RingInv, AcceptedOnly
    <3>2. current = SOL(1).t + delta \/ (current = 0 /\ SOL(1).t = 0)
      BY <1>3, <1>6, <2>3 DEF IInv, RingInv, CurrentFollowsSolution
    <3>3. QED
      BY <1>3, <2>1, <2>3, <3>1, <3>2
  <2>4. QED
    BY <2>2, <2>3
<1>10. AcceptedOnly'
  <2>1. tHistory' = SOL(1)'.t /\ saveCurrent' = SOL(1)'.t
    BY <1>2, <1>9
  <2>2. QED
    BY <1>2, <2>1, Zenon DEF AcceptedOnly
<1>11. current' \in Nat /\ saveCurrent' \in Nat
  BY <1>3
<1>12. QED
  BY <1>2, <1>4, <1>8, <1>10, <1>11, Zenon DEF RingInv

\* The first two turns keep the invariant.
LEMMA StartTurnIInv == IInv /\ StartTurn => IInv'
<1> SUFFICES ASSUME IInv, StartTurn PROVE IInv'
  OBVIOUS
<1>1. /\ running <= 1 /\ nextStates /\ ConvergedTurn
      /\ saveCurrent' = current /\ current' = current + delta
      /\ delta' = delta /\ stepDelta' = stepDelta
      /\ corrOrder' = corrOrder /\ statRejected' = statRejected
  BY DEF StartTurn
<1>2. TypeOK
  BY DEF IInv
<1>3. delta \in StepSizes
  BY <1>2 DEF TypeOK
<1>4. RingInv' /\ Counters' /\ current' \in Nat /\ saveCurrent' \in Nat
  BY <1>1, <1>3, AcceptedTurn
<1>5. TypeOK'
  <2>1. rejected' \in BOOLEAN
    BY <1>1, Zenon DEF nextStates
  <2>2. /\ dState' \in [Slots -> StepSizes]
        /\ solution' \in [Slots -> VectorSet]
        /\ currentstate' \in Slots
    BY <1>1, <1>2, AcceptedShiftsRing DEF ConvergedTurn
  <2>3. statSteps' \in 0 .. StateNum
    BY <1>1, <1>2, RingAssumption DEF nextStates, AtMost, TypeOK
  <2>4. /\ stepDelta' \in StepSizes \cup {-1}
        /\ corrOrder' \in 1 .. corrMaxOrder
        /\ statRejected' \in {0, 1}
    BY <1>1, <1>2 DEF TypeOK
  <2>5. QED
    BY <1>1, <1>2, <1>3, <1>4, <2>1, <2>2, <2>3, <2>4, ConvergedTurnType, Zenon DEF TypeOK
<1>6. corrOrder' = 1
  BY <1>1 DEF IInv, LowOrder, ConvergedTurn
<1>7. OrderHasHistory'
  BY <1>4, <1>5, <1>6, RingAssumption DEF OrderHasHistory, Counters, AtMost, TypeOK
<1>8. QED
  BY <1>4, <1>5, <1>6, <1>7 DEF IInv, LowOrder

\* A turn the step control accepts keeps the invariant.
LEMMA AcceptTurnIInv == IInv /\ AcceptTurn => IInv'
<1> SUFFICES ASSUME IInv, AcceptTurn PROVE IInv'
  OBVIOUS
<1>1. /\ running > 1 /\ nextStates /\ ConvergedTurn
      /\ saveCurrent' = current
      /\ corrOrder' = adjustOrder(FALSE, FALSE)
      /\ statRejected' = statRejected
  BY DEF AcceptTurn
<1>2. PICK n \in Estimates : \E c \in adjustDelta(n) :
        delta' = c.delta /\ stepDelta' = c.stepDelta /\ current' = current + c.delta
  BY DEF AcceptTurn
<1>3. PICK c \in adjustDelta(n) :
        delta' = c.delta /\ stepDelta' = c.stepDelta /\ current' = current + c.delta
  BY <1>2
<1>4. TypeOK
  BY DEF IInv
<1>5. c.delta \in StepSizes /\ c.stepDelta \in StepSizes \cup {-1}
  BY <1>4, ChoiceType
<1>6. RingInv' /\ Counters' /\ current' \in Nat /\ saveCurrent' \in Nat
  BY <1>1, <1>3, <1>5, AcceptedTurn
<1>7. PICK o \in 1 .. corrMaxOrder : o <= corrOrder + 1 /\ corrOrder' = o
  BY <1>1, <1>4, OrderAssumption DEF adjustOrder, TypeOK
<1>8. statSteps' = AtMost(statSteps + 1, StateNum)
  BY <1>1 DEF nextStates
<1>9. TypeOK'
  <2>1. rejected' \in BOOLEAN
    BY <1>1, Zenon DEF nextStates
  <2>2. /\ dState' \in [Slots -> StepSizes]
        /\ solution' \in [Slots -> VectorSet]
        /\ currentstate' \in Slots
    BY <1>1, <1>4, AcceptedShiftsRing DEF ConvergedTurn
  <2>3. statSteps' \in 0 .. StateNum /\ statRejected' \in {0, 1}
    BY <1>1, <1>4, <1>8, RingAssumption DEF AtMost, TypeOK
  <2>4. QED
    BY <1>1, <1>3, <1>4, <1>5, <1>6, <1>7, <2>1, <2>2, <2>3, ConvergedTurnType, Zenon DEF TypeOK
<1>10. running' = 2
  BY <1>1, <1>4 DEF ConvergedTurn, AtMost, TypeOK
<1>11. OrderHasHistory'
  <2>1. corrOrder + 1 <= AtMost(statSteps, StateNum - 1)
    BY <1>1 DEF IInv, OrderHasHistory
  <2>2. statSteps \in 0 .. StateNum /\ corrOrder \in 1 .. corrMaxOrder
    BY <1>4 DEF TypeOK
  <2>3. o + 1 <= AtMost(AtMost(statSteps + 1, StateNum), StateNum - 1)
    BY <1>7, <2>1, <2>2, RingAssumption, OrderAssumption DEF AtMost
  <2>4. QED
    BY <1>7, <1>8, <2>3 DEF OrderHasHistory
<1>12. LowOrder'
  BY <1>10 DEF LowOrder
<1>13. QED
  BY <1>6, <1>9, <1>11, <1>12 DEF IInv

\* A turn the step control rejects keeps the invariant.
LEMMA RejectTurnIInv == IInv /\ RejectTurn => IInv'
<1> SUFFICES ASSUME IInv, RejectTurn PROVE IInv'
  OBVIOUS
<1>1. /\ running > 1 /\ ConvergedTurn
      /\ saveCurrent' = StepBack(current, delta)
      /\ corrOrder' = adjustOrder(FALSE, TRUE)
      /\ statRejected' = 1 - statRejected
      /\ rejected' = TRUE
      /\ solution' = predictor
      /\ currentstate' = currentstate /\ statSteps' = statSteps
  BY DEF RejectTurn
<1>2. PICK n \in Estimates : \E c \in adjustDelta(n) :
        /\ delta' = c.delta /\ stepDelta' = c.stepDelta
        /\ current' = saveCurrent' + c.delta
  BY DEF RejectTurn
<1>3. PICK c \in adjustDelta(n) :
        /\ delta' = c.delta /\ stepDelta' = c.stepDelta
        /\ current' = saveCurrent' + c.delta
  BY <1>2
<1>4. TypeOK
  BY DEF IInv
<1>5. c.delta \in StepSizes /\ c.stepDelta \in StepSizes \cup {-1}
  BY <1>4, ChoiceType
<1>6. statSteps > 1 /\ statSteps \in Nat
  BY <1>1, <1>4 DEF IInv, Counters, TypeOK
<1>7. StepBack(current, delta) = SOL(1).t /\ SOL(1).t \in Nat
  BY <1>4, <1>6, StepBackToSolution, SolutionType, RingAssumption
<1>8. current' = SOL(1).t + c.delta /\ saveCurrent' = SOL(1).t
  BY <1>1, <1>3, <1>7
<1>9. current' \in Nat /\ saveCurrent' \in Nat
  BY <1>5, <1>7, <1>8 DEF StepSizes
<1>10. corrOrder' = corrOrder
  BY <1>1 DEF adjustOrder
<1>11. /\ StepsMatchSolutions'
       /\ SOL(1)' = SOL(1)
       /\ \A k \in 1 .. StateNum - 1 : SOL(k)'.ok
  BY <1>1, RejectedRingInv DEF ConvergedTurn
<1>12. TypeOK'
  <2>1. rejected' \in BOOLEAN
    BY <1>1, Zenon
  <2>2. dState' \in [Slots -> StepSizes] /\ solution' \in [Slots -> VectorSet]
    BY <1>1, <1>4, RejectedKeepsRing DEF ConvergedTurn
  <2>3. statRejected' \in {0, 1}
    BY <1>1, <1>4 DEF TypeOK
  <2>4. /\ corrOrder' \in 1 .. corrMaxOrder /\ currentstate' \in Slots
        /\ statSteps' \in 0 .. StateNum
    BY <1>1, <1>4, <1>10 DEF TypeOK
  <2>5. QED
    BY <1>1, <1>3, <1>4, <1>5, <1>9, <2>1, <2>2, <2>3, <2>4, ConvergedTurnType, Zenon DEF TypeOK
<1>13. CurrentFollowsSolution'
  BY <1>3, <1>8, <1>11 DEF CurrentFollowsSolution
<1>14. AcceptedOnly'
  <2>1. tHistory = SOL(1).t
    BY <1>6 DEF IInv, RingInv, AcceptedOnly
  <2>2. tHistory' = IF running = 0 \/ saveCurrent' > tHistory THEN saveCurrent' ELSE tHistory
    BY <1>1 DEF ConvergedTurn
  <2>3. tHistory' = SOL(1)'.t /\ saveCurrent' = SOL(1)'.t
    BY <1>8, <1>11, <2>1, <2>2
  <2>4. QED
    BY <1>11, <2>3, Zenon DEF AcceptedOnly
<1>15. running' = running /\ running = 2
  BY <1>1, <1>4 DEF ConvergedTurn, AtMost, TypeOK
<1>16. Counters' /\ LowOrder'
  BY <1>1, <1>6, <1>15 DEF Counters, LowOrder
<1>17. OrderHasHistory'
  <2>1. corrOrder \in Nat
    BY <1>4, OrderAssumption DEF TypeOK
  <2>2. corrOrder' \in Nat /\ corrOrder' <= corrOrder
    BY <1>10, <2>1
  <2>3. QED
    BY <1>1, <1>4, <1>15, <2>2, OrderKept DEF IInv
<1>18. QED
  BY <1>11, <1>12, <1>13, <1>14, <1>16, <1>17, Zenon DEF IInv, RingInv

\* The steps around the loop keep the invariant.
LEMMA OtherIInv == IInv /\ (InitialDC \/ SavePoint \/ UNCHANGED vars) => IInv'
<1> SUFFICES ASSUME IInv, InitialDC \/ SavePoint \/ UNCHANGED vars PROVE IInv'
  OBVIOUS
<1>1. /\ current' = current /\ saveCurrent' = saveCurrent
      /\ delta' = delta /\ stepDelta' = stepDelta /\ running' = running
      /\ statRejected' = statRejected /\ rejected' = rejected
      /\ converged' = converged /\ diverged' = diverged
      /\ convError' = convError /\ currentstate' = currentstate
      /\ dState' = dState /\ solution' = solution
      /\ statSteps' = statSteps /\ x' = x /\ tHistory' = tHistory
  BY DEF InitialDC, SavePoint, vars
<1>2. /\ StepsMatchSolutions' /\ CurrentFollowsSolution'
      /\ AcceptedOnly' /\ Counters'
  BY <1>1 DEF StepsMatchSolutions, CurrentFollowsSolution, AcceptedOnly, Counters,
              AtOrigin, SOL, getState, IInv, RingInv
<1>3. TypeOK
  BY DEF IInv
<1>4. CASE InitialDC
  <2>1. pc' \in {"step", "failed"} /\ point' = point /\ result' = result
    BY <1>4 DEF InitialDC
  <2>2. convHelper' \in {"none", "LineSearch", "SteepestDescent"}
    BY <1>3, <1>4 DEF InitialDC, TypeOK
  <2>3. /\ corrOrder' \in 1 .. corrMaxOrder
        /\ corrOrder' \in Nat
        /\ corrOrder' <= corrOrder
        /\ pc' = "step" => corrOrder' = 1
    BY <1>3, <1>4, OrderAssumption DEF InitialDC, TypeOK
  <2>4. TypeOK'
    BY <1>1, <1>3, <2>1, <2>2, <2>3, ZenonT(60) DEF TypeOK
  <2>5. OrderHasHistory'
    BY <1>1, <1>3, <2>3, OrderKept DEF IInv
  <2>6. LowOrder'
    BY <2>1, <2>3 DEF LowOrder
  <2>7. QED
    BY <1>2, <2>4, <2>5, <2>6 DEF IInv, RingInv
<1>5. CASE SavePoint
  <2>1. /\ pc = "save" /\ pc' \in {"step", "done"}
        /\ convHelper' = convHelper /\ corrOrder' = corrOrder
        /\ result' = [label |-> time, vec |-> x]
    BY <1>5 DEF SavePoint
  <2>2. point' \in DOMAIN TimePoints
    BY <1>3, <1>5, PointsAssumption DEF SavePoint, TypeOK
  <2>3. result' \in [label : Nat \cup {-1}, vec : VectorSet]
    BY <1>3, <2>1, PointsAssumption DEF time, TypeOK
  <2>4. TypeOK'
    BY <1>1, <1>3, <2>1, <2>2, <2>3, ZenonT(60) DEF TypeOK
  <2>5. LowOrder' /\ OrderHasHistory'
    BY <1>1, <2>1 DEF LowOrder, OrderHasHistory, IInv
  <2>6. QED
    BY <1>2, <2>4, <2>5 DEF IInv, RingInv
<1>6. CASE UNCHANGED vars
  <2>1. /\ pc' = pc /\ point' = point /\ convHelper' = convHelper
        /\ corrOrder' = corrOrder /\ result' = result
    BY <1>6 DEF vars
  <2>2. TypeOK'
    BY <1>1, <1>3, <2>1, ZenonT(60) DEF TypeOK
  <2>3. LowOrder' /\ OrderHasHistory'
    BY <1>1, <2>1 DEF LowOrder, OrderHasHistory, IInv
  <2>4. QED
    BY <1>2, <2>2, <2>3 DEF IInv, RingInv
<1>7. QED
  BY <1>4, <1>5, <1>6

\* Every step keeps the inductive invariant.
LEMMA StepIInv == IInv /\ [Next]_vars => IInv'
<1> SUFFICES ASSUME IInv, [Next]_vars PROVE IInv'
  OBVIOUS
<1>1. CASE Again
  <2>1. FreshRun'
    BY <1>1 DEF Again, FreshRun, RefillDeltas
  <2>2. convHelper' \in {"none", "LineSearch", "SteepestDescent"}
    BY <1>1 DEF Again, IInv, TypeOK
  <2>3. FreshStart'
    BY <2>1, <2>2 DEF FreshStart
  <2>4. QED
    BY <2>3, FreshIInv, PTL
<1>2. QED
  BY <1>1, NoConvergenceIInv, FailureIInv, StartTurnIInv, AcceptTurnIInv,
     RejectTurnIInv, OtherIInv DEF Next

\* The inductive invariant holds throughout every run of the analysis.
THEOREM Invariance == Spec => []IInv
<1>1. Init => FreshStart
  BY DEF Init, FreshStart
<1>2. QED
  BY <1>1, FreshIInv, StepIInv, PTL DEF Spec

\* Every variable of the step control stays within its range: in particular
\* the step size within its limits and time non-negative, whatever is taken
\* back.
THEOREM TypeCorrect == Spec => []TypeOK
<1>1. IInv => TypeOK
  BY DEF IInv
<1>2. QED
  BY <1>1, Invariance, PTL

\* The step sizes the integrators and the predictor use are the distances of
\* the solutions they are applied to.
THEOREM StepsMatch == Spec => []StepsMatchSolutions
<1>1. IInv => StepsMatchSolutions
  BY DEF IInv, RingInv
<1>2. QED
  BY <1>1, Invariance, PTL

\* The corrector always works one step size after the newest accepted
\* solution, or on time zero again.
THEOREM CurrentFollows == Spec => []CurrentFollowsSolution
<1>1. IInv => CurrentFollowsSolution
  BY DEF IInv, RingInv
<1>2. QED
  BY <1>1, Invariance, PTL

\* Only accepted solutions stay in the ring, and the circuits' histories end
\* with the newest one.
THEOREM OnlyAcceptedStay == Spec => []AcceptedOnly
<1>1. IInv => AcceptedOnly
  BY DEF IInv, RingInv
<1>2. QED
  BY <1>1, Invariance, PTL

\* The predictor never reaches back beyond the accepted solutions.
THEOREM HistorySuffices == Spec => []OrderHasHistory
<1>1. IInv => OrderHasHistory
  BY DEF IInv
<1>2. QED
  BY <1>1, Invariance, PTL

-----------------------------------------------------------------------------
(* The rings implement the register of accepted steps. *)

\* Before the first accepted turn the newest solution is that of time zero.
FreshOrigin == statSteps = 0 => SOL(1).t = 0

\* In the initial state the register is fresh.
LEMMA FreshRegister == FreshRun => Register = Abstract!Fresh /\ FreshOrigin
<1> SUFFICES ASSUME FreshRun PROVE Register = Abstract!Fresh /\ FreshOrigin
  OBVIOUS
<1>1. ASSUME NEW k \in 1 .. StateNum - 1
      PROVE  /\ getState(dState, currentstate, k) = FirstStep
             /\ SOL(k) = Vector(0, TRUE)
  <2>1. currentstate \in Slots
    BY RingAssumption DEF FreshRun, Slots
  <2>2. Slot(k, currentstate) \in Slots
    BY <2>1, SlotType, RingAssumption
  <2>3. QED
    BY <2>2 DEF FreshRun, fillState, getState, SOL
<1>2. Register = Abstract!Fresh
  BY <1>1 DEF Register, Abstract!Fresh
<1>3. FreshOrigin
  <2>1. 1 \in 1 .. StateNum - 1
    BY RingAssumption
  <2>2. SOL(1) = Vector(0, TRUE)
    BY <1>1, <2>1, Zenon
  <2>3. QED
    BY <2>2 DEF FreshOrigin, Vector
<1>4. QED
  BY <1>2, <1>3

\* A turn that is not accepted leaves the register as it is.
LEMMA RejectedKeepsRegister ==
  ASSUME IInv, dState' = updateCoefficients, solution' = predictor,
         currentstate' = currentstate
  PROVE  Register' = Register /\ SOL(1)' = SOL(1)
<1>1. \A k \in 1 .. StateNum - 1 :
        /\ getState(dState, currentstate, k)' = getState(dState, currentstate, k)
        /\ SOL(k)' = SOL(k)
  BY RejectedKeepsRing DEF IInv
<1>2. 1 \in 1 .. StateNum - 1
  BY RingAssumption
<1>3. QED
  BY <1>1, <1>2 DEF Register

\* Every entry of the register records an accepted step.
LEMMA EntryType ==
  TypeOK /\ AcceptedOnly => Register \in [1 .. StateNum - 1 -> AcceptedEntries]
<1> SUFFICES ASSUME TypeOK, AcceptedOnly
             PROVE  Register \in [1 .. StateNum - 1 -> AcceptedEntries]
  OBVIOUS
<1>1. ASSUME NEW k \in 1 .. StateNum - 1
      PROVE  [step |-> getState(dState, currentstate, k), sol |-> SOL(k)] \in AcceptedEntries
  <2>1. Slot(k, currentstate) \in Slots
    BY SlotType, RingAssumption DEF TypeOK
  <2>2. getState(dState, currentstate, k) \in StepSizes
    BY <2>1 DEF getState, TypeOK
  <2>3. SOL(k) \in VectorSet /\ SOL(k).ok
    BY SolutionType DEF AcceptedOnly
  <2>4. SOL(k) \in [t : Nat, ok : {TRUE}]
    BY <2>3 DEF VectorSet
  <2>5. QED
    BY <2>2, <2>4 DEF AcceptedEntries
<1>2. QED
  BY <1>1 DEF Register

\* An accepted turn is an accepted step of the register.
LEMMA AcceptedExtendsRegister ==
  ASSUME IInv, IInv', FreshOrigin, dState' = updateCoefficients, nextStates
  PROVE  Abstract!Accept
<1>1. TypeOK /\ TypeOK' /\ AcceptedOnly'
  BY DEF IInv, RingInv
<1>2. Register' \in [1 .. StateNum - 1 -> AcceptedEntries]
  <2>1. (Register \in [1 .. StateNum - 1 -> AcceptedEntries])'
    BY <1>1, EntryType, PTL
  <2>2. QED
    BY <2>1 DEF AcceptedEntries, StepSizes
<1>3. /\ getState(dState, currentstate, 1)' = delta
      /\ SOL(1)' = Vector(current, TRUE)
      /\ \A k \in 1 .. StateNum - 2 :
           /\ getState(dState, currentstate, k + 1)' = getState(dState, currentstate, k)
           /\ SOL(k + 1)' = SOL(k)
  BY <1>1, AcceptedShiftsRing
<1>4. Register[1] = [step |-> getState(dState, currentstate, 1), sol |-> SOL(1)]
  BY RingAssumption DEF Register
<1>5. Register'[1] = [step |-> delta, sol |-> Vector(current, TRUE)]
  <2>1. Register'[1] = [step |-> getState(dState, currentstate, 1)', sol |-> SOL(1)']
    BY RingAssumption DEF Register
  <2>2. QED
    BY <1>3, <2>1
<1>6. current = SOL(1).t + delta \/ (current = 0 /\ SOL(1).t = 0)
  <2>1. CASE statSteps = 0
    <3>1. current = 0
      BY <2>1 DEF IInv, Counters
    <3>2. SOL(1).t = 0
      BY <2>1 DEF FreshOrigin
    <3>3. QED
      BY <3>1, <3>2
  <2>2. CASE statSteps # 0
    <3>1. statSteps > 0
      BY <1>1, <2>2 DEF TypeOK
    <3>2. CurrentFollowsSolution
      BY DEF IInv, RingInv
    <3>3. QED
      BY <3>1, <3>2 DEF CurrentFollowsSolution
  <2>3. QED
    BY <2>1, <2>2
<1>7. Abstract!Follows(Register'[1], Register[1])
  <2>1. Register[1].sol = SOL(1)
    BY <1>4
  <2>2. Register'[1].step = delta /\ Register'[1].sol.t = current
    BY <1>5 DEF Vector
  <2>3. QED
    BY <1>6, <2>1, <2>2, Zenon DEF Abstract!Follows
<1>8. ASSUME NEW k \in 1 .. (StateNum - 1) - 1
      PROVE  Register'[k + 1] = Register[k]
  <2>1. k \in 1 .. StateNum - 2 /\ k \in 1 .. StateNum - 1 /\ k + 1 \in 1 .. StateNum - 1
    BY RingAssumption
  <2>2. QED
    BY <1>3, <2>1 DEF Register
<1>9. QED
  BY <1>2, <1>7, <1>8 DEF Abstract!Accept

\* Every step of the analysis is a step of the register or leaves it alone.
LEMMA StepRefines ==
  ASSUME IInv, IInv', FreshOrigin, [Next]_vars
  PROVE  FreshOrigin' /\ [Abstract!Next]_Register
<1>1. CASE NoConvergence \/ Failure \/ RejectTurn
  <2>1. /\ dState' = updateCoefficients /\ solution' = predictor
        /\ currentstate' = currentstate /\ statSteps' = statSteps
    BY <1>1 DEF NoConvergence, Failure, RejectTurn, ConvergedTurn
  <2>2. QED
    BY <2>1, RejectedKeepsRegister DEF FreshOrigin
<1>2. CASE StartTurn \/ AcceptTurn
  <2>1. dState' = updateCoefficients /\ nextStates
    BY <1>2 DEF StartTurn, AcceptTurn, ConvergedTurn
  <2>2. Abstract!Accept
    BY <2>1, AcceptedExtendsRegister
  <2>3. statSteps' # 0
    <3>1. statSteps' = AtMost(statSteps + 1, StateNum)
      BY <2>1 DEF nextStates
    <3>2. statSteps \in 0 .. StateNum
      BY DEF IInv, TypeOK
    <3>3. QED
      BY <3>1, <3>2, RingAssumption DEF AtMost
  <2>4. QED
    BY <2>2, <2>3 DEF FreshOrigin, Abstract!Next
<1>3. CASE InitialDC \/ SavePoint \/ UNCHANGED vars
  BY <1>3 DEF InitialDC, SavePoint, vars, Register, FreshOrigin, SOL, getState
<1>4. CASE Again
  <2>1. FreshRun'
    BY <1>4 DEF Again, FreshRun, RefillDeltas
  <2>2. (Register = Abstract!Fresh /\ FreshOrigin)'
    BY <2>1, FreshRegister, PTL
  <2>3. Register' = Abstract!Fresh /\ FreshOrigin'
    BY <2>2 DEF Abstract!Fresh, Vector
  <2>4. QED
    BY <2>3 DEF Abstract!Next, Abstract!Restart
<1>5. QED
  BY <1>1, <1>2, <1>3, <1>4 DEF Next

\* The rings of step sizes and solutions, written in place and rotated only
\* when a turn is accepted, implement the register of accepted steps.
THEOREM Refinement == Spec => ImplementsStepHistory
<1>1. Init => FreshOrigin /\ Abstract!Init
  BY FreshRegister DEF Init, Abstract!Init
<1>2. QED
  BY <1>1, StepRefines, Invariance, PTL DEF Spec, ImplementsStepHistory, Abstract!Spec

-----------------------------------------------------------------------------
(* The dataset.  As long as the corrector converges, what is stored for a    *)
(* requested point was solved there or less than deltaMin behind it.  The    *)
(* corrector may look ahead of the point by less than deltaMin only, but     *)
(* for the step size kept in stepDelta, which adjustDelta takes up without   *)
(* looking at the next point: it is never there before the point is reached. *)

\* The raster the defaults of the analysis give (trsolver::initTR): the points
\* are at least the largest step apart, and the step size the run starts with
\* has been divided by ten.
Raster ==
  /\ ~relaxTSR
  /\ 2 * FirstStep <= deltaMax
  /\ TimePoints[1] = 0 \/ TimePoints[1] >= deltaMax
  /\ \A p \in DOMAIN TimePoints :
       p + 1 \in DOMAIN TimePoints => TimePoints[p + 1] >= TimePoints[p] + deltaMax

\* The first two turns, before the step control is at work.
Starting ==
  /\ running = 0 => point = 1
  /\ running <= 1 => delta = FirstStep /\ stepDelta = -1
  /\ running = 1 => current = FirstStep /\ saveCurrent = 0
  /\ running > 0 => current > 0
  /\ pc = "start" => running = 0
  /\ pc = "save" => running > 0

\* In the loop, less than deltaMin ahead of the point.
Approaching ==
  /\ saveCurrent < time \/ (running = 0 /\ time = 0)
  /\ current < time + deltaMin
  /\ stepDelta = -1 \/ current >= time

\* Out of the loop, the point is reached and the next step does not pass the
\* following one by more.
Reached ==
  /\ x.t = saveCurrent
  /\ time <= saveCurrent /\ saveCurrent < time + deltaMin
  /\ current <= saveCurrent + deltaMax
  /\ stepDelta = -1

Near ==
  /\ SavedNearPoint
  /\ ~diverged => Starting /\ (pc = "step" => Approaching) /\ (pc = "save" => Reached)

\* What the raster says of the requested point.
LEMMA PointType ==
  ASSUME TypeOK, Raster
  PROVE  /\ time \in Nat
         /\ point = 1 => time = 0 \/ time >= deltaMax
         /\ point # 1 => time >= deltaMax
<1>1. TimePoints \in Seq(Nat) /\ point \in DOMAIN TimePoints /\ deltaMax \in Nat
  BY PointsAssumption, StepAssumption DEF TypeOK
<1>2. time \in Nat
  BY <1>1 DEF time
<1>3. point = 1 => time = 0 \/ time >= deltaMax
  BY DEF time, Raster
<1>4. ASSUME point # 1
      PROVE  time >= deltaMax
  <2>1. PICK p \in DOMAIN TimePoints : point = p + 1
    <3>1. point - 1 \in DOMAIN TimePoints /\ point = (point - 1) + 1
      BY <1>1, <1>4
    <3>2. QED
      BY <3>1
  <2>2. TimePoints[p] \in Nat /\ TimePoints[p + 1] >= TimePoints[p] + deltaMax
    BY <1>1, <2>1 DEF Raster
  <2>3. QED
    BY <1>1, <1>2, <2>1, <2>2 DEF time
<1>5. QED
  BY <1>2, <1>3, <1>4

\* What adjustDelta chooses while the corrector converges: nothing is left to
\* restore once the point is reached; before, the new step ends less than
\* deltaMin behind the point, and a size is kept only by a step that reaches it.
LEMMA ChoiceNear ==
  ASSUME TypeOK, Raster, ~diverged, stepDelta = -1 \/ current >= time,
         NEW n \in Estimates, NEW c \in adjustDelta(n)
  PROVE  /\ current >= time => c.stepDelta = -1
         /\ current < time => /\ current + c.delta < time + deltaMin
                              /\ c.stepDelta = -1 \/ (c.good /\ current + c.delta >= time)
         /\ ~c.good => c.stepDelta = -1
<1>1. time \in Nat /\ current \in Nat /\ delta \in Nat /\ stepDelta \in StepSizes \cup {-1}
  BY PointType DEF TypeOK, StepSizes
<1>2. deltaMin \in Nat \ {0} /\ deltaMax \in Nat /\ deltaMin <= deltaMax
  BY StepAssumption
<1>3. \A e \in Int : /\ Clamp(e) \in deltaMin .. deltaMax
                     /\ e <= deltaMax => Clamp(e) = IF e < deltaMin THEN deltaMin ELSE e
  BY <1>2 DEF Clamp, AtMost, AtLeast
<1> DEFINE d == Clamp(checkDelta(delta, n))
<1>4. d \in deltaMin .. deltaMax
  <2>1. checkDelta(delta, n) \in Int
    BY <1>1, <1>2 DEF checkDelta, AtMost, Estimates
  <2>2. QED
    BY <1>3, <2>1
<1>5. BreakpointsCount
  BY DEF BreakpointsCount, Raster
<1> HIDE DEF d
<1>6. PICK b \in Breakpoint(d, time) : c = [b EXCEPT !.delta = Clamp(@)]
  BY <1>5 DEF adjustDelta, d
<1>7. CASE stepDelta > 0
  <2>1. b = Choice(stepDelta, -1, FALSE)
    BY <1>6, <1>7 DEF Breakpoint
  <2>2. c.stepDelta = -1
    BY <1>6, <2>1 DEF Choice
  <2>3. current >= time
    BY <1>1, <1>7
  <2>4. QED
    BY <1>1, <2>2, <2>3
<1>8. CASE ~(stepDelta > 0)
  <2>1. stepDelta = -1
    BY <1>1, <1>8 DEF StepSizes
  <2>2. CASE time - (current + d) < deltaMin /\ current + d < time
    <3>1. PICK h \in Halves(d) : b = Choice(h, -1, FALSE)
      BY <1>6, <1>8, <2>1, <2>2, Zenon DEF Breakpoint
    <3>2. h \in Int /\ h <= d
      BY <1>2, <1>4 DEF Halves
    <3>3. c.delta = Clamp(h) /\ c.stepDelta = -1
      BY <1>6, <3>1 DEF Choice
    <3>4. c.delta <= d
      BY <1>2, <1>3, <1>4, <3>2, <3>3
    <3>5. c.delta \in Int
      BY <1>2, <1>3, <3>2, <3>3
    <3>6. QED
      BY <1>1, <1>2, <1>4, <2>2, <3>3, <3>4, <3>5
  <2>3. CASE /\ ~(time - (current + d) < deltaMin /\ current + d < time)
             /\ d > time - current /\ time > current
    <3>1. b = Choice(time - current, delta, TRUE)
      BY <1>6, <1>8, <2>3, Zenon DEF Breakpoint
    <3>2. c.delta = Clamp(time - current) /\ c.good
      BY <1>6, <3>1 DEF Choice
    <3>3. time - current \in Int /\ time - current <= deltaMax /\ time - current > 0
      BY <1>1, <1>2, <1>4, <2>3
    <3>4. c.delta = IF time - current < deltaMin THEN deltaMin ELSE time - current
      BY <1>3, <3>2, <3>3
    <3>5. QED
      BY <1>1, <1>2, <2>3, <3>2, <3>3, <3>4
  <2>4. CASE /\ ~(time - (current + d) < deltaMin /\ current + d < time)
             /\ ~(d > time - current /\ time > current)
    <3>1. b = Choice(d, -1, FALSE)
      BY <1>6, <1>8, <2>4, Zenon DEF Breakpoint
    <3>2. c.delta = Clamp(d) /\ c.stepDelta = -1
      BY <1>6, <3>1 DEF Choice
    <3>3. c.delta = d
      BY <1>2, <1>3, <1>4, <3>2
    <3>4. QED
      BY <1>1, <1>2, <1>4, <2>4, <3>2, <3>3
  <2>5. QED
    BY <2>2, <2>3, <2>4
<1>9. QED
  BY <1>7, <1>8

\* The first two turns: the corrector stays before the first point it heads
\* for, and only a point at time zero is reached.
LEMMA StartTurnNear ==
  ASSUME IInv, Raster, Near, StartTurn
  PROVE  Near'
<1>1. /\ pc = "step" /\ running <= 1 /\ saveCurrent' = current
      /\ current' = current + delta /\ delta' = delta /\ stepDelta' = stepDelta
      /\ running' = AtMost(running + 1, 2) /\ x' = Vector(current, TRUE)
      /\ point' = point /\ diverged' = diverged /\ result' = result
      /\ pc' = IF saveCurrent' < time THEN "step" ELSE "save"
  BY DEF StartTurn, ConvergedTurn, LoopTest
<1>2. time' = time
  BY <1>1 DEF time
<1>3. SavedNearPoint'
  BY <1>1 DEF Near, SavedNearPoint, Saved
<1> SUFFICES ASSUME ~diverged
             PROVE  Starting' /\ (pc = "step" => Approaching)' /\ (pc = "save" => Reached)'
  BY <1>1, <1>3 DEF Near
<1>4. Starting /\ Approaching
  BY <1>1 DEF Near
<1>5. /\ running \in 0 .. 2 /\ current \in Nat /\ saveCurrent \in Nat
      /\ running = 0 => current = 0
      /\ time \in Nat
      /\ point = 1 => time = 0 \/ time >= deltaMax
      /\ point # 1 => time >= deltaMax
  BY PointType DEF IInv, TypeOK, Counters
<1>6. /\ deltaMin \in Nat \ {0} /\ deltaMax \in Nat /\ FirstStep \in Nat \ {0}
      /\ 2 * FirstStep <= deltaMax
  BY StepAssumption DEF Raster
<1>7. x'.t = current
  BY <1>1, <1>5, VectorType, Zenon
<1>8. delta = FirstStep /\ stepDelta = -1
  BY <1>1, <1>4 DEF Starting
<1>9. CASE running = 0
  <2>1. running' = 1 /\ current = 0 /\ current' = FirstStep /\ saveCurrent' = 0
    BY <1>1, <1>5, <1>6, <1>8, <1>9 DEF AtMost
  <2>2. Starting'
    BY <1>1, <1>6, <1>8, <2>1 DEF Starting
  <2>3. CASE time = 0
    <3>1. pc' = "save"
      BY <1>1, <2>1, <2>3
    <3>2. Reached'
      <4>1. x'.t = saveCurrent' /\ stepDelta' = -1
        BY <1>1, <1>7, <1>8, <2>1, Zenon
      <4>2. saveCurrent' = 0 /\ time' = 0 /\ current' = FirstStep
        BY <1>2, <2>1, <2>3
      <4>3. QED
        BY <1>6, <4>1, <4>2 DEF Reached
    <3>3. QED
      BY <2>2, <3>1, <3>2
  <2>4. CASE time # 0
    <3>1. time >= deltaMax
      BY <1>5, <2>4
    <3>2. pc' = "step"
      BY <1>1, <1>5, <2>1, <2>4
    <3>3. Approaching'
      BY <1>1, <1>2, <1>5, <1>6, <1>8, <2>1, <2>4, <3>1 DEF Approaching
    <3>4. QED
      BY <2>2, <3>2, <3>3
  <2>5. QED
    BY <2>3, <2>4
<1>10. CASE running # 0
  <2>1. running = 1 /\ running' = 2
    BY <1>1, <1>5, <1>10 DEF AtMost
  <2>2. current = FirstStep /\ current' = 2 * FirstStep /\ saveCurrent' = FirstStep
    BY <1>1, <1>4, <1>6, <1>8, <2>1 DEF Starting
  <2>3. Starting'
    BY <1>1, <1>6, <2>1, <2>2 DEF Starting
  <2>4. time >= deltaMax
    BY <1>4, <1>5, <2>1 DEF Approaching
  <2>5. FirstStep < time /\ 2 * FirstStep < time + deltaMin
    BY <1>5, <1>6, <2>4
  <2>6. pc' = "step"
    BY <1>1, <2>2, <2>5
  <2>7. Approaching'
    BY <1>1, <1>2, <1>8, <2>2, <2>5 DEF Approaching
  <2>8. QED
    BY <2>3, <2>6, <2>7
<1>11. QED
  BY <1>9, <1>10

\* An accepted turn either reaches the point or approaches it further.
LEMMA AcceptTurnNear ==
  ASSUME IInv, Raster, Near, AcceptTurn
  PROVE  Near'
<1>1. /\ pc = "step" /\ running > 1 /\ saveCurrent' = current
      /\ running' = AtMost(running + 1, 2) /\ x' = Vector(current, TRUE)
      /\ point' = point /\ diverged' = diverged /\ result' = result
      /\ pc' = IF saveCurrent' < time THEN "step" ELSE "save"
  BY DEF AcceptTurn, ConvergedTurn, LoopTest
<1>2. time' = time
  BY <1>1 DEF time
<1>3. SavedNearPoint'
  BY <1>1 DEF Near, SavedNearPoint, Saved
<1> SUFFICES ASSUME ~diverged
             PROVE  Starting' /\ (pc = "step" => Approaching)' /\ (pc = "save" => Reached)'
  BY <1>1, <1>3 DEF Near
<1>4. Starting /\ Approaching
  BY <1>1 DEF Near
<1>5. running = 2 /\ running' = 2 /\ current \in Nat /\ time \in Nat
  BY <1>1, PointType DEF IInv, TypeOK, AtMost
<1>6. PICK n \in Estimates : \E c \in adjustDelta(n) :
        delta' = c.delta /\ stepDelta' = c.stepDelta /\ current' = current + c.delta
  BY DEF AcceptTurn
<1>7. PICK c \in adjustDelta(n) :
        delta' = c.delta /\ stepDelta' = c.stepDelta /\ current' = current + c.delta
  BY <1>6
<1>8. c.delta \in 1 .. deltaMax /\ deltaMax \in Nat
  BY ChoiceType, StepAssumption DEF IInv, StepSizes
<1>9. Starting'
  BY <1>1, <1>5, <1>7, <1>8 DEF Starting
<1>10. CASE current >= time
  <2>1. pc' = "save"
    BY <1>1, <1>5, <1>10
  <2>2. c.stepDelta = -1
    BY <1>4, <1>10, ChoiceNear DEF IInv, Approaching
  <2>3. x'.t = current
    BY <1>1, <1>5, VectorType, Zenon
  <2>4. Reached'
    <3>1. x'.t = saveCurrent' /\ stepDelta' = -1
      <4>1. stepDelta' = -1
        BY <1>7, <2>2, Zenon
      <4>2. QED
        BY <1>1, <2>3, <4>1, Zenon
    <3>2. time <= current /\ current < time + deltaMin
      BY <1>4, <1>5, <1>10 DEF Approaching
    <3>3. current + c.delta <= current + deltaMax
      BY <1>5, <1>8
    <3>4. QED
      BY <1>1, <1>2, <1>7, <3>1, <3>2, <3>3, Zenon DEF Reached
  <2>5. QED
    BY <1>9, <2>1, <2>4
<1>11. CASE ~(current >= time)
  <2>1. current < time
    BY <1>5, <1>11
  <2>2. pc' = "step"
    BY <1>1, <2>1
  <2>3. /\ current + c.delta < time + deltaMin
        /\ c.stepDelta = -1 \/ current + c.delta >= time
    BY <1>4, <2>1, ChoiceNear DEF IInv, Approaching
  <2>4. Approaching'
    BY <1>1, <1>2, <1>7, <2>1, <2>3 DEF Approaching
  <2>5. QED
    BY <1>9, <2>2, <2>4
<1>12. QED
  BY <1>10, <1>11

\* A rejected turn goes back to the newest accepted solution, before the
\* point, and takes a smaller step from there.
LEMMA RejectTurnNear ==
  ASSUME IInv, Raster, Near, RejectTurn
  PROVE  Near'
<1>1. /\ pc = "step" /\ running > 1 /\ saveCurrent' = StepBack(current, delta)
      /\ running' = AtMost(running + 1, 2)
      /\ point' = point /\ diverged' = diverged /\ result' = result
      /\ pc' = IF saveCurrent' < time THEN "step" ELSE "save"
  BY DEF RejectTurn, ConvergedTurn, LoopTest
<1>2. time' = time
  BY <1>1 DEF time
<1>3. SavedNearPoint'
  BY <1>1 DEF Near, SavedNearPoint, Saved
<1> SUFFICES ASSUME ~diverged
             PROVE  Starting' /\ (pc = "step" => Approaching)' /\ (pc = "save" => Reached)'
  BY <1>1, <1>3 DEF Near
<1>4. Starting /\ Approaching
  BY <1>1 DEF Near
<1>5. /\ running = 2 /\ running' = 2 /\ current \in Nat /\ saveCurrent \in Nat
      /\ delta \in Nat \ {0} /\ time \in Nat /\ deltaMin \in Nat
  BY <1>1, PointType, StepAssumption DEF IInv, TypeOK, AtMost, StepSizes
<1>6. PICK n \in Estimates : \E c \in adjustDelta(n) :
        /\ ~Accepts(c) /\ delta' = c.delta /\ stepDelta' = c.stepDelta
        /\ current' = saveCurrent' + c.delta
  BY DEF RejectTurn
<1>7. PICK c \in adjustDelta(n) :
        /\ ~Accepts(c) /\ delta' = c.delta /\ stepDelta' = c.stepDelta
        /\ current' = saveCurrent' + c.delta
  BY <1>6
<1>8. c.delta \in Nat \ {0}
  BY ChoiceType DEF IInv, StepSizes
<1>9. saveCurrent' = saveCurrent /\ current = saveCurrent + delta
  <2>1. statSteps > 0 /\ current > 0
    BY <1>1, <1>4, <1>5 DEF IInv, Counters, TypeOK, Starting
  <2>2. saveCurrent = SOL(1).t /\ StepBack(current, delta) = SOL(1).t
    BY <2>1, StepBackToSolution DEF IInv, RingInv, AcceptedOnly
  <2>3. current = SOL(1).t + delta
    BY <1>5, <2>1 DEF IInv, RingInv, CurrentFollowsSolution
  <2>4. QED
    BY <1>1, <2>2, <2>3
<1>10. c.delta < delta /\ ~c.good
  BY <1>5, <1>7, <1>8 DEF Accepts
<1>11. stepDelta' = -1
  BY <1>4, <1>7, <1>10, ChoiceNear DEF IInv, Approaching
<1>12. saveCurrent < time
  BY <1>4, <1>5 DEF Approaching
<1>13. pc' = "step"
  BY <1>1, <1>9, <1>12
<1>14. current' = saveCurrent + c.delta /\ current' < current
  BY <1>5, <1>7, <1>8, <1>9, <1>10
<1>15. Starting'
  BY <1>1, <1>5, <1>8, <1>13, <1>14 DEF Starting
<1>16. Approaching'
  BY <1>2, <1>4, <1>5, <1>8, <1>9, <1>11, <1>12, <1>14 DEF Approaching
<1>17. QED
  BY <1>13, <1>15, <1>16

\* Storing a point stores the vector that reached it.
LEMMA SavePointNear ==
  ASSUME IInv, Raster, Near, SavePoint
  PROVE  Near'
<1>1. /\ pc = "save" /\ result' = [label |-> time, vec |-> x]
      /\ current' = current /\ saveCurrent' = saveCurrent /\ delta' = delta
      /\ stepDelta' = stepDelta /\ running' = running /\ diverged' = diverged
      /\ x' = x
  BY DEF SavePoint
<1>2. result'.label = time /\ result'.vec = x
  BY <1>1
<1>3. CASE diverged
  BY <1>1, <1>3 DEF Near, SavedNearPoint
<1>4. CASE ~diverged
  <2>1. Starting /\ Reached
    BY <1>1, <1>4 DEF Near
  <2>2. /\ time \in Nat /\ current \in Nat /\ saveCurrent \in Nat /\ running \in 0 .. 2
        /\ deltaMin \in Nat \ {0} /\ deltaMax \in Nat /\ deltaMin <= deltaMax
    BY PointType, StepAssumption DEF IInv, TypeOK
  <2>3. SavedNearPoint'
    BY <1>2, <2>1, <2>2 DEF SavedNearPoint, Reached
  <2>4. running > 0 /\ pc' \in {"step", "done"}
    BY <1>1, <2>1 DEF SavePoint, Starting
  <2>5. Starting'
    BY <1>1, <2>1, <2>2, <2>4 DEF Starting
  <2>6. ASSUME pc' = "step"
        PROVE  Approaching'
    <3>1. point' = point + 1 /\ point < Len(TimePoints)
      BY <2>6 DEF SavePoint
    <3>2. TimePoints[point + 1] >= TimePoints[point] + deltaMax
      BY <3>1, PointsAssumption DEF IInv, TypeOK, Raster
    <3>3. PICK t \in Nat : t = TimePoints[point + 1]
      BY <3>1, PointsAssumption DEF IInv, TypeOK
    <3>4. time' = t /\ t >= time + deltaMax
      BY <3>1, <3>2, <3>3 DEF time
    <3>5. QED
      BY <1>1, <2>1, <2>2, <3>4 DEF Approaching, Reached
  <2>7. QED
    BY <2>3, <2>4, <2>5, <2>6 DEF Near
<1>5. QED
  BY <1>3, <1>4

\* A fresh run is at time zero, before its first point.
LEMMA FreshNear ==
  ASSUME FreshRun
  PROVE  Near
<1>1. ~Saved
  BY DEF FreshRun, Saved, NoResult
<1>2. QED
  BY <1>1 DEF FreshRun, Near, SavedNearPoint, Starting

\* Every turn of trsolver::solve keeps the corrector near the requested point.
LEMMA StepNear ==
  ASSUME IInv, Raster, Near, [Next]_vars
  PROVE  Near'
<1>1. CASE InitialDC
  <2>1. /\ pc = "start" /\ point' = point /\ current' = current
        /\ saveCurrent' = saveCurrent /\ delta' = delta /\ stepDelta' = stepDelta
        /\ running' = running /\ diverged' = diverged /\ result' = result
        /\ pc' \in {"failed", "step"}
    BY <1>1 DEF InitialDC
  <2>2. SavedNearPoint'
    BY <2>1 DEF Near, SavedNearPoint, Saved
  <2>3. ASSUME ~diverged
        PROVE  Starting' /\ Approaching'
    <3>1. Starting /\ running = 0 /\ stepDelta = -1 /\ current = 0 /\ saveCurrent = 0
      BY <2>1, <2>3 DEF Near, Starting, IInv, Counters
    <3>2. time' = time /\ time \in Nat /\ deltaMin \in Nat \ {0}
      BY <2>1, PointType, StepAssumption DEF IInv, time
    <3>3. Starting'
      BY <2>1, <3>1 DEF Starting
    <3>4. Approaching'
      BY <2>1, <3>1, <3>2 DEF Approaching
    <3>5. QED
      BY <3>3, <3>4
  <2>4. QED
    BY <2>1, <2>2, <2>3 DEF Near
<1>2. CASE NoConvergence
  BY <1>2 DEF NoConvergence, Near, SavedNearPoint
<1>3. CASE Failure
  <2>1. SavedNearPoint'
    BY <1>3 DEF Failure, Near, SavedNearPoint, Saved
  <2>2. QED
    BY <1>3, <2>1 DEF Failure, Near, Starting
<1>4. CASE StartTurn \/ AcceptTurn \/ RejectTurn \/ SavePoint
  BY <1>4, StartTurnNear, AcceptTurnNear, RejectTurnNear, SavePointNear
<1>5. CASE Again
  <2>1. result' = NoResult /\ pc' = "start" /\ point' = 1 /\ running' = 0
        /\ delta' = FirstStep /\ stepDelta' = -1
    BY <1>5 DEF Again
  <2>2. SavedNearPoint'
    BY <2>1 DEF SavedNearPoint, Saved, NoResult
  <2>3. QED
    BY <2>1, <2>2 DEF Near, Starting
<1>6. CASE UNCHANGED vars
  BY <1>6 DEF vars, Near, SavedNearPoint, Saved, Starting, Approaching, Reached, time
<1>7. QED
  BY <1>1, <1>2, <1>3, <1>4, <1>5, <1>6 DEF Next

\* On a raster no finer than the largest step, every vector trsolver::solve
\* stores while the corrector converges was solved at the requested point or
\* less than the smallest step behind it: neither the step size restored after
\* a breakpoint nor a rejected turn takes the analysis past the next point.
THEOREM StoredNearPoint == Raster => (Spec => []SavedNearPoint)
<1> SUFFICES ASSUME Raster PROVE Spec => []SavedNearPoint
  OBVIOUS
<1>1. Init => Near
  BY FreshNear DEF Init
<1>2. IInv /\ Near /\ [Next]_vars => Near'
  BY StepNear
<1>3. Near => SavedNearPoint
  BY DEF Near
<1>4. QED
  BY <1>1, <1>2, <1>3, Invariance, PTL DEF Spec
============================================================================
