---------------------------- MODULE SolverProofs ----------------------------
(***************************************************************************)
(* Proofs about the solvers.  What the DC analysis guarantees for every    *)
(* number of iterations and every resolution of the continuations: the     *)
(* circuits get their sources back, and a result that is not reported as a *)
(* failure solves the netlist as it was given.  Below, the line search of  *)
(* a damped Newton step, the reduction of a network by the S-parameter     *)
(* analysis, and the values the transient analysis keeps for its delays;   *)
(* each of them is a system of its own, with its constants and variables.  *)
(***************************************************************************)
EXTENDS DCSolver, LineSearch, History, WellFoundedInduction, TLAPS

-----------------------------------------------------------------------------
(* The sources. *)

\* One step keeps SourcesRestored: only source stepping changes the factor,
\* and it does not return without setting it back.
LEMMA SourcesStep ==
  ASSUME SourcesRestored, [Next]_vars
  PROVE  SourcesRestored'
<1>1. CASE BeginNonlinear
  BY <1>1 DEF SourcesRestored, BeginNonlinear, StartSolving
<1>2. CASE SolveLinear
  BY <1>2 DEF SourcesRestored, SolveLinear
<1>3. CASE Iterate
  BY <1>3 DEF SourcesRestored, Iterate
<1>4. CASE NewtonEnds
  BY <1>4 DEF SourcesRestored, NewtonEnds, Continues, Return
<1>5. CASE gMinFails
  BY <1>5 DEF SourcesRestored, gMinFails, Return, Continue
<1>6. CASE gMinConverges
  BY <1>6 DEF SourcesRestored, gMinConverges, Return, Continue
<1>7. CASE sourceFails
  BY <1>7 DEF SourcesRestored, sourceFails, Return, Continue, RestoreSources
<1>8. CASE sourceQuick
  BY <1>8 DEF SourcesRestored, sourceQuick, Return, Continue, RestoreSources
<1>9. CASE sourceSlow
  BY <1>9 DEF SourcesRestored, sourceSlow, Continue
<1>10. CASE Fallback
  BY <1>10 DEF SourcesRestored, Fallback, StartSolving
<1>11. CASE NoFallback
  BY <1>11 DEF SourcesRestored, NoFallback, StartSolving
<1>12. CASE Again
  BY <1>12 DEF SourcesRestored, Again
<1>13. CASE UNCHANGED vars
  BY <1>13 DEF SourcesRestored, vars
<1>14. QED
  BY <1>1, <1>2, <1>3, <1>4, <1>5, <1>6, <1>7, <1>8, <1>9, <1>10, <1>11, <1>12,
     <1>13 DEF Next

\* Whichever way source stepping ends, the next convergence helper and the
\* saved results see the full sources: solve_nonlinear_continuation_Source
\* restores the factor on its error path as well.
THEOREM SourcesComeBack == Spec => []SourcesRestored
<1>1. Init => SourcesRestored
  BY DEF Init, SourcesRestored
<1>2. SourcesRestored /\ [Next]_vars => SourcesRestored'
  BY SourcesStep
<1>3. QED
  BY <1>1, <1>2, PTL DEF Spec

-----------------------------------------------------------------------------
(* Type correctness.  The index of the next helper stays inside the table    *)
(* because no requested helper is the mark at its end, and the number of     *)
(* retries stays below the index.                                            *)

StackType == estack \in Seq(Codes)

StepperType ==
  /\ gMin \in 0 .. GStart /\ gPrev \in 0 .. GStart /\ gStep \in Nat
  /\ srcFactor \in 0 .. SFull /\ sPrev \in 0 .. SFull /\ sStep \in Nat

SourceType ==
  /\ netSrc \in 0 .. SFull
  /\ solvedAt \in [src : 0 .. SFull, g : 0 .. GStart]

LoopType ==
  /\ pc \in {"begin", "iterate", "stepped", "caught", "saved"}
  /\ preferred \in Helpers \cup {"None"}
  /\ convHelper \in Helpers \cup {"None", "Exhausted"}
  /\ pc # "saved" => convHelper # "Exhausted"
  /\ tried \subseteq Helpers \cup {"None"}

FlagType == converged \in BOOLEAN /\ error \in BOOLEAN

CounterType ==
  /\ fallback \in 0 .. Len(helpers)
  /\ pc # "saved" => fallback < Len(helpers)
  /\ retry \in -1 .. Len(helpers)
  /\ retry < fallback

RunType ==
  /\ run \in 0 .. MaxIter
  /\ pc = "iterate" => run < MaxIterations

\* The table of helpers in dcsolver::solve has five of them and the mark of its end.
LEMMA HelpersTable ==
  /\ Len(helpers) = 6
  /\ \A i \in 1 .. 5 : helpers[i] \in Helpers
  /\ helpers[6] = "Exhausted"
  /\ \A i \in 1 .. 6 : helpers[i] # "None"
BY DEF helpers, Helpers

\* The limits solve_nonlinear sets on its iterations, shortened ones included.
LEMMA IterationBound ==
  /\ MaxIter \div 4 + 1 \in 1 .. MaxIter
  /\ MaxIterations \in 1 .. MaxIter
BY IterAssumption DEF MaxIterations

\* Raising an exception leaves a stack of exceptions.
LEMMA PushType ==
  ASSUME StackType, NEW e \in Codes
  PROVE  push(e) \in Seq(Codes)
BY DEF StackType, push

\* So does one iteration (nasolver::solve_once), whatever it raises.
LEMMA OnceType ==
  ASSUME StackType, NEW m \in BOOLEAN, NEW b \in BOOLEAN
  PROVE  solve_once(m, b) \in Seq(Codes)
<1>1. push("MATH") \in Seq(Codes)
  BY PushType DEF Codes
<1>2. QED
  BY <1>1 DEF solve_once, StackType

\* The exception stack holds exception codes.
LEMMA StackStep ==
  ASSUME StackType, [Next]_vars
  PROVE  StackType'
<1>1. push("NO_CONVERGENCE") \in Seq(Codes)
  BY PushType DEF Codes
<1>2. CASE SolveLinear \/ Iterate
  BY <1>2, OnceType, Zenon DEF SolveLinear, Iterate, StackType
<1>3. CASE NewtonEnds
  BY <1>1, <1>3 DEF NewtonEnds, Return, StackType
<1>4. CASE gMinFails \/ gMinConverges
  BY <1>1, <1>4 DEF gMinFails, gMinConverges, Return, Continue, StackType
<1>5. CASE sourceFails \/ sourceQuick \/ sourceSlow
  BY <1>1, <1>5 DEF sourceFails, sourceQuick, sourceSlow, Return, Continue, StackType
<1>6. CASE Fallback \/ NoFallback
  <2>1. estack # <<>> => Tail(estack) \in Seq(Codes)
    BY DEF StackType
  <2>2. <<>> \in Seq(Codes)
    OBVIOUS
  <2>3. QED
    BY <1>6, <2>1, <2>2, Zenon DEF Fallback, NoFallback, Caught, StackType
<1>7. CASE BeginNonlinear \/ Again \/ UNCHANGED vars
  BY <1>7 DEF BeginNonlinear, Again, vars, StackType
<1>8. QED
  BY <1>2, <1>3, <1>4, <1>5, <1>6, <1>7 DEF Next

\* The next index is inside the table: a requested helper is not its last entry.
LEMMA SkipRange ==
  ASSUME LoopType, CounterType, pc # "saved"
  PROVE  Skip \in 0 .. 5 /\ Skip >= fallback
<1>1. fallback \in 0 .. 5
  BY HelpersTable DEF CounterType
<1>2. fallback = 5 => preferred # helpers[fallback + 1]
  BY HelpersTable DEF LoopType, Helpers
<1>3. QED
  BY <1>1, <1>2 DEF Skip

\* The program counter and the helpers.
LEMMA LoopStep ==
  ASSUME LoopType, CounterType, [Next]_vars
  PROVE  LoopType'
<1>1. CASE BeginNonlinear
  <2>1. PICK h \in Helpers \cup {"None"} : preferred' = h
    BY <1>1 DEF BeginNonlinear
  <2>2. h # "Exhausted"
    BY DEF Helpers
  <2>3. QED
    BY <1>1, <2>1, <2>2 DEF BeginNonlinear, StartSolving, LoopType
<1>2. CASE SolveLinear \/ Iterate \/ NewtonEnds
  BY <1>2, Zenon DEF SolveLinear, Iterate, NewtonEnds, Return, LoopType
<1>3. CASE gMinFails \/ gMinConverges
  BY <1>3 DEF gMinFails, gMinConverges, Return, Continue, LoopType
<1>4. CASE sourceFails \/ sourceQuick \/ sourceSlow
  BY <1>4 DEF sourceFails, sourceQuick, sourceSlow, Return, Continue, LoopType
<1>5. CASE Fallback
  <2>1. PICK i \in 1 .. 6 : fallback' = i
    <3>1. Skip \in 0 .. 5
      BY <1>5, SkipRange DEF Fallback
    <3>2. QED
      BY <1>5, <3>1 DEF Fallback
  <2>2. CASE helpers[i] = "Exhausted"
    BY <1>5, <2>1, <2>2 DEF Fallback, LoopType
  <2>3. CASE helpers[i] # "Exhausted"
    <3>1. helpers[i] \in Helpers /\ helpers[i] # "Exhausted"
      BY <2>1, <2>3, HelpersTable
    <3>2. QED
      BY <1>5, <2>1, <2>3, <3>1 DEF Fallback, StartSolving, LoopType
  <2>4. QED
    BY <2>2, <2>3
<1>6. CASE NoFallback
  BY <1>6 DEF NoFallback, StartSolving, LoopType
<1>7. CASE Again \/ UNCHANGED vars
  BY <1>7 DEF Again, vars, LoopType
<1>8. QED
  BY <1>1, <1>2, <1>3, <1>4, <1>5, <1>6, <1>7 DEF Next

\* The index of the next helper and the retry counter.
LEMMA CounterStep ==
  ASSUME LoopType, CounterType, [Next]_vars
  PROVE  CounterType'
<1>1. CASE BeginNonlinear \/ SolveLinear \/ Iterate \/ NewtonEnds
  BY <1>1, HelpersTable
    , Zenon DEF BeginNonlinear, StartSolving, SolveLinear, Iterate, NewtonEnds, Return, CounterType
<1>2. CASE gMinFails \/ gMinConverges
  BY <1>2 DEF gMinFails, gMinConverges, Return, Continue, CounterType
<1>3. CASE sourceFails \/ sourceQuick \/ sourceSlow
  BY <1>3 DEF sourceFails, sourceQuick, sourceSlow, Return, Continue, CounterType
<1>4. CASE Fallback
  <2>1. PICK i \in 1 .. 6 : fallback' = i /\ i > fallback
    <3>1. Skip \in 0 .. 5 /\ Skip >= fallback
      BY <1>4, SkipRange DEF Fallback
    <3>2. fallback \in 0 .. 5
      BY <1>4, HelpersTable DEF Fallback, CounterType
    <3>3. QED
      BY <1>4, <3>1, <3>2 DEF Fallback
  <2>2. retryNow \in -1 .. 5 /\ retryNow < fallback
    BY <1>4, HelpersTable DEF Fallback, retryNow, CounterType
  <2>3. CASE helpers[i] = "Exhausted"
    BY <1>4, <2>1, <2>3, HelpersTable DEF Fallback, CounterType
  <2>4. CASE helpers[i] # "Exhausted"
    <3>1. i < 6
      BY <2>1, <2>4, HelpersTable
    <3>2. retry' = retryNow + 1 /\ pc' = "iterate"
      BY <1>4, <2>1, <2>4 DEF Fallback, StartSolving
    <3>3. QED
      BY <2>1, <2>2, <3>1, <3>2, HelpersTable DEF CounterType
  <2>5. QED
    BY <2>3, <2>4
<1>5. CASE NoFallback
  BY <1>5, HelpersTable DEF NoFallback, StartSolving, retryNow, CounterType
<1>6. CASE Again \/ UNCHANGED vars
  BY <1>6, HelpersTable DEF Again, vars, CounterType
<1>7. QED
  BY <1>1, <1>2, <1>3, <1>4, <1>5, <1>6 DEF Next

\* The iteration counter.
LEMMA RunStep ==
  ASSUME LoopType, RunType, [Next]_vars
  PROVE  RunType'
<1>1. 0 \in 0 .. MaxIter /\ MaxIterations \in 1 .. MaxIter
  BY IterAssumption, IterationBound
<1>2. 0 < MaxIterations'
  BY IterAssumption DEF MaxIterations
<1>3. CASE BeginNonlinear \/ Again
  BY <1>1, <1>2, <1>3 DEF BeginNonlinear, StartSolving, Again, RunType
<1>4. CASE Iterate
  <2>1. PICK r \in 0 .. MaxIter : run' = r
    <3>1. run + 1 \in 0 .. MaxIter
      BY <1>1, <1>4, IterAssumption DEF Iterate, RunType
    <3>2. QED
      BY <1>4, <3>1 DEF Iterate
  <2>2. MaxIterations' = MaxIterations
    BY <1>4 DEF Iterate, MaxIterations
  <2>3. pc' = "iterate" => ~(r >= MaxIterations)
    BY <1>4, <2>1 DEF Iterate
  <2>4. QED
    BY <1>1, <2>1, <2>2, <2>3 DEF RunType
<1>5. CASE SolveLinear \/ NewtonEnds
  BY <1>5 DEF SolveLinear, NewtonEnds, Return, RunType
<1>6. CASE gMinFails \/ gMinConverges
  BY <1>1, <1>2, <1>6 DEF gMinFails, gMinConverges, Return, Continue, RunType
<1>7. CASE sourceFails \/ sourceQuick \/ sourceSlow
  BY <1>1, <1>2, <1>7 DEF sourceFails, sourceQuick, sourceSlow, Return, Continue, RunType
<1>8. CASE Fallback \/ NoFallback
  BY <1>1, <1>2, <1>8 DEF Fallback, NoFallback, StartSolving, RunType
<1>9. CASE UNCHANGED vars
  BY <1>9 DEF vars, RunType, MaxIterations
<1>10. QED
  BY <1>3, <1>4, <1>5, <1>6, <1>7, <1>8, <1>9 DEF Next

\* Converged and error.
LEMMA FlagStep ==
  ASSUME FlagType, [Next]_vars
  PROVE  FlagType'
<1>1. CASE BeginNonlinear \/ SolveLinear \/ Again \/ UNCHANGED vars
  BY <1>1, Zenon DEF BeginNonlinear, StartSolving, SolveLinear, Again, vars, FlagType
<1>2. CASE Iterate
  BY <1>2, Zenon DEF Iterate, FlagType
<1>3. CASE NewtonEnds
  BY <1>3 DEF NewtonEnds, Return, FlagType
<1>4. CASE gMinFails \/ gMinConverges
  BY <1>4, Zenon DEF gMinFails, gMinConverges, Return, Continue, FlagType
<1>5. CASE sourceFails \/ sourceQuick \/ sourceSlow
  BY <1>5, Zenon DEF sourceFails, sourceQuick, sourceSlow, Return, Continue, FlagType
<1>6. CASE Fallback \/ NoFallback
  BY <1>6, Zenon DEF Fallback, NoFallback, StartSolving, FlagType
<1>7. QED
  BY <1>1, <1>2, <1>3, <1>4, <1>5, <1>6 DEF Next

\* The factors of the continuations are held at their ends.
LEMMA ArithmeticType ==
  /\ \A d \in Nat : Halved(d) \in Nat
  /\ \A p \in 0 .. GStart, d \in Nat : AtLeast(p - d, 0) \in 0 .. GStart
  /\ \A p \in 0 .. SFull, d \in Nat : AtMost(p + d, SFull) \in 0 .. SFull
BY StepperAssumption DEF Halved, AtLeast, AtMost

\* The steppers stay between nothing and the given netlist.
LEMMA StepperStep ==
  ASSUME StepperType, [Next]_vars
  PROVE  StepperType'
<1>1. ASSUME NEW h, StartSolving(h)
      PROVE  StepperType'
  BY <1>1, StepperAssumption DEF StartSolving, SetStepper, StepperType
<1>2. CASE BeginNonlinear
  BY <1>1, <1>2 DEF BeginNonlinear
<1>3. CASE SolveLinear \/ Iterate \/ NewtonEnds
  BY <1>3, Zenon DEF SolveLinear, Iterate, NewtonEnds, stepper, StepperType
<1>4. CASE gMinFails
  <2>1. PICK d \in Nat : gStep' = d
    BY <1>4, ArithmeticType DEF gMinFails, StepperType
  <2>2. AtLeast(gPrev - d, 0) \in 0 .. GStart
    BY ArithmeticType, Zenon DEF StepperType
  <2>3. gMin' = AtLeast(gPrev - d, 0) \/ gMin' = gMin
    BY <1>4, <2>1, Zenon DEF gMinFails
  <2>4. QED
    BY <1>4, <2>1, <2>2, <2>3 DEF gMinFails, StepperType
<1>5. CASE gMinConverges
  <2>1. AtLeast(gMin - gStep, 0) \in 0 .. GStart
    BY ArithmeticType, Zenon DEF StepperType
  <2>2. 2 * gStep \in Nat
    BY DEF StepperType
  <2>3. QED
    BY <1>5, <2>1, <2>2 DEF gMinConverges, StepperType
<1>6. CASE sourceFails
  <2>1. PICK d \in Nat : sStep' = d
    BY <1>6, ArithmeticType DEF sourceFails, StepperType
  <2>2. AtMost(sPrev + d, SFull) \in 0 .. SFull
    BY ArithmeticType, Zenon DEF StepperType
  <2>3. srcFactor' = AtMost(sPrev + d, SFull) \/ srcFactor' = srcFactor
    BY <1>6, <2>1, Zenon DEF sourceFails
  <2>4. QED
    BY <1>6, <2>1, <2>2, <2>3 DEF sourceFails, StepperType
<1>7. CASE sourceQuick \/ sourceSlow
  <2>1. AtMost(srcFactor + sStep, SFull) \in 0 .. SFull
    BY ArithmeticType DEF StepperType
  <2>2. (3 * sStep) \div 2 \in Nat /\ (3 * sStep + 1) \div 2 \in Nat
    BY DEF StepperType
  <2>3. QED
    BY <1>7, <2>1, <2>2, Zenon DEF sourceQuick, sourceSlow, StepperType
<1>8. CASE Fallback
  BY <1>1, <1>8 DEF Fallback, stepper, StepperType
<1>9. CASE NoFallback
  BY <1>1, <1>9 DEF NoFallback, stepper, StepperType
<1>10. CASE Again \/ UNCHANGED vars
  BY <1>10, StepperAssumption DEF Again, SetStepper, vars, stepper, StepperType
<1>11. QED
  BY <1>2, <1>3, <1>4, <1>5, <1>6, <1>7, <1>8, <1>9, <1>10 DEF Next

\* The factor in the circuits and what the last iteration was solved with.
LEMMA SourceStep ==
  ASSUME StepperType, SourceType, [Next]_vars
  PROVE  SourceType'
<1>1. 0 \in 0 .. GStart /\ SFull \in 0 .. SFull
  BY StepperAssumption
<1>2. CASE BeginNonlinear \/ Fallback \/ NoFallback \/ Again \/ UNCHANGED vars
  BY <1>2 DEF BeginNonlinear, Fallback, NoFallback, Again, vars, SourceType
<1>3. CASE SolveLinear
  BY <1>1, <1>3 DEF SolveLinear, SourceType
<1>4. CASE Iterate
  BY <1>1, <1>4 DEF Iterate, SourceType, StepperType
<1>5. CASE NewtonEnds
  BY <1>5 DEF NewtonEnds, Return, SourceType
<1>6. CASE gMinFails \/ gMinConverges
  BY <1>6 DEF gMinFails, gMinConverges, Return, Continue, SourceType
<1>7. CASE sourceFails \/ sourceQuick \/ sourceSlow
  BY <1>1, <1>7
     DEF sourceFails, sourceQuick, sourceSlow, Return, Continue, RestoreSources, SourceType
<1>8. QED
  BY <1>2, <1>3, <1>4, <1>5, <1>6, <1>7 DEF Next

-----------------------------------------------------------------------------
(* A result solves the netlist as it was given.  While a solving loop ends   *)
(* the last iteration used the factor and resistance of the stepper; when    *)
(* solve_nonlinear returns without error these are the given ones, and with  *)
(* an error the exception is on top of the stack.                            *)

Given == [src |-> SFull, g |-> 0]

LastIteration ==
  pc = "stepped" =>
    solvedAt = [src |-> IF convHelper = "SourceStepping" THEN srcFactor ELSE SFull,
                g |-> IF convHelper = "GMinStepping" THEN gMin ELSE 0]

Returned ==
  pc = "caught" => IF error THEN Caught ELSE solvedAt = Given

Types ==
  /\ StackType /\ StepperType /\ SourceType /\ LoopType /\ FlagType
  /\ CounterType /\ RunType

IInv == Types /\ SourcesRestored /\ LastIteration /\ Returned /\ SolvedAsGiven

\* An iteration solves the circuit with the continuation's current factors.
LEMMA LastIterationStep ==
  ASSUME SourcesRestored, LastIteration, [Next]_vars
  PROVE  LastIteration'
<1>1. CASE Iterate
  BY <1>1 DEF Iterate, SourcesRestored, LastIteration, stepper
<1>2. CASE BeginNonlinear \/ SolveLinear \/ NewtonEnds
  BY <1>2 DEF BeginNonlinear, StartSolving, SolveLinear, NewtonEnds, Return, LastIteration
<1>3. CASE gMinFails \/ gMinConverges
  BY <1>3 DEF gMinFails, gMinConverges, Return, Continue, LastIteration
<1>4. CASE sourceFails \/ sourceQuick \/ sourceSlow
  BY <1>4 DEF sourceFails, sourceQuick, sourceSlow, Return, Continue, LastIteration
<1>5. CASE Fallback \/ NoFallback \/ Again
  BY <1>5 DEF Fallback, NoFallback, StartSolving, Again, LastIteration
<1>6. CASE UNCHANGED vars
  BY <1>6 DEF vars, stepper, LastIteration
<1>7. QED
  BY <1>1, <1>2, <1>3, <1>4, <1>5, <1>6 DEF Next

\* The exception raised last is on top of the stack.
LEMMA PushOnTop ==
  ASSUME StackType, NEW e \in Codes
  PROVE  push(e) # <<>> /\ Head(push(e)) = e
BY DEF StackType, push

\* solve_nonlinear returns with an exception on top, or from the given netlist.
LEMMA ReturnedStep ==
  ASSUME Types, LastIteration, Returned, [Next]_vars
  PROVE  Returned'
<1>1. ASSUME NEW e \in BOOLEAN, Return(e), e
      PROVE  error' = TRUE /\ Caught'
  <2>1. push("NO_CONVERGENCE") # <<>> /\ Head(push("NO_CONVERGENCE")) = "NO_CONVERGENCE"
    BY PushOnTop DEF Codes, Types
  <2>2. QED
    BY <1>1, <2>1 DEF Return, Caught
<1>2. CASE NewtonEnds
  <2>1. solvedAt = Given
    BY <1>2 DEF NewtonEnds, LastIteration, Continues, Given
  <2>2. solvedAt' = solvedAt
    BY <1>2 DEF NewtonEnds, Return
  <2>3. CASE run >= MaxIterations
    BY <1>1, <1>2, <2>3, Zenon DEF NewtonEnds, Returned
  <2>4. CASE ~(run >= MaxIterations)
    BY <1>2, <2>1, <2>2, <2>4, Zenon DEF NewtonEnds, Return, Returned, Given
  <2>5. QED
    BY <2>3, <2>4
<1>3. CASE gMinFails
  <2>1. CASE gStep' = 0
    BY <1>1, <1>3, <2>1, Zenon DEF gMinFails, Returned
  <2>2. CASE gStep' # 0
    BY <1>3, <2>2 DEF gMinFails, Continue, Returned
  <2>3. QED
    BY <2>1, <2>2
<1>4. CASE gMinConverges
  <2>1. CASE ResistanceLeft
    BY <1>4, <2>1 DEF gMinConverges, Continue, Returned
  <2>2. CASE ~ResistanceLeft
    <3>1. ~(gMin > 0)
      BY <1>4, <2>2 DEF gMinConverges, ResistanceLeft
    <3>2. gMin = 0
      BY <3>1, StepperAssumption DEF Types, StepperType
    <3>3. solvedAt = Given
      BY <1>4, <3>2 DEF gMinConverges, LastIteration, Given
    <3>4. QED
      BY <1>4, <2>2, <3>3 DEF gMinConverges, Return, Returned, Given
  <2>3. QED
    BY <2>1, <2>2
<1>5. CASE sourceFails
  <2>1. CASE sStep' = 0
    BY <1>1, <1>5, <2>1, Zenon DEF sourceFails, Returned
  <2>2. CASE sStep' # 0
    BY <1>5, <2>2 DEF sourceFails, Continue, Returned
  <2>3. QED
    BY <2>1, <2>2
<1>6. CASE sourceQuick
  <2>1. CASE sPrev' < SFull
    BY <1>6, <2>1 DEF sourceQuick, Continue, Returned
  <2>2. CASE ~(sPrev' < SFull)
    <3>1. ~(srcFactor < SFull)
      BY <1>6, <2>2 DEF sourceQuick
    <3>2. srcFactor = SFull
      BY <3>1, StepperAssumption DEF Types, StepperType
    <3>3. solvedAt = Given
      BY <1>6, <3>2 DEF sourceQuick, LastIteration, Given
    <3>4. QED
      BY <1>6, <2>2, <3>3 DEF sourceQuick, Return, Returned, Given
  <2>3. QED
    BY <2>1, <2>2
<1>7. CASE sourceSlow \/ BeginNonlinear \/ SolveLinear \/ Iterate \/ Again
  BY <1>7 DEF sourceSlow, Continue, BeginNonlinear, StartSolving, SolveLinear, Iterate,
     Again, Returned
<1>8. CASE Fallback \/ NoFallback
  BY <1>8 DEF Fallback, NoFallback, StartSolving, Returned
<1>9. CASE UNCHANGED vars
  BY <1>9 DEF vars, Returned, Caught, Given
<1>10. QED
  BY <1>2, <1>3, <1>4, <1>5, <1>6, <1>7, <1>8, <1>9 DEF Next

\* The retry loop of dcsolver::solve ends without an error only in the latter case.
LEMMA SolvedStep ==
  ASSUME Types, SourcesRestored, Returned, SolvedAsGiven, [Next]_vars
  PROVE  SolvedAsGiven'
<1>1. CASE SolveLinear
  BY <1>1 DEF SolveLinear, SourcesRestored, SolvedAsGiven
<1>2. CASE NoFallback
  <2>1. ~error /\ solvedAt = Given
    BY <1>2 DEF NoFallback, Returned
  <2>2. QED
    BY <1>2, <2>1 DEF NoFallback, SolvedAsGiven, Given
<1>3. CASE Fallback
  BY <1>3 DEF Fallback, StartSolving, SolvedAsGiven
<1>4. CASE BeginNonlinear \/ Iterate \/ NewtonEnds \/ Again
  BY <1>4 DEF BeginNonlinear, StartSolving, Iterate, NewtonEnds, Return, Again, SolvedAsGiven
<1>5. CASE gMinFails \/ gMinConverges
  BY <1>5 DEF gMinFails, gMinConverges, Return, Continue, SolvedAsGiven
<1>6. CASE sourceFails \/ sourceQuick \/ sourceSlow
  BY <1>6 DEF sourceFails, sourceQuick, sourceSlow, Return, Continue, SolvedAsGiven
<1>7. CASE UNCHANGED vars
  BY <1>7 DEF vars, SolvedAsGiven
<1>8. QED
  BY <1>1, <1>2, <1>3, <1>4, <1>5, <1>6, <1>7 DEF Next

\* A DC analysis starts in the invariant.
LEMMA InitIInv == Init => IInv
<1> SUFFICES ASSUME Init PROVE IInv
  OBVIOUS
<1>1. StackType
  <2>1. <<>> \in Seq(Codes)
    OBVIOUS
  <2>2. "NO_CONVERGENCE" \in Codes
    BY DEF Codes
  <2>3. <<"NO_CONVERGENCE">> \in Seq(Codes)
    BY <2>2
  <2>4. QED
    BY <2>1, <2>3, Zenon DEF Init, StackType
<1>2. StepperType /\ SourceType
  BY StepperAssumption DEF Init, StepperType, SourceType
<1>3. LoopType /\ FlagType
  BY Zenon DEF Init, LoopType, FlagType
<1>4. CounterType
  BY HelpersTable DEF Init, CounterType
<1>5. RunType
  BY IterAssumption DEF Init, RunType
<1>6. SourcesRestored /\ LastIteration /\ Returned /\ SolvedAsGiven
  BY DEF Init, SourcesRestored, LastIteration, Returned, SolvedAsGiven
<1>7. QED
  BY <1>1, <1>2, <1>3, <1>4, <1>5, <1>6 DEF IInv, Types

\* Every step of the analysis keeps the invariant.
LEMMA StepIInv == IInv /\ [Next]_vars => IInv'
<1> SUFFICES ASSUME IInv, [Next]_vars PROVE IInv'
  OBVIOUS
<1>1. /\ Types
      /\ StackType /\ StepperType /\ SourceType /\ LoopType /\ FlagType
      /\ CounterType /\ RunType
      /\ SourcesRestored /\ LastIteration /\ Returned /\ SolvedAsGiven
  BY DEF IInv, Types
<1>2. Types'
  BY <1>1, StackStep, StepperStep, SourceStep, LoopStep, FlagStep, CounterStep, RunStep
     DEF Types
<1>3. SourcesRestored' /\ LastIteration' /\ Returned' /\ SolvedAsGiven'
  BY <1>1, SourcesStep, LastIterationStep, ReturnedStep, SolvedStep
<1>4. QED
  BY <1>2, <1>3 DEF IInv

\* IInv is an invariant of the DC analysis.
THEOREM Invariance == Spec => []IInv
BY InitIInv, StepIInv, PTL DEF Spec

\* Type correctness: in particular the index into the table of helpers never
\* passes its end, whichever helper was requested.
THEOREM TypeCorrect == Spec => []TypeOK
<1>1. IInv => TypeOK
  BY Zenon DEF IInv, Types, StackType, StepperType, SourceType, LoopType, FlagType,
     CounterType, RunType, TypeOK
<1>2. QED
  BY <1>1, Invariance, PTL

\* A result of dcsolver::solve that is not reported as a failure of all helpers
\* was computed with full sources and without additional resistances.
THEOREM GivenNetlistSolved == Spec => []SolvedAsGiven
<1>1. IInv => SolvedAsGiven
  BY DEF IInv
<1>2. QED
  BY <1>1, Invariance, PTL

-----------------------------------------------------------------------------
(* No helper twice.  While the retry loop runs, what the analysis has tried  *)
(* is the requested helper and the table up to the current position; the     *)
(* next entry is neither, because the table holds no helper twice and the    *)
(* requested one is skipped.                                                 *)

TriedSoFar ==
  /\ pc = "begin" => tried = {}
  /\ pc \in {"iterate", "stepped", "caught"} =>
       tried \subseteq {preferred} \cup {helpers[i] : i \in 1 .. fallback}

\* No helper is twice in the table.
LEMMA HelpersDistinct ==
  \A i, j \in 1 .. 6 : helpers[i] = helpers[j] => i = j
<1>1. /\ helpers[1] = "SourceStepping" /\ helpers[2] = "GMinStepping"
      /\ helpers[3] = "SteepestDescent" /\ helpers[4] = "LineSearch"
      /\ helpers[5] = "Attenuation" /\ helpers[6] = "Exhausted"
  BY DEF helpers
<1>2. \A i \in 1 .. 6 : i \in {1, 2, 3, 4, 5, 6}
  OBVIOUS
<1>3. QED
  BY <1>1, <1>2

\* The catch part of dcsolver::solve moves to an entry of the table that the
\* analysis has not tried, and leaves behind only entries it has.
LEMMA NextHelper ==
  ASSUME Types, TriedSoFar, Fallback
  PROVE  /\ fallback' \in 1 .. 6
         /\ helpers[fallback'] \notin tried
         /\ tried \subseteq {preferred} \cup {helpers[i] : i \in 1 .. fallback'}
<1>1. fallback \in 0 .. 5 /\ Skip \in 0 .. 5 /\ Skip >= fallback
  BY SkipRange, HelpersTable DEF Types, CounterType, Fallback
<1>2. fallback' = Skip + 1
  BY DEF Fallback
<1>3. tried \subseteq {preferred} \cup {helpers[i] : i \in 1 .. fallback}
  BY DEF TriedSoFar, Fallback
<1>4. helpers[Skip + 1] # preferred
  <2>1. CASE preferred = helpers[fallback + 1]
    <3>1. preferred # "None"
      BY <1>1, <2>1, HelpersTable
    <3>2. Skip = fallback + 1
      BY <2>1, <3>1 DEF Skip
    <3>3. fallback + 1 \in 1 .. 6 /\ Skip + 1 \in 1 .. 6 /\ fallback + 1 # Skip + 1
      BY <1>1, <3>2
    <3>4. QED
      BY <2>1, <3>3, HelpersDistinct
  <2>2. CASE preferred # helpers[fallback + 1]
    BY <2>2 DEF Skip
  <2>3. QED
    BY <2>1, <2>2
<1>5. \A i \in 1 .. fallback : helpers[i] # helpers[Skip + 1]
  <2>1. ASSUME NEW i \in 1 .. fallback
        PROVE  helpers[i] # helpers[Skip + 1]
    <3>1. i \in 1 .. 6 /\ Skip + 1 \in 1 .. 6 /\ i # Skip + 1
      BY <1>1, <2>1
    <3>2. QED
      BY <3>1, HelpersDistinct
  <2>2. QED
    BY <2>1
<1>6. \A i \in 1 .. fallback : i \in 1 .. fallback'
  BY <1>1, <1>2
<1>7. helpers[Skip + 1] \notin tried
  BY <1>3, <1>4, <1>5
<1>8. QED
  BY <1>1, <1>2, <1>3, <1>6, <1>7

\* A retry always has a new helper: without the exception on the stack the
\* last attempt converged, and the loop ends.
LEMMA NoRestart ==
  ASSUME Returned, NoFallback
  PROVE  pc' = "saved"
<1>1. ~error
  BY DEF Returned, NoFallback
<1>2. QED
  BY <1>1 DEF NoFallback, retryNow

\* The retry loop moves on to a helper that was not tried.
LEMMA TriedStep ==
  ASSUME IInv, TriedSoFar, [Next]_vars
  PROVE  TriedSoFar' /\ (pc = "caught" /\ pc' = "iterate" => convHelper' \notin tried)
<1>1. CASE BeginNonlinear
  BY <1>1 DEF BeginNonlinear, StartSolving, TriedSoFar
<1>2. CASE SolveLinear \/ Iterate \/ NewtonEnds
  BY <1>2, Zenon DEF SolveLinear, Iterate, NewtonEnds, Return, TriedSoFar
<1>3. CASE gMinFails \/ gMinConverges
  BY <1>3 DEF gMinFails, gMinConverges, Return, Continue, TriedSoFar
<1>4. CASE sourceFails \/ sourceQuick \/ sourceSlow
  BY <1>4 DEF sourceFails, sourceQuick, sourceSlow, Return, Continue, TriedSoFar
<1>5. CASE Fallback
  <2>1. PICK n \in 1 .. 6 : fallback' = n
    BY <1>5, NextHelper DEF IInv
  <2>2. helpers[n] \notin tried
    BY <1>5, <2>1, NextHelper DEF IInv
  <2>3. tried \subseteq {preferred} \cup {helpers[i] : i \in 1 .. n}
    BY <1>5, <2>1, NextHelper, Zenon DEF IInv
  <2>4. CASE helpers[n] = "Exhausted"
    BY <1>5, <2>1, <2>4, Zenon DEF Fallback, TriedSoFar
  <2>5. CASE helpers[n] # "Exhausted"
    <3>1. convHelper' = helpers[n] /\ tried' = tried \cup {helpers[n]} /\ preferred' = preferred
      BY <1>5, <2>1, <2>5 DEF Fallback, StartSolving
    <3>2. helpers[n] \in {helpers[i] : i \in 1 .. n}
      BY <2>1
    <3>3. tried' \subseteq {preferred} \cup {helpers[i] : i \in 1 .. n}
      BY <2>3, <3>1, <3>2
    <3>4. pc' = "iterate"
      BY <1>5, <2>1, <2>5 DEF Fallback, StartSolving
    <3>5. TriedSoFar'
      BY <2>1, <3>1, <3>3, <3>4, Zenon DEF TriedSoFar
    <3>6. QED
      BY <2>2, <3>1, <3>5
  <2>6. QED
    BY <2>4, <2>5
<1>6. CASE NoFallback
  BY <1>6, NoRestart DEF IInv, TriedSoFar
<1>7. CASE Again
  BY <1>7 DEF Again, TriedSoFar
<1>8. CASE UNCHANGED vars
  BY <1>8 DEF vars, TriedSoFar
<1>9. QED
  BY <1>1, <1>2, <1>3, <1>4, <1>5, <1>6, <1>7, <1>8 DEF Next

\* No analysis falls back on a convergence helper it has tried before,
\* whichever helper the user requested: dcsolver::solve skips that one in its
\* table, and a loop that goes on without the exception does not restart.
THEOREM NoHelperTwice == Spec => EachHelperOnce
<1>1. Init => TriedSoFar
  BY DEF Init, TriedSoFar
<1>2. IInv /\ TriedSoFar /\ [Next]_vars => TriedSoFar'
  BY TriedStep
<1>3. IInv /\ TriedSoFar /\ [Next]_vars
        => [pc = "caught" /\ pc' = "iterate" => convHelper' \notin tried]_vars
  BY TriedStep
<1>4. QED
  BY <1>1, <1>2, <1>3, Invariance, PTL DEF Spec, EachHelperOnce

-----------------------------------------------------------------------------
(* The line search, one of the convergence helpers: for every resolution and  *)
(* whatever the norms turn out to be.                                         *)

\* AlphaInRange is not inductive: a factor of one unit would be left by the next
\* step down.  Room says what the search keeps free on either side, and it
\* depends on the direction.
Search == SearchTypeOK /\ Room /\ LastMove /\ FewTurns

\* The start of the search satisfies the inductive invariant.
LEMMA SearchInit ==
  ASSUME StartSearch
  PROVE  Search
<1>1. SearchTypeOK
  <2>1. isMin \in BOOLEAN
    BY Zenon DEF StartSearch
  <2>2. QED
    BY <2>1 DEF StartSearch, SearchTypeOK
<1>2. Room /\ LastMove /\ FewTurns
  BY ResolutionAssumption DEF StartSearch, Room, LastMove, FewTurns, adiff
<1>3. QED
  BY <1>1, <1>2 DEF Search

\* A move is possible only while one is below three times the resolution.
LEMMA MovingBound ==
  ASSUME Search, phase = "search", StillMoving
  PROVE  one < 3 * Resolution
<1>1. one \in Nat /\ adiff \in {2, 3}
  BY DEF Search, SearchTypeOK, LastMove
<1>2. CASE adiff = 2
  BY <1>1, <1>2, ResolutionAssumption DEF StillMoving
<1>3. CASE adiff = 3
  BY <1>1, <1>3, ResolutionAssumption DEF StillMoving
<1>4. QED
  BY <1>1, <1>2, <1>3

\* Every turn keeps the inductive invariant.
LEMMA SearchStep ==
  ASSUME Search, [SearchTurn]_searchVars
  PROVE  Search'
<1> USE DEF Search, SearchTypeOK, Room, FewTurns
<1>1. CASE Better
  <2>1. one < 3 * Resolution
    BY <1>1, MovingBound DEF Better
  <2>2. SearchTypeOK' /\ Room'
    BY <1>1 DEF Better, BetterDir, astep
  <2>3. LastMove'
    BY <1>1 DEF Better, BetterDir, astep, LastMove, adiff
  <2>4. FewTurns'
    BY <1>1, <2>1, ResolutionAssumption DEF Better
  <2>5. QED
    BY <2>2, <2>3, <2>4, Zenon
<1>2. CASE Worse
  <2>1. one < 3 * Resolution
    BY <1>2, MovingBound DEF Worse
  <2> isMin' \in BOOLEAN
    BY <1>2, Zenon DEF Worse
  <2>2. SearchTypeOK' /\ Room'
    BY <1>2 DEF Worse, BackStep
  <2>3. LastMove'
    BY <1>2 DEF Worse, BackStep, LastMove, adiff
  <2>4. FewTurns'
    BY <1>2, <2>1, ResolutionAssumption DEF Worse
  <2>5. QED
    BY <2>2, <2>3, <2>4, Zenon
<1>3. CASE Finish
  <2>1. isMin' \in BOOLEAN
    BY <1>3, Zenon DEF Finish
  <2>2. phase' = "done" /\ one' = one /\ alpha' = alpha /\ aprev' = aprev /\ dir' = dir
    BY <1>3 DEF Finish
  <2>3. QED
    BY <2>1, <2>2 DEF LastMove
<1>4. CASE UNCHANGED searchVars
  BY <1>4 DEF searchVars, LastMove, adiff
<1>5. QED
  BY <1>1, <1>2, <1>3, <1>4 DEF SearchTurn

\* The assertion of nasolver::lineSearch: every factor tried, and so the one
\* applied in the end, is positive and at most 1.
THEOREM FactorInRange == SearchSpec => []AlphaInRange
<1>1. Search => AlphaInRange
  BY DEF Search, SearchTypeOK, Room, AlphaInRange
<1>2. QED
  BY <1>1, SearchInit, SearchStep, PTL DEF SearchSpec

\* The do-while loop of nasolver::lineSearch halves its step only a few times.
THEOREM SearchIsShort == SearchSpec => []FewTurns
<1>1. Search => FewTurns
  BY DEF Search
<1>2. QED
  BY <1>1, SearchInit, SearchStep, PTL DEF SearchSpec

-----------------------------------------------------------------------------
(* The reduction of the network in the S-parameter analysis: for every        *)
(* network and every order of the eliminations.                               *)

VARIABLES ends, blocks, open

Reduction == INSTANCE NetworkReduction

\* A step that eliminates a connection keeps every circuit in a result.
LEMMA SameCircuits ==
  ASSUME NEW e, Reduction!Eliminate(e)
  PROVE  UNION blocks' = UNION blocks
BY Zenon DEF Reduction!Eliminate, Reduction!Touched

\* Eliminating a connection keeps the invariant.
LEMMA EliminateKeeps ==
  ASSUME Reduction!IInv, NEW e \in open, Reduction!Eliminate(e)
  PROVE  Reduction!IInv'
<1> DEFINE M == UNION Reduction!Touched(e)
<1> USE DEF Reduction!Eliminate
<1>1. UNION blocks' = UNION blocks
  BY SameCircuits, Zenon
<1>2. (open \subseteq DOMAIN ends)'
  BY DEF Reduction!IInv
<1>3. (\A f \in DOMAIN ends : ends[f] # {} /\ ends[f] \subseteq UNION blocks)'
  BY <1>1, Zenon DEF Reduction!IInv
<1>4. \A b \in blocks : b \cap M # {} => b \in Reduction!Touched(e)
  BY DEF Reduction!IInv, Reduction!Disjoint, Reduction!Touched
<1>5. Reduction!Disjoint'
  <2> SUFFICES ASSUME NEW a \in blocks', NEW b \in blocks', a \cap b # {}
               PROVE  a = b
    BY Zenon DEF Reduction!Disjoint
  <2>1. CASE a = M /\ b = M
    BY <2>1
  <2>2. CASE a = M /\ b \in blocks \ Reduction!Touched(e)
    BY <2>2, <1>4
  <2>3. CASE a \in blocks \ Reduction!Touched(e) /\ b = M
    BY <2>3, <1>4
  <2>4. CASE a \in blocks /\ b \in blocks
    BY <2>4 DEF Reduction!IInv, Reduction!Disjoint
  <2> QED
    BY <2>1, <2>2, <2>3, <2>4
<1>6. \A b \in blocks : \E a \in blocks' : b \subseteq a
  <2> SUFFICES ASSUME NEW b \in blocks
               PROVE  \E a \in blocks' : b \subseteq a
    BY Zenon
  <2>1. CASE b \in Reduction!Touched(e)
    <3>1. M \in blocks' /\ b \subseteq M
      BY <2>1
    <3> QED
      BY <3>1, Zenon
  <2>2. CASE b \notin Reduction!Touched(e)
    BY <2>2
  <2> QED
    BY <2>1, <2>2, Zenon
<1>7. Reduction!Joined'
  <2> SUFFICES ASSUME NEW f \in (DOMAIN ends) \ (open \ {e})
               PROVE  \E b \in blocks' : ends[f] \subseteq b
    BY Zenon DEF Reduction!Joined, Reduction!Eliminated
  <2>1. CASE f = e
    <3>1. ends[e] \subseteq M
      BY DEF Reduction!IInv, Reduction!Touched
    <3> QED
      BY <2>1, <3>1, Zenon
  <2>2. CASE f # e
    <3>1. PICK b \in blocks : ends[f] \subseteq b
      BY <2>2 DEF Reduction!IInv, Reduction!Joined, Reduction!Eliminated
    <3> QED
      BY <3>1, <1>6, Zenon
  <2> QED
    BY <2>1, <2>2, Zenon
<1>8. Reduction!NoMore'
  <2> SUFFICES ASSUME NEW P \in SUBSET UNION blocks,
                      \A f \in (DOMAIN ends) \ (open \ {e}) :
                        ends[f] \subseteq P \/ ends[f] \cap P = {},
                      NEW b \in blocks'
               PROVE  b \subseteq P \/ b \cap P = {}
    <3>1. ends' = ends /\ Reduction!Eliminated' = (DOMAIN ends) \ (open \ {e})
      BY Zenon DEF Reduction!Eliminated
    <3> HIDE DEF Reduction!Eliminate
    <3> QED
      BY <1>1, <3>1, Zenon DEF Reduction!NoMore
  <2>1. \A a \in blocks : a \subseteq P \/ a \cap P = {}
    BY DEF Reduction!IInv, Reduction!NoMore, Reduction!Eliminated
  <2>2. CASE b \in blocks
    BY <2>1, <2>2
  <2>3. CASE b = M
    <3>1. e \in (DOMAIN ends) \ (open \ {e})
      BY DEF Reduction!IInv
    <3>2. CASE ends[e] \subseteq P
      <4>1. \A a \in Reduction!Touched(e) : a \subseteq P
        BY <2>1, <3>2 DEF Reduction!Touched
      <4> QED
        BY <2>3, <4>1
    <3>3. CASE ends[e] \cap P = {}
      <4>1. \A a \in Reduction!Touched(e) : a \cap P = {}
        BY <2>1, <3>3 DEF Reduction!Touched
      <4> QED
        BY <2>3, <4>1
    <3> QED
      BY <3>1, <3>2, <3>3
  <2> QED
    BY <2>2, <2>3
<1> QED
  BY <1>2, <1>3, <1>5, <1>7, <1>8 DEF Reduction!IInv

\* Starting a frequency establishes the invariant.
LEMMA StartKeeps == Reduction!Start => Reduction!IInv'
<1> SUFFICES ASSUME Reduction!Start PROVE Reduction!IInv'
  OBVIOUS
<1>1. Reduction!Eliminated' = {}
  BY DEF Reduction!Start, Reduction!Eliminated
<1>2. Reduction!Disjoint'
  <2> SUFFICES ASSUME NEW a \in blocks', NEW b \in blocks', a \cap b # {}
               PROVE  a = b
    BY DEF Reduction!Disjoint
  <2>1. PICK x, y : a = {x} /\ b = {y}
    BY DEF Reduction!Start
  <2> QED
    BY <2>1
<1>3. Reduction!Joined'
  BY <1>1 DEF Reduction!Joined
<1>4. Reduction!NoMore'
  BY DEF Reduction!Start, Reduction!NoMore
<1> QED
  BY <1>2, <1>3, <1>4 DEF Reduction!IInv, Reduction!Start

\* The inductive invariant of the reduction (spsolver::reduce, called until no
\* connection is left).
THEOREM ReductionInvariance == Reduction!Spec => []Reduction!IInv
<1>1. Reduction!Init => Reduction!IInv
  <2> SUFFICES ASSUME Reduction!Init PROVE Reduction!IInv
    OBVIOUS
  <2>1. DOMAIN ends = {}
    BY DEF Reduction!Init
  <2> QED
    BY <2>1 DEF Reduction!Init, Reduction!IInv, Reduction!Disjoint, Reduction!Joined,
                Reduction!NoMore, Reduction!Eliminated
<1>2. Reduction!IInv /\ [Reduction!Next]_(Reduction!vars) => Reduction!IInv'
  <2> SUFFICES ASSUME Reduction!IInv, [Reduction!Next]_(Reduction!vars) PROVE Reduction!IInv'
    OBVIOUS
  <2>1. CASE Reduction!Start
    BY <2>1, StartKeeps
  <2>2. CASE \E e \in open : Reduction!Eliminate(e)
    BY <2>2, EliminateKeeps
  <2>3. CASE UNCHANGED Reduction!vars
    BY <2>3 DEF Reduction!vars, Reduction!IInv, Reduction!Disjoint, Reduction!Joined,
                Reduction!NoMore, Reduction!Eliminated
  <2> QED
    BY <2>1, <2>2, <2>3 DEF Reduction!Next
<1> QED
  BY <1>1, <1>2, PTL DEF Reduction!Spec

\* For every network: what is left when no connection is open, and
\* spsolver::saveResults reads, are its connected components.
THEOREM Components == Reduction!Spec => []Reduction!ResultsAreComponents
<1>1. Reduction!IInv => Reduction!ResultsAreComponents
  <2> SUFFICES ASSUME Reduction!IInv, open = {} PROVE Reduction!ResultsAreComponents
    BY DEF Reduction!ResultsAreComponents
  <2>1. Reduction!Eliminated = DOMAIN ends
    BY DEF Reduction!Eliminated
  <2>2. ASSUME NEW b \in blocks, NEW P \in SUBSET b,
               \A e \in DOMAIN ends : ends[e] \subseteq P \/ ends[e] \cap P = {}
        PROVE  P = {} \/ P = b
    <3>1. b \subseteq P \/ b \cap P = {}
      BY <2>1, <2>2 DEF Reduction!IInv, Reduction!NoMore
    <3> QED
      BY <3>1
  <2> QED
    BY <2>1, <2>2 DEF Reduction!ResultsAreComponents, Reduction!IInv, Reduction!Joined
<1> QED
  BY <1>1, ReductionInvariance, PTL

-----------------------------------------------------------------------------
(* The values a transient analysis keeps for its delays: for any number of    *)
(* histories, any ages and any slack, so for the 127 of the code as well.     *)

\* A set of natural numbers has a least member.
LEMMA Least ==
  ASSUME NEW T, T \subseteq Nat, T # {}
  PROVE  \E x \in T : \A y \in T : x <= y
<1> DEFINE R == OpToRel(<, Nat)
<1>1. IsWellFoundedOn(R, Nat)
  BY NatLessThanWellFounded, Zenon
<1> HIDE DEF R
<1>2. PICK x \in T : \A y \in T : ~(<<y, x>> \in R)
  BY <1>1, WFMin, Zenon
<1>3. \A y \in T : ~(y < x)
  BY <1>2, Zenon DEF R, OpToRel
<1> QED
  BY <1>3

Increasing(s) == \A i, j \in 1 .. Len(s) : i < j => s[i] < s[j]

\* Counted from the end, both have the same entries.
SameEnd(x, y) ==
  \A i \in 1 .. Len(x), j \in 1 .. Len(y) : Len(x) - i = Len(y) - j => x[i] = y[j]

\* A vector of times or values: not empty, in the order of time.
Recorded(s) == s \in Seq(Nat) /\ Len(s) >= 1 /\ Increasing(s)

\* Later entries of a vector in the order of time are later times.
LEMMA InOrder ==
  ASSUME NEW s, Recorded(s), NEW i \in 1 .. Len(s), NEW j \in 1 .. Len(s), i <= j
  PROVE  s[i] \in Nat /\ s[j] \in Nat /\ s[i] <= s[j]
<1>1. s[i] \in Nat /\ s[j] \in Nat
  BY DEF Recorded
<1>2. CASE i = j
  BY <1>1, <1>2
<1>3. CASE i < j
  BY <1>1, <1>3 DEF Recorded, Increasing
<1> QED
  BY <1>1, <1>2, <1>3

\* What a vector of times or values holds, and at its end.
LEMMA Entries ==
  ASSUME NEW s, Recorded(s)
  PROVE  /\ Len(s) \in Nat /\ Len(s) >= 1 /\ Len(s) \in 1 .. Len(s)
         /\ \A i \in 1 .. Len(s) : s[i] \in Nat
         /\ last(s) = s[Len(s)] /\ last(s) \in Nat
<1>1. s \in Seq(Nat) /\ Len(s) >= 1
  BY DEF Recorded
<1>2. Len(s) \in Nat
  BY <1>1
<1>3. Len(s) \in 1 .. Len(s)
  BY <1>1, <1>2
<1>4. \A i \in 1 .. Len(s) : s[i] \in Nat
  BY <1>1
<1> QED
  BY <1>1, <1>2, <1>3, <1>4 DEF last

\* An earlier entry of a vector is an earlier time.
LEMMA Earlier ==
  ASSUME NEW s, Recorded(s), NEW i \in 1 .. Len(s), NEW j \in 1 .. Len(s), i < j
  PROVE  s[i] < s[j]
BY DEF Recorded, Increasing

\* The loop of history::drop ends, and where it ends.
LEMMA LoopEnds ==
  ASSUME NEW times, NEW vals, NEW a \in Nat \ {0}, Recorded(times), Recorded(vals)
  PROVE  LET i == FirstYounger(times, vals, a)
             l == leftidx(times, vals)
         IN  /\ i \in l + 1 .. Len(times)
             /\ last(times) - times[i] < a
             /\ \A j \in l + 1 .. i - 1 : last(times) - times[j] >= a
<1> DEFINE l == leftidx(times, vals)
           T == {k \in l + 1 .. Len(times) : last(times) - times[k] < a}
<1>1. l \in Nat /\ l < Len(times)
  BY DEF leftidx, Recorded
<1>2. Len(times) \in T
  BY <1>1 DEF last, Recorded
<1>3. PICK x \in T : \A y \in T : x <= y
  <2>1. T \subseteq Nat
    BY <1>1
  <2> HIDE DEF T
  <2> QED
    BY <1>2, <2>1, Least, Zenon
<1>4. \A j \in l + 1 .. x - 1 : last(times) - times[j] >= a
  <2> SUFFICES ASSUME NEW j \in l + 1 .. x - 1 PROVE last(times) - times[j] >= a
    OBVIOUS
  <2>1. j \in l + 1 .. Len(times) /\ j < x
    BY <1>1 DEF Recorded
  <2>2. j \notin T
    <3> HIDE DEF T
    <3>1. x \in Nat /\ j \in Nat
      BY <1>1, <1>3, <2>1 DEF T, Recorded
    <3> QED
      BY <1>3, <2>1, <3>1
  <2>3. ~(last(times) - times[j] < a)
    BY <2>1, <2>2
  <2>4. last(times) \in Nat /\ times[j] \in Nat
    <3>1. j \in 1 .. Len(times)
      BY <1>1, <2>1, Entries
    <3> QED
      BY <3>1, Entries
  <2> QED
    BY <2>3, <2>4
<1>5. x \in l + 1 .. Len(times) /\ last(times) - times[x] < a
  BY <1>3
<1> QED
  BY <1>4, <1>5 DEF FirstYounger

\* What history::drop leaves of a vector: s values are gone from the front; if
\* any, then two of the others are as old as the age; and what is left beyond
\* the slack and these two is younger.
Cut(times, vals, a, s) ==
  /\ drop(times, vals, a) = SubSeq(vals, s + 1, Len(vals))
  /\ s > 0 => s + 2 <= Len(vals) /\ last(times) - vals[s + 2] >= a
  /\ s + Slack + 3 <= Len(vals) => last(times) - vals[s + Slack + 3] < a

\* history::drop cuts off the front of a vector, and never what the delay needs.
LEMMA DropCuts ==
  ASSUME NEW times, NEW vals, NEW a \in Nat \ {0}, Recorded(times), Recorded(vals),
         SameEnd(times, vals),
         Len(vals) > Len(times) => last(times) - times[1] > a
  PROVE  \E s \in 0 .. Len(vals) - 1 : Cut(times, vals, a, s)
<1> DEFINE l == leftidx(times, vals)
           u == unused(times, vals)
           n == Len(times)
           m == Len(vals)
           i == FirstYounger(times, vals, a)
           r == i - (l + 1) + u
           now == last(times)
<1>1. n \in Nat /\ m \in Nat /\ n >= 1 /\ m >= 1 /\ Slack \in Nat /\ Slack >= 1
  BY SlackAssumption DEF Recorded
<1>2. l \in Nat /\ u \in Nat /\ l < n /\ u < m /\ n - l = m - u
  BY <1>1 DEF leftidx, unused
<1>3. /\ i \in l + 1 .. n
      /\ now - times[i] < a
      /\ \A j \in l + 1 .. i - 1 : now - times[j] >= a
  BY LoopEnds
<1>4. \A k \in l + 1 .. n : k - l + u \in 1 .. m /\ times[k] = vals[k - l + u]
  <2> SUFFICES ASSUME NEW k \in l + 1 .. n
               PROVE  k - l + u \in 1 .. m /\ times[k] = vals[k - l + u]
    OBVIOUS
  <2> HIDE DEF l, u
  <2>1. k \in 1 .. n /\ k - l + u \in 1 .. m /\ n - k = m - (k - l + u)
    BY <1>1, <1>2
  <2> QED
    BY <2>1, Zenon DEF SameEnd
<1>5. now \in Nat /\ (\A k \in 1 .. n : times[k] \in Nat) /\ (\A k \in 1 .. m : vals[k] \in Nat)
  BY Entries
<1>6. r \in Nat /\ r < m
  <2>1. i \in l + 1 .. n
    BY <1>3
  <2> HIDE DEF l, u, i, n, m
  <2> QED
    BY <1>1, <1>2, <2>1
<1>7. \A k \in r + 1 .. m : now - vals[k] < a
  <2>1. r + 1 = i - l + u
    <3>1. i \in l + 1 .. n
      BY <1>3
    <3> HIDE DEF l, u, i, n, m
    <3> QED
      BY <1>1, <1>2, <3>1
  <2>2. now - vals[r + 1] < a
    BY <1>3, <1>4, <2>1
  <2> HIDE DEF r, now
  <2> SUFFICES ASSUME NEW k \in r + 1 .. m PROVE now - vals[k] < a
    OBVIOUS
  <2>3. vals[r + 1] \in Nat /\ vals[k] \in Nat /\ vals[r + 1] <= vals[k]
    BY <1>1, <1>6, InOrder
  <2> QED
    BY <1>5, <2>2, <2>3
<1>8. ASSUME now - first(times, vals) > a
      PROVE  \A k \in 1 .. r : now - vals[k] >= a
  <2>1. i > l + 1
    BY <1>1, <1>2, <1>3, <1>5, <1>8 DEF first
  <2>2. r \in 1 .. m /\ vals[r] = times[i - 1] /\ now - times[i - 1] >= a
    <3> HIDE DEF l, u, i, now
    <3>1. i - 1 \in l + 1 .. n /\ i - 1 \in l + 1 .. i - 1 /\ i - 1 - l + u = r
      BY <1>1, <1>2, <1>3, <2>1
    <3>2. i - 1 - l + u \in 1 .. m /\ times[i - 1] = vals[i - 1 - l + u]
      BY <1>4, <3>1
    <3> HIDE DEF r
    <3> QED
      BY <1>3, <3>1, <3>2
  <2> HIDE DEF r, now
  <2> SUFFICES ASSUME NEW k \in 1 .. r PROVE now - vals[k] >= a
    OBVIOUS
  <2>3. vals[r] \in Nat /\ vals[k] \in Nat /\ vals[k] <= vals[r]
    BY <1>1, <1>6, <2>2, InOrder
  <2> QED
    BY <1>5, <2>2, <2>3
<1> DEFINE Drops == now - first(times, vals) > a /\ Surplus(times, vals, a) > Slack
<1>9. Surplus(times, vals, a) = IF r >= 2 THEN r - 2 ELSE r
  BY <1>1, <1>6 DEF Surplus
<1>10. CASE Drops
  <2> DEFINE s == Surplus(times, vals, a)
  <2>1. s = r - 2 /\ r > 2 /\ s \in 0 .. m - 1
    BY <1>1, <1>6, <1>9, <1>10
  <2>2. drop(times, vals, a) = SubSeq(vals, s + 1, Len(vals))
    <3>1. a > 0
      OBVIOUS
    <3> QED
      BY <1>10, <3>1, Zenon DEF drop
  <2> HIDE DEF s, r, now, m
  <2>3. s + 2 = r /\ now - vals[r] >= a
    <3>1. s + 2 = r /\ r \in 1 .. r
      BY <1>6, <2>1
    <3> QED
      BY <1>8, <1>10, <3>1
  <2>4. s + Slack + 3 <= m => now - vals[s + Slack + 3] < a
    <3> SUFFICES ASSUME s + Slack + 3 <= m PROVE now - vals[s + Slack + 3] < a
      OBVIOUS
    <3>1. s + Slack + 3 \in r + 1 .. m
      BY <1>1, <1>6, <2>1
    <3> QED
      BY <1>7, <3>1
  <2>5. Cut(times, vals, a, s)
    <3>1. s + 2 <= Len(vals)
      BY <1>1, <1>6, <2>3 DEF m
    <3> QED
      BY <2>2, <2>3, <2>4, <3>1 DEF Cut, m, now
  <2> QED
    BY <2>1, <2>5 DEF m
<1>11. CASE ~Drops
  <2>1. drop(times, vals, a) = SubSeq(vals, 1, Len(vals))
    BY <1>11 DEF drop, Recorded
  <2>2. ASSUME Slack + 3 <= m PROVE now - vals[Slack + 3] < a
    <3>1. CASE ~(now - first(times, vals) > a)
      <4>1. u = 0
        BY <1>1, <1>5, <3>1 DEF unused, leftidx, first
      <4>2. vals[1] = times[l + 1]
        BY <1>1, <1>2, <1>4, <4>1
      <4>3. now - vals[1] <= a
        <5>1. first(times, vals) = vals[1]
          BY <4>2 DEF first
        <5>2. 1 \in 1 .. m
          BY <1>1
        <5>3. vals[1] \in Nat
          BY <1>5, <5>2
        <5> HIDE DEF now
        <5> QED
          BY <1>5, <3>1, <5>1, <5>3
      <4> HIDE DEF now
      <4>4. 1 \in 1 .. m /\ Slack + 3 \in 1 .. m /\ 1 < Slack + 3
        BY <1>1, <2>2
      <4>5. vals[1] < vals[Slack + 3] /\ vals[1] \in Nat /\ vals[Slack + 3] \in Nat
        BY <1>5, <4>4, Earlier
      <4> QED
        BY <1>5, <4>3, <4>5
    <3>2. CASE ~(Surplus(times, vals, a) > Slack)
      <4> HIDE DEF r, now
      <4>1. r <= Slack + 2
        <5>1. r \in Nat /\ ~((IF r >= 2 THEN r - 2 ELSE r) > Slack)
          BY <1>1, <1>6, <1>9, <3>2
        <5> QED
          BY <5>1, SlackAssumption
      <4>2. Slack + 3 \in r + 1 .. m
        BY <1>1, <1>6, <2>2, <4>1
      <4> QED
        BY <1>7, <4>2
    <3> QED
      BY <1>11, <3>1, <3>2
  <2>3. Cut(times, vals, a, 0)
    BY <1>1, <2>1, <2>2 DEF Cut
  <2> QED
    BY <1>1, <2>3
<1> QED
  BY <1>10, <1>11

-----------------------------------------------------------------------------
\* A later time at the end keeps a vector in the order of time.
LEMMA AppendKeeps ==
  ASSUME NEW s, Recorded(s), NEW x \in Nat, x > last(s)
  PROVE  /\ Recorded(Append(s, x))
         /\ last(Append(s, x)) = x
         /\ Len(Append(s, x)) = Len(s) + 1
         /\ \A i \in 1 .. Len(s) : Append(s, x)[i] = s[i]
<1> DEFINE n == Len(s)
           a == Append(s, x)
<1>1. n \in Nat /\ n >= 1 /\ s \in Seq(Nat)
  BY DEF Recorded
<1>2. /\ a \in Seq(Nat) /\ Len(a) = n + 1 /\ a[n + 1] = x
      /\ \A i \in 1 .. n : a[i] = s[i]
  BY <1>1
<1>3. \A i \in 1 .. n : a[i] < x
  <2> SUFFICES ASSUME NEW i \in 1 .. n PROVE a[i] < x
    OBVIOUS
  <2>1. s[i] \in Nat /\ s[n] \in Nat /\ s[i] <= s[n]
    BY <1>1, InOrder
  <2> QED
    BY <1>2, <2>1 DEF last
<1>4. Increasing(a)
  <2> SUFFICES ASSUME NEW i \in 1 .. n + 1, NEW j \in 1 .. n + 1, i < j
               PROVE  a[i] < a[j]
    BY <1>2, Zenon DEF Increasing
  <2>1. CASE j = n + 1
    BY <1>1, <1>2, <1>3, <2>1
  <2>2. CASE j # n + 1
    BY <1>1, <1>2, <2>2 DEF Recorded, Increasing
  <2> QED
    BY <2>1, <2>2
<1> HIDE DEF a
<1> QED
  BY <1>1, <1>2, <1>4 DEF Recorded, last, a

\* Two vectors that end alike still do when both get the same time.
LEMMA AppendSameEnd ==
  ASSUME NEW s, NEW u, Recorded(s), Recorded(u), SameEnd(s, u), NEW x \in Nat
  PROVE  SameEnd(Append(s, x), Append(u, x))
<1> DEFINE a == Append(s, x)
           b == Append(u, x)
<1>1. Len(s) \in Nat /\ Len(u) \in Nat /\ s \in Seq(Nat) /\ u \in Seq(Nat)
  BY DEF Recorded
<1>2. /\ Len(a) = Len(s) + 1 /\ a[Len(s) + 1] = x
      /\ \A i \in 1 .. Len(s) : a[i] = s[i]
  BY <1>1
<1>3. /\ Len(b) = Len(u) + 1 /\ b[Len(u) + 1] = x
      /\ \A i \in 1 .. Len(u) : b[i] = u[i]
  BY <1>1
<1> HIDE DEF a, b
<1> SUFFICES ASSUME NEW i \in 1 .. Len(a), NEW j \in 1 .. Len(b), Len(a) - i = Len(b) - j
             PROVE  a[i] = b[j]
  BY Zenon DEF SameEnd, a, b
<1>4. CASE i = Len(a)
  BY <1>1, <1>2, <1>3, <1>4
<1>5. CASE i # Len(a)
  <2>1. /\ i \in 1 .. Len(s) + 1 /\ j \in 1 .. Len(u) + 1 /\ i # Len(s) + 1
        /\ Len(s) + 1 - i = Len(u) + 1 - j
    BY <1>2, <1>3, <1>5
  <2>2. i \in 1 .. Len(s) /\ j \in 1 .. Len(u) /\ Len(s) - i = Len(u) - j
    <3>1. \A p, q \in Nat : \A f \in 1 .. p + 1, g \in 1 .. q + 1 :
            p + 1 - f = q + 1 - g /\ f # p + 1
              => f \in 1 .. p /\ g \in 1 .. q /\ p - f = q - g
      OBVIOUS
    <3> QED
      BY <1>1, <2>1, <3>1, Zenon
  <2> QED
    BY <1>2, <1>3, <2>2 DEF SameEnd
<1> QED
  BY <1>4, <1>5

\* What is left after the front was cut off is in order and ends as before.
LEMMA SuffixKeeps ==
  ASSUME NEW s, Recorded(s), NEW k \in 0 .. Len(s) - 1
  PROVE  LET d == SubSeq(s, k + 1, Len(s))
         IN  /\ Recorded(d) /\ last(d) = last(s) /\ SameEnd(s, d)
             /\ Len(d) = Len(s) - k
             /\ \A i \in 1 .. Len(s) - k : d[i] = s[k + i]
<1> DEFINE d == SubSeq(s, k + 1, Len(s))
<1>1. Len(s) \in Nat /\ Len(s) >= 1 /\ s \in Seq(Nat)
  BY DEF Recorded
<1>2. /\ d \in Seq(Nat) /\ Len(d) = Len(s) - k
      /\ \A i \in 1 .. Len(s) - k : d[i] = s[k + i]
  <2>1. k + 1 \in Int /\ Len(s) \in Int /\ k + 1 <= Len(s)
    BY <1>1
  <2>2. \A i \in k + 1 .. Len(s) : s[i] \in Nat
    BY <1>1
  <2>3. d \in Seq(Nat)
    BY <1>1, <2>1, <2>2
  <2>4. Len(d) = Len(s) - k
    BY <1>1, <2>1, <2>2
  <2>5. ASSUME NEW i \in 1 .. Len(s) - k PROVE d[i] = s[k + i]
    <3>1. k + 1 + i - 1 = k + i /\ i \in 1 .. Len(s) - (k + 1) + 1
      BY <1>1
    <3>2. SubSeq(s, k + 1, Len(s))[i] = s[k + 1 + i - 1]
      BY <1>1, <2>1, <2>2, <3>1
    <3> QED
      BY <3>1, <3>2
  <2> QED
    BY <2>3, <2>4, <2>5
<1> HIDE DEF d
<1>3. Increasing(d)
  <2> SUFFICES ASSUME NEW i \in 1 .. Len(s) - k, NEW j \in 1 .. Len(s) - k, i < j
               PROVE  d[i] < d[j]
    BY <1>2 DEF Increasing
  <2>1. k + i \in 1 .. Len(s) /\ k + j \in 1 .. Len(s) /\ k + i < k + j
    BY <1>1
  <2>2. s[k + i] < s[k + j]
    BY <2>1, Earlier
  <2> QED
    BY <1>2, <2>2
<1>4. last(d) = last(s)
  <2>1. Len(d) \in 1 .. Len(s) - k /\ k + Len(d) = Len(s)
    BY <1>1, <1>2
  <2>2. d[Len(d)] = s[k + Len(d)]
    BY <1>2, <2>1, Zenon
  <2> QED
    BY <2>1, <2>2 DEF last
<1>5. SameEnd(s, d)
  <2> SUFFICES ASSUME NEW i \in 1 .. Len(s), NEW j \in 1 .. Len(d), Len(s) - i = Len(d) - j
               PROVE  s[i] = d[j]
    BY DEF SameEnd
  <2>1. i = k + j
    BY <1>1, <1>2
  <2> QED
    BY <1>2, <2>1
<1>6. Recorded(d)
  BY <1>1, <1>2, <1>3 DEF Recorded
<1> QED
  BY <1>2, <1>4, <1>5, <1>6 DEF d

\* Vectors that end like the same longer one end like each other.
LEMMA SameEndTrans ==
  ASSUME NEW x, NEW y, NEW z, Recorded(x), Recorded(y), Recorded(z),
         SameEnd(x, y), SameEnd(x, z), Len(z) <= Len(x)
  PROVE  SameEnd(z, y)
<1>1. Len(x) \in Nat /\ Len(y) \in Nat /\ Len(z) \in Nat
  BY DEF Recorded
<1> SUFFICES ASSUME NEW i \in 1 .. Len(z), NEW j \in 1 .. Len(y), Len(z) - i = Len(y) - j
             PROVE  z[i] = y[j]
  BY DEF SameEnd
<1> DEFINE k == Len(x) - (Len(z) - i)
<1>2. k \in 1 .. Len(x) /\ Len(x) - k = Len(z) - i /\ Len(x) - k = Len(y) - j
  BY <1>1
<1> HIDE DEF k
<1> QED
  BY <1>2 DEF SameEnd

-----------------------------------------------------------------------------
Window(v, now, a) == v[1] = 0 \/ (Len(v) > 1 /\ now - v[2] >= a)

Short(v, now, a) == Len(v) > Slack + 2 => now - v[Slack + 3] < a

\* One vector after trsolver::updateHistory has added to it and history::drop
\* has shortened it.
LEMMA UpdateOne ==
  ASSUME NEW times, NEW v, NEW a \in Nat \ {0}, NEW time \in Nat,
         Recorded(times), Recorded(v), SameEnd(times, v), time > last(times),
         Window(v, last(times), a),
         Len(v) > Len(times) => time - times[1] > a
  PROVE  LET d == drop(Append(times, time), Append(v, time), a)
         IN  /\ Recorded(d) /\ last(d) = time /\ Len(d) <= Len(v) + 1
             /\ SameEnd(Append(times, time), d)
             /\ Window(d, time, a) /\ Short(d, time, a)
<1> DEFINE x == Append(times, time)
           y == Append(v, time)
           d == drop(x, y, a)
<1>1. last(v) = last(times)
  <2>1. /\ Len(times) \in 1 .. Len(times) /\ Len(v) \in 1 .. Len(v)
        /\ Len(times) - Len(times) = Len(v) - Len(v)
    BY DEF Recorded
  <2> QED
    BY <2>1 DEF SameEnd, last
<1>2. /\ Recorded(x) /\ last(x) = time /\ Len(x) = Len(times) + 1
      /\ \A i \in 1 .. Len(times) : x[i] = times[i]
  BY AppendKeeps
<1>3. /\ Recorded(y) /\ last(y) = time /\ Len(y) = Len(v) + 1
      /\ \A i \in 1 .. Len(v) : y[i] = v[i]
  BY <1>1, AppendKeeps
<1>4. SameEnd(x, y)
  BY AppendSameEnd
<1> HIDE DEF x, y
<1>5. Len(times) \in Nat /\ Len(times) >= 1 /\ Len(v) \in Nat /\ Len(v) >= 1
  BY DEF Recorded
<1>6. Len(y) > Len(x) => last(x) - x[1] > a
  BY <1>2, <1>3, <1>5
<1>7. PICK s \in 0 .. Len(y) - 1 : Cut(x, y, a, s)
  BY <1>2, <1>3, <1>4, <1>6, DropCuts, Zenon
<1>8. /\ Recorded(d) /\ last(d) = time /\ SameEnd(y, d) /\ Len(d) = Len(v) + 1 - s
      /\ \A i \in 1 .. Len(v) + 1 - s : d[i] = y[s + i]
  <2>1. d = SubSeq(y, s + 1, Len(y))
    BY <1>7 DEF Cut
  <2> HIDE DEF d
  <2> QED
    BY <1>3, <2>1, SuffixKeeps
<1> HIDE DEF d
<1>9. SameEnd(x, d)
  <2>1. SameEnd(y, x)
    BY <1>4, Zenon DEF SameEnd
  <2>2. Len(d) <= Len(y)
    BY <1>3, <1>5, <1>8
  <2>3. SameEnd(d, x)
    BY <1>2, <1>3, <1>8, <2>1, <2>2, SameEndTrans
  <2> QED
    BY <2>3 DEF SameEnd
<1>10. Window(d, time, a)
  <2>1. CASE s > 0
    <3>1. s + 2 <= Len(y) /\ time - y[s + 2] >= a
      BY <1>2, <1>7, <2>1 DEF Cut
    <3>2. Len(d) > 1 /\ d[2] = y[s + 2]
      BY <1>3, <1>5, <1>8, <3>1
    <3> QED
      BY <3>1, <3>2 DEF Window
  <2>2. CASE s = 0
    <3>1. Len(d) = Len(v) + 1 /\ \A i \in 1 .. Len(v) : d[i] = v[i]
      BY <1>3, <1>5, <1>8, <2>2
    <3>2. CASE v[1] = 0
      BY <1>5, <3>1, <3>2 DEF Window
    <3>3. CASE Len(v) > 1 /\ last(times) - v[2] >= a
      <4>1. v[2] \in Nat /\ last(times) \in Nat
        <5>1. 2 \in 1 .. Len(v)
          BY <1>5, <3>3
        <5> QED
          BY <5>1, Entries
      <4>2. Len(d) > 1 /\ d[2] = v[2]
        BY <1>5, <3>1, <3>3
      <4>3. time - v[2] >= a
        BY <3>3, <4>1
      <4> QED
        BY <4>2, <4>3 DEF Window
    <3> QED
      BY <3>2, <3>3 DEF Window
  <2> QED
    BY <1>7, <2>1, <2>2
<1>11. Short(d, time, a)
  <2> SUFFICES ASSUME Len(d) > Slack + 2 PROVE time - d[Slack + 3] < a
    BY DEF Short
  <2>1. Slack \in Nat
    BY SlackAssumption
  <2>2. s + Slack + 3 <= Len(y) /\ d[Slack + 3] = y[s + Slack + 3]
    BY <1>3, <1>5, <1>8, <2>1
  <2> QED
    BY <1>2, <1>7, <2>2 DEF Cut
<1> QED
  BY <1>5, <1>8, <1>9, <1>10, <1>11 DEF d, x, y

-----------------------------------------------------------------------------
\* The inductive invariant: besides what the runs check, all vectors are in the
\* order of time and end alike, and the times cover the largest age.
Kept ==
  /\ age \in [Histories -> Ages] /\ tAge \in Ages
  /\ \A h \in Histories : age[h] <= tAge
  /\ values \in [Histories -> Seq(Nat)]
  /\ Recorded(t) /\ Window(t, last(t), tAge)
  /\ \A h \in Histories :
       /\ Recorded(values[h]) /\ SameEnd(t, values[h])
       /\ Window(values[h], last(t), age[h]) /\ Short(values[h], last(t), age[h])
       /\ age[h] = tAge => values[h] = t

\* Values without a time are there only when times have been dropped.
LEMMA UnusedAreOld ==
  ASSUME Kept, NEW h \in Histories, NEW time \in Nat, time > last(t),
         Len(values[h]) > Len(t)
  PROVE  time - t[1] > age[h]
<1> DEFINE v == values[h]
           k == Len(v) - Len(t) + 1
<1>1. Recorded(v) /\ Recorded(t) /\ SameEnd(t, v) /\ Window(t, last(t), tAge)
  BY DEF Kept
<1> HIDE DEF v
<1>2. Len(v) \in Nat /\ Len(t) \in Nat /\ Len(t) >= 1 /\ Len(v) > Len(t)
  BY <1>1 DEF Recorded, v
<1>3. k \in 1 .. Len(v) /\ 1 \in 1 .. Len(v) /\ 1 < k /\ Len(t) - 1 = Len(v) - k
  BY <1>2
<1> HIDE DEF k
<1>4. t[1] = v[k] /\ v[1] < v[k] /\ v[1] \in Nat /\ v[k] \in Nat
  <2>1. 1 \in 1 .. Len(t)
    BY <1>2
  <2>2. t[1] = v[k]
    BY <1>1, <1>3, <2>1 DEF SameEnd
  <2>3. v[1] < v[k]
    BY <1>1, <1>3, Earlier
  <2> QED
    BY <1>1, <1>3, <2>2, <2>3, Entries
<1>5. Len(t) > 1 /\ last(t) - t[2] >= tAge
  BY <1>1, <1>4 DEF Window
<1>6. t[1] < t[2] /\ t[1] \in Nat /\ t[2] \in Nat /\ last(t) \in Nat
  <2>1. 1 \in 1 .. Len(t) /\ 2 \in 1 .. Len(t) /\ Len(t) \in 1 .. Len(t)
    BY <1>2, <1>5
  <2>2. t[1] \in Nat /\ t[2] \in Nat /\ t[Len(t)] \in Nat
    BY <1>1, <2>1, Entries
  <2>3. t[1] < t[2]
    BY <1>1, <2>1, Earlier
  <2> QED
    BY <2>2, <2>3 DEF last
<1>7. age[h] \in Nat /\ tAge \in Nat /\ age[h] <= tAge
  BY AgesAssumption, Zenon DEF Kept
<1> QED
  BY <1>5, <1>6, <1>7

\* trsolver::initHistory establishes the invariant.
LEMMA KeptInit ==
  ASSUME initHistory
  PROVE  Kept
<1>1. Recorded(<<0>>) /\ SameEnd(<<0>>, <<0>>)
  BY DEF Recorded, Increasing, SameEnd
<1>2. \A a : Window(<<0>>, last(<<0>>), a) /\ Short(<<0>>, last(<<0>>), a)
  BY SlackAssumption DEF Window, Short
<1>3. tAge \in Ages
  BY DEF initHistory
<1> QED
  BY <1>1, <1>2, <1>3 DEF initHistory, Kept

\* A time step (trsolver::updateHistory) keeps it.
LEMMA UpdateKeeps ==
  ASSUME Kept, NEW time \in 1 .. MaxTime, updateHistory(time)
  PROVE  Kept'
<1> DEFINE x == Append(t, time)
           d(h) == drop(x, Append(values[h], time), age[h])
<1>1. time \in Nat /\ time > last(t) /\ tAge \in Nat \ {0}
  BY TimeAssumption, AgesAssumption DEF updateHistory, Kept
<1>2. Recorded(t) /\ SameEnd(t, t) /\ Len(t) \in Nat
  <2>1. Recorded(t)
    BY Zenon DEF Kept
  <2> QED
    BY <2>1 DEF Recorded, SameEnd
<1>3. /\ Recorded(x) /\ last(x) = time /\ Len(x) = Len(t) + 1
  BY <1>1, <1>2, AppendKeeps, Zenon
<1>4. /\ Recorded(t') /\ last(t') = time /\ Len(t') <= Len(t) + 1
      /\ SameEnd(x, t') /\ Window(t', time, tAge)
  <2>1. t' = drop(x, x, tAge) /\ Window(t, last(t), tAge)
    BY Zenon DEF Kept, updateHistory
  <2> QED
    BY <1>1, <1>2, <2>1, UpdateOne
<1>5. ASSUME NEW h \in Histories
      PROVE  /\ Recorded(d(h)) /\ SameEnd(x, d(h))
             /\ Window(d(h), time, age[h]) /\ Short(d(h), time, age[h])
  <2>1. age[h] \in Nat \ {0}
    BY AgesAssumption, Zenon DEF Kept
  <2>2. /\ Recorded(values[h]) /\ SameEnd(t, values[h])
        /\ Window(values[h], last(t), age[h])
        /\ Len(values[h]) > Len(t) => time - t[1] > age[h]
    BY <1>1, UnusedAreOld DEF Kept
  <2> QED
    BY <1>1, <1>2, <2>1, <2>2, UpdateOne, Zenon
<1>6. values' = [h \in Histories |-> d(h)] /\ t' = drop(x, x, tAge)
  BY DEF updateHistory
<1>7. \A h \in Histories : age[h] = tAge => d(h) = t'
  BY <1>6 DEF Kept
<1>8. UNCHANGED <<age, tAge>>
  BY DEF updateHistory
<1> HIDE DEF x, d
<1>9. \A h \in Histories : SameEnd(t', d(h))
  BY <1>3, <1>4, <1>5, SameEndTrans
<1>10. \A h \in Histories : d(h) \in Seq(Nat)
  BY <1>5 DEF Recorded
<1> QED
  BY <1>4, <1>5, <1>6, <1>7, <1>8, <1>9, <1>10 DEF Kept

\* The vectors trsolver keeps for the delays always satisfy the invariant.
THEOREM HistoryInvariance == HistorySpec => []Kept
<1>1. Kept /\ [NextTime]_historyVars => Kept'
  <2> SUFFICES ASSUME Kept, [NextTime]_historyVars PROVE Kept'
    OBVIOUS
  <2>1. CASE NextTime
    BY <2>1, UpdateKeeps DEF NextTime
  <2>2. CASE UNCHANGED historyVars
    BY <2>2 DEF historyVars, Kept
  <2> QED
    BY <2>1, <2>2
<1> QED
  BY <1>1, KeptInit, PTL DEF HistorySpec

\* "keep 2 values being older than specified age" (history::drop), for any
\* ages, any steps and any slack.
THEOREM WindowAlways == HistorySpec => []WindowCovered
<1>1. Kept => WindowCovered
  BY DEF Kept, WindowCovered, Window
<1> QED
  BY <1>1, HistoryInvariance, PTL

\* What history::drop leaves exceeds the age by the slack and two values at
\* most, so the memory of a long analysis is bounded by its delays.
THEOREM BoundedAlways == HistorySpec => []Bounded
<1>1. Kept => Bounded
  BY DEF Kept, Bounded, Short
<1> QED
  BY <1>1, HistoryInvariance, PTL

\* Dropped independently by history::drop, values and times stay together.
THEOREM AlignedAlways == HistorySpec => []Aligned
<1>1. Kept => Aligned
  <2> SUFFICES ASSUME Kept, NEW h \in Histories, Len(values[h]) <= Len(t),
                      NEW i \in DOMAIN values[h]
               PROVE  values[h][i] = t[i + leftidx(t, values[h])]
    BY DEF Aligned, Kept
  <2> DEFINE k == i + leftidx(t, values[h])
  <2>1. Recorded(t) /\ Recorded(values[h]) /\ SameEnd(t, values[h])
    BY DEF Kept
  <2>2. /\ Len(t) \in Nat /\ Len(values[h]) \in Nat /\ i \in 1 .. Len(values[h])
    BY <2>1 DEF Recorded
  <2>3. k \in 1 .. Len(t) /\ Len(t) - k = Len(values[h]) - i
    BY <2>2 DEF leftidx
  <2> HIDE DEF k
  <2>4. t[k] = values[h][i]
    BY <2>1, <2>2, <2>3, Zenon DEF SameEnd
  <2> QED
    BY <2>4 DEF k
<1> QED
  BY <1>1, HistoryInvariance, PTL
=============================================================================
