------------------------------ MODULE DCSolver ------------------------------
(***************************************************************************)
(* The DC analysis: dcsolver::solve with its chain of convergence helpers, *)
(* the Newton-Raphson loop of nasolver::solve_nonlinear, gMin stepping,    *)
(* source stepping, and the global exception stack they report through.    *)
(*                                                                         *)
(* One action is one solver iteration or one decision between iterations.  *)
(* The numerics are left open: whether an iteration converges, whether the *)
(* matrix is singular (EXCEPTION_SINGULAR is raised and removed inside     *)
(* solve_once) and whether a component equation raises EXCEPTION_MATH.     *)
(* gMin and the source factor are counted in units of the smallest step.   *)
(* The LU decomposition never raises EXCEPTION_PIVOT (LU_FAILURE is 0), so *)
(* solve_once returns no error.                                            *)
(***************************************************************************)
EXTENDS Integers, Sequences

CONSTANTS
  MaxIter,     \* the property of the analysis, at least 2
  GStart,      \* initial gMin (0.01)
  GStep,       \* initial gMin step
  SFull,       \* a source factor of 1.0
  SStep        \* initial source factor step (0.01)

ASSUME IterAssumption == MaxIter \in Nat /\ MaxIter >= 2

ASSUME StepperAssumption ==
  /\ GStart \in Nat /\ GStep \in Nat \ {0} /\ GStep < GStart
  /\ SFull \in Nat /\ SStep \in Nat \ {0} /\ SStep < SFull

Helpers == {"SourceStepping", "GMinStepping", "SteepestDescent", "LineSearch",
            "Attenuation"}

VARIABLES
  pc,          \* "begin", "iterate", "stepped", "caught", "saved"
  preferred,   \* requested convergence helper or "None"
  convHelper,  \* current helper, "None" or "Exhausted"
  fallback,    \* next index into helpers
  retry,       \* -1 ends the retry loop
  tried,       \* helpers used by this analysis so far
  run,         \* iterations of the current solving loop
  converged,   \* did the last iteration converge?
  error,       \* result of the last solve_nonlinear
  gMin, gStep, gPrev,
  srcFactor, sStep, sPrev,
  netSrc,      \* source factor set in the circuits
  solvedAt,    \* source factor and gMin of the last iteration
  estack       \* the exception stack, equal neighbours counted once

stepper == <<gMin, gStep, gPrev, srcFactor, sStep, sPrev>>
vars == <<pc, preferred, convHelper, fallback, retry, tried, run, converged,
          error, stepper, netSrc, solvedAt, estack>>

-----------------------------------------------------------------------------
(* The exception stack. *)

push(e) == IF estack # <<>> /\ Head(estack) = e THEN estack ELSE <<e>> \o estack

\* What an iteration leaves on the stack: singularities are reported and
\* removed, anything else on top makes estack.print empty the stack.
solve_once(math, singular) ==
  IF ~singular THEN <<>> ELSE IF math THEN push("MATH") ELSE estack

-----------------------------------------------------------------------------
AtLeast(d, lo) == IF d < lo THEN lo ELSE d
AtMost(d, hi) == IF d > hi THEN hi ELSE d

SameStep(d) == d

\* A continuation that does not converge retries with half the step.
Halved(d) == d \div 2

helpers == <<"SourceStepping", "GMinStepping", "SteepestDescent", "LineSearch",
             "Attenuation", "Exhausted">>

Continues(h) == h \in {"SourceStepping", "GMinStepping"}

\* The continuations use a quarter of the iterations.
MaxIterations == IF Continues(convHelper) THEN MaxIter \div 4 + 1 ELSE MaxIter

\* The variables of a stepper that is not in use have no meaning.
SetStepper(g, gs, gp, s, ss, sp) ==
  /\ gMin' = g /\ gStep' = gs /\ gPrev' = gp
  /\ srcFactor' = s /\ sStep' = ss /\ sPrev' = sp

\* applyNodeset and the set-up part of solve_nonlinear for helper h.
StartSolving(h) ==
  /\ pc' = "iterate"
  /\ convHelper' = h
  /\ tried' = tried \cup {h}
  /\ run' = 0
  /\ converged' = FALSE
  /\ IF h = "GMinStepping" THEN SetStepper(GStart - GStep, GStep, GStart, 0, 0, 0)
     ELSE IF h = "SourceStepping" THEN SetStepper(0, 0, 0, SStep, SStep, 0)
     ELSE SetStepper(0, 0, 0, 0, 0, 0)

Init ==
  /\ pc = "begin"
  /\ preferred = "None" /\ convHelper = "None"
  /\ fallback = 0 /\ retry = -1 /\ tried = {}
  /\ run = 0 /\ converged = FALSE /\ error = FALSE
  /\ gMin = 0 /\ gStep = 0 /\ gPrev = 0
  /\ srcFactor = 0 /\ sStep = 0 /\ sPrev = 0
  /\ netSrc = SFull
  /\ solvedAt = [src |-> SFull, g |-> 0]
  /\ estack \in {<<>>, <<"NO_CONVERGENCE">>}

\* A non-linear netlist is solved with the requested helper first.
BeginNonlinear ==
  /\ pc = "begin"
  /\ preferred' \in Helpers \cup {"None"}
  /\ StartSolving(preferred')
  /\ UNCHANGED <<fallback, retry, error, netSrc, solvedAt, estack>>

\* A linear netlist is solved at once.
SolveLinear ==
  /\ pc = "begin"
  /\ pc' = "saved"
  /\ \E math, singular \in BOOLEAN : estack' = solve_once(math, singular)
  /\ converged' = TRUE
  /\ error' = FALSE
  /\ solvedAt' = [src |-> netSrc, g |-> 0]
  /\ UNCHANGED <<preferred, convHelper, fallback, retry, tried, run, stepper,
                 netSrc>>

-----------------------------------------------------------------------------
\* One iteration of a solving loop.  Convergence is checked from the second
\* one on.
Iterate ==
  /\ pc = "iterate"
  /\ \E math, singular \in BOOLEAN : estack' = solve_once(math, singular)
  /\ converged' \in IF run = 0 THEN {FALSE} ELSE BOOLEAN
  /\ run' = run + 1
  /\ netSrc' = IF convHelper = "SourceStepping" THEN srcFactor ELSE netSrc
  /\ solvedAt' = [src |-> netSrc',
                  g |-> IF convHelper = "GMinStepping" THEN gMin ELSE 0]
  /\ pc' = IF converged' \/ run' >= MaxIterations THEN "stepped" ELSE "iterate"
  /\ UNCHANGED <<preferred, convHelper, fallback, retry, tried, error, stepper>>

\* solve_nonlinear hands over to the exception handling of dcsolver::solve.
Return(err) ==
  /\ pc' = "caught"
  /\ error' = err
  /\ estack' = IF err THEN push("NO_CONVERGENCE") ELSE estack
  /\ UNCHANGED <<preferred, convHelper, fallback, retry, tried, run, converged,
                 solvedAt>>

\* The next step of a continuation.
Continue ==
  /\ pc' = "iterate"
  /\ run' = 0
  /\ UNCHANGED <<preferred, convHelper, fallback, retry, tried, converged,
                 error, netSrc, solvedAt, estack>>

\* The plain loop ends; convergence in the very last iteration does not count.
NewtonEnds ==
  /\ pc = "stepped"
  /\ ~Continues(convHelper)
  /\ Return(run >= MaxIterations)
  /\ UNCHANGED <<stepper, netSrc>>

-----------------------------------------------------------------------------
(* gMin stepping. *)

gMinFails ==
  /\ pc = "stepped"
  /\ convHelper = "GMinStepping"
  /\ run >= MaxIterations
  /\ gStep' = Halved(gStep)
  /\ IF gStep' = 0
       THEN Return(TRUE) /\ UNCHANGED <<gMin, netSrc>>
       ELSE gMin' = AtLeast(gPrev - gStep', 0) /\ Continue
  /\ UNCHANGED <<gPrev, srcFactor, sStep, sPrev>>

StepLeft == gMin' > 0

\* Continue until no additional resistances are necessary.
ResistanceLeft == gPrev' > 0

gMinConverges ==
  /\ pc = "stepped"
  /\ convHelper = "GMinStepping"
  /\ run < MaxIterations
  /\ gPrev' = gMin
  /\ gMin' = AtLeast(gMin - gStep, 0)
  /\ gStep' = 2 * gStep
  /\ IF ResistanceLeft
       THEN Continue
       ELSE Return(FALSE) /\ UNCHANGED netSrc
  /\ UNCHANGED <<srcFactor, sStep, sPrev>>

-----------------------------------------------------------------------------
(* Source stepping. *)

KeepsFactor == UNCHANGED netSrc

\* The circuits get their full sources back.
RestoreSources == netSrc' = SFull

sourceFails ==
  /\ pc = "stepped"
  /\ convHelper = "SourceStepping"
  /\ run >= MaxIterations
  /\ sStep' = Halved(sStep)
  /\ IF sStep' = 0
       THEN Return(TRUE) /\ RestoreSources /\ UNCHANGED srcFactor
       ELSE srcFactor' = AtMost(sPrev + sStep', SFull) /\ Continue
  /\ UNCHANGED <<gMin, gStep, gPrev, sPrev>>

\* Fast convergence: the step grows by one half.
sourceQuick ==
  /\ pc = "stepped"
  /\ convHelper = "SourceStepping"
  /\ run < MaxIterations
  /\ run < MaxIterations \div 4
  /\ sPrev' = srcFactor
  /\ srcFactor' = AtMost(srcFactor + sStep, SFull)
  /\ sStep' \in {(3 * sStep) \div 2, (3 * sStep + 1) \div 2}
  /\ IF sPrev' < SFull
       THEN Continue
       ELSE Return(FALSE) /\ RestoreSources
  /\ UNCHANGED <<gMin, gStep, gPrev>>

\* Slow convergence: the factor moves on, sPrev stays.
sourceSlow ==
  /\ pc = "stepped"
  /\ convHelper = "SourceStepping"
  /\ run < MaxIterations
  /\ run >= MaxIterations \div 4
  /\ srcFactor' = AtMost(srcFactor + sStep, SFull)
  /\ Continue
  /\ UNCHANGED <<gMin, gStep, gPrev, sStep, sPrev>>

-----------------------------------------------------------------------------
(* The retry loop of dcsolver::solve. *)

NeverSkips == fallback

\* Index of the next helper, the requested one being skipped.
Skip == IF preferred = helpers[fallback + 1] /\ preferred # "None"
        THEN fallback + 1 ELSE fallback

Caught == estack # <<>> /\ Head(estack) = "NO_CONVERGENCE"

\* The retry counter as the try part leaves it.
retryNow == IF error THEN retry ELSE -1

\* No convergence: try the next helper, unless they are all used up.
Fallback ==
  /\ pc = "caught"
  /\ Caught
  /\ estack' = Tail(estack)
  /\ fallback' = Skip + 1
  /\ IF helpers[fallback'] = "Exhausted"
       THEN /\ convHelper' = "Exhausted"
            /\ retry' = -1
            /\ pc' = "saved"
            /\ UNCHANGED <<tried, run, converged, stepper>>
       ELSE retry' = retryNow + 1 /\ StartSolving(helpers[fallback'])
  /\ UNCHANGED <<preferred, error, netSrc, solvedAt>>

\* Convergence, or another exception: the loop ends.
NoFallback ==
  /\ pc = "caught"
  /\ ~Caught
  /\ estack' = <<>>
  /\ retry' = retryNow
  /\ error' = (error \/ estack # <<>>)
  /\ IF retry' = -1
       THEN pc' = "saved" /\ UNCHANGED <<convHelper, tried, run, converged, stepper>>
       ELSE StartSolving(convHelper)
  /\ UNCHANGED <<preferred, fallback, netSrc, solvedAt>>

\* A parameter sweep runs the analysis again.
Again ==
  /\ pc = "saved"
  /\ pc' = "begin"
  /\ convHelper' = "None"
  /\ preferred' = "None"
  /\ fallback' = 0 /\ retry' = -1 /\ tried' = {}
  /\ run' = 0 /\ converged' = FALSE
  /\ SetStepper(0, 0, 0, 0, 0, 0)
  /\ UNCHANGED <<error, netSrc, solvedAt, estack>>

Next ==
  \/ BeginNonlinear \/ SolveLinear
  \/ Iterate \/ NewtonEnds
  \/ gMinFails \/ gMinConverges
  \/ sourceFails \/ sourceQuick \/ sourceSlow
  \/ Fallback \/ NoFallback
  \/ Again

Spec == Init /\ [][Next]_vars /\ WF_vars(Next)

-----------------------------------------------------------------------------
(* Properties. *)

Codes == {"NO_CONVERGENCE", "MATH"}

\* The types of the state. The position in the list of helpers stays on it, and
\* the continuation factors stay in their ranges however the steps are cut or
\* doubled (dcsolver::solve, solve_nonlinear_continuation_gMin and _Source).
TypeOK ==
  /\ pc \in {"begin", "iterate", "stepped", "caught", "saved"}
  /\ preferred \in Helpers \cup {"None"}
  /\ convHelper \in Helpers \cup {"None", "Exhausted"}
  /\ fallback \in 0 .. Len(helpers)
  /\ retry \in -1 .. Len(helpers)
  /\ tried \subseteq Helpers \cup {"None"}
  /\ run \in 0 .. MaxIter
  /\ converged \in BOOLEAN /\ error \in BOOLEAN
  /\ gMin \in 0 .. GStart /\ gPrev \in 0 .. GStart /\ gStep \in Nat
  /\ srcFactor \in 0 .. SFull /\ sPrev \in 0 .. SFull /\ sStep \in Nat
  /\ netSrc \in 0 .. SFull
  /\ solvedAt \in [src : 0 .. SFull, g : 0 .. GStart]
  /\ estack \in Seq(Codes)

\* The circuits run on reduced sources during source stepping only: whichever
\* way it ended, the next helper and the saved results see the full sources.
SourcesRestored ==
  convHelper # "SourceStepping" \/ pc \in {"begin", "caught", "saved"} =>
    netSrc = SFull

\* A result reported without error solves the netlist as it was given: with
\* full sources and without additional resistances.
SolvedAsGiven ==
  pc = "saved" /\ convHelper # "Exhausted" =>
    solvedAt = [src |-> SFull, g |-> 0]

\* No convergence helper is used twice by one analysis, the requested one
\* included.
EachHelperOnce ==
  [][pc = "caught" /\ pc' = "iterate" => convHelper' \notin tried]_vars

\* Source stepping has arrived at the full sources.
AtFull == convHelper = "SourceStepping" /\ srcFactor = SFull

\* The analysis ends, whatever converges and however fast, unless source
\* stepping stays at the full sources for ever: a continuation whose runs fail
\* gives up at its smallest step, gMin stepping arrives at the given netlist, and
\* source stepping at the full sources.  There it does not end as long as every
\* run converges slowly, since only a quick one is noted in sPrev.
Ends == pc = "begin" ~> (pc = "saved" \/ []AtFull)

\* The loop condition alone, "continue until no source factor is necessary", would
\* be met by every analysis; it is not.
EndsAlways == pc = "begin" ~> pc = "saved"
=============================================================================
