---------------------------- MODULE AnalysisOrder ----------------------------
(***************************************************************************)
(* The analyses of a netlist: net::orderAnalysis chains them below the     *)
(* parameter sweeps that name them and puts the DC analysis in front of    *)
(* what needs its solution, then net::runAnalysis and parasweep::solve run *)
(* them and give the results their dependencies.                           *)
(*                                                                         *)
(* The netlists are the ones the checker lets through: at most one DC      *)
(* analysis, sweeps that name an existing analysis without cycles, and     *)
(* parameters that agree with what is swept.  A sweep point is a number;   *)
(* what an analysis computes is left out.                                  *)
(***************************************************************************)
EXTENDS Integers, Sequences, FiniteSets, SequencesExt

CONSTANTS
  Sweeps,      \* parameter sweeps
  Leaves,      \* other analyses, not DC
  Params,      \* names of swept parameters
  Points,      \* number of points of every sweep
  Netlists     \* which analyses a netlist may have

dc == "DC"

Analyses == Sweeps \cup Leaves \cup {dc}

ASSUME PointsAssumption == Points \in [Sweeps -> Nat \ {0}]
ASSUME NamesAssumption == dc \notin Sweeps \cup Leaves /\ Sweeps \cap Leaves = {}
ASSUME NetlistsAssumption == Netlists \subseteq SUBSET Analyses

VARIABLES
  sim,         \* the analysis a sweep names
  param,       \* the parameter a sweep changes
  present,     \* the analyses of the netlist
  actions,     \* the list of analyses, at the top level
  kids,        \* the lists of analyses of the sweeps
  phase,       \* "order", "run", "done", "crashed"
  stack,       \* what is being run, innermost first
  env,         \* values of the parameters
  bias,        \* the values the DC analysis was last solved for
  runs,        \* how often a sweep was solved
  axis,        \* number of values saved for a parameter
  solved,      \* how often an analysis was solved
  deps         \* parameters the results of an analysis depend on

netlist == <<sim, param, present>>
vars == <<netlist, actions, kids, phase, stack, env, bias, runs, axis, solved, deps>>

-----------------------------------------------------------------------------
(* What the checker accepts. *)

\* The sweeps below a sweep, followed n times.
Below(f, s, n) ==
  LET step[k \in 0 .. n] ==
        IF k = 0 \/ step[k - 1] \notin Sweeps THEN IF k = 0 THEN s ELSE step[k - 1]
        ELSE f[step[k - 1]]
  IN  step[n]

checker_validate_para(f, as) ==
  \A s \in as \cap Sweeps : f[s] \in as /\ Below(f, s, Cardinality(Sweeps)) \notin Sweeps

netlist_checker_variables(f, p, as) ==
  \A s, t \in as \cap Sweeps : (f[s] = f[t]) <=> (p[s] = p[t])

\* Nothing has been run yet; parasweep::initialize sets the first values.
Init ==
  /\ present \in Netlists
  /\ sim \in [present \cap Sweeps -> present]
  /\ param \in [present \cap Sweeps -> Params]
  /\ checker_validate_para(sim, present)
  /\ netlist_checker_variables(sim, param, present)
  /\ actions \in SetToSeqs(present)
  /\ kids = [s \in Sweeps |-> <<>>]
  /\ phase = "order"
  /\ stack = <<>>
  /\ env = [p \in Params |-> 1]
  /\ bias = [p \in Params |-> 0]
  /\ runs = [s \in Sweeps |-> 0]
  /\ axis = [p \in Params |-> 0]
  /\ solved = [a \in Leaves \cup {dc} |-> 0]
  /\ deps = [a \in Leaves \cup {dc} |-> <<>>]

-----------------------------------------------------------------------------
(* Ordering. *)

Without(list, a) == SelectSeq(list, LAMBDA b : b # a)

\* Looks through the list for a DC analysis, and no further than the first
\* sweep.
containsAnalysis(k, s) ==
  LET found[n \in 0 .. Cardinality(Sweeps), t \in Sweeps] ==
        LET hits == {i \in DOMAIN k[t] : k[t][i] = dc \/ k[t][i] \in Sweeps}
            first == k[t][CHOOSE i \in hits : \A j \in hits : i <= j]
        IN  n > 0 /\ hits # {} /\ (first \in Sweeps => found[n - 1, first])
  IN  found[Cardinality(Sweeps), s]

NotSorted(k, list) == list

\* Each DC analysis, or sweep with one, is moved to the front in turn.
sortChildAnalyses(k, list) ==
  LET early(a) == a = dc \/ (a \in Sweeps /\ containsAnalysis(k, a))
  IN  Reverse(SelectSeq(list, early)) \o SelectSeq(list, LAMBDA a : ~early(a))

Listed(a) == a \in Range(actions)

AnySweep(s) == Listed(sim[s])

\* A sweep whose child is listed and is not itself waiting for a child.
SecondOrder(s) ==
  /\ Listed(sim[s])
  /\ sim[s] \in Sweeps => ~Listed(sim[sim[s]])

\* Positions of the sweeps to be chained next; the first one is taken.
Parents == {i \in DOMAIN actions : actions[i] \in Sweeps /\ SecondOrder(actions[i])}
findSecondOrder == actions[CHOOSE i \in Parents : \A j \in Parents : i <= j]

\* The child of a sweep moves below all the sweeps that name it, with the DC
\* analysis if it is neither that nor a sweep.
Chain ==
  /\ phase = "order"
  /\ Parents # {}
  /\ LET child == sim[findSecondOrder]
         biased == child \notin Sweeps \cup {dc} /\ dc \in present
         rest == Without(actions, child)
         family == (IF biased THEN <<dc>> ELSE <<>>) \o <<child>>
         below == [s \in Sweeps |->
                     IF s \in Range(rest) /\ sim[s] = child THEN family \o kids[s] ELSE kids[s]]
     IN  /\ actions' = IF biased THEN Without(rest, dc) ELSE rest
         /\ kids' = [s \in Sweeps |->
                       IF s \in Range(actions') THEN sortChildAnalyses(below, below[s])
                       ELSE below[s]]
  /\ UNCHANGED <<netlist, phase, stack, env, bias, runs, axis, solved, deps>>

\* No sweep is left to be chained: the top level is sorted and run.
Sort ==
  /\ phase = "order"
  /\ Parents = {}
  /\ actions' = sortChildAnalyses(kids, actions)
  /\ phase' = "run"
  /\ stack' = <<[sweep |-> "none", point |-> 1, list |-> actions']>>
  /\ UNCHANGED <<netlist, kids, env, bias, runs, axis, solved, deps>>

-----------------------------------------------------------------------------
(* Running. *)

Top == Head(stack)

\* The analysis at the head of the top list is finished.
Advance(frames) == <<[Head(frames) EXCEPT !.list = Tail(@)]>> \o Tail(frames)

\* The list of analyses of the innermost of a chain of sweeps.
findLastOrderChildren(s) ==
  LET last[n \in 0 .. Cardinality(Sweeps), t \in Sweeps] ==
        IF n > 0 /\ kids[t] # <<>> /\ Head(kids[t]) \in Sweeps
        THEN last[n - 1, Head(kids[t])] ELSE kids[t]
  IN  last[Cardinality(Sweeps), s]

PutFirst(list, p) == <<p>> \o list

PutLast(list, p) == Append(list, p)

\* The results saved so far get the parameter of the sweep as a dependency.
assignDependency(frame, count) ==
  IF frame.sweep \notin Sweeps THEN deps ELSE
  [a \in DOMAIN deps |->
     IF /\ a \in Range(findLastOrderChildren(frame.sweep))
        /\ count[a] > 0
        /\ param[frame.sweep] \notin Range(deps[a])
     THEN PutLast(deps[a], param[frame.sweep]) ELSE deps[a]]

Solve ==
  /\ phase = "run"
  /\ Top.list # <<>>
  /\ LET a == Head(Top.list) IN
       /\ a \notin Sweeps
       /\ solved' = [solved EXCEPT ![a] = @ + 1]
       /\ bias' = IF a = dc THEN env ELSE bias
  /\ deps' = assignDependency(Top, solved')
  /\ stack' = Advance(stack)
  /\ UNCHANGED <<netlist, actions, kids, phase, env, runs, axis>>

EveryRun(n) == TRUE

\* The values of a sweep are saved in its first run.
SavesValues(n) == n = 1

\* Point p of sweep s: the parameter is set and its value saved.
SetPoint(s, p, n) ==
  /\ env' = [env EXCEPT ![param[s]] = p]
  /\ axis' = IF SavesValues(n) THEN [axis EXCEPT ![param[s]] = @ + 1] ELSE axis

\* A sweep that never got a child has no list of analyses to go through, and
\* the program does not survive that.
Crash ==
  /\ phase = "run"
  /\ Top.list # <<>>
  /\ LET s == Head(Top.list) IN s \in Sweeps /\ kids[s] = <<>>
  /\ phase' = "crashed"
  /\ UNCHANGED <<netlist, actions, kids, stack, env, bias, runs, axis, solved, deps>>

EnterSweep ==
  /\ phase = "run"
  /\ Top.list # <<>>
  /\ LET s == Head(Top.list) IN
       /\ s \in Sweeps
       /\ kids[s] # <<>>
       /\ runs' = [runs EXCEPT ![s] = @ + 1]
       /\ SetPoint(s, 1, runs'[s])
       /\ stack' = <<[sweep |-> s, point |-> 1, list |-> kids[s]]>> \o stack
  /\ UNCHANGED <<netlist, actions, kids, phase, bias, solved, deps>>

MorePoints(f) == f.point < Points[f.sweep]

NextPoint ==
  /\ phase = "run"
  /\ Top.list = <<>>
  /\ Top.sweep \in Sweeps
  /\ MorePoints(Top)
  /\ SetPoint(Top.sweep, Top.point + 1, runs[Top.sweep])
  /\ stack' = <<[Top EXCEPT !.point = @ + 1, !.list = kids[Top.sweep]]>> \o Tail(stack)
  /\ UNCHANGED <<netlist, actions, kids, phase, bias, runs, solved, deps>>

LeaveSweep ==
  /\ phase = "run"
  /\ Top.list = <<>>
  /\ Top.sweep \in Sweeps
  /\ ~MorePoints(Top)
  /\ stack' = Advance(Tail(stack))
  /\ deps' = assignDependency(stack[2], solved)
  /\ UNCHANGED <<netlist, actions, kids, phase, env, bias, runs, axis, solved>>

Finish ==
  /\ phase = "run"
  /\ Top.list = <<>>
  /\ Top.sweep \notin Sweeps
  /\ phase' = "done"
  /\ UNCHANGED <<netlist, actions, kids, stack, env, bias, runs, axis, solved, deps>>

Next ==
  \/ Chain \/ Sort
  \/ Solve \/ Crash \/ EnterSweep \/ NextPoint \/ LeaveSweep \/ Finish

Spec == Init /\ [][Next]_vars /\ WF_vars(Next)

-----------------------------------------------------------------------------
(* Properties. *)

Values == 1 .. Max(Range(Points))

\* The lists of analyses and the children of the sweeps name analyses of the
\* netlist only, and no sweep is at a point it does not have (net::orderAnalysis,
\* parasweep::solve).
TypeOK ==
  /\ present \subseteq Analyses
  /\ actions \in Seq(present)
  /\ kids \in [Sweeps -> Seq(present)]
  /\ phase \in {"order", "run", "done", "crashed"}
  /\ stack \in Seq([sweep : Sweeps \cup {"none"}, point : Values, list : Seq(present)])
  /\ env \in [Params -> Values] /\ bias \in [Params -> Values \cup {0}]
  /\ runs \in [Sweeps -> Nat] /\ axis \in [Params -> Nat]
  /\ solved \in [Leaves \cup {dc} -> Nat]
  /\ deps \in [Leaves \cup {dc} -> Seq(Params)]

Namers(a) == {s \in DOMAIN sim : sim[s] = a}

Once(list, a) == Cardinality({i \in DOMAIN list : list[i] = a}) = 1

\* Ordering loses and invents nothing: an analysis that sweeps name is run
\* below each of them and nowhere else, any other at the top level.
AllPlaced ==
  phase # "order" =>
    \A a \in present \ {dc} :
      /\ IF Namers(a) = {} THEN Once(actions, a) ELSE a \notin Range(actions)
      /\ \A s \in Sweeps : IF s \in Namers(a) THEN Once(kids[s], a)
                                               ELSE a \notin Range(kids[s])

\* "apply sub-analysis to each parent analysis if any": every sweep gets the
\* analysis it names, the DC analysis included.
\* Not kept by the code: README, section 3.
EverySweepHasChild ==
  phase # "order" => \A s \in DOMAIN sim : sim[s] \in Range(kids[s])

\* With a DC analysis in the netlist, whatever else is solved finds the bias
\* point of the parameter values it is solved for.
BiasFirst ==
  [][\A a \in Leaves : solved'[a] > solved[a] /\ dc \in present => bias = env]_vars

Product(list) == FoldLeft(LAMBDA n, p : n * axis[p], 1, list)

\* No analysis is named by two sweeps.
Unshared == \A a \in present : Cardinality(Namers(a)) <= 1

\* When no analysis is shared between sweeps, the number of results of an
\* analysis is the product of the numbers of values it depends on, although
\* an inner sweep saves its values in its first run only.
AxesMatchResults ==
  phase = "done" /\ Unshared => \A a \in Leaves \cap present : solved[a] = Product(deps[a])

\* The dependencies are listed from the innermost sweep outwards, the order in
\* which the results were stored.
InnermostFirst ==
  phase = "done" /\ Unshared =>
    \A a \in Leaves : \A i \in DOMAIN deps[a] : \E s \in DOMAIN sim :
      /\ param[s] = deps[a][i]
      /\ IF i = 1 THEN sim[s] = a ELSE param[sim[s]] = deps[a][i - 1]
=============================================================================
