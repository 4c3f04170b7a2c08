----------------------------- MODULE Equations -----------------------------
(***************************************************************************)
(* The equations of a netlist: the checker (dependencies, undefined and    *)
(* duplicate variables, cycles, evaluation order) and the solver.  The     *)
(* checker runs when the netlist is loaded, before every analysis or sweep *)
(* point, and at the end with the results of the analyses as additional    *)
(* equations; the solver evaluates what the checker accepted.              *)
(*                                                                         *)
(* An equation is its result's name and where it comes from; its body is   *)
(* the set of variables it refers to.  Values and types are left out: an   *)
(* equation that can be evaluated may turn out to have no type.            *)
(***************************************************************************)
EXTENDS Integers, Sequences, FiniteSets

CONSTANTS
  Lists,       \* the lists of equations a netlist may have
  Undefined,   \* variables nothing ever defines
  Generated,   \* variables whose name looks like one made by the solver
  Properties,  \* names "instance.property" of component properties
  Datasets,    \* sets of variables the analyses may produce
  MaxRefs,     \* variables an equation refers to, at most
  MaxTotal,    \* references in all equations of a netlist, at most
  MaxSolves    \* solver runs before the last one

\* The equations in a list, and that each of them is in it once.
Members(list) == {list[i] : i \in DOMAIN list}

Distinct(list) == \A i, j \in DOMAIN list : list[i] = list[j] => i = j

Equation(n, origin) == <<n, origin>>
Result(e) == e[1]

NetlistEquations == UNION {Members(l) : l \in Lists}
PropertyEquations == {Equation(p, "property") : p \in Properties}
DataEquations == {Equation(d, "data") : d \in UNION Datasets}
AllEquations == NetlistEquations \cup PropertyEquations \cup DataEquations

Variables == {Result(e) : e \in AllEquations} \cup Undefined \cup Generated

ASSUME SizeAssumption == MaxRefs \in Nat /\ MaxTotal \in Nat /\ MaxSolves \in Nat

ASSUME NamesAssumption ==
  /\ IsFiniteSet(Variables)
  /\ Undefined \cup Generated \subseteq Variables \ {Result(e) : e \in AllEquations}

\* Every equation of a netlist is a node of its own.
ASSUME ListsAssumption ==
  /\ \A l \in Lists : l \in Seq(NetlistEquations) /\ l # <<>> /\ Distinct(l)
  /\ \A e \in NetlistEquations : e[2] \notin {"property", "data"}

VARIABLES
  refs,          \* the variables an equation refers to
  data,          \* the variables the analyses produce
  equations,     \* the list of equations
  root,          \* the part of it already reordered
  dependencies,  \* dependencies of an equation, as far as they are known
  cycle,         \* equations marked as cyclic
  duplicate,     \* how often the result of an equation is defined
  evalPossible,  \* equations marked as evaluable
  typed,         \* equations whose type is known
  evaluated,     \* the solver run that last evaluated an equation
  run,           \* number of the solver run; 0 is the check at load time
  err,           \* did the checker report an error?
  phase,         \* where the checker or the solver is
  pos,           \* position in the list of equations
  deps,          \* argument of recurseDependencies
  seen           \* what the callers of recurseDependencies return as well

body == <<refs, data>>
marks == <<cycle, duplicate, evalPossible, typed, evaluated>>
walk == <<pos, deps, seen>>
vars == <<body, equations, root, dependencies, marks, run, err, phase, walk>>

Final == run = MaxSolves + 1

\* The netlist has been read.  A property is a number or names a variable of
\* the netlist; the variables of the dataset are values.
Init ==
  /\ equations \in Lists
  /\ data \in Datasets
  /\ \E written \in [Members(equations) -> {s \in SUBSET Variables : Cardinality(s) <= MaxRefs}],
        given \in [PropertyEquations -> {{}} \cup {{Result(e)} : e \in Members(equations)}] :
       /\ Cardinality({p \in Members(equations) \X Variables : p[2] \in written[p[1]]}) <= MaxTotal
       /\ refs = [e \in AllEquations |->
                 IF e \in Members(equations) THEN written[e]
                 ELSE IF e \in PropertyEquations THEN given[e]
                 ELSE {}]
  /\ root = <<>>
  /\ dependencies = [e \in AllEquations |-> {}]
  /\ cycle = {}
  /\ duplicate = [e \in AllEquations |-> 0]
  /\ evalPossible = {}
  /\ typed = {}
  /\ evaluated = [e \in AllEquations |-> 0]
  /\ run = 0
  /\ err = FALSE
  /\ phase = "collect"
  /\ pos = 1 /\ deps = {} /\ seen = {}

-----------------------------------------------------------------------------
(* Looking for equations. *)

Defines(list, v) == \E i \in DOMAIN list : Result(list[i]) = v

\* The first equation for a variable.
findEquation(list, v) ==
  list[CHOOSE i \in DOMAIN list :
         Result(list[i]) = v /\ \A j \in 1 .. i - 1 : Result(list[j]) # v]

\* A set of names, in any order.
Orderings(S) == {s \in [1 .. Cardinality(S) -> S] : Distinct(s)}

getVariables(list) == {Result(list[i]) : i \in DOMAIN list}

-----------------------------------------------------------------------------
(* The checks before the equations are reordered. *)

\* Properties the equations refer to are looked up when the netlist is loaded.
PropertiesUsed ==
  {p \in Properties : run = 0 /\ ~Defines(equations, p)
                      /\ \E i \in DOMAIN equations : p \in refs[equations[i]]}

\* A variable that is still undefined is an error only in the last run.
findUndefined(list) ==
  Final /\ \E i \in DOMAIN list :
             ~(refs[list[i]] \subseteq getVariables(list) \cup Generated)
Namesakes(list, e) == {f \in Members(list) : Result(f) = Result(e)}

CheckedNames(list) ==
  [e \in AllEquations |->
     IF e \notin Members(list) THEN duplicate[e]
     ELSE IF \A f \in Namesakes(list, e) : duplicate[f] = 0
       THEN Cardinality(Namesakes(list, e)) ELSE 1]

\* The definitions of a variable are counted at the first one no run has seen
\* yet; the others count as one.
findDuplicate(list) ==
  LET fresh(e) == {i \in DOMAIN list : list[i] \in Namesakes(list, e) /\ duplicate[list[i]] = 0}
      first(e) == duplicate[e] = 0 /\ \A i \in fresh(e) : \E j \in fresh(e) : list[j] = e /\ j <= i
  IN  [e \in AllEquations |->
         IF e \notin Members(list) THEN duplicate[e]
         ELSE IF first(e) THEN Cardinality(Namesakes(list, e)) ELSE 1]

\* collectDependencies, findUndefined and findDuplicate.
Collect ==
  /\ phase = "collect"
  /\ \E ps \in Orderings(PropertiesUsed) :
       equations' = equations \o [i \in DOMAIN ps |-> Equation(ps[i], "property")]
  /\ dependencies' = [e \in AllEquations |->
                        IF e \in Members(equations') THEN refs[e] ELSE dependencies[e]]
  /\ duplicate' = findDuplicate(equations')
  /\ err' = (findUndefined(equations') \/ \E e \in Members(equations') : duplicate'[e] > 1)
  /\ pos' = 1
  /\ deps' = dependencies'[equations'[1]]
  /\ seen' = {}
  /\ phase' = "cycles"
  /\ UNCHANGED <<body, root, cycle, evalPossible, typed, evaluated, run>>

Children == {findEquation(equations, v) : v \in {w \in deps : Defines(equations, w)}}

FirstLevel(sub) == seen \cup deps

\* What a call returns when its own variable is not among deps.
Found(sub) == seen \cup deps \cup sub

\* The next equation of detectCycles.
NextEquation ==
  IF pos < Len(equations)
    THEN /\ pos' = pos + 1
         /\ deps' = dependencies'[equations[pos + 1]]
         /\ seen' = {}
         /\ UNCHANGED phase
    ELSE /\ phase' = "reorder"
         /\ pos' = 1 /\ deps' = {} /\ seen' = {}

\* One call of recurseDependencies for the equation at pos.  It gathers what
\* the equations for deps depend on; it calls itself only for an equation
\* already marked as cyclic.  The outermost call reports a cycle or keeps the
\* dependencies that were found.
recurseDependencies ==
  /\ phase = "cycles"
  /\ LET e == equations[pos]
         own == Result(e) \in deps
         known == {c \in Children : c \notin cycle}
         sub == UNION {dependencies[c] : c \in known}
         marked == own \/ e \in cycle \/ Children # known
         res == IF own THEN seen \cup deps ELSE Found(sub)
     IN  /\ cycle' = IF marked THEN cycle \cup {e} ELSE cycle
         /\ IF ~own /\ marked /\ sub # {}
              THEN /\ deps' = sub
                   /\ seen' = seen \cup deps
                   /\ UNCHANGED <<dependencies, err, pos, phase>>
              ELSE /\ IF marked \/ Result(e) \in res
                        THEN err' = TRUE /\ UNCHANGED dependencies
                        ELSE dependencies' = [dependencies EXCEPT ![e] = res] /\ UNCHANGED err
                   /\ NextEquation
  /\ UNCHANGED <<body, equations, root, duplicate, evalPossible, typed, evaluated, run>>

-----------------------------------------------------------------------------
(* Reordering. *)

NothingGenerated(e) == \A v \in dependencies[e] : Defines(root, v)

\* Everything the equation depends on is defined by the equations reordered.
Ready(e) ==
  Cardinality({v \in dependencies[e] : Defines(root, v)})
    = Cardinality(dependencies[e]) - Cardinality(dependencies[e] \cap Generated)

InFront(list, e) == <<e>> \o list

appendEquation(list, e) == Append(list, e)

DropsPrefix(list, i) == SubSeq(list, i + 1, Len(list))

dropEquation(list, i) == SubSeq(list, 1, i - 1) \o SubSeq(list, i + 1, Len(list))

\* The first equation that is ready moves to the end of the new list.
MoveEquation ==
  /\ phase = "reorder"
  /\ \E i \in DOMAIN equations :
       /\ Ready(equations[i]) /\ \A j \in 1 .. i - 1 : ~Ready(equations[j])
       /\ root' = appendEquation(root, equations[i])
       /\ evalPossible' = evalPossible \cup {equations[i]}
       /\ equations' = dropEquation(equations, i)
  /\ UNCHANGED <<body, dependencies, cycle, duplicate, typed, evaluated, run, err, phase, walk>>

\* The rest is appended, and the types are determined up to the first equation
\* that cannot be evaluated.  A solver run only starts without errors.
applyTypes ==
  /\ phase = "reorder"
  /\ \A i \in DOMAIN equations : ~Ready(equations[i])
  /\ equations' = root \o equations
  /\ root' = <<>>
  /\ typed' = typed \cup Members(root)
  /\ err' \in IF Members(root) \subseteq typed THEN {err} ELSE {err, TRUE}
  /\ phase' = IF err' THEN "failed" ELSE IF run = 0 THEN "checked" ELSE "evaluate"
  /\ UNCHANGED <<body, dependencies, cycle, duplicate, evalPossible, evaluated, run, walk>>

-----------------------------------------------------------------------------
(* The solver. *)

\* The equations are evaluated in the order of the list.
Evaluate ==
  /\ phase = "evaluate"
  /\ pos <= Len(equations)
  /\ evaluated' = IF equations[pos] \in evalPossible
                    THEN [evaluated EXCEPT ![equations[pos]] = run] ELSE evaluated
  /\ pos' = pos + 1
  /\ UNCHANGED <<body, equations, root, dependencies, cycle, duplicate, evalPossible, typed,
                 run, err, phase, deps, seen>>

EndEvaluation ==
  /\ phase = "evaluate"
  /\ pos > Len(equations)
  /\ phase' = IF Final THEN "done" ELSE "checked"
  /\ UNCHANGED <<body, equations, root, dependencies, marks, run, err, walk>>

\* The variables of the dataset are put in front of the equations.
checkinDataset(list, ds) == ds \o list

\* Another run of the solver; the last one comes with the dataset.
Solve ==
  /\ phase = "checked"
  /\ \/ run < MaxSolves /\ run' = run + 1 /\ UNCHANGED equations
     \/ /\ run' = MaxSolves + 1
        /\ \E ds \in Orderings(data) :
             equations' = checkinDataset(equations,
                            [i \in DOMAIN ds |-> Equation(ds[i], "data")])
  /\ phase' = "collect"
  /\ UNCHANGED <<body, root, dependencies, marks, err, walk>>

Next ==
  \/ Collect \/ recurseDependencies
  \/ MoveEquation \/ applyTypes
  \/ Evaluate \/ EndEvaluation \/ Solve

Spec == Init /\ [][Next]_vars /\ WF_vars(Next)

-----------------------------------------------------------------------------
(* Properties. *)

\* The types of the state.
TypeOK ==
  /\ equations \in Seq(AllEquations) /\ root \in Seq(AllEquations)
  /\ dependencies \in [AllEquations -> SUBSET Variables]
  /\ cycle \subseteq AllEquations /\ evalPossible \subseteq AllEquations
  /\ typed \subseteq evalPossible
  /\ duplicate \in [AllEquations -> Nat]
  /\ evaluated \in [AllEquations -> 0 .. MaxSolves + 1]
  /\ run \in 0 .. MaxSolves + 1 /\ err \in BOOLEAN
  /\ phase \in {"collect", "cycles", "reorder", "checked", "evaluate", "done", "failed"}
  /\ deps \subseteq Variables /\ seen \subseteq Variables

\* The variables the equations for the variables of S refer to.
Refs(S) == UNION {refs[f] : f \in {g \in Members(equations) : Result(g) \in S}}

\* The variables an equation leads to: those in every set that contains what it
\* refers to and what the equations for its members refer to.
AllLeads(e) ==
  {v \in Variables :
     \A S \in SUBSET Variables : refs[e] \subseteq S /\ Refs(S) \subseteq S => v \in S}

Cyclic(e) == Result(e) \in AllLeads(e)

Accepted == phase \in {"evaluate", "checked", "done"}

\* reorderEquations: "The new order can be used to evaluate the list step by
\* step."  An equation is evaluated after all that it refers to, in the same
\* run: no value of an earlier sweep point or analysis is used.
OperandsFirst ==
  [][\A e \in AllEquations :
       evaluated'[e] # evaluated[e] =>
         \A v \in refs[e] \ Generated :
           Defines(equations, v) /\ evaluated[findEquation(equations, v)] = run]_vars

\* "Each equation being evaluable is properly marked": those that lead to
\* neither an undefined variable nor a cycle, whatever the order they are
\* written in, whichever run found them and however often they were moved.
EvaluableMarked ==
  Accepted =>
    \A e \in Members(equations) :
      e \in evalPossible <=>
        \A v \in AllLeads(e) \ Generated :
          \E f \in Members(equations) : Result(f) = v /\ ~Cyclic(f)

\* "remaining equations are appended": while the list is taken apart and put
\* together again every equation of the netlist, of the properties in use and
\* of the dataset stays in it once.
NoneLost ==
  LET all == root \o equations IN
  /\ Distinct(all)
  /\ NetlistEquations \cap Members(all) \in {Members(l) : l \in Lists}
  /\ PropertyEquations \cap Members(all) =
       {e \in PropertyEquations :
          /\ run > 0 \/ phase # "collect"
          /\ \E f \in Members(all) : Result(e) \in refs[f]
          /\ \A f \in Members(all) \cap NetlistEquations : Result(f) # Result(e)}
  /\ DataEquations \cap Members(all) = {e \in DataEquations : Final /\ Result(e) \in data}

\* The results of the equations are unambiguous when they are evaluated, also
\* when the analyses produce a variable of the name of an equation that was
\* accepted in earlier runs.
OneDefinition ==
  phase = "evaluate" =>
    \A i, j \in DOMAIN equations : Result(equations[i]) = Result(equations[j]) => i = j

\* A cycle of up to three equations is reported.
ShortCyclesReported ==
  Accepted =>
    \A e \in Members(equations) :
      Result(e) \notin refs[e] \cup Refs(refs[e]) \cup Refs(Refs(refs[e]))

\* detectCycles: "display the error messages due to equation cycles and returns
\* zero if there are no such cycles".  No accepted equation leads to itself.
\* Not kept by the code: README, section 3.
CyclesReported ==
  Accepted => \A e \in Members(equations) : ~Cyclic(e)

\* The checker comes to an end.
\* Not kept by the code: README, section 3.
CheckEnds == phase = "collect" ~> phase \notin {"collect", "cycles", "reorder"}
=============================================================================
