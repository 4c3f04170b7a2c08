--------------------------- MODULE Environments ---------------------------
(***************************************************************************)
(* The environments of a netlist with subcircuits: one for the netlist and *)
(* one for every subcircuit instance.  All instances of a type share one   *)
(* equation checker and solver, so the parameters of an instance are put   *)
(* into it before its equations are solved and the results are fetched     *)
(* back afterwards (environment::runSolver), for every sweep point.        *)
(*                                                                         *)
(* Every type has a parameter p and an equation q computed from it; in the *)
(* netlist p is the swept parameter.  An instance is given a number for p, *)
(* a reference to p or q of the environment it is in, or nothing.          *)
(***************************************************************************)
EXTENDS Integers, Sequences, Functions

CONSTANTS
  Types,       \* subcircuit types
  Instances,   \* the instances in the order they are expanded
  Type,        \* their types
  Parent,      \* the environments they are in
  Definition,  \* the netlist lines they come from; lines of a type are shared
  Args,        \* what a line may give for p
  Default,     \* default value of p
  Points       \* sweep points

top == "top"

Envs == {top} \cup Range(Instances)
TypeOf(e) == IF e = top THEN top ELSE Type[e]
Lines == {Definition[e] : e \in Range(Instances)}

ASSUME TypesAssumption ==
  /\ top \notin Types \cup Range(Instances)
  /\ Instances \in Seq(Range(Instances))
  /\ Type \in [Range(Instances) -> Types]
  /\ Parent \in [Range(Instances) -> Envs]
  /\ Default \in Int
  /\ Points \subseteq Int

\* An environment is expanded before those in it, and a type has the same lines in
\* each of its instances.
ASSUME HierarchyAssumption ==
  \A i \in DOMAIN Instances :
    LET e == Instances[i] IN
    /\ Parent[e] = top \/ \E j \in 1 .. i - 1 : Parent[e] = Instances[j]
    /\ \A f \in Range(Instances) :
         Definition[e] = Definition[f] =>
           Type[e] = Type[f] /\ TypeOf(Parent[e]) = TypeOf(Parent[f])

\* The level of a type: a type contains only types of higher levels.  There are
\* levels because checker_validate_sub_cycles refuses cyclic definitions.
IsLevel(level) ==
  \A e \in Range(Instances) : level[TypeOf(Parent[e])] < level[Type[e]]

\* "possible because no self-referring subcircuit types possible".
ASSUME LevelsAssumption ==
  \E level \in [Types \cup {top} -> 0 .. Len(Instances)] : IsLevel(level)

ASSUME ArgsAssumption ==
  Args \subseteq [kind : {"none"}] \cup [kind : {"number"}, value : Int]
                 \cup [kind : {"reference"}, name : {"p", "q"}]

VARIABLES
  arg,       \* what the lines of the netlist give
  todo,      \* instances still to be expanded
  children,  \* children of an environment
  kind,      \* is p of an environment a constant or a reference?
  var,       \* values of p and q in an environment: what the circuits use
  body,      \* constant p in the equations of a type
  result,    \* results of the equations of a type
  swept,     \* the sweep point
  stack      \* active calls of runSolver, innermost first

vars == <<arg, todo, children, kind, var, body, result, swept, stack>>

Values(p, q) == [p |-> p, q |-> q]

\* The equation of every type.
Calculate(p) == p + 10

Init ==
  /\ arg \in [Lines -> Args]
  /\ todo = Instances
  /\ children = [e \in Envs |-> <<>>]
  /\ kind = [e \in Envs |-> "constant"]
  /\ var = [e \in Envs |-> Values(0, 0)]
  /\ body = [t \in Types \cup {top} |-> IF t = top THEN 0 ELSE Default]
  /\ result = [t \in Types \cup {top} |-> Values(0, 0)]
  /\ swept = 0
  /\ stack = <<>>

-----------------------------------------------------------------------------
\* checker_copy_subcircuits for one instance: a copy of the type's variables,
\* with what the instance is given.
Expand ==
  /\ todo # <<>>
  /\ LET e == Head(todo)
         a == arg[Definition[e]]
     IN  /\ children' = [children EXCEPT ![Parent[e]] = <<e>> \o @]
         /\ kind' = [kind EXCEPT ![e] = IF a.kind = "reference" THEN a.kind ELSE @]
         /\ var' = [var EXCEPT ![e].p = IF a.kind = "number" THEN a.value
                                        ELSE IF a.kind = "none" THEN Default ELSE @]
         /\ body' = IF a.kind = "number" THEN [body EXCEPT ![Type[e]] = a.value] ELSE body
  /\ todo' = Tail(todo)
  /\ UNCHANGED <<arg, result, swept, stack>>

\* The sweep sets its parameter and solves all environments.
SweepPoint ==
  /\ todo = <<>> /\ stack = <<>>
  /\ \E v \in Points :
       /\ swept' = v
       /\ var' = [var EXCEPT ![top].p = v]
       /\ body' = [body EXCEPT ![top] = v]
  /\ stack' = <<[env |-> top, solved |-> FALSE, left |-> children[top]]>>
  /\ UNCHANGED <<arg, todo, children, kind, result>>

-----------------------------------------------------------------------------
(* runSolver for the environment of the innermost call. *)

Top == Head(stack)

ConstantsOnly(e, res) == [var EXCEPT ![e].p = IF kind[e] = "constant" THEN res.p ELSE @]

\* Constants get the results of the equations.
fetchConstants(e, res) ==
  [var EXCEPT ![e] = Values(IF kind[e] = "constant" THEN res.p ELSE var[e].p, res.q)]

SolveEquations ==
  /\ stack # <<>> /\ ~Top.solved
  /\ LET t == TypeOf(Top.env)
         res == Values(body[t], Calculate(body[t]))
     IN  /\ result' = [result EXCEPT ![t] = res]
         /\ var' = fetchConstants(Top.env, res)
  /\ stack' = <<[Top EXCEPT !.solved = TRUE]>> \o Tail(stack)
  /\ UNCHANGED <<arg, todo, children, kind, body, swept>>

CallLast(s, frame) == Append(s, frame)

Call(s, frame) == <<frame>> \o s

ReferencesOnly(e, p) == IF kind[e] = "reference" THEN p ELSE body[Type[e]]

\* passConstants and updateReferences put p of an instance into the equations
\* of its type.
Passed(e, p) == p

\* The next child, with p as a constant or resolved in the current environment.
NextChild ==
  /\ stack # <<>> /\ Top.solved /\ Top.left # <<>>
  /\ LET c == Head(Top.left)
         p == IF kind[c] = "constant" THEN var[c].p
              ELSE result[TypeOf(Top.env)][arg[Definition[c]].name]
         rest == <<[Top EXCEPT !.left = Tail(@)]>> \o Tail(stack)
     IN  /\ var' = [var EXCEPT ![c].p = p]
         /\ body' = [body EXCEPT ![Type[c]] = Passed(c, p)]
         /\ stack' = Call(rest, [env |-> c, solved |-> FALSE, left |-> children[c]])
  /\ UNCHANGED <<arg, todo, children, kind, result, swept>>

Return ==
  /\ stack # <<>> /\ Top.solved /\ Top.left = <<>>
  /\ stack' = Tail(stack)
  /\ UNCHANGED <<arg, todo, children, kind, var, body, result, swept>>

Next == Expand \/ SweepPoint \/ SolveEquations \/ NextChild \/ Return

Spec == Init /\ [][Next]_vars

-----------------------------------------------------------------------------
(* Properties. *)

\* The types of the state.
TypeOK ==
  /\ arg \in [Lines -> Args]
  /\ children \in [Envs -> Seq(Envs)]
  /\ kind \in [Envs -> {"constant", "reference"}]
  /\ var \in [Envs -> [p : Int, q : Int]]
  /\ body \in [Types \cup {top} -> Int]
  /\ result \in [Types \cup {top} -> [p : Int, q : Int]]
  /\ stack \in Seq([env : Envs, solved : BOOLEAN, left : Seq(Envs)])

\* What a line of the netlist means for the parameter of an instance.
Meaning(e) ==
  LET a == arg[Definition[e]] IN
  IF a.kind = "number" THEN a.value
  ELSE IF a.kind = "reference" THEN var[Parent[e]][a.name]
  ELSE Default

\* "equally typed environments use the same equation checker and solver": all
\* the same, after each sweep point every circuit sees the parameters its own
\* instance was given, references resolved in the instance around it, and
\* results computed from them.
OwnValues ==
  stack = <<>> /\ todo = <<>> /\ swept # 0 =>
    \A e \in Envs :
      /\ var[e].p = IF e = top THEN swept ELSE Meaning(e)
      /\ var[e].q = Calculate(var[e].p)

\* updateReferences reads the checker of the type around an instance: it still
\* holds the results of the very instance around it, whatever other instances
\* have been solved since.
StillOurs ==
  \A i \in DOMAIN stack :
    stack[i].solved => result[TypeOf(stack[i].env)] = var[stack[i].env]
=============================================================================
