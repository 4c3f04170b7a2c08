------------------------ MODULE EnvironmentsProofs ------------------------
(***************************************************************************)
(* Proofs about Environments, for any hierarchy of subcircuits and any     *)
(* parameters of their instances.                                          *)
(***************************************************************************)
EXTENDS Environments, WellFoundedInduction, TLAPS

\* How deep the type of an environment is in the hierarchy of types.
Level == CHOOSE level \in [Types \cup {top} -> 0 .. Len(Instances)] : IsLevel(level)
Depth(e) == Level[TypeOf(e)]

\* What an environment's p is to be, and whether its variables are as they should.
Wanted(e) == IF e = top THEN swept ELSE Meaning(e)
Right(e) == var[e].p = Wanted(e) /\ var[e].q = Calculate(var[e].p)

\* Instances that have been expanded.
Expanded == {Instances[i] : i \in 1 .. Len(Instances) - Len(todo)}

\* The variables of the instances after expansion.
Given(e) ==
  LET a == arg[Definition[e]] IN
  /\ e \in Range(children[Parent[e]])
  /\ kind[e] = IF a.kind = "reference" THEN "reference" ELSE "constant"
  /\ a.kind # "reference" => var[e].p = Meaning(e)

Hierarchy ==
  /\ todo \in Seq(Range(Instances)) /\ Len(todo) <= Len(Instances)
  /\ \A j \in 1 .. Len(todo) : todo[j] = Instances[Len(Instances) - Len(todo) + j]
  /\ \A e \in Envs : \A c \in Range(children[e]) : c \in Range(Instances) /\ Parent[c] = e
  /\ kind[top] = "constant"
  /\ \A e \in Range(Instances) : kind[e] = "reference" => arg[Definition[e]].kind = "reference"
  /\ \A e \in Expanded : Given(e)
  /\ stack # <<>> \/ swept # 0 => todo = <<>>

\* The calls of runSolver: only the innermost has equations to solve; the types of
\* their environments are all different, because each contains the next.
Calls ==
  /\ \A i \in DOMAIN stack :
       /\ i > 1 => stack[i].solved
       /\ ~stack[i].solved => stack[i].left = children[stack[i].env]
       /\ Range(stack[i].left) \subseteq Range(children[stack[i].env])
  /\ \A i, j \in DOMAIN stack : i < j => Depth(stack[j].env) < Depth(stack[i].env)
  /\ stack # <<>> /\ ~Top.solved =>
       var[Top.env].p = body[TypeOf(Top.env)] /\ var[Top.env].p = Wanted(Top.env)

\* Environments runSolver has still to come to in this sweep: those that wait and
\* all below them.
Waiting ==
  {e \in Envs : \E i \in DOMAIN stack :
     e \in Range(stack[i].left) \/ (~stack[i].solved /\ e = stack[i].env)}
Closed(S) == \A f \in Range(Instances) : Parent[f] \in S => f \in S
Pending(e) == \A S \in SUBSET Envs : Waiting \subseteq S /\ Closed(S) => e \in S

Progress == swept # 0 => \A e \in Envs : Pending(e) \/ Right(e)

IInv ==
  /\ TypeOK
  /\ Hierarchy
  /\ Calls
  /\ StillOurs
  /\ Progress

-----------------------------------------------------------------------------
(* Sequences and the hierarchy. *)

\* An element before a sequence.
LEMMA Push ==
  ASSUME NEW F, NEW s \in Seq(F), NEW f \in F
  PROVE  /\ <<f>> \o s \in Seq(F) /\ <<f>> \o s # <<>> /\ Head(<<f>> \o s) = f
         /\ Len(s) \in Nat
         /\ DOMAIN (<<f>> \o s) = 1 .. Len(s) + 1
         /\ (<<f>> \o s)[1] = f
         /\ \A i \in 2 .. Len(s) + 1 : i - 1 \in DOMAIN s /\ (<<f>> \o s)[i] = s[i - 1]
         /\ Range(<<f>> \o s) = Range(s) \cup {f}
<1> DEFINE t == <<f>> \o s
<1>1. /\ t \in Seq(F) /\ t # <<>> /\ Head(t) = f /\ Len(s) \in Nat
      /\ DOMAIN t = 1 .. Len(s) + 1 /\ t[1] = f
  OBVIOUS
<1>2. \A i \in 2 .. Len(s) + 1 : i - 1 \in DOMAIN s /\ t[i] = s[i - 1]
  OBVIOUS
<1> HIDE DEF t
<1>3. \A i \in DOMAIN s : i + 1 \in DOMAIN t /\ t[i + 1] = s[i]
  BY <1>1, <1>2
<1>4. \A i \in DOMAIN t : i = 1 \/ i \in 2 .. Len(s) + 1
  BY <1>1
<1>5. 1 \in DOMAIN t
  BY <1>1
<1>6. Range(t) = Range(s) \cup {f}
  <2>1. \A i \in DOMAIN t : t[i] \in Range(s) \cup {f}
    BY <1>1, <1>2, <1>4, Zenon DEF Range
  <2>2. \A i \in DOMAIN s : s[i] \in Range(t)
    BY <1>3 DEF Range
  <2>3. f \in Range(t)
    BY <1>1, <1>5 DEF Range
  <2> QED
    BY <2>1, <2>2, <2>3 DEF Range
<1> QED
  BY <1>1, <1>2, <1>6 DEF t

\* The rest of a sequence.
LEMMA Pop ==
  ASSUME NEW F, NEW s \in Seq(F), s # <<>>
  PROVE  /\ Tail(s) \in Seq(F) /\ Head(s) \in F /\ Head(s) = s[1] /\ 1 \in DOMAIN s
         /\ Len(s) \in Nat /\ DOMAIN s = 1 .. Len(s) /\ Len(Tail(s)) = Len(s) - 1
         /\ DOMAIN Tail(s) = 1 .. Len(s) - 1
         /\ \A i \in 1 .. Len(s) - 1 : i + 1 \in DOMAIN s /\ Tail(s)[i] = s[i + 1]
         /\ Range(s) = Range(Tail(s)) \cup {Head(s)}
<1>1. /\ Tail(s) \in Seq(F) /\ Head(s) \in F /\ Head(s) = s[1] /\ 1 \in DOMAIN s
      /\ Len(s) \in Nat /\ DOMAIN s = 1 .. Len(s) /\ Len(Tail(s)) = Len(s) - 1
      /\ DOMAIN Tail(s) = 1 .. Len(s) - 1
  OBVIOUS
<1>2. \A i \in 1 .. Len(s) - 1 : i + 1 \in DOMAIN s /\ Tail(s)[i] = s[i + 1]
  OBVIOUS
<1>3. \A i \in DOMAIN s : i = 1 \/ (i - 1 \in DOMAIN Tail(s) /\ Tail(s)[i - 1] = s[i])
  BY <1>1, <1>2
<1>4. Range(s) = Range(Tail(s)) \cup {Head(s)}
  <2>1. \A i \in DOMAIN s : s[i] \in Range(Tail(s)) \cup {Head(s)}
    BY <1>1, <1>3, Zenon DEF Range
  <2>2. \A i \in DOMAIN Tail(s) : Tail(s)[i] \in Range(s)
    BY <1>1, <1>2 DEF Range
  <2>3. Head(s) \in Range(s)
    BY <1>1 DEF Range
  <2> QED
    BY <2>1, <2>2, <2>3 DEF Range
<1> QED
  BY <1>1, <1>2, <1>4

\* Another element in the first place.
LEMMA Replace ==
  ASSUME NEW F, NEW s \in Seq(F), s # <<>>, NEW f \in F
  PROVE  LET t == <<f>> \o Tail(s) IN
         /\ t \in Seq(F) /\ t # <<>> /\ Head(t) = f /\ t[1] = f
         /\ DOMAIN t = DOMAIN s /\ \A i \in DOMAIN s : i # 1 => t[i] = s[i]
<1> DEFINE t == <<f>> \o Tail(s)
<1>1. Tail(s) \in Seq(F) /\ Len(Tail(s)) = Len(s) - 1 /\ Len(s) \in Nat /\ DOMAIN s = 1 .. Len(s)
  BY Pop
<1>2. /\ t \in Seq(F) /\ t # <<>> /\ Head(t) = f /\ t[1] = f
      /\ DOMAIN t = 1 .. Len(Tail(s)) + 1
      /\ \A i \in 2 .. Len(Tail(s)) + 1 : t[i] = Tail(s)[i - 1]
  BY <1>1, Push
<1>3. \A i \in 1 .. Len(s) - 1 : Tail(s)[i] = s[i + 1]
  BY Pop
<1> HIDE DEF t
<1>4. DOMAIN t = DOMAIN s
  BY <1>1, <1>2
<1>5. ASSUME NEW i \in DOMAIN s, i # 1 PROVE t[i] = s[i]
  <2>1. i \in 2 .. Len(Tail(s)) + 1 /\ i - 1 \in 1 .. Len(s) - 1 /\ (i - 1) + 1 = i
    BY <1>1, <1>5
  <2>2. t[i] = Tail(s)[i - 1] /\ Tail(s)[i - 1] = s[(i - 1) + 1]
    BY <1>2, <1>3, <2>1
  <2> QED
    BY <2>1, <2>2
<1> QED
  BY <1>2, <1>4, <1>5 DEF t

\* An instance is deeper than the environment it is in, so the two differ.
LEMMA Deeper ==
  /\ \A e \in Envs : Depth(e) \in Int /\ TypeOf(e) \in Types \cup {top}
  /\ \A e \in Range(Instances) :
       /\ Parent[e] \in Envs /\ e \in Envs /\ e # top
       /\ TypeOf(e) = Type[e] /\ Type[e] \in Types
       /\ Depth(Parent[e]) < Depth(e)
<1>1. Level \in [Types \cup {top} -> 0 .. Len(Instances)] /\ IsLevel(Level)
  BY LevelsAssumption, Zenon DEF Level
<1>2. Len(Instances) \in Nat
  BY TypesAssumption
<1>3. ASSUME NEW e \in Envs PROVE Depth(e) \in Int /\ TypeOf(e) \in Types \cup {top}
  <2>1. TypeOf(e) \in Types \cup {top}
    BY TypesAssumption DEF TypeOf, Envs
  <2> QED
    BY <1>1, <1>2, <2>1 DEF Depth
<1>4. ASSUME NEW e \in Range(Instances)
      PROVE  /\ Parent[e] \in Envs /\ e \in Envs /\ e # top
             /\ TypeOf(e) = Type[e] /\ Type[e] \in Types
             /\ Depth(Parent[e]) < Depth(e)
  <2>1. Parent[e] \in Envs /\ e \in Envs /\ e # top
    BY TypesAssumption DEF Envs
  <2>2. TypeOf(e) = Type[e] /\ Type[e] \in Types
    BY <2>1, TypesAssumption DEF TypeOf
  <2>3. Level[TypeOf(Parent[e])] < Level[Type[e]]
    BY <1>1 DEF IsLevel
  <2> QED
    BY <2>1, <2>2, <2>3 DEF Depth
<1> QED
  BY <1>3, <1>4

\* A set of natural numbers has a least member.
LEMMA Least ==
  ASSUME NEW T, T \subseteq Nat, T # {}
  PROVE  \E x \in T : \A y \in T : x <= y
<1> DEFINE R == OpToRel(<, Nat)
<1>1. IsWellFoundedOn(R, Nat)
  BY NatLessThanWellFounded, Zenon
<1> HIDE DEF R
<1>2. PICK x \in T : \A y \in T : ~(<<y, x>> \in R)
  BY <1>1, WFMin, Zenon
<1>3. \A y \in T : ~(y < x)
  BY <1>2, Zenon DEF R, OpToRel
<1> QED
  BY <1>3

\* All environments are below the netlist's.
LEMMA AllBelowTop ==
  ASSUME NEW S, top \in S, Closed(S)
  PROVE  Envs \subseteq S
<1> DEFINE T == {i \in DOMAIN Instances : Instances[i] \notin S}
<1>1. DOMAIN Instances \subseteq Nat
  BY TypesAssumption
<1>2. CASE T # {}
  <2>1. PICK i \in T : \A j \in T : i <= j
    <3>1. T \subseteq Nat
      BY <1>1
    <3> HIDE DEF T
    <3> QED
      BY <1>2, <3>1, Least, Zenon
  <2>2. i \in DOMAIN Instances /\ Instances[i] \in Range(Instances)
    BY <2>1 DEF Range
  <2>3. Parent[Instances[i]] = top \/ \E j \in 1 .. i - 1 : Parent[Instances[i]] = Instances[j]
    BY <2>2, HierarchyAssumption
  <2>4. Parent[Instances[i]] \in S
    <3>1. ASSUME NEW j \in 1 .. i - 1 PROVE Instances[j] \in S
      <4>1. j \in DOMAIN Instances /\ ~(i <= j)
        BY <2>2, TypesAssumption
      <4> QED
        BY <2>1, <4>1
    <3> QED
      BY <2>3, <3>1
  <2>5. Instances[i] \in S
    BY <2>2, <2>4 DEF Closed
  <2> QED
    BY <2>1, <2>5
<1>3. CASE T = {}
  BY <1>3 DEF Envs, Range
<1> QED
  BY <1>2, <1>3

-----------------------------------------------------------------------------
(* The steps. *)

\* What the line of an instance gives.
LEMMA ArgKinds ==
  ASSUME TypeOK, NEW e \in Range(Instances)
  PROVE  LET a == arg[Definition[e]] IN
         /\ a.kind \in {"none", "number", "reference"}
         /\ a.kind = "number" => a.value \in Int
         /\ a.kind = "reference" => a.name \in {"p", "q"}
<1> DEFINE a == arg[Definition[e]]
<1>1. a \in Args
  BY DEF TypeOK, Lines
<1>2. \/ a \in [kind : {"none"}]
      \/ a \in [kind : {"number"}, value : Int]
      \/ a \in [kind : {"reference"}, name : {"p", "q"}]
  BY <1>1, ArgsAssumption
<1> HIDE DEF a
<1>3. /\ a.kind \in {"none", "number", "reference"}
      /\ a.kind = "number" => a.value \in Int
      /\ a.kind = "reference" => a.name \in {"p", "q"}
  BY <1>2
<1> QED
  BY <1>3 DEF a

\* p of one environment is set.
LEMMA SetP ==
  ASSUME var \in [Envs -> [p : Int, q : Int]], NEW e \in Envs, NEW v \in Int,
         var' = [var EXCEPT ![e].p = v]
  PROVE  /\ var' \in [Envs -> [p : Int, q : Int]]
         /\ var'[e].p = v /\ var'[e].q = var[e].q
         /\ \A x \in Envs \ {e} : var'[x] = var[x]
<1> DEFINE r == [var[e] EXCEPT !.p = v]
<1>1. var[e] \in [p : Int, q : Int]
  OBVIOUS
<1>2. r \in [p : Int, q : Int] /\ r.p = v /\ r.q = var[e].q
  BY <1>1
<1>3. var' = [var EXCEPT ![e] = r]
  OBVIOUS
<1> HIDE DEF r
<1> QED
  BY <1>2, <1>3

\* Expansion keeps the invariant.
LEMMA ExpandKeeps ==
  ASSUME IInv, Expand
  PROVE  IInv'
<1> DEFINE e == Head(todo)
           a == arg[Definition[e]]
           n == Len(Instances)
           m == Len(todo)
           v == IF a.kind = "number" THEN a.value ELSE IF a.kind = "none" THEN Default ELSE var[e].p
<1>1. TypeOK /\ Hierarchy /\ todo # <<>> /\ stack = <<>> /\ swept = 0
  BY DEF IInv, Expand, Hierarchy
<1>2. /\ todo \in Seq(Range(Instances)) /\ m \in Nat /\ n \in Nat /\ m >= 1 /\ m <= n
      /\ \A j \in 1 .. m : todo[j] = Instances[n - m + j]
  BY <1>1, TypesAssumption DEF Hierarchy
<1>3. e \in Range(Instances) /\ e = Instances[n - m + 1]
  BY <1>1, <1>2, Pop
<1>4. e \in Envs /\ e # top /\ Parent[e] \in Envs /\ Type[e] \in Types /\ Parent[e] # e
  BY <1>3, Deeper
<1>5. /\ a.kind \in {"none", "number", "reference"}
      /\ a.kind = "number" => a.value \in Int
  BY <1>1, <1>3, ArgKinds
<1>6. /\ children' = [children EXCEPT ![Parent[e]] = <<e>> \o @]
      /\ kind' = [kind EXCEPT ![e] = IF a.kind = "reference" THEN a.kind ELSE @]
      /\ var' = [var EXCEPT ![e].p = v]
      /\ body' = IF a.kind = "number" THEN [body EXCEPT ![Type[e]] = a.value] ELSE body
      /\ todo' = Tail(todo)
      /\ UNCHANGED <<arg, result, swept, stack>>
  BY DEF Expand
<1>7. v \in Int
  BY <1>1, <1>4, <1>5, TypesAssumption DEF TypeOK
<1> HIDE DEF v
<1>8. /\ var' \in [Envs -> [p : Int, q : Int]] /\ var'[e].p = v
      /\ \A x \in Envs \ {e} : var'[x] = var[x]
  BY <1>1, <1>4, <1>6, <1>7, SetP, Zenon DEF TypeOK
<1> HIDE DEF e, a, n, m
<1>9. /\ kind' \in [Envs -> {"constant", "reference"}]
      /\ kind'[e] = IF a.kind = "reference" THEN "reference" ELSE kind[e]
      /\ \A x \in Envs \ {e} : kind'[x] = kind[x]
  BY <1>1, <1>4, <1>6 DEF TypeOK
<1>10. body' \in [Types \cup {top} -> Int]
  BY <1>1, <1>4, <1>5, <1>6 DEF TypeOK
<1>11. /\ children' \in [Envs -> Seq(Envs)]
       /\ Range(children'[Parent[e]]) = Range(children[Parent[e]]) \cup {e}
       /\ \A x \in Envs \ {Parent[e]} : children'[x] = children[x]
  <2> DEFINE cs == children[Parent[e]]
  <2>1. children \in [Envs -> Seq(Envs)] /\ cs \in Seq(Envs)
    BY <1>1, <1>4 DEF TypeOK
  <2>2. <<e>> \o cs \in Seq(Envs) /\ Range(<<e>> \o cs) = Range(cs) \cup {e}
    BY <1>4, <2>1, Push
  <2>3. children' = [children EXCEPT ![Parent[e]] = <<e>> \o cs]
    BY <1>6
  <2> DEFINE es == <<e>> \o cs
  <2> HIDE DEF es
  <2>4. /\ children' \in [Envs -> Seq(Envs)] /\ children'[Parent[e]] = es
        /\ \A x \in Envs \ {Parent[e]} : children'[x] = children[x]
    BY <1>4, <2>1, <2>2, <2>3 DEF es
  <2> QED
    BY <2>2, <2>4 DEF es
<1>12. TypeOK'
  BY <1>1, <1>6, <1>8, <1>9, <1>10, <1>11 DEF TypeOK
<1>13. /\ todo' \in Seq(Range(Instances)) /\ Len(todo') = m - 1
       /\ \A j \in 1 .. m - 1 : todo'[j] = todo[j + 1]
  BY <1>1, <1>2, <1>6, Pop DEF m
<1>14. \A j \in 1 .. Len(todo') : todo'[j] = Instances[n - Len(todo') + j]
  <2> SUFFICES ASSUME NEW j \in 1 .. m - 1 PROVE todo'[j] = Instances[n - (m - 1) + j]
    BY <1>13
  <2>1. j + 1 \in 1 .. m /\ n - m + (j + 1) = n - (m - 1) + j
    BY <1>2
  <2> QED
    BY <1>2, <1>13, <2>1
<1>15. \A x \in Envs : \A c \in Range(children'[x]) : c \in Range(Instances) /\ Parent[c] = x
  <2> SUFFICES ASSUME NEW x \in Envs, NEW c \in Range(children'[x])
               PROVE  c \in Range(Instances) /\ Parent[c] = x
    OBVIOUS
  <2>1. c \in Range(children[x]) \/ (x = Parent[e] /\ c = e)
    BY <1>11, Zenon
  <2> QED
    BY <1>1, <1>3, <2>1 DEF Hierarchy
<1>16. \A x \in Envs : Range(children[x]) \subseteq Range(children'[x])
  BY <1>11, Zenon
<1>17. ASSUME NEW x \in Range(Instances), x \in Expanded \/ x = e
       PROVE  Given(x)'
  <2> DEFINE b == arg[Definition[x]]
  <2>1. x \in Envs /\ Parent[x] \in Envs
    BY Deeper
  <2>2. x \in Range(children'[Parent[x]])
    <3>1. CASE x \in Expanded
      BY <1>1, <1>16, <2>1, <3>1 DEF Hierarchy, Given
    <3>2. CASE x = e
      BY <1>11, <3>2
    <3> QED
      BY <1>17, <3>1, <3>2
  <2>3. kind'[x] = IF b.kind = "reference" THEN "reference" ELSE "constant"
    <3>1. CASE x = e /\ b.kind = "reference"
      BY <1>9, <3>1 DEF a
    <3>2. CASE x = e /\ b.kind # "reference"
      <4>1. kind[x] # "reference" /\ kind[x] \in {"constant", "reference"}
        BY <1>1, <2>1, <3>2 DEF Hierarchy, TypeOK
      <4> QED
        BY <1>9, <3>2, <4>1 DEF a
    <3>3. CASE x # e
      BY <1>1, <1>9, <1>17, <2>1, <3>3 DEF Hierarchy, Given
    <3> QED
      BY <3>1, <3>2, <3>3
  <2>4. ASSUME b.kind # "reference" PROVE var'[x].p = Meaning(x)'
    <3>1. Meaning(x)' = (IF b.kind = "number" THEN b.value ELSE Default) /\ Meaning(x)' = Meaning(x)
      BY <1>6, <2>4 DEF Meaning
    <3>2. CASE x = e
      <4>1. v = IF b.kind = "number" THEN b.value ELSE Default
        BY <1>5, <2>4, <3>2 DEF v, a
      <4> QED
        BY <1>8, <3>1, <3>2, <4>1
    <3>3. CASE x # e
      BY <1>1, <1>8, <1>17, <2>1, <2>4, <3>1, <3>3 DEF Hierarchy, Given
    <3> QED
      BY <3>2, <3>3
  <2> QED
    BY <1>6, <2>2, <2>3, <2>4 DEF Given
<1>18. Expanded' \subseteq Expanded \cup {e}
  <2> SUFFICES ASSUME NEW i \in 1 .. n - Len(todo') PROVE Instances[i] \in Expanded \cup {e}
    BY DEF Expanded, n
  <2>1. i \in 1 .. n - m \/ i = n - m + 1
    BY <1>2, <1>13
  <2> QED
    BY <1>3, <2>1 DEF Expanded, n, m
<1>19. Expanded \subseteq Range(Instances)
  BY <1>2, TypesAssumption DEF Expanded, Range, n, m
<1>20. \A x \in Range(Instances) : kind'[x] = "reference" => arg'[Definition[x]].kind = "reference"
  BY <1>1, <1>6, <1>9, Deeper DEF Hierarchy, a
<1>21. Hierarchy'
  <2>1. \A x \in Expanded' : Given(x)'
    BY <1>3, <1>17, <1>18, <1>19
  <2>2. Len(todo') <= Len(Instances)
    BY <1>2, <1>13 DEF n
  <2>3. kind'[top] = "constant"
    BY <1>1, <1>4, <1>9 DEF Hierarchy, Envs
  <2> QED
    BY <1>1, <1>6, <1>13, <1>14, <1>15, <1>20, <2>1, <2>2, <2>3 DEF Hierarchy, n
<1>22. Calls' /\ StillOurs'
  BY <1>1, <1>6 DEF Calls, StillOurs
<1>23. Progress'
  BY <1>1, <1>6 DEF Progress
<1> QED
  BY <1>12, <1>21, <1>22, <1>23 DEF IInv

\* After expansion every instance has been expanded.
LEMMA AllGiven ==
  ASSUME Hierarchy, todo = <<>>
  PROVE  \A e \in Range(Instances) : Given(e)
<1>1. Len(Instances) - Len(todo) = Len(Instances) /\ DOMAIN Instances = 1 .. Len(Instances)
  BY TypesAssumption
<1>2. Expanded = Range(Instances)
  BY <1>1 DEF Expanded, Range
<1> QED
  BY <1>2 DEF Hierarchy

\* Solving changes p of no instance that is given a number or nothing.
LEMMA HierarchyStays ==
  ASSUME Hierarchy, todo = <<>>, UNCHANGED <<arg, todo, children, kind>>,
         \A x \in Range(Instances) :
           arg[Definition[x]].kind # "reference" => var'[x].p = var[x].p
  PROVE  Hierarchy'
<1>1. ASSUME NEW x \in Range(Instances) PROVE Given(x)'
  <2>1. Given(x)
    BY AllGiven
  <2>2. arg[Definition[x]].kind # "reference" => Meaning(x)' = Meaning(x)
    BY DEF Meaning
  <2> QED
    BY <2>1, <2>2 DEF Given
<1>2. Expanded' \subseteq Range(Instances)
  <2>1. Len(Instances) - Len(todo') = Len(Instances) /\ DOMAIN Instances = 1 .. Len(Instances)
    BY TypesAssumption
  <2> QED
    BY <2>1 DEF Expanded, Range
<1>3. \A x \in Expanded' : Given(x)'
  BY <1>1, <1>2
<1> QED
  BY <1>3 DEF Hierarchy

\* A sweep point keeps the invariant.
LEMMA SweepPointKeeps ==
  ASSUME IInv, SweepPoint
  PROVE  IInv'
<1>1. PICK v \in Points :
        /\ swept' = v
        /\ var' = [var EXCEPT ![top].p = v]
        /\ body' = [body EXCEPT ![top] = v]
  BY Zenon DEF SweepPoint
<1> DEFINE f == [env |-> top, solved |-> FALSE, left |-> children[top]]
<1>2. /\ TypeOK /\ Hierarchy /\ todo = <<>> /\ stack' = <<f>>
      /\ UNCHANGED <<arg, todo, children, kind, result>>
  BY DEF SweepPoint, IInv
<1>3. v \in Int /\ top \in Envs /\ top \notin Range(Instances)
  BY TypesAssumption DEF Envs
<1>4. /\ var' \in [Envs -> [p : Int, q : Int]] /\ var'[top].p = v
      /\ \A x \in Envs \ {top} : var'[x] = var[x]
  BY <1>1, <1>2, <1>3, SetP, Zenon DEF TypeOK
<1>5. body' \in [Types \cup {top} -> Int] /\ body'[top] = v
  BY <1>1, <1>2, <1>3 DEF TypeOK
<1>6. children[top] \in Seq(Envs)
  BY <1>2, <1>3 DEF TypeOK
<1>7. f \in [env : Envs, solved : BOOLEAN, left : Seq(Envs)]
  BY <1>3, <1>6
<1>8. f.env = top /\ ~f.solved /\ f.left = children[top]
  OBVIOUS
<1> HIDE DEF f
<1>9. /\ stack' \in Seq([env : Envs, solved : BOOLEAN, left : Seq(Envs)])
      /\ DOMAIN stack' = {1} /\ stack'[1] = f /\ Head(stack') = f
  BY <1>2, <1>7
<1>10. TypeOK'
  BY <1>2, <1>4, <1>5, <1>9 DEF TypeOK
<1>11. Hierarchy'
  <2>1. \A x \in Range(Instances) : var'[x] = var[x]
    BY <1>3, <1>4, Deeper
  <2> QED
    BY <1>2, <2>1, HierarchyStays
<1>12. Calls'
  <2>1. Wanted(top)' = v /\ TypeOf(top) = top
    BY <1>1 DEF Wanted, TypeOf
  <2>2. \A i, j \in DOMAIN stack' : ~(i < j)
    BY <1>9
  <2>3. \A i \in DOMAIN stack' :
          /\ i > 1 => stack'[i].solved
          /\ ~stack'[i].solved => stack'[i].left = children'[stack'[i].env]
          /\ Range(stack'[i].left) \subseteq Range(children'[stack'[i].env])
    BY <1>2, <1>8, <1>9
  <2>4. Top'.env = top /\ var'[Top'.env].p = body'[TypeOf(Top'.env)] /\ var'[top].p = Wanted(top)'
    BY <1>4, <1>5, <1>8, <1>9, <2>1 DEF Top
  <2> QED
    BY <2>2, <2>3, <2>4 DEF Calls
<1>13. StillOurs'
  BY <1>8, <1>9 DEF StillOurs
<1>14. Progress'
  <2>1. top \in Waiting'
    BY <1>3, <1>8, <1>9 DEF Waiting
  <2>2. \A e \in Envs : Pending(e)'
    BY <2>1, AllBelowTop DEF Pending
  <2> QED
    BY <2>2 DEF Progress
<1> QED
  BY <1>10, <1>11, <1>12, <1>13, <1>14 DEF IInv

\* Returning from runSolver keeps the invariant.
LEMMA ReturnKeeps ==
  ASSUME IInv, Return
  PROVE  IInv'
<1> DEFINE F == [env : Envs, solved : BOOLEAN, left : Seq(Envs)]
<1>1. /\ TypeOK /\ Hierarchy /\ Calls /\ StillOurs /\ Progress /\ stack # <<>>
      /\ Top.solved /\ Top.left = <<>> /\ stack' = Tail(stack) /\ stack \in Seq(F)
      /\ UNCHANGED <<arg, todo, children, kind, var, body, result, swept>>
  BY DEF Return, IInv, TypeOK
<1> HIDE DEF F
<1>2. /\ stack' \in Seq(F) /\ Len(stack) \in Nat /\ DOMAIN stack = 1 .. Len(stack)
      /\ DOMAIN stack' = 1 .. Len(stack) - 1
      /\ \A i \in DOMAIN stack' : i + 1 \in DOMAIN stack /\ stack'[i] = stack[i + 1]
      /\ stack[1] = Top
  BY <1>1, Pop DEF Top
<1>3. \A i \in DOMAIN stack : i = 1 \/ (i - 1 \in DOMAIN stack' /\ stack'[i - 1] = stack[i])
  BY <1>2
<1>4. TypeOK'
  BY <1>1, <1>2 DEF TypeOK, F
<1>5. todo = <<>>
  BY <1>1 DEF Hierarchy
<1>6. Hierarchy'
  BY <1>1, <1>5, HierarchyStays
<1>7. \A i \in DOMAIN stack' : stack'[i].solved
  BY <1>1, <1>2 DEF Calls
<1>8. Calls'
  <2>1. \A i \in DOMAIN stack' : Range(stack'[i].left) \subseteq Range(children'[stack'[i].env])
    BY <1>1, <1>2 DEF Calls
  <2>2. \A i, j \in DOMAIN stack' : i < j => Depth(stack'[j].env) < Depth(stack'[i].env)
    BY <1>1, <1>2 DEF Calls
  <2>3. stack' # <<>> => Top'.solved
    <3>1. stack' # <<>> => Top' = stack'[1] /\ 1 \in DOMAIN stack'
      BY <1>2, Pop DEF Top
    <3> QED
      BY <1>7, <3>1
  <2> QED
    BY <1>7, <2>1, <2>2, <2>3 DEF Calls
<1>9. StillOurs'
  BY <1>1, <1>2 DEF StillOurs
<1>10. Waiting' = Waiting
  <2>1. Range(Top.left) = {}
    BY <1>1 DEF Range
  <2> DEFINE W(f, x) == x \in Range(f.left) \/ (~f.solved /\ x = f.env)
  <2>2. \A x : ~W(stack[1], x)
    BY <1>1, <1>2, <2>1
  <2>3. /\ Waiting = {x \in Envs : \E i \in DOMAIN stack : W(stack[i], x)}
        /\ Waiting' = {x \in Envs : \E i \in DOMAIN stack' : W(stack'[i], x)}
    BY DEF Waiting
  <2> HIDE DEF W
  <2>4. \A x \in Envs : (\E i \in DOMAIN stack : W(stack[i], x)) => (\E i \in DOMAIN stack' : W(stack'[i], x))
    BY <1>3, <2>2
  <2>5. \A x \in Envs : (\E i \in DOMAIN stack' : W(stack'[i], x)) => (\E i \in DOMAIN stack : W(stack[i], x))
    BY <1>2
  <2> QED
    BY <2>3, <2>4, <2>5
<1>11. Progress'
  <2>1. \A e \in Envs : (Pending(e)' <=> Pending(e)) /\ (Right(e)' <=> Right(e))
    BY <1>1, <1>10 DEF Pending, Right, Wanted, Meaning
  <2> QED
    BY <1>1, <2>1 DEF Progress
<1> QED
  BY <1>4, <1>6, <1>8, <1>9, <1>11 DEF IInv

\* Solving the equations of an environment keeps the invariant: the other calls are
\* for environments of other types.
LEMMA SolveKeeps ==
  ASSUME IInv, SolveEquations
  PROVE  IInv'
<1> DEFINE F == [env : Envs, solved : BOOLEAN, left : Seq(Envs)]
           e == Top.env
           t == TypeOf(e)
           b == body[t]
           res == Values(b, Calculate(b))
           f == [Top EXCEPT !.solved = TRUE]
<1>1. /\ TypeOK /\ Hierarchy /\ Calls /\ StillOurs /\ Progress /\ stack # <<>> /\ stack \in Seq(F)
      /\ ~Top.solved /\ stack' = <<f>> \o Tail(stack)
      /\ result' = [result EXCEPT ![t] = res] /\ var' = fetchConstants(e, res)
      /\ UNCHANGED <<arg, todo, children, kind, body, swept>>
  BY DEF SolveEquations, IInv, TypeOK
<1>2. Top \in F /\ Top = stack[1] /\ 1 \in DOMAIN stack /\ DOMAIN stack \subseteq Nat
  <2> HIDE DEF F
  <2>1. Top \in F /\ Top = stack[1] /\ 1 \in DOMAIN stack /\ DOMAIN stack = 1 .. Len(stack)
    BY <1>1, Pop DEF Top
  <2> QED
    BY <1>1, <2>1
<1>3. e \in Envs /\ t \in Types \cup {top} /\ b \in Int
  BY <1>1, <1>2, Deeper DEF TypeOK
<1>4. f \in F /\ f.env = e /\ f.solved /\ f.left = Top.left
  BY <1>2, Zenon
<1>5. var[e].p = b /\ b = Wanted(e)
  BY <1>1 DEF Calls
<1>6. res \in [p : Int, q : Int] /\ res.p = b /\ res.q = Calculate(b)
  BY <1>3 DEF Values, Calculate
<1>7. var' = [var EXCEPT ![e] = res]
  BY <1>1, <1>5, <1>6 DEF fetchConstants, Values
<1> HIDE DEF F, e, t, b, res, f
<1>8. /\ stack' \in Seq(F) /\ stack' # <<>> /\ Head(stack') = f /\ stack'[1] = f
      /\ DOMAIN stack' = DOMAIN stack
      /\ \A i \in DOMAIN stack : i # 1 => stack'[i] = stack[i]
  BY <1>1, <1>4, Replace
<1>9. /\ var' \in [Envs -> [p : Int, q : Int]] /\ var'[e] = res
      /\ \A x \in Envs \ {e} : var'[x] = var[x]
  BY <1>1, <1>3, <1>6, <1>7 DEF TypeOK
<1>10. /\ result' \in [Types \cup {top} -> [p : Int, q : Int]] /\ result'[t] = res
       /\ \A u \in (Types \cup {top}) \ {t} : result'[u] = result[u]
  BY <1>1, <1>3, <1>6 DEF TypeOK
<1>11. TypeOK'
  BY <1>1, <1>8, <1>9, <1>10, Zenon DEF TypeOK, F
<1>12. todo = <<>>
  BY <1>1 DEF Hierarchy
<1>13. \A x \in Envs : var'[x].p = var[x].p
  BY <1>5, <1>6, <1>9
<1>14. Hierarchy'
  BY <1>1, <1>12, <1>13, Deeper, HierarchyStays
<1>15. \A i \in DOMAIN stack' : stack'[i].solved
  BY <1>1, <1>2, <1>4, <1>8 DEF Calls
<1>16. \A i \in DOMAIN stack' : stack'[i].env = stack[i].env /\ stack'[i].left = stack[i].left
  BY <1>2, <1>4, <1>8 DEF e
<1>17. Calls'
  <2>1. \A i \in DOMAIN stack' : Range(stack'[i].left) \subseteq Range(children'[stack'[i].env])
    BY <1>1, <1>8, <1>16, Zenon DEF Calls
  <2>2. \A i, j \in DOMAIN stack' : i < j => Depth(stack'[j].env) < Depth(stack'[i].env)
    BY <1>1, <1>8, <1>16, Zenon DEF Calls
  <2>3. Top'.solved
    BY <1>4, <1>8 DEF Top
  <2> QED
    BY <1>15, <2>1, <2>2, <2>3 DEF Calls
<1>18. StillOurs'
  <2> SUFFICES ASSUME NEW i \in DOMAIN stack'
               PROVE  result'[TypeOf(stack'[i].env)] = var'[stack'[i].env]
    BY DEF StillOurs
  <2>1. CASE i = 1
    BY <1>4, <1>8, <1>9, <1>10, <2>1 DEF t
  <2>2. CASE i # 1
    <3>1. i \in DOMAIN stack /\ 1 < i /\ stack[i].solved /\ stack'[i] = stack[i] /\ stack[i] \in F
      BY <1>1, <1>2, <1>8, <2>2 DEF Calls
    <3>2. Depth(stack[i].env) < Depth(e) /\ stack[i].env \in Envs
      BY <1>1, <1>2, <3>1 DEF Calls, e, F
    <3>3. TypeOf(stack[i].env) # t /\ stack[i].env # e
      BY <1>3, <3>2, Deeper DEF Depth, t
    <3>4. result[TypeOf(stack[i].env)] = var[stack[i].env]
      BY <1>1, <3>1 DEF StillOurs
    <3>5. TypeOf(stack[i].env) \in Types \cup {top}
      BY <3>2, Deeper
    <3> QED
      BY <1>9, <1>10, <3>1, <3>2, <3>3, <3>4, <3>5
  <2> QED
    BY <2>1, <2>2
<1>19. Range(children[e]) \subseteq Waiting' /\ Waiting \subseteq Waiting' \cup {e}
  <2>1. Top.left = children[e]
    BY <1>1, <1>2 DEF Calls, e
  <2>2. Range(children[e]) \subseteq Envs
    BY <1>1, <1>3, Deeper, Zenon DEF Hierarchy
  <2>3. Range(children[e]) \subseteq Waiting'
    BY <1>2, <1>4, <1>8, <2>1, <2>2 DEF Waiting
  <2>4. ASSUME NEW x \in Waiting PROVE x \in Waiting' \cup {e}
    <3>1. PICK i \in DOMAIN stack : x \in Range(stack[i].left) \/ (~stack[i].solved /\ x = stack[i].env)
      BY <2>4 DEF Waiting
    <3>2. CASE i = 1
      BY <1>2, <2>1, <2>3, <3>1, <3>2 DEF e
    <3>3. CASE i # 1
      BY <1>8, <2>4, <3>1, <3>3 DEF Waiting
    <3> QED
      BY <3>2, <3>3
  <2> QED
    BY <2>3, <2>4
<1>20. \A x \in Range(Instances) : Parent[x] = e => x \in Waiting'
  BY <1>1, <1>12, <1>19, AllGiven DEF Given
<1>21. ASSUME NEW x \in Envs \ {e}, Pending(x) PROVE Pending(x)'
  <2> SUFFICES ASSUME NEW S \in SUBSET Envs, Waiting' \subseteq S, Closed(S) PROVE x \in S
    BY DEF Pending
  <2>1. Waiting \subseteq S \cup {e} /\ S \cup {e} \in SUBSET Envs
    BY <1>3, <1>19
  <2>2. Closed(S \cup {e})
    BY <1>20 DEF Closed
  <2> QED
    BY <1>21, <2>1, <2>2 DEF Pending
<1>22. ASSUME NEW x \in Envs, x = top \/ Parent[x] # e PROVE Wanted(x)' = Wanted(x)
  <2>1. x # top => Parent[x] \in Envs
    BY Deeper DEF Envs
  <2> QED
    BY <1>1, <1>9, <1>22, <2>1 DEF Wanted, Meaning
<1>23. Progress'
  <2> SUFFICES ASSUME swept # 0, NEW x \in Envs PROVE Pending(x)' \/ Right(x)'
    BY <1>1 DEF Progress
  <2>1. CASE x = e
    <3>1. x = top \/ Parent[x] # x
      BY Deeper DEF Envs
    <3>2. Wanted(x)' = b
      BY <1>5, <1>22, <2>1, <3>1
    <3> QED
      BY <1>6, <1>9, <2>1, <3>2 DEF Right
  <2>2. CASE x # e /\ Pending(x)
    BY <1>21, <2>2
  <2>3. CASE x # e /\ ~Pending(x)
    <3>1. Right(x)
      BY <1>1, <2>3 DEF Progress
    <3>2. CASE x = top \/ Parent[x] # e
      <4>1. Wanted(x)' = Wanted(x) /\ var'[x] = var[x]
        BY <1>9, <1>22, <2>3, <3>2
      <4> QED
        BY <3>1, <4>1 DEF Right, Calculate
    <3>3. CASE x # top /\ Parent[x] = e
      <4>1. x \in Waiting'
        BY <1>20, <3>3 DEF Envs
      <4> QED
        BY <4>1 DEF Pending
    <3> QED
      BY <3>2, <3>3
  <2> QED
    BY <2>1, <2>2, <2>3
<1> QED
  BY <1>11, <1>14, <1>17, <1>18, <1>23 DEF IInv

\* Going on to the next child keeps the invariant: the checker of the type around it
\* still holds what belongs to the environment around it.
LEMMA NextChildKeeps ==
  ASSUME IInv, NextChild
  PROVE  IInv'
<1> DEFINE F == [env : Envs, solved : BOOLEAN, left : Seq(Envs)]
<1>1. /\ TypeOK /\ Hierarchy /\ Calls /\ StillOurs /\ Progress /\ stack # <<>> /\ stack \in Seq(F)
      /\ Top.solved /\ Top.left # <<>>
      /\ UNCHANGED <<arg, todo, children, kind, result, swept>>
  BY DEF NextChild, IInv, TypeOK
<1>2. PICK c, e, f, g, v :
        /\ c = Head(Top.left) /\ e = Top.env
        /\ f = [Top EXCEPT !.left = Tail(@)]
        /\ g = [env |-> c, solved |-> FALSE, left |-> children[c]]
        /\ v = IF kind[c] = "constant" THEN var[c].p
               ELSE result[TypeOf(Top.env)][arg[Definition[c]].name]
  BY Zenon
<1>3. /\ var' = [var EXCEPT ![c].p = v]
      /\ body' = [body EXCEPT ![Type[c]] = v]
      /\ stack' = <<g>> \o (<<f>> \o Tail(stack))
  BY <1>2 DEF NextChild, Passed, Call
<1>4. Top \in F /\ Top = stack[1] /\ 1 \in DOMAIN stack /\ Len(stack) \in Nat /\ DOMAIN stack = 1 .. Len(stack)
  <2> HIDE DEF F
  <2> QED
    BY <1>1, Pop DEF Top
<1>5. /\ Top.left \in Seq(Envs) /\ e \in Envs /\ c \in Envs /\ Tail(Top.left) \in Seq(Envs)
      /\ Range(Top.left) = Range(Tail(Top.left)) \cup {c}
  BY <1>1, <1>2, <1>4, Pop
<1>6. c \in Range(Instances) /\ Parent[c] = e /\ c \in Range(Top.left)
  BY <1>1, <1>2, <1>4, <1>5, Zenon DEF Calls, Hierarchy
<1>7. /\ c # top /\ TypeOf(c) = Type[c] /\ Type[c] \in Types /\ Depth(e) < Depth(c)
      /\ Depth(e) \in Int /\ Depth(c) \in Int
  BY <1>5, <1>6, Deeper
<1>8. f \in F /\ f.env = e /\ f.solved /\ f.left = Tail(Top.left)
  <2>1. f = [Top EXCEPT !.left = Tail(Top.left)]
    BY <1>2, <1>4
  <2> QED
    BY <1>1, <1>2, <1>4, <1>5, <2>1, Zenon
<1>9. g \in F /\ g.env = c /\ ~g.solved /\ g.left = children[c]
  BY <1>1, <1>2, <1>5 DEF TypeOK
<1> HIDE DEF F
<1>10. /\ stack' \in Seq(F) /\ stack' # <<>> /\ Head(stack') = g /\ stack'[1] = g /\ stack'[2] = f
       /\ DOMAIN stack' = 1 .. Len(stack) + 1
       /\ \A i \in 3 .. Len(stack) + 1 : i - 1 \in DOMAIN stack /\ stack'[i] = stack[i - 1]
  <2> DEFINE s == <<f>> \o Tail(stack)
  <2>1. s \in Seq(F) /\ s # <<>> /\ s[1] = f /\ DOMAIN s = DOMAIN stack
        /\ \A i \in DOMAIN stack : i # 1 => s[i] = stack[i]
    BY <1>1, <1>8, Replace
  <2>2. stack' = <<g>> \o s
    BY <1>3
  <2> HIDE DEF s
  <2>3. /\ stack' \in Seq(F) /\ stack' # <<>> /\ Head(stack') = g /\ stack'[1] = g
        /\ Len(s) \in Nat /\ DOMAIN stack' = 1 .. Len(s) + 1
        /\ \A i \in 2 .. Len(s) + 1 : i - 1 \in DOMAIN s /\ stack'[i] = s[i - 1]
    BY <1>9, <2>1, <2>2, Push
  <2>4. Len(s) = Len(stack)
    BY <1>4, <2>1, <2>3
  <2>5. stack'[2] = f
    BY <1>4, <2>1, <2>3, <2>4
  <2> QED
    BY <1>4, <2>1, <2>3, <2>4, <2>5
<1>11. /\ Given(c) /\ todo = <<>>
       /\ result[TypeOf(e)] = var[e]
  <2>1. todo = <<>>
    BY <1>1 DEF Hierarchy
  <2> QED
    BY <1>1, <1>2, <1>4, <1>6, <2>1, AllGiven DEF StillOurs
<1>12. v = Meaning(c) /\ v \in Int
  <2> DEFINE a == arg[Definition[c]]
  <2>1. /\ a.kind \in {"none", "number", "reference"}
        /\ a.kind = "number" => a.value \in Int
        /\ a.kind = "reference" => a.name \in {"p", "q"}
    BY <1>1, <1>6, ArgKinds
  <2>2. CASE a.kind = "reference"
    <3>1. v = var[e][a.name] /\ Meaning(c) = var[e][a.name]
      BY <1>2, <1>6, <1>11, <2>2 DEF Given, Meaning
    <3>2. var[e] \in [p : Int, q : Int]
      BY <1>1, <1>5 DEF TypeOK
    <3> QED
      BY <2>1, <2>2, <3>1, <3>2
  <2>3. CASE a.kind # "reference"
    <3>1. v = var[c].p /\ var[c].p = Meaning(c)
      BY <1>2, <1>11, <2>3 DEF Given
    <3> QED
      BY <1>1, <1>5, <3>1 DEF TypeOK
  <2> QED
    BY <2>2, <2>3
<1>13. /\ var' \in [Envs -> [p : Int, q : Int]] /\ var'[c].p = v
       /\ \A x \in Envs \ {c} : var'[x] = var[x]
  BY <1>1, <1>3, <1>5, <1>12, SetP, Zenon DEF TypeOK
<1>14. body' \in [Types \cup {top} -> Int] /\ body'[Type[c]] = v
  BY <1>1, <1>3, <1>7, <1>12 DEF TypeOK
<1>15. TypeOK'
  BY <1>1, <1>10, <1>13, <1>14, Zenon DEF TypeOK, F
<1>16. Hierarchy'
  <2>1. arg[Definition[c]].kind # "reference" => v = var[c].p
    BY <1>11, <1>12 DEF Given
  <2>2. \A x \in Range(Instances) : arg[Definition[x]].kind # "reference" => var'[x].p = var[x].p
    BY <1>13, <2>1, Deeper
  <2> QED
    BY <1>1, <1>11, <2>2, HierarchyStays
<1>17. ASSUME NEW i \in DOMAIN stack', i # 1
       PROVE  /\ i - 1 \in DOMAIN stack /\ stack[i - 1] \in F /\ stack[i - 1].solved
              /\ stack'[i].env = stack[i - 1].env /\ stack'[i].solved
              /\ Range(stack'[i].left) \subseteq Range(stack[i - 1].left)
              /\ i # 2 => stack'[i] = stack[i - 1]
  <2>1. i - 1 \in DOMAIN stack /\ stack[i - 1] \in F
    BY <1>1, <1>4, <1>10, <1>17
  <2>2. CASE i = 2
    <3>1. stack'[i] = f /\ stack[i - 1] = Top
      BY <1>4, <1>10, <2>2
    <3>2. Top.env = e /\ Range(f.left) \subseteq Range(Top.left)
      BY <1>2, <1>5, <1>8
    <3> QED
      BY <1>1, <1>8, <2>1, <2>2, <3>1, <3>2
  <2>3. CASE i # 2
    <3>1. i \in 3 .. Len(stack) + 1 /\ i - 1 > 1
      BY <1>4, <1>10, <1>17, <2>3
    <3>2. stack'[i] = stack[i - 1] /\ stack[i - 1].solved
      BY <1>1, <1>10, <2>1, <3>1 DEF Calls
    <3> QED
      BY <2>1, <3>2
  <2> QED
    BY <2>2, <2>3
<1>18. ASSUME NEW i \in DOMAIN stack', i # 1
       PROVE  stack'[i].env \in Envs /\ Depth(stack'[i].env) < Depth(c)
  <2>1. /\ i - 1 \in DOMAIN stack /\ stack'[i].env = stack[i - 1].env /\ stack'[i].env \in Envs
    BY <1>17, <1>18 DEF F
  <2>2. CASE i - 1 = 1
    BY <1>2, <1>4, <1>7, <2>1, <2>2
  <2>3. CASE i - 1 # 1
    <3>1. 1 < i - 1
      <4>1. i - 1 \in 1 .. Len(stack) /\ Len(stack) \in Nat
        BY <1>4, <2>1
      <4>2. i \in Int
        BY <1>4, <1>10
      <4> QED
        BY <2>3, <4>1, <4>2
    <3>2. Depth(stack[i - 1].env) < Depth(e)
      BY <1>1, <1>2, <1>4, <2>1, <3>1 DEF Calls
    <3> QED
      BY <1>7, <2>1, <3>2, Deeper
  <2> QED
    BY <2>1, <2>2, <2>3
<1>19. var'[e] = var[e] /\ e # c
  BY <1>5, <1>7, <1>13
<1>20. Calls'
  <2>1. ASSUME NEW i \in DOMAIN stack'
        PROVE  /\ i > 1 => stack'[i].solved
               /\ ~stack'[i].solved => stack'[i].left = children'[stack'[i].env]
               /\ Range(stack'[i].left) \subseteq Range(children'[stack'[i].env])
    <3>1. CASE i = 1
      BY <1>1, <1>9, <1>10, <3>1
    <3>2. CASE i # 1
      <4>1. Range(stack[i - 1].left) \subseteq Range(children[stack[i - 1].env])
        BY <1>1, <1>17, <3>2 DEF Calls
      <4> QED
        BY <1>1, <1>17, <3>2, <4>1
    <3> QED
      BY <3>1, <3>2
  <2>2. ASSUME NEW i \in DOMAIN stack', NEW j \in DOMAIN stack', i < j
        PROVE  Depth(stack'[j].env) < Depth(stack'[i].env)
    <3>1. j # 1
      BY <1>4, <1>10, <2>2
    <3>2. CASE i = 1
      BY <1>9, <1>10, <1>18, <3>1, <3>2
    <3>3. CASE i # 1
      <4>1. /\ i - 1 \in DOMAIN stack /\ stack'[i].env = stack[i - 1].env
            /\ j - 1 \in DOMAIN stack /\ stack'[j].env = stack[j - 1].env
        BY <1>17, <3>1, <3>3
      <4>2. i - 1 < j - 1
        BY <1>4, <1>10, <2>2
      <4>3. Depth(stack[j - 1].env) < Depth(stack[i - 1].env)
        BY <1>1, <4>1, <4>2 DEF Calls
      <4> QED
        BY <4>1, <4>3
    <3> QED
      BY <3>2, <3>3
  <2>3. Wanted(c)' = v
    BY <1>1, <1>6, <1>7, <1>12, <1>19 DEF Wanted, Meaning
  <2>4. Top' = g
    BY <1>10 DEF Top
  <2>5. var'[Top'.env].p = body'[TypeOf(Top'.env)] /\ var'[Top'.env].p = Wanted(c)' /\ Top'.env = c
    BY <1>7, <1>9, <1>13, <1>14, <2>3, <2>4
  <2>6. var'[Top'.env].p = Wanted(Top.env)'
    BY <2>5 DEF Wanted, Meaning
  <2> QED
    BY <2>1, <2>2, <2>5, <2>6 DEF Calls
<1>21. StillOurs'
  <2> SUFFICES ASSUME NEW i \in DOMAIN stack', stack'[i].solved
               PROVE  result'[TypeOf(stack'[i].env)] = var'[stack'[i].env]
    BY DEF StillOurs
  <2>1. i # 1
    BY <1>9, <1>10
  <2>2. stack'[i].env = stack[i - 1].env /\ i - 1 \in DOMAIN stack /\ stack[i - 1].solved
    BY <1>17, <2>1
  <2>3. result[TypeOf(stack[i - 1].env)] = var[stack[i - 1].env]
    BY <1>1, <2>2 DEF StillOurs
  <2>4. stack'[i].env \in Envs \ {c}
    BY <1>7, <1>18, <2>1
  <2> QED
    BY <1>1, <1>13, <2>2, <2>3, <2>4
<1>22. Waiting \subseteq Waiting' /\ c \in Waiting
  <2>1. c \in Waiting /\ c \in Waiting'
    <3>1. 1 \in DOMAIN stack'
      BY <1>4, <1>10
    <3> QED
      BY <1>4, <1>5, <1>6, <1>9, <1>10, <3>1, Zenon DEF Waiting
  <2>2. ASSUME NEW x \in Waiting PROVE x \in Waiting'
    <3>1. x \in Envs
      BY <2>2 DEF Waiting
    <3>2. PICK i \in DOMAIN stack : x \in Range(stack[i].left) \/ (~stack[i].solved /\ x = stack[i].env)
      BY <2>2 DEF Waiting
    <3>3. i + 1 \in DOMAIN stack' /\ i + 1 # 1 /\ (i + 1) - 1 = i
      BY <1>4, <1>10
    <3>4. x \in Range(stack[i].left)
      BY <1>17, <3>2, <3>3
    <3>5. CASE i = 1
      <4>1. x \in Range(Tail(Top.left)) \/ x = c
        BY <1>4, <1>5, <3>4, <3>5
      <4>2. 2 \in DOMAIN stack' /\ stack'[2].left = Tail(Top.left)
        BY <1>4, <1>8, <1>10
      <4> QED
        BY <2>1, <3>1, <4>1, <4>2 DEF Waiting
    <3>6. CASE i # 1
      <4>1. stack'[i + 1] = stack[i]
        BY <1>4, <1>17, <3>3, <3>6
      <4> QED
        BY <3>1, <3>3, <3>4, <4>1 DEF Waiting
    <3> QED
      BY <3>5, <3>6
  <2> QED
    BY <2>1, <2>2
<1>23. Progress'
  <2> SUFFICES ASSUME swept # 0, NEW x \in Envs, ~Pending(x)' PROVE Right(x)'
    BY <1>1 DEF Progress
  <2>1. PICK S \in SUBSET Envs : Waiting' \subseteq S /\ Closed(S) /\ x \notin S
    BY DEF Pending
  <2>2. ~Pending(x) /\ c \in S
    BY <1>22, <2>1 DEF Pending
  <2>3. Right(x)
    BY <1>1, <2>2 DEF Progress
  <2>4. x # c /\ (x # top => Parent[x] # c /\ Parent[x] \in Envs)
    BY <2>1, <2>2, Deeper DEF Closed, Envs
  <2>5. var'[x] = var[x] /\ Wanted(x)' = Wanted(x)
    BY <1>1, <1>13, <2>4 DEF Wanted, Meaning
  <2> QED
    BY <2>3, <2>5 DEF Right
<1> QED
  BY <1>15, <1>16, <1>20, <1>21, <1>23 DEF IInv

-----------------------------------------------------------------------------
(* The invariant. *)

\* It holds in the initial states.
LEMMA Starts == Init => IInv
<1> SUFFICES ASSUME Init PROVE IInv
  OBVIOUS
<1>1. Values(0, 0) \in [p : Int, q : Int]
  BY DEF Values
<1>2. /\ var \in [Envs -> [p : Int, q : Int]]
      /\ result \in [Types \cup {top} -> [p : Int, q : Int]]
  BY <1>1 DEF Init
<1>3. children \in [Envs -> Seq(Envs)] /\ \A e \in Envs : Range(children[e]) = {}
  <2>1. children = [e \in Envs |-> <<>>] /\ <<>> \in Seq(Envs) /\ Range(<<>>) = {}
    BY DEF Init, Range
  <2> QED
    BY <2>1
<1>4. body \in [Types \cup {top} -> Int]
  BY TypesAssumption DEF Init
<1>5. TypeOK
  BY <1>2, <1>3, <1>4 DEF Init, TypeOK
<1>6. Hierarchy
  <2>1. todo = Instances /\ Instances \in Seq(Range(Instances)) /\ Len(Instances) \in Nat
    BY TypesAssumption DEF Init
  <2>2. Expanded = {}
    BY <2>1 DEF Expanded
  <2>3. \A j \in 1 .. Len(todo) : todo[j] = Instances[Len(Instances) - Len(todo) + j]
    BY <2>1
  <2>4. kind[top] = "constant" /\ \A e \in Range(Instances) : kind[e] = "constant"
    BY Deeper DEF Init, Envs
  <2> QED
    BY <1>3, <2>1, <2>2, <2>3, <2>4 DEF Hierarchy, Init
<1> QED
  BY <1>5, <1>6 DEF IInv, Init, Calls, StillOurs, Progress

\* Every step keeps the invariant.
LEMMA Steps == IInv /\ [Next]_vars => IInv'
<1> SUFFICES ASSUME IInv, [Next]_vars PROVE IInv'
  OBVIOUS
<1>1. CASE UNCHANGED vars
  <2>1. TypeOK' /\ StillOurs'
    BY <1>1 DEF vars, IInv, TypeOK, StillOurs
  <2>2. Hierarchy'
    BY <1>1, Zenon DEF vars, IInv, Hierarchy, Expanded, Given, Meaning
  <2>3. Calls'
    BY <1>1, Zenon DEF vars, IInv, Calls, Top, Wanted, Meaning
  <2>4. Progress'
    BY <1>1 DEF vars, IInv, Progress, Pending, Waiting, Right, Wanted, Meaning
  <2> QED
    BY <2>1, <2>2, <2>3, <2>4 DEF IInv
<1> QED
  BY <1>1, ExpandKeeps, SweepPointKeeps, SolveKeeps, NextChildKeeps, ReturnKeeps DEF Next

\* It is an invariant of the program.
THEOREM Inductive == Spec => []IInv
BY Starts, Steps, PTL DEF Spec

\* Environments, checkers and the calls of runSolver have their types.
THEOREM TypeCorrect == Spec => []TypeOK
<1>1. IInv => TypeOK
  BY DEF IInv
<1> QED
  BY <1>1, Inductive, PTL

\* The checker an environment shares with all of its type still holds its own results
\* while its children are solved (runSolver, updateReferences).
THEOREM SharedCheckerIsOurs == Spec => []StillOurs
<1>1. IInv => StillOurs
  BY DEF IInv
<1> QED
  BY <1>1, Inductive, PTL

\* After each sweep point every instance has the parameters it was given and the
\* results computed from them (runSolver), whatever the subcircuits, their nesting
\* and their parameters are.
THEOREM InstancesHaveOwnValues == Spec => []OwnValues
<1>1. IInv => OwnValues
  <2> SUFFICES ASSUME IInv, stack = <<>>, swept # 0, NEW e \in Envs
               PROVE  /\ var[e].p = IF e = top THEN swept ELSE Meaning(e)
                      /\ var[e].q = Calculate(var[e].p)
    BY DEF OwnValues
  <2>1. Waiting = {} /\ Closed({})
    BY DEF Waiting, Closed
  <2>2. ~Pending(e)
    BY <2>1 DEF Pending
  <2>3. Right(e)
    BY <2>2 DEF IInv, Progress
  <2> QED
    BY <2>3 DEF Right, Wanted
<1> QED
  BY <1>1, Inductive, PTL
=============================================================================
