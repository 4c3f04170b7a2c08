------------------------- MODULE EquationsInvariant -------------------------
(***************************************************************************)
(* The inductive invariant of Equations, for any netlist, dataset and      *)
(* number of runs: what it says, that it implies the properties, and that  *)
(* the solver keeps it.                                                    *)
(*                                                                         *)
(* Once an error was found nothing is evaluated any more, so most of the   *)
(* invariant is about what the checker has not refused.                    *)
(***************************************************************************)
EXTENDS Equations, TLAPS

\* The equations in either list.
Listed == Members(root) \cup Members(equations)

\* The equations of the two lists are different, and where the walk over them is.
Places ==
  /\ Distinct(root) /\ Distinct(equations) /\ Members(root) \cap Members(equations) = {}
  /\ phase # "reorder" => root = <<>> /\ equations # <<>>
  /\ pos \in Nat \ {0}
  /\ phase = "cycles" => pos \in DOMAIN equations
  /\ phase = "reorder" => pos = 1
  /\ phase \in {"collect", "checked", "evaluate", "done"} => ~err
  /\ phase = "evaluate" => run > 0
  /\ phase = "checked" => run <= MaxSolves

\* What the equations are, and what those that are no netlist equations refer to.
Sources ==
  /\ refs \in [AllEquations -> SUBSET Variables]
  /\ data \in Datasets
  /\ \A e \in DataEquations : refs[e] = {}
  /\ \A e \in PropertyEquations : \A v \in refs[e] : \E f \in NetlistEquations \cap Listed : Result(f) = v
  /\ NetlistEquations \cap Listed \in {Members(l) : l \in Lists}
  /\ PropertyEquations \cap Listed =
       {e \in PropertyEquations :
          /\ run > 0 \/ phase # "collect"
          /\ \E f \in Listed : Result(e) \in refs[f]
          /\ \A f \in Listed \cap NetlistEquations : Result(f) # Result(e)}
  /\ DataEquations \cap Listed = {e \in DataEquations : Final /\ Result(e) \in data}

\* Equations the checker has seen; the others have no marks.
Seen(e) == duplicate[e] # 0

Marks ==
  /\ \A e \in AllEquations \ Listed : ~Seen(e)
  /\ \A e \in AllEquations : ~Seen(e) => e \notin evalPossible
  /\ Members(root) \subseteq evalPossible
  /\ phase # "collect" => \A e \in Listed : Seen(e)

\* The names of the equations seen are different.
Names ==
  ~err => \A e, f \in Listed : Seen(e) /\ Seen(f) /\ Result(e) = Result(f) => e = f

\* Variables defined by the new list or by evaluable equations before position i.
Behind(i) ==
  {Result(f) : f \in Members(root)}
    \cup {Result(equations[j]) : j \in {k \in 1 .. i - 1 : equations[k] \in evalPossible}}

\* The new list is in the order of evaluation, and so are the equations that were
\* found to be evaluable in an earlier run.
Order ==
  ~err =>
    /\ \A i \in DOMAIN root :
         /\ root[i] \in evalPossible
         /\ \A v \in dependencies[root[i]] \ Generated : \E j \in 1 .. i - 1 : Result(root[j]) = v
    /\ \A i \in DOMAIN equations :
         equations[i] \in evalPossible => dependencies[equations[i]] \ Generated \subseteq Behind(i)
    /\ phase = "cycles" /\ equations[pos] \in evalPossible =>
         (deps \cup seen) \ Generated \subseteq Behind(pos)

\* Dependencies contain what an equation refers to.
Contained ==
  /\ \A e \in AllEquations : Seen(e) => refs[e] \subseteq dependencies[e]
  /\ phase = "cycles" =>
       /\ refs[equations[pos]] \subseteq deps \cup seen
       /\ \A i \in DOMAIN equations : i >= pos => dependencies[equations[i]] = refs[equations[i]]

\* What detectCycles has done with the equations before pos.
Folded ==
  ~err =>
    /\ phase # "cycles" => cycle = {}
    /\ phase = "cycles" =>
         /\ cycle \subseteq {equations[pos]}
         /\ equations[pos] \notin cycle => deps = refs[equations[pos]]
         /\ \A i \in 1 .. pos - 1 :
              LET e == equations[i] IN
              /\ Result(e) \notin dependencies[e]
              /\ \A f \in Members(equations) : Result(f) \in refs[e] => refs[f] \subseteq dependencies[e]
              /\ \A j \in 1 .. i - 1 : Result(equations[j]) \in refs[e]
                   => dependencies[equations[j]] \subseteq dependencies[e]

\* No equations refer to each other in a circle of one, two or three.
NoShortCycle ==
  phase \notin {"collect", "cycles"} /\ ~err =>
    \A e, f \in Listed : Result(f) \in refs[e] =>
      /\ Result(e) \notin refs[f]
      /\ \A g \in Listed : Result(g) \in refs[f] => Result(e) \notin refs[g]

\* The variables an equation leads to by way of the equations in either list.
Closed(S) == \A f \in Listed : Result(f) \in S => refs[f] \subseteq S
Lead(e) == {v \in Variables : \A S \in SUBSET Variables : refs[e] \subseteq S /\ Closed(S) => v \in S}

\* Dependencies are variables the equation leads to.
Followed ==
  phase # "collect" =>
    /\ \A e \in Listed : dependencies[e] \subseteq Lead(e)
    /\ phase = "cycles" => deps \cup seen \subseteq Lead(equations[pos])

\* An equation the checker did not mark leads to something that is not evaluable.
Stuck ==
  Accepted => \A e \in Listed \ evalPossible : \E v \in Lead(e) \ Generated :
                \A f \in Listed \cap evalPossible : Result(f) # v

\* The evaluable equations before pos have been evaluated in this run.
Progress ==
  phase = "evaluate" =>
    \A i \in DOMAIN equations : i < pos /\ equations[i] \in evalPossible
                                  => evaluated[equations[i]] = run

IInv ==
  /\ TypeOK /\ Places /\ Sources /\ Marks /\ Names /\ Order /\ Contained
  /\ Folded /\ NoShortCycle /\ Followed /\ Stuck /\ Progress

(* Three facts about counting and searching that the steps below use.  They  *)
(* follow from theorems about finite sets: see EquationsProofs.              *)

\* The numbers reorderEquations compares tell whether all is defined.
Counted ==
  \A e \in AllEquations : Ready(e) <=> \A v \in dependencies[e] \ Generated : Defines(root, v)

\* findEquation returns an equation of the list for the variable.
Finds ==
  \A v : Defines(equations, v) =>
    /\ findEquation(equations, v) \in Members(equations)
    /\ Result(findEquation(equations, v)) = v

\* The equations made for a set of names, in any order.
Enumerates(S, o) ==
  \A ps \in Orderings(S) :
    LET q == [i \in DOMAIN ps |-> Equation(ps[i], o)] IN
    /\ q \in Seq({Equation(p, o) : p \in S}) /\ Distinct(q)
    /\ Members(q) = {Equation(p, o) : p \in S}

-----------------------------------------------------------------------------
(* Equations and lists of them. *)

\* Where an equation comes from can be told, and what it defines is not a name
\* made by the solver.
LEMMA Kinds ==
  /\ NetlistEquations \subseteq AllEquations /\ PropertyEquations \subseteq AllEquations
  /\ DataEquations \subseteq AllEquations
  /\ NetlistEquations \cap PropertyEquations = {} /\ NetlistEquations \cap DataEquations = {}
  /\ PropertyEquations \cap DataEquations = {}
  /\ AllEquations = NetlistEquations \cup PropertyEquations \cup DataEquations
  /\ \A e \in AllEquations : Result(e) \in Variables \ Generated
<1>1. \A e \in PropertyEquations : e[2] = "property"
  BY DEF PropertyEquations, Equation
<1>2. \A e \in DataEquations : e[2] = "data"
  BY DEF DataEquations, Equation
<1>3. \A e \in AllEquations : Result(e) \in Variables \ Generated
  BY NamesAssumption DEF Variables
<1> QED
  BY <1>1, <1>2, <1>3, ListsAssumption DEF AllEquations

\* Two lists, one after the other.
LEMMA Concat ==
  ASSUME NEW A, NEW s \in Seq(A), NEW t \in Seq(A)
  PROVE  /\ s \o t \in Seq(A) /\ Len(s) \in Nat /\ Len(t) \in Nat
         /\ DOMAIN s = 1 .. Len(s) /\ DOMAIN t = 1 .. Len(t)
         /\ DOMAIN (s \o t) = 1 .. Len(s) + Len(t)
         /\ \A i \in 1 .. Len(s) : (s \o t)[i] = s[i]
         /\ \A i \in 1 .. Len(t) : (s \o t)[Len(s) + i] = t[i]
         /\ \A i \in DOMAIN (s \o t) : i \notin 1 .. Len(s) => i - Len(s) \in 1 .. Len(t)
         /\ Members(s \o t) = Members(s) \cup Members(t)
<1> DEFINE u == s \o t
<1>1. u \in Seq(A) /\ Len(s) \in Nat /\ Len(t) \in Nat
  OBVIOUS
<1>2. /\ DOMAIN s = 1 .. Len(s) /\ DOMAIN t = 1 .. Len(t)
      /\ DOMAIN u = 1 .. Len(s) + Len(t)
  OBVIOUS
<1>3. \A i \in 1 .. Len(s) : u[i] = s[i]
  OBVIOUS
<1>4. \A i \in 1 .. Len(t) : u[Len(s) + i] = t[i]
  OBVIOUS
<1> HIDE DEF u
<1>5. \A i \in 1 .. Len(s) + Len(t) :
        i \notin 1 .. Len(s) => i - Len(s) \in 1 .. Len(t) /\ i = Len(s) + (i - Len(s))
  BY <1>1
<1>6. /\ \A i \in 1 .. Len(s) : i \in 1 .. Len(s) + Len(t)
      /\ \A i \in 1 .. Len(t) : Len(s) + i \in 1 .. Len(s) + Len(t)
  BY <1>1
<1>7. Members(u) = Members(s) \cup Members(t)
  <2>1. ASSUME NEW i \in 1 .. Len(s) + Len(t)
        PROVE  u[i] \in Members(s) \cup Members(t)
    <3>1. CASE i \in 1 .. Len(s)
      BY <3>1, <1>2, <1>3, Zenon DEF Members
    <3>2. CASE i \notin 1 .. Len(s)
      <4>1. i - Len(s) \in DOMAIN t /\ u[i] = t[i - Len(s)]
        BY <3>2, <1>2, <1>4, <1>5, Zenon
      <4> QED
        BY <4>1, Zenon DEF Members
    <3> QED
      BY <3>1, <3>2
  <2>2. ASSUME NEW i \in DOMAIN s PROVE s[i] \in Members(u)
    BY <1>2, <1>3, <1>6, Zenon DEF Members
  <2>3. ASSUME NEW i \in DOMAIN t PROVE t[i] \in Members(u)
    BY <1>2, <1>4, <1>6, Zenon DEF Members
  <2> QED
    BY <2>1, <2>2, <2>3, <1>2, Zenon DEF Members
<1> QED
  BY <1>1, <1>2, <1>3, <1>4, <1>5, <1>7 DEF u

\* Two lists put together have no equation twice if neither has, and they share none.
LEMMA ConcatInjective ==
  ASSUME NEW A, NEW s \in Seq(A), NEW t \in Seq(A)
  PROVE  Distinct(s \o t) <=>
           Distinct(s) /\ Distinct(t) /\ Members(s) \cap Members(t) = {}
<1> DEFINE u == s \o t
           m == Len(s)
           n == Len(t)
<1>1. m \in Nat /\ n \in Nat /\ DOMAIN s = 1 .. m /\ DOMAIN t = 1 .. n /\ DOMAIN u = 1 .. m + n
  BY Concat
<1>2. /\ \A i \in 1 .. m : u[i] = s[i]
      /\ \A i \in 1 .. n : u[m + i] = t[i]
  BY Concat
<1> HIDE DEF u, m, n
<1>3. \A i \in 1 .. m + n : i \in 1 .. m \/ \E k \in 1 .. n : i = m + k
  <2> TAKE i \in 1 .. m + n
  <2>1. i \notin 1 .. m => i - m \in 1 .. n /\ i = m + (i - m)
    BY <1>1
  <2> QED
    BY <2>1, Zenon
<1>4. /\ \A i \in 1 .. m : i \in 1 .. m + n
      /\ \A i \in 1 .. n : m + i \in 1 .. m + n
      /\ \A i, j \in 1 .. n : m + i = m + j => i = j
      /\ \A i \in 1 .. m, j \in 1 .. n : i # m + j
  BY <1>1
<1>5. ASSUME Distinct(u)
      PROVE  Distinct(s) /\ Distinct(t) /\ Members(s) \cap Members(t) = {}
  <2>1. \A i, j \in 1 .. m + n : u[i] = u[j] => i = j
    BY <1>1, <1>5, Zenon DEF Distinct
  <2>2. Distinct(s)
    BY <2>1, <1>1, <1>2, <1>4, Zenon DEF Distinct
  <2>3. Distinct(t)
    <3> SUFFICES ASSUME NEW i \in 1 .. n, NEW j \in 1 .. n, t[i] = t[j]
                 PROVE  i = j
      BY <1>1, Zenon DEF Distinct
    <3>1. u[m + i] = u[m + j]
      BY <1>2, Zenon
    <3> QED
      BY <3>1, <2>1, <1>4, Zenon
  <2>4. ASSUME NEW i \in 1 .. m, NEW j \in 1 .. n, s[i] = t[j]
        PROVE  FALSE
    BY <2>1, <2>4, <1>2, <1>4, Zenon
  <2> QED
    BY <2>2, <2>3, <2>4, <1>1, Zenon DEF Members
<1>6. ASSUME Distinct(s), Distinct(t), Members(s) \cap Members(t) = {}
      PROVE  Distinct(u)
  <2> SUFFICES ASSUME NEW i \in 1 .. m + n, NEW j \in 1 .. m + n, u[i] = u[j]
               PROVE  i = j
    BY <1>1, Zenon DEF Distinct
  <2>1. \A k \in 1 .. m, l \in 1 .. n : s[k] # t[l]
    BY <1>1, <1>6, Zenon DEF Members
  <2>2. CASE i \in 1 .. m /\ j \in 1 .. m
    BY <2>2, <1>1, <1>2, <1>6, Zenon DEF Distinct
  <2>3. ASSUME NEW k \in 1 .. n, i = m + k, j \in 1 .. m PROVE FALSE
    BY <2>1, <2>3, <1>2, Zenon
  <2>4. ASSUME NEW k \in 1 .. n, j = m + k, i \in 1 .. m PROVE FALSE
    BY <2>1, <2>4, <1>2, Zenon
  <2>5. ASSUME NEW k \in 1 .. n, i = m + k, NEW l \in 1 .. n, j = m + l PROVE i = j
    <3>1. t[k] = t[l]
      BY <2>5, <1>2, Zenon
    <3> QED
      BY <3>1, <2>5, <1>1, <1>6, Zenon DEF Distinct
  <2> QED
    BY <2>2, <2>3, <2>4, <2>5, <1>3, Zenon
<1> QED
  BY <1>5, <1>6, Zenon DEF u

\* A list without one of its elements.
LEMMA Removed ==
  ASSUME NEW A, NEW s \in Seq(A), NEW i \in DOMAIN s
  PROVE  LET r == dropEquation(s, i) IN
         /\ r \in Seq(A) /\ Len(s) \in Nat /\ Len(r) = Len(s) - 1
         /\ DOMAIN r = 1 .. Len(s) - 1 /\ DOMAIN s = 1 .. Len(s)
         /\ \A j \in DOMAIN r : r[j] = IF j < i THEN s[j] ELSE s[j + 1]
<1> DEFINE a == SubSeq(s, 1, i - 1)
           b == SubSeq(s, i + 1, Len(s))
<1>1. i \in Nat /\ Len(s) \in Nat /\ 1 <= i /\ i <= Len(s) /\ DOMAIN s = 1 .. Len(s)
  OBVIOUS
<1>2. /\ a \in Seq(A) /\ Len(a) = i - 1 /\ \A j \in 1 .. i - 1 : a[j] = s[j]
  BY <1>1
<1>3. /\ b \in Seq(A) /\ Len(b) = Len(s) - i /\ \A j \in 1 .. Len(s) - i : b[j] = s[i + j]
  BY <1>1
<1> DEFINE r == a \o b
<1>4. a \in Seq(A) /\ b \in Seq(A)
  BY <1>2, <1>3
<1> HIDE DEF a, b
<1>5. /\ r \in Seq(A) /\ DOMAIN r = 1 .. Len(a) + Len(b) /\ Len(r) = Len(a) + Len(b)
      /\ \A j \in 1 .. Len(a) : r[j] = a[j]
      /\ \A j \in 1 .. Len(b) : r[Len(a) + j] = b[j]
  BY <1>4, Concat
<1> HIDE DEF r
<1>6. Len(a) + Len(b) = Len(s) - 1
  BY <1>1, <1>2, <1>3
<1>7. ASSUME NEW j \in 1 .. Len(s) - 1, j < i
      PROVE  r[j] = s[j]
  <2>1. j \in 1 .. i - 1
    BY <1>1, <1>7
  <2> QED
    BY <2>1, <1>2, <1>5, Zenon
<1>8. ASSUME NEW j \in 1 .. Len(s) - 1, ~(j < i)
      PROVE  r[j] = s[j + 1]
  <2> DEFINE k == j - (i - 1)
  <2>1. k \in 1 .. Len(s) - i /\ (i - 1) + k = j /\ i + k = j + 1
    BY <1>1, <1>8
  <2> HIDE DEF k
  <2>2. r[(i - 1) + k] = b[k]
    BY <2>1, <1>2, <1>3, <1>5, Zenon
  <2>3. b[k] = s[i + k]
    BY <2>1, <1>3, Zenon
  <2> QED
    BY <2>1, <2>2, <2>3, Zenon
<1>9. dropEquation(s, i) = r
  BY DEF dropEquation, a, b, r
<1>10. \A j \in 1 .. Len(s) - 1 : r[j] = IF j < i THEN s[j] ELSE s[j + 1]
  BY <1>7, <1>8
<1> QED
  BY <1>1, <1>5, <1>6, <1>9, <1>10, Zenon

\* The two lists of a state.
LEMMA TwoLists ==
  ASSUME IInv
  PROVE  /\ equations \in Seq(AllEquations) /\ root \in Seq(AllEquations)
         /\ Len(equations) \in Nat /\ DOMAIN equations = 1 .. Len(equations)
         /\ Len(root) \in Nat /\ DOMAIN root = 1 .. Len(root)
         /\ \A i \in DOMAIN equations : equations[i] \in AllEquations /\ equations[i] \in Listed
         /\ \A e \in Listed : e \in AllEquations
<1>1. equations \in Seq(AllEquations) /\ root \in Seq(AllEquations)
  BY Zenon DEF IInv, TypeOK
<1>2. /\ Len(equations) \in Nat /\ DOMAIN equations = 1 .. Len(equations)
      /\ Len(root) \in Nat /\ DOMAIN root = 1 .. Len(root)
  BY <1>1
<1>3. /\ \A i \in DOMAIN equations : equations[i] \in AllEquations
      /\ \A i \in DOMAIN root : root[i] \in AllEquations
  BY <1>1
<1> QED
  BY <1>1, <1>2, <1>3, Zenon DEF Listed, Members

-----------------------------------------------------------------------------
(* The variables an equation leads to. *)

\* An equation leads to what it refers to.
LEMMA LeadType ==
  ASSUME Sources, NEW e \in AllEquations
  PROVE  Lead(e) \subseteq Variables /\ refs[e] \subseteq Lead(e)
BY DEF Sources, Lead

\* It leads to whatever the equations for these variables lead to.
LEMMA LeadStep ==
  ASSUME NEW e, NEW f \in Listed, Result(f) \in Lead(e)
  PROVE  Lead(f) \subseteq Lead(e)
BY DEF Lead, Closed

\* It leads to nothing outside a closed set that contains its references.
LEMMA LeadWithin ==
  ASSUME NEW e, NEW S \in SUBSET Variables, refs[e] \subseteq S, Closed(S)
  PROVE  Lead(e) \subseteq S
BY DEF Lead

\* When the new list is empty these are the variables the properties speak of.
LEMMA LeadsAgree ==
  ASSUME root = <<>>
  PROVE  Listed = Members(equations) /\ \A e : AllLeads(e) = Lead(e)
<1>1. Members(root) = {}
  BY DEF Members
<1>2. Listed = Members(equations)
  BY <1>1 DEF Listed
<1>3. \A S : Refs(S) \subseteq S <=> Closed(S)
  BY <1>2 DEF Refs, Closed
<1> QED
  BY <1>2, <1>3, Zenon DEF AllLeads, Lead

\* An accepted list, in short.
LEMMA Good ==
  ASSUME IInv, Accepted
  PROVE  /\ root = <<>> /\ ~err /\ Listed = Members(equations) /\ Members(root) = {}
         /\ equations \in Seq(AllEquations) /\ Len(equations) \in Nat
         /\ DOMAIN equations = 1 .. Len(equations)
         /\ \A i \in DOMAIN equations : equations[i] \in AllEquations /\ equations[i] \in Listed
         /\ \A e \in Listed : e \in AllEquations /\ Result(e) \in Variables \ Generated
         /\ \A e, f \in Listed : Result(e) = Result(f) => e = f
         /\ \A e : AllLeads(e) = Lead(e)
<1>1. root = <<>> /\ ~err
  BY DEF IInv, Places, Accepted
<1>2. Members(root) = {}
  BY <1>1 DEF Members
<1>3. Listed = Members(equations) /\ \A e : AllLeads(e) = Lead(e)
  BY <1>1, LeadsAgree
<1>4. \A e \in AllEquations : Result(e) \in Variables \ Generated
  BY Kinds
<1>5. \A e, f \in Listed : Result(e) = Result(f) => e = f
  BY <1>1 DEF IInv, Names, Marks, Accepted
<1> QED
  BY <1>1, <1>2, <1>3, <1>4, <1>5, TwoLists, Zenon

\* What evaluable equations before an evaluable one define is all it leads to.
LEMMA EvaluableLeads ==
  ASSUME IInv, Accepted, NEW i \in DOMAIN equations, equations[i] \in evalPossible
  PROVE  Lead(equations[i]) \subseteq Behind(i) \cup Generated
<1> DEFINE S == Behind(i) \cup Generated
<1>1. ~err /\ Members(root) = {}
  BY Good
<1>2. /\ Len(equations) \in Nat /\ DOMAIN equations = 1 .. Len(equations)
      /\ \A j \in DOMAIN equations : equations[j] \in AllEquations
      /\ \A j \in DOMAIN equations : equations[j] \in Listed
  BY Good
<1>3. \A j \in DOMAIN equations : equations[j] \in evalPossible =>
        refs[equations[j]] \ Generated \subseteq Behind(j)
  BY <1>1, <1>2 DEF IInv, Order, Contained, Marks, Accepted
<1>4. S \in SUBSET Variables
  BY <1>1, <1>2, Kinds, NamesAssumption DEF Behind
<1>5. \A j \in DOMAIN equations : j < i => Behind(j) \subseteq Behind(i)
  BY <1>2 DEF Behind
<1>6. ASSUME NEW f \in Listed, Result(f) \in S
      PROVE  refs[f] \subseteq S
  <2>1. Result(f) \notin Generated
    BY Good
  <2>2. PICK j \in 1 .. i - 1 : Result(equations[j]) = Result(f) /\ equations[j] \in evalPossible
    BY <1>1, <1>6, <2>1 DEF Behind
  <2>3. j \in DOMAIN equations /\ j < i
    BY <1>2
  <2>4. f = equations[j]
    BY <1>2, <2>2, <2>3, Good
  <2> QED
    BY <1>3, <1>5, <2>2, <2>3, <2>4
<1>7. Closed(S)
  BY <1>6 DEF Closed
<1>8. refs[equations[i]] \subseteq S
  BY <1>3
<1> QED
  BY <1>4, <1>7, <1>8, LeadWithin

-----------------------------------------------------------------------------
(* What the invariant says about accepted equations. *)

\* What a marked equation leads to is defined before it and is not in a cycle.
LEMMA MarkedAreEvaluable ==
  ASSUME IInv, Accepted, NEW e \in Listed, e \in evalPossible, NEW v \in Lead(e) \ Generated
  PROVE  \E f \in Listed : Result(f) = v /\ Result(f) \notin Lead(f)
<1> USE Good
<1>1. PICK i \in DOMAIN equations : equations[i] = e
  BY DEF Members
<1>2. v \in Behind(i)
  BY <1>1, EvaluableLeads
<1>3. PICK j \in 1 .. i - 1 : Result(equations[j]) = v /\ equations[j] \in evalPossible
  BY <1>2 DEF Behind
<1>4. j \in DOMAIN equations
  OBVIOUS
<1>5. Lead(equations[j]) \subseteq Behind(j) \cup Generated
  BY <1>3, <1>4, EvaluableLeads
<1>6. ASSUME v \in Behind(j) PROVE FALSE
  <2>1. PICK k \in 1 .. j - 1 : Result(equations[k]) = v
    BY <1>6 DEF Behind
  <2>2. k \in DOMAIN equations /\ equations[k] = equations[j]
    BY <1>3, <1>4, <2>1
  <2> QED
    BY <2>1, <2>2, <1>4 DEF IInv, Places, Distinct
<1> QED
  BY <1>3, <1>4, <1>5, <1>6

\* The names of an accepted list are different.
LEMMA ImpliesOneDefinition == IInv => OneDefinition
<1> SUFFICES ASSUME IInv, phase = "evaluate", NEW i \in DOMAIN equations, NEW j \in DOMAIN equations,
                    Result(equations[i]) = Result(equations[j])
             PROVE  i = j
  BY DEF OneDefinition
<1>1. Accepted
  BY DEF Accepted
<1>2. equations[i] = equations[j]
  BY <1>1, Good
<1> QED
  BY <1>2 DEF IInv, Places, Distinct

\* An accepted list has no cycle of up to three equations.
LEMMA ImpliesShortCyclesReported == IInv => ShortCyclesReported
<1> SUFFICES ASSUME IInv, Accepted, NEW e \in Members(equations)
             PROVE  Result(e) \notin refs[e] \cup Refs(refs[e]) \cup Refs(Refs(refs[e]))
  BY DEF ShortCyclesReported
<1>1. Listed = Members(equations) /\ ~err
  BY Good
<1>2. \A f, g \in Listed : Result(g) \in refs[f] =>
        /\ Result(f) \notin refs[g]
        /\ \A h \in Listed : Result(h) \in refs[g] => Result(f) \notin refs[h]
  BY <1>1 DEF IInv, NoShortCycle, Accepted
<1>3. Result(e) \notin refs[e]
  BY <1>1, <1>2
<1>4. Result(e) \notin Refs(refs[e])
  BY <1>1, <1>2 DEF Refs
<1>5. Result(e) \notin Refs(Refs(refs[e]))
  BY <1>1, <1>2 DEF Refs
<1> QED
  BY <1>3, <1>4, <1>5

\* The two lists together are the equations there should be.
LEMMA ImpliesNoneLost == IInv => NoneLost
<1> SUFFICES ASSUME IInv PROVE NoneLost
  OBVIOUS
<1>1. root \in Seq(AllEquations) /\ equations \in Seq(AllEquations)
  BY DEF IInv, TypeOK
<1>2. Members(root \o equations) = Listed
  BY <1>1, Concat DEF Listed
<1>3. Distinct(root \o equations)
  BY <1>1, ConcatInjective DEF IInv, Places
<1> DEFINE all == root \o equations
<1> HIDE DEF all
<1>4. NetlistEquations \cap Members(all) \in {Members(l) : l \in Lists}
  BY <1>2 DEF IInv, Sources, all
<1>5. PropertyEquations \cap Members(all) =
        {e \in PropertyEquations :
           /\ run > 0 \/ phase # "collect"
           /\ \E f \in Members(all) : Result(e) \in refs[f]
           /\ \A f \in Members(all) \cap NetlistEquations : Result(f) # Result(e)}
  BY <1>2, Zenon DEF IInv, Sources, all
<1>6. DataEquations \cap Members(all) = {e \in DataEquations : Final /\ Result(e) \in data}
  BY <1>2 DEF IInv, Sources, all
<1> QED
  BY <1>3, <1>4, <1>5, <1>6, Zenon DEF NoneLost, all

-----------------------------------------------------------------------------
(* The steps of the solver. *)

\* Evaluating changes neither the equations nor their marks.
LEMMA Frame ==
  ASSUME IInv, Accepted, Accepted',
         UNCHANGED <<refs, data, equations, root, dependencies, cycle, duplicate, evalPossible,
                     err, run>>
  PROVE  /\ Sources' /\ Marks' /\ Names' /\ Order' /\ Contained' /\ Folded'
         /\ NoShortCycle' /\ Followed' /\ Stuck'
<1> USE DEF IInv, Accepted
<1>1. Listed' = Listed /\ (\A e : Lead(e)' = Lead(e)) /\ (\A e : Seen(e)' = Seen(e))
  BY DEF Listed, Lead, Closed, Seen
<1>2. \A i : Behind(i)' = Behind(i)
  BY DEF Behind
<1>3. Sources'
  BY <1>1 DEF Sources, Final
<1>4. Marks' /\ Names'
  <2>1. Marks'
    BY <1>1 DEF Marks
  <2>2. Names'
    BY <1>1 DEF Names
  <2> QED
    BY <2>1, <2>2
<1>5. Order'
  BY <1>2 DEF Order
<1>6. Contained' /\ Folded'
  <2>1. Contained'
    BY <1>1 DEF Contained
  <2>2. Folded'
    BY <1>1 DEF Folded
  <2> QED
    BY <2>1, <2>2
<1>7. NoShortCycle'
  BY <1>1 DEF NoShortCycle
<1>8. Followed'
  BY <1>1 DEF Followed
<1>9. Stuck'
  BY <1>1 DEF Stuck
<1> QED
  BY <1>3, <1>4, <1>5, <1>6, <1>7, <1>8, <1>9

\* solver::evaluate takes one equation after the other.
LEMMA EvaluateKeeps == IInv /\ Evaluate => IInv'
<1> SUFFICES ASSUME IInv, Evaluate PROVE IInv'
  OBVIOUS
<1>1. /\ phase = "evaluate" /\ phase' = phase /\ pos' = pos + 1
      /\ UNCHANGED <<refs, data, equations, root, dependencies, cycle, duplicate, evalPossible,
                     typed, err, run, deps, seen>>
  BY DEF Evaluate, body
<1>2. Accepted /\ Accepted'
  BY <1>1 DEF Accepted
<1>3. /\ pos \in Nat \ {0} /\ pos \in DOMAIN equations /\ equations[pos] \in AllEquations
      /\ run \in 0 .. MaxSolves + 1 /\ evaluated \in [AllEquations -> 0 .. MaxSolves + 1]
  <2>1. pos \in Nat \ {0} /\ pos \in DOMAIN equations
    BY DEF Evaluate, IInv, Places
  <2>2. run \in 0 .. MaxSolves + 1 /\ evaluated \in [AllEquations -> 0 .. MaxSolves + 1]
    BY Zenon DEF IInv, TypeOK
  <2> QED
    BY <2>1, <2>2, TwoLists
<1>4. evaluated' \in [AllEquations -> 0 .. MaxSolves + 1]
  BY <1>3 DEF Evaluate
<1>5. TypeOK'
  BY <1>1, <1>4 DEF IInv, TypeOK
<1>6. Places'
  BY <1>1, <1>3 DEF IInv, Places
<1>7. Progress'
  <2> SUFFICES ASSUME NEW i \in DOMAIN equations, i < pos + 1, equations[i] \in evalPossible
               PROVE  evaluated'[equations[i]] = run
    BY <1>1 DEF Progress
  <2>1. CASE i = pos
    BY <2>1, <1>3 DEF Evaluate
  <2>2. CASE i # pos
    <3>1. i < pos /\ equations[i] \in AllEquations
      BY <2>2, <1>2, <1>3, Good
    <3>2. evaluated[equations[i]] = run
      BY <3>1, <1>1 DEF IInv, Progress
    <3> QED
      BY <3>1, <3>2, <1>3 DEF Evaluate
  <2> QED
    BY <2>1, <2>2
<1> QED
  BY <1>1, <1>2, <1>5, <1>6, <1>7, Frame DEF IInv

\* At the end of the list the solver waits for its next run, or is done.
LEMMA EndEvaluationKeeps == IInv /\ EndEvaluation => IInv'
<1> SUFFICES ASSUME IInv, EndEvaluation PROVE IInv'
  OBVIOUS
<1>1. /\ phase = "evaluate" /\ phase' \in {"done", "checked"}
      /\ phase' = "checked" => ~Final
      /\ UNCHANGED <<refs, data, equations, root, dependencies, cycle, duplicate, evalPossible,
                     typed, evaluated, err, run, pos, deps, seen>>
  BY DEF EndEvaluation, body, marks, walk
<1>2. Accepted /\ Accepted'
  BY <1>1 DEF Accepted
<1>3. TypeOK' /\ Places' /\ Progress'
  <2>1. TypeOK' /\ Progress'
    BY <1>1 DEF IInv, TypeOK, Progress
  <2>2. phase' = "checked" => run <= MaxSolves
    BY <1>1, SizeAssumption DEF IInv, TypeOK, Final
  <2> QED
    BY <1>1, <2>1, <2>2 DEF IInv, Places
<1> QED
  BY <1>1, <1>2, <1>3, Frame DEF IInv

\* Nothing happens.
LEMMA StutterKeeps == IInv /\ UNCHANGED vars => IInv'
<1> SUFFICES ASSUME IInv, UNCHANGED vars PROVE IInv'
  OBVIOUS
<1> USE DEF vars, body, marks, walk
<1>1. Listed' = Listed /\ (\A e : Lead(e)' = Lead(e)) /\ (\A e : Seen(e)' = Seen(e))
  BY DEF Listed, Lead, Closed, Seen
<1>2. \A i : Behind(i)' = Behind(i)
  BY DEF Behind
<1>3. TypeOK'
  BY Zenon DEF IInv, TypeOK
<1>p. Places' /\ Progress'
  BY DEF IInv, Places, Progress
<1>4. Sources'
  BY <1>1 DEF IInv, Sources, Final
<1>5. Marks' /\ Names'
  BY <1>1 DEF IInv, Marks, Names
<1>6. Order'
  BY <1>2 DEF IInv, Order
<1>7. Contained' /\ Folded'
  <2>1. Contained'
    BY <1>1 DEF IInv, Contained
  <2>2. Folded'
    BY Zenon DEF IInv, Folded
  <2> QED
    BY <2>1, <2>2
<1>8. NoShortCycle' /\ Followed' /\ Stuck'
  BY <1>1 DEF IInv, NoShortCycle, Followed, Stuck, Accepted
<1> QED
  BY <1>3, <1>p, <1>4, <1>5, <1>6, <1>7, <1>8 DEF IInv

\* A further run with the same equations.
LEMMA SolveAgainKeeps ==
  ASSUME IInv, Solve, run < MaxSolves, run' = run + 1, equations' = equations
  PROVE  IInv'
<1>1. /\ phase = "checked" /\ phase' = "collect"
      /\ UNCHANGED <<refs, data, root, dependencies, cycle, duplicate, evalPossible, typed,
                     evaluated, err, pos, deps, seen>>
  BY DEF Solve, body, marks, walk
<1>2. Accepted
  BY <1>1 DEF Accepted
<1>3. run \in Nat /\ MaxSolves \in Nat /\ run' \in 0 .. MaxSolves + 1 /\ run' > 0 /\ ~Final /\ ~Final'
  BY SizeAssumption DEF IInv, TypeOK, Final
<1>4. Listed' = Listed /\ \A e : Seen(e)' = Seen(e)
  BY <1>1 DEF Listed, Seen
<1>5. TypeOK' /\ Places'
  BY <1>1, <1>3 DEF IInv, TypeOK, Places
<1>6. Sources'
  BY <1>1, <1>3, <1>4 DEF IInv, Sources
<1>7. Marks' /\ Names' /\ Contained' /\ Folded'
  BY <1>1, <1>4 DEF IInv, Marks, Names, Contained, Folded
<1>8. Order'
  BY <1>1 DEF IInv, Order, Behind
<1>9. NoShortCycle' /\ Followed' /\ Stuck' /\ Progress'
  BY <1>1 DEF NoShortCycle, Followed, Stuck, Progress, Accepted
<1> QED
  BY <1>5, <1>6, <1>7, <1>8, <1>9 DEF IInv

\* The last run, with the dataset in front.
LEMMA SolveLastKeeps ==
  ASSUME IInv, Solve, run' = MaxSolves + 1, NEW ds \in Orderings(data),
         equations' = [i \in DOMAIN ds |-> Equation(ds[i], "data")] \o equations,
         Enumerates(data, "data")
  PROVE  IInv'
<1> DEFINE q == [i \in DOMAIN ds |-> Equation(ds[i], "data")]
           D == {Equation(d, "data") : d \in data}
<1>1. /\ phase = "checked" /\ phase' = "collect" /\ ~err
      /\ UNCHANGED <<refs, data, root, dependencies, cycle, duplicate, evalPossible, typed,
                     evaluated, err, pos, deps, seen>>
  BY DEF Solve, body, marks, walk, IInv, Places
<1>2. Accepted
  BY <1>1 DEF Accepted
<1>3. /\ run \in Nat /\ MaxSolves \in Nat /\ run' \in 0 .. MaxSolves + 1 /\ run' > 0
      /\ ~Final /\ Final'
  BY <1>1, SizeAssumption DEF IInv, TypeOK, Places, Final
<1>4. /\ D \subseteq DataEquations /\ \A d \in data : d \in Variables
      /\ \A e \in DataEquations : e \in D <=> Result(e) \in data
  <2>1. data \in Datasets
    BY DEF IInv, Sources
  <2>2. D \subseteq DataEquations
    BY <2>1 DEF DataEquations
  <2>3. \A d : Result(Equation(d, "data")) = d
    BY DEF Result, Equation
  <2>4. \A d \in data : Equation(d, "data") \in AllEquations
    BY <2>2, Kinds
  <2>5. \A d \in data : d \in Variables
    BY <2>3, <2>4, Kinds
  <2>6. \A e \in DataEquations : e \in D <=> Result(e) \in data
    BY <2>3 DEF DataEquations
  <2> QED
    BY <2>2, <2>5, <2>6
<1>5. Enumerates(data, "data")
  OBVIOUS
<1>6. q \in Seq(D) /\ Distinct(q) /\ Members(q) = D
  BY <1>5, Zenon DEF Enumerates
<1>7. q \in Seq(AllEquations)
  <2>1. D \subseteq AllEquations
    BY <1>4, Kinds
  <2> QED
    BY <1>6, <2>1
<1> HIDE DEF q, D
<1>8. equations' = q \o equations
  BY DEF q
<1>9. equations \in Seq(AllEquations) /\ Members(root) = {} /\ root = <<>> /\ Listed = Members(equations)
  BY <1>2, Good
<1>10. /\ equations' \in Seq(AllEquations) /\ Members(equations') = D \cup Listed
       /\ Len(q) \in Nat /\ Len(equations) \in Nat
       /\ DOMAIN q = 1 .. Len(q) /\ DOMAIN equations = 1 .. Len(equations)
       /\ DOMAIN equations' = 1 .. Len(q) + Len(equations)
       /\ \A i \in 1 .. Len(q) : equations'[i] = q[i]
       /\ \A i \in 1 .. Len(equations) : equations'[Len(q) + i] = equations[i]
       /\ \A i \in DOMAIN equations' : i \notin 1 .. Len(q) => i - Len(q) \in 1 .. Len(equations)
  <2> DEFINE u == q \o equations
  <2>1. /\ u \in Seq(AllEquations) /\ Members(u) = Members(q) \cup Members(equations)
        /\ Len(q) \in Nat /\ Len(equations) \in Nat
        /\ DOMAIN q = 1 .. Len(q) /\ DOMAIN equations = 1 .. Len(equations)
        /\ DOMAIN u = 1 .. Len(q) + Len(equations)
        /\ \A i \in 1 .. Len(q) : u[i] = q[i]
        /\ \A i \in 1 .. Len(equations) : u[Len(q) + i] = equations[i]
        /\ \A i \in DOMAIN u : i \notin 1 .. Len(q) => i - Len(q) \in 1 .. Len(equations)
    BY <1>7, <1>9, Concat
  <2> HIDE DEF u
  <2>2. equations' = u
    BY <1>8, Zenon DEF u
  <2> QED
    BY <1>6, <1>9, <2>1, <2>2, Zenon
<1>11. Listed' = Listed \cup D
  BY <1>1, <1>9, <1>10 DEF Listed
<1>12. D \cap Listed = {}
  BY <1>3, <1>4 DEF IInv, Sources
<1>13. Distinct(equations')
  <2>1. Distinct(equations) /\ Members(q) \cap Members(equations) = {}
    BY <1>6, <1>9, <1>12 DEF IInv, Places
  <2>2. Distinct(q \o equations)
    BY <1>6, <1>7, <1>9, <2>1, ConcatInjective
  <2> QED
    BY <1>8, <2>2, Zenon
<1>14. equations' # <<>>
  BY <1>1, <1>9, <1>10 DEF IInv, Places
<1>15. TypeOK'
  BY <1>1, <1>3, <1>10 DEF IInv, TypeOK
<1>16. Places'
  <2>1. (Distinct(root) /\ Members(root) \cap Members(equations) = {})'
    BY <1>1, <1>9 DEF IInv, Places
  <2> QED
    BY <1>1, <1>9, <1>13, <1>14, <2>1 DEF IInv, Places
<1>17. D \subseteq AllEquations /\ D \cap NetlistEquations = {} /\ D \cap PropertyEquations = {}
       /\ \A e \in D : refs[e] = {}
  BY <1>4, Kinds DEF IInv, Sources
<1>18. Sources'
  <2>1. NetlistEquations \cap Listed' = NetlistEquations \cap Listed
    BY <1>11, <1>17
  <2>2. PropertyEquations \cap Listed' = PropertyEquations \cap Listed
    BY <1>11, <1>17
  <2>3. PropertyEquations \cap Listed' =
          {e \in PropertyEquations :
             /\ run' > 0 \/ phase' # "collect"
             /\ \E f \in Listed' : Result(e) \in refs'[f]
             /\ \A f \in Listed' \cap NetlistEquations : Result(f) # Result(e)}
    BY <1>1, <1>3, <1>11, <1>17, <2>1, <2>2 DEF IInv, Sources
  <2>4. DataEquations \cap Listed' = {e \in DataEquations : Final' /\ Result(e) \in data'}
    BY <1>1, <1>3, <1>4, <1>11 DEF IInv, Sources
  <2> QED
    BY <1>1, <2>1, <2>3, <2>4, Zenon DEF IInv, Sources
<1>19. \A e : Seen(e)' = Seen(e)
  BY <1>1 DEF Seen
<1>20. \A e \in D : ~Seen(e) /\ e \notin evalPossible
  BY <1>12, <1>17 DEF IInv, Marks
<1>21. Marks' /\ Names'
  <2>1. Marks'
    BY <1>1, <1>11, <1>19, <1>20 DEF IInv, Marks
  <2>2. Names'
    BY <1>1, <1>11, <1>19, <1>20 DEF IInv, Names
  <2> QED
    BY <2>1, <2>2
<1>22. Order'
  <2> SUFFICES ASSUME NEW i \in DOMAIN equations', equations'[i] \in evalPossible
               PROVE  dependencies[equations'[i]] \ Generated \subseteq Behind(i)'
    <3>1. DOMAIN root' = {} /\ phase' # "cycles" /\ dependencies' = dependencies
          /\ evalPossible' = evalPossible
      BY <1>1, <1>9
    <3> QED
      BY <3>1, Zenon DEF Order
  <2>1. i \notin 1 .. Len(q)
    BY <1>6, <1>10, <1>20, Zenon DEF Members
  <2>2. PICK j \in DOMAIN equations : i = Len(q) + j /\ equations'[i] = equations[j]
    <3>1. /\ i \in 1 .. Len(q) + Len(equations) /\ Len(q) \in Nat /\ Len(equations) \in Nat
          /\ DOMAIN equations = 1 .. Len(equations)
      BY <1>10, Zenon
    <3>2. i - Len(q) \in 1 .. Len(equations) /\ i = Len(q) + (i - Len(q))
      BY <2>1, <3>1
    <3>3. equations'[Len(q) + (i - Len(q))] = equations[i - Len(q)]
      BY <3>2, <1>10, Zenon
    <3> QED
      BY <3>1, <3>2, <3>3
  <2>3. dependencies[equations[j]] \ Generated \subseteq Behind(j)
    BY <1>1, <2>2 DEF IInv, Order
  <2>4. Behind(j) \subseteq Behind(i)'
    <3> SUFFICES ASSUME NEW v \in Behind(j) PROVE v \in Behind(i)'
      OBVIOUS
    <3>1. PICK k \in 1 .. j - 1 : equations[k] \in evalPossible /\ v = Result(equations[k])
      BY <1>9 DEF Behind
    <3>2. k \in 1 .. Len(equations) /\ Len(q) + k \in 1 .. i - 1
      <4> DEFINE m == Len(q)
                 n == Len(equations)
      <4>1. m \in Nat /\ n \in Nat /\ j \in 1 .. n /\ i = m + j
        BY <1>10, <2>2, Zenon
      <4> HIDE DEF m, n
      <4>2. k \in 1 .. n /\ m + k \in 1 .. i - 1
        BY <4>1
      <4> QED
        BY <4>2 DEF m, n
    <3>3. equations'[Len(q) + k] = equations[k]
      BY <3>2, <1>10, Zenon
    <3> QED
      BY <3>1, <3>2, <3>3, <1>1, Zenon DEF Behind
  <2> QED
    BY <2>2, <2>3, <2>4
<1>23. Contained' /\ Folded'
  <2>1. Contained'
    BY <1>1, <1>19 DEF IInv, Contained
  <2>2. Folded'
    <3>1. phase = "checked" /\ phase' = "collect" /\ err' = err /\ cycle' = cycle
      BY <1>1
    <3> QED
      BY <3>1 DEF IInv, Folded
  <2> QED
    BY <2>1, <2>2
<1>24. NoShortCycle' /\ Followed' /\ Stuck' /\ Progress'
  BY <1>1 DEF NoShortCycle, Followed, Stuck, Progress, Accepted
<1> QED
  BY <1>15, <1>16, <1>18, <1>21, <1>22, <1>23, <1>24 DEF IInv
=============================================================================
