-------------------------- MODULE EquationsProofs --------------------------
(***************************************************************************)
(* Proofs about Equations, for any netlist, dataset and number of runs:    *)
(* the checker keeps the inductive invariant, and what follows from it.    *)
(***************************************************************************)
EXTENDS EquationsChecker, FiniteSetTheorems, WellFoundedInduction

(* Counting and searching. *)

\* A set of numbers has a smallest element.
LEMMA Least ==
  ASSUME NEW T, T \subseteq Nat, T # {}
  PROVE  \E x \in T : \A y \in T : x <= y
<1> DEFINE R == OpToRel(<, Nat)
<1>1. IsWellFoundedOn(R, Nat)
  BY NatLessThanWellFounded, Zenon
<1> HIDE DEF R
<1>2. PICK x \in T : \A y \in T : ~(<<y, x>> \in R)
  BY <1>1, WFMin, Zenon
<1>3. \A y \in T : ~(y < x)
  BY <1>2, Zenon DEF R, OpToRel
<1> QED
  BY <1>3

\* The equations made for a set of names, in any order.
LEMMA Enumerated ==
  ASSUME NEW S, IsFiniteSet(S), NEW o
  PROVE  Enumerates(S, o)
<1> SUFFICES ASSUME NEW ps \in Orderings(S)
             PROVE  LET q == [i \in DOMAIN ps |-> Equation(ps[i], o)] IN
                    /\ q \in Seq({Equation(p, o) : p \in S}) /\ Distinct(q)
                    /\ Members(q) = {Equation(p, o) : p \in S}
  BY Zenon DEF Enumerates
<1> DEFINE n == Cardinality(S)
           q == [i \in DOMAIN ps |-> Equation(ps[i], o)]
<1>1. n \in Nat
  BY FS_CardinalityType
<1>2. ps \in [1 .. n -> S] /\ \A i, j \in 1 .. n : i # j => ps[i] # ps[j]
  BY DEF Orderings, Distinct
<1>3. IsFiniteSet(1 .. n) /\ Cardinality(1 .. n) = n
  BY <1>1, FS_Interval
<1>4. ps \in Injection(1 .. n, S)
  BY <1>2 DEF Injection, IsInjective
<1>5. ps \in Surjection(1 .. n, S)
  BY <1>3, <1>4, FS_Injection
<1>6. \A p \in S : \E i \in 1 .. n : ps[i] = p
  BY <1>5 DEF Surjection
<1>7. DOMAIN q = 1 .. n /\ \A i \in 1 .. n : q[i] = Equation(ps[i], o)
  BY <1>2
<1>8. q \in [1 .. n -> {Equation(p, o) : p \in S}]
  BY <1>2
<1>9. q \in Seq({Equation(p, o) : p \in S})
  BY <1>1, <1>8
<1>10. Distinct(q)
  <2> SUFFICES ASSUME NEW i \in 1 .. n, NEW j \in 1 .. n, q[i] = q[j]
               PROVE  i = j
    BY <1>7 DEF Distinct
  <2>1. Equation(ps[i], o)[1] = Equation(ps[j], o)[1]
    BY <1>7
  <2> QED
    BY <2>1, <1>2 DEF Equation
<1>11. Members(q) = {Equation(p, o) : p \in S}
  <2> HIDE DEF q
  <2>1. Members(q) \subseteq {Equation(p, o) : p \in S}
    BY <1>2, <1>7 DEF Members
  <2>2. ASSUME NEW p \in S PROVE Equation(p, o) \in Members(q)
    <3>1. PICK i \in 1 .. n : ps[i] = p
      BY <1>6
    <3> QED
      BY <3>1, <1>7 DEF Members
  <2> QED
    BY <2>1, <2>2
<1> QED
  BY <1>9, <1>10, <1>11

\* findEquation returns an equation of the list for the variable.
LEMMA Find ==
  ASSUME NEW list \in Seq(AllEquations), NEW v, Defines(list, v)
  PROVE  findEquation(list, v) \in Members(list) /\ Result(findEquation(list, v)) = v
<1> DEFINE I == {i \in 1 .. Len(list) : Result(list[i]) = v}
<1>1. Len(list) \in Nat /\ DOMAIN list = 1 .. Len(list)
  OBVIOUS
<1>2. I # {} /\ I \subseteq Nat
  BY <1>1 DEF Defines
<1>3. \E i \in I : \A j \in I : i <= j
  BY <1>2, Least, Zenon
<1>4. PICK i \in I : \A j \in I : i <= j
  BY <1>3
<1>5. i \in DOMAIN list /\ Result(list[i]) = v /\ \A j \in 1 .. i - 1 : Result(list[j]) # v
  BY <1>1, <1>4
<1> QED
  BY <1>5, Zenon DEF findEquation, Members

\* The numbers reorderEquations compares tell whether all is defined.
LEMMA ReadyMeans ==
  ASSUME IInv
  PROVE  Counted
<1> SUFFICES ASSUME NEW e \in AllEquations
             PROVE  Ready(e) <=> \A v \in dependencies[e] \ Generated : Defines(root, v)
  BY DEF Counted
<1> DEFINE D == dependencies[e]
           F == {v \in D : Defines(root, v)}
           G == D \cap Generated
<1>1. D \subseteq Variables /\ root \in Seq(AllEquations)
  BY DEF IInv, TypeOK
<1>2. IsFiniteSet(D) /\ IsFiniteSet(F) /\ IsFiniteSet(G) /\ IsFiniteSet(D \ G)
  BY <1>1, NamesAssumption, FS_Subset
<1>3. /\ Cardinality(D) \in Nat /\ Cardinality(F) \in Nat /\ Cardinality(G) \in Nat
      /\ Cardinality(D \ G) \in Nat
  BY <1>2, FS_CardinalityType
<1>4. Cardinality(D) = Cardinality(D \ G) + Cardinality(G)
  <2>1. /\ Cardinality((D \ G) \cup G)
             = Cardinality(D \ G) + Cardinality(G) - Cardinality((D \ G) \cap G)
    BY <1>2, FS_Union
  <2>2. (D \ G) \cup G = D /\ (D \ G) \cap G = {}
    OBVIOUS
  <2>3. Cardinality({}) = 0
    BY FS_EmptySet
  <2>4. Cardinality(D) = Cardinality(D \ G) + Cardinality(G) - 0
    <3> HIDE DEF D, G
    <3> QED
      BY <2>1, <2>2, <2>3, Zenon
  <2> QED
    BY <2>4, <1>3
<1>5. F \subseteq D \ G
  BY <1>1, Kinds DEF Defines
<1>6. Cardinality(D \ G) = Cardinality(F) => D \ G = F
  BY <1>2, <1>5, FS_Subset
<1>7. Ready(e) <=> Cardinality(F) = Cardinality(D) - Cardinality(G)
  BY DEF Ready
<1>8. Ready(e) <=> F = D \ G
  <2>1. Cardinality(F) = Cardinality(D) - Cardinality(G)
          <=> Cardinality(D \ G) = Cardinality(F)
    BY <1>3, <1>4
  <2>2. F = D \ G => Cardinality(D \ G) = Cardinality(F)
    OBVIOUS
  <2> HIDE DEF D, F, G
  <2> QED
    BY <1>6, <1>7, <2>1, <2>2, Zenon
<1>9. F = D \ G <=> \A v \in D \ Generated : Defines(root, v)
  BY <1>5
<1> QED
  BY <1>8, <1>9

\* The equations left over are not evaluable: the first one marked in an earlier
\* run would be ready.
LEMMA NothingLeft ==
  ASSUME IInv, ~err, \A i \in DOMAIN equations : ~Ready(equations[i])
  PROVE  Members(equations) \cap evalPossible = {}
<1> SUFFICES ASSUME NEW l \in DOMAIN equations, equations[l] \in evalPossible PROVE FALSE
  BY DEF Members
<1> DEFINE T == {k \in DOMAIN equations : equations[k] \in evalPossible}
<1>1. equations \in Seq(AllEquations) /\ DOMAIN equations = 1 .. Len(equations) /\ Len(equations) \in Nat
  BY DEF IInv, TypeOK
<1>2. T \subseteq Nat /\ T # {}
  BY <1>1
<1>3. PICK k \in T : \A j \in T : k <= j
  <2> HIDE DEF T
  <2> QED
    BY <1>2, Least, Zenon
<1>4. \A j \in 1 .. k - 1 : equations[j] \notin evalPossible
  BY <1>1, <1>3
<1>5. dependencies[equations[k]] \ Generated \subseteq {Result(f) : f \in Members(root)}
  BY <1>4 DEF IInv, Order, Behind
<1>6. \A v \in dependencies[equations[k]] \ Generated : Defines(root, v)
  BY <1>5 DEF Defines, Members
<1>7. Ready(equations[k])
  BY <1>1, <1>6, ReadyMeans DEF Counted
<1> QED
  BY <1>7

-----------------------------------------------------------------------------
(* The equations that are evaluable are those the checker marks. *)

\* Of the equations that lead only to defined variables and not to a cycle, and
\* are not marked, there would be one that leads to fewest variables.
LEMMA EvaluableAreMarked ==
  ASSUME IInv, Accepted, NEW e \in Listed,
         \A v \in Lead(e) \ Generated : \E f \in Listed : Result(f) = v /\ Result(f) \notin Lead(f)
  PROVE  e \in evalPossible
<1> SUFFICES ASSUME e \notin evalPossible PROVE FALSE
  OBVIOUS
<1> USE Good
<1> DEFINE Fine(f) == \A v \in Lead(f) \ Generated :
                        \E g \in Listed : Result(g) = v /\ Result(g) \notin Lead(g)
           B == {f \in Listed \ evalPossible : Fine(f)}
           T == {Cardinality(Lead(f)) : f \in B}
<1>1. \A f \in Listed : IsFiniteSet(Lead(f)) /\ Cardinality(Lead(f)) \in Nat
  <2> TAKE f \in Listed
  <2>1. Lead(f) \in SUBSET Variables
    BY DEF Lead
  <2> QED
    BY <2>1, NamesAssumption, FS_Subset, FS_CardinalityType
<1>2. T \subseteq Nat /\ T # {}
  BY <1>1
<1>3. PICK n \in T : \A m \in T : n <= m
  BY <1>2, Least, Zenon
<1>4. PICK f \in B : Cardinality(Lead(f)) = n
  BY <1>3
<1>5. PICK v \in Lead(f) \ Generated : \A g \in Listed \cap evalPossible : Result(g) # v
  BY <1>4 DEF IInv, Stuck
<1>6. PICK g \in Listed : Result(g) = v /\ Result(g) \notin Lead(g)
  BY <1>4, <1>5
<1>7. Lead(g) \subseteq Lead(f) /\ Lead(g) # Lead(f)
  BY <1>5, <1>6, LeadStep
<1>8. g \in B
  BY <1>4, <1>5, <1>6, <1>7
<1>9. Cardinality(Lead(g)) < Cardinality(Lead(f))
  <2>1. /\ Cardinality(Lead(g)) <= Cardinality(Lead(f))
        /\ Cardinality(Lead(f)) = Cardinality(Lead(g)) => Lead(f) = Lead(g)
    BY <1>1, <1>4, <1>7, FS_Subset
  <2> QED
    BY <2>1, <1>1, <1>4, <1>7, <1>8
<1>10. Cardinality(Lead(g)) \in T /\ Cardinality(Lead(g)) \in Nat /\ n \in Nat
  BY <1>1, <1>2, <1>3, <1>8
<1> HIDE DEF B, T
<1> QED
  BY <1>3, <1>4, <1>9, <1>10

\* Both directions of "each equation being evaluable is properly marked".
LEMMA ImpliesEvaluableMarked == IInv => EvaluableMarked
<1> SUFFICES ASSUME IInv, Accepted, NEW e \in Members(equations)
             PROVE  e \in evalPossible <=>
                      \A v \in AllLeads(e) \ Generated :
                        \E f \in Members(equations) : Result(f) = v /\ ~Cyclic(f)
  BY DEF EvaluableMarked
<1>1. Listed = Members(equations) /\ \A f : AllLeads(f) = Lead(f)
  BY Good
<1>2. \A f : Cyclic(f) <=> Result(f) \in Lead(f)
  BY <1>1 DEF Cyclic
<1> QED
  BY <1>1, <1>2, MarkedAreEvaluable, EvaluableAreMarked

-----------------------------------------------------------------------------
(* The last run of the solver, and the checker's first pass. *)

\* The next run starts, the last one with the variables of the dataset.
LEMMA SolveKeeps == IInv /\ Solve => IInv'
<1> SUFFICES ASSUME IInv, Solve PROVE IInv'
  OBVIOUS
<1>1. data \subseteq Variables
  <2> SUFFICES ASSUME NEW d \in data PROVE d \in Variables
    OBVIOUS
  <2>1. data \in Datasets
    BY DEF IInv, Sources
  <2>2. Equation(d, "data") \in AllEquations
    BY <2>1, Kinds DEF DataEquations
  <2>3. Result(Equation(d, "data")) = d
    BY DEF Result, Equation
  <2> QED
    BY <2>2, <2>3, Kinds
<1>2. IsFiniteSet(data)
  BY <1>1, NamesAssumption, FS_Subset
<1>3. Enumerates(data, "data")
  BY <1>2, Enumerated
<1> QED
  BY <1>3, SolveAgainKeeps, SolveLastKeeps, Zenon DEF Solve, checkinDataset

\* findDuplicate gives every equation of the list a number, and a number above
\* one to some definition of a name that is used twice and new at least once.
LEMMA Duplicates ==
  ASSUME NEW u \in Seq(AllEquations), duplicate \in [AllEquations -> Nat]
  PROVE  LET d == findDuplicate(u) IN
         /\ d \in [AllEquations -> Nat]
         /\ \A e \in Members(u) : d[e] # 0
         /\ \A e \in AllEquations \ Members(u) : d[e] = duplicate[e]
         /\ \A e, f \in Members(u) : Result(e) = Result(f) /\ e # f /\ duplicate[e] = 0
              => \E g \in Members(u) : d[g] > 1
<1> DEFINE fresh(e) == {i \in DOMAIN u : u[i] \in Namesakes(u, e) /\ duplicate[u[i]] = 0}
           first(e) == duplicate[e] = 0 /\ \A i \in fresh(e) : \E j \in fresh(e) : u[j] = e /\ j <= i
           d == findDuplicate(u)
<1>1. d = [e \in AllEquations |->
             IF e \notin Members(u) THEN duplicate[e]
             ELSE IF first(e) THEN Cardinality(Namesakes(u, e)) ELSE 1]
  BY DEF findDuplicate
<1>2. DOMAIN u = 1 .. Len(u) /\ Len(u) \in Nat /\ Members(u) \subseteq AllEquations
  BY DEF Members
<1>3. IsFiniteSet(Members(u))
  <2>1. IsFiniteSet(1 .. Len(u))
    BY <1>2, FS_Interval
  <2>2. u \in Surjection(1 .. Len(u), Members(u))
    BY <1>2 DEF Surjection, Members
  <2> QED
    BY <2>1, <2>2, FS_Surjection
<1>4. \A e \in Members(u) : IsFiniteSet(Namesakes(u, e)) /\ e \in Namesakes(u, e)
  BY <1>3, FS_Subset DEF Namesakes
<1>5. \A e \in Members(u) : Cardinality(Namesakes(u, e)) \in Nat /\ Cardinality(Namesakes(u, e)) # 0
  BY <1>4, FS_CardinalityType, FS_EmptySet
<1>6. ASSUME NEW e \in Members(u), NEW f \in Members(u), Result(e) = Result(f), e # f, duplicate[e] = 0
      PROVE  \E g \in Members(u) : d[g] > 1
  <2>1. PICK k \in DOMAIN u : u[k] = e
    BY DEF Members
  <2>2. k \in fresh(e) /\ fresh(e) \subseteq Nat
    BY <2>1, <1>2, <1>4, <1>6
  <2>3. PICK i \in fresh(e) : \A j \in fresh(e) : i <= j
    <3> DEFINE T == fresh(e)
    <3>1. T \subseteq Nat /\ T # {}
      BY <2>2
    <3> HIDE DEF T
    <3>2. \E i \in T : \A j \in T : i <= j
      BY <3>1, Least, Zenon
    <3> QED
      BY <3>2 DEF T
  <2> DEFINE g == u[i]
  <2>4. g \in Members(u) /\ Result(g) = Result(e) /\ duplicate[g] = 0
    BY <2>3 DEF Members, Namesakes
  <2>5. Namesakes(u, g) = Namesakes(u, e)
    BY <2>4 DEF Namesakes
  <2>6. first(g)
    BY <2>3, <2>4, <2>5
  <2> HIDE DEF g, first
  <2>7. d[g] = Cardinality(Namesakes(u, g))
    BY <2>4, <2>6, <1>1, <1>2
  <2>8. Cardinality(Namesakes(u, g)) # 1
    <3>1. e \in Namesakes(u, g) /\ f \in Namesakes(u, g)
      BY <1>6, <2>4 DEF Namesakes
    <3> QED
      BY <3>1, <2>4, <1>4, <1>6, FS_Singleton
  <2>9. d[g] > 1
    BY <2>4, <2>7, <2>8, <1>5
  <2> QED
    BY <2>4, <2>9
<1> HIDE DEF first
<1>7. d \in [AllEquations -> Nat] /\ \A e \in Members(u) : d[e] # 0
  <2>1. \A e \in AllEquations : d[e] \in Nat /\ (e \in Members(u) => d[e] # 0)
    BY <1>1, <1>2, <1>5
  <2> QED
    BY <2>1, <1>1, <1>2
<1>8. \A e \in AllEquations \ Members(u) : d[e] = duplicate[e]
  BY <1>1
<1> HIDE DEF d
<1> QED
  BY <1>6, <1>7, <1>8 DEF d

\* The equations of the properties in use are new to the list.
LEMMA NewProperties ==
  ASSUME IInv, phase = "collect"
  PROVE  LET P == {Equation(p, "property") : p \in PropertiesUsed} IN
         /\ IsFiniteSet(PropertiesUsed) /\ P \subseteq PropertyEquations /\ P \cap Listed = {}
         /\ PropertyEquations \cap (Listed \cup P) =
              {e \in PropertyEquations :
                 /\ \E f \in Listed \cup P : Result(e) \in refs[f]
                 /\ \A f \in (Listed \cup P) \cap NetlistEquations : Result(f) # Result(e)}
<1> DEFINE P == {Equation(p, "property") : p \in PropertiesUsed}
<1>1. \A p : Result(Equation(p, "property")) = p
  BY DEF Result, Equation
<1>2. P \subseteq PropertyEquations /\ \A e \in PropertyEquations : e \in P <=> Result(e) \in PropertiesUsed
  BY <1>1 DEF PropertyEquations, PropertiesUsed
<1>3. PropertiesUsed \subseteq Variables
  BY <1>1, <1>2, Kinds DEF PropertyEquations, PropertiesUsed
<1>4. IsFiniteSet(PropertiesUsed)
  BY <1>3, NamesAssumption, FS_Subset
<1>5. Listed = Members(equations) /\ run \in Nat /\ MaxSolves \in Nat /\ Listed \subseteq AllEquations
  <2>1. Listed = Members(equations)
    BY LeadsAgree DEF IInv, Places
  <2> QED
    BY <2>1, SizeAssumption DEF IInv, TypeOK, Members
<1> HIDE DEF P
<1>6. CASE run = 0
  <2>1. PropertyEquations \cap Listed = {} /\ DataEquations \cap Listed = {}
    BY <1>5, <1>6 DEF IInv, Sources, Final
  <2>2. Listed \subseteq NetlistEquations
    BY <2>1, <1>5, Kinds
  <2>3. \A p : Defines(equations, p) <=> \E f \in Listed : Result(f) = p
    BY <1>5 DEF Defines, Members
  <2>4. \A p \in Properties : p \in PropertiesUsed <=>
          (\A f \in Listed : Result(f) # p) /\ \E f \in Listed : p \in refs[f]
    BY <2>3, <1>5, <1>6 DEF PropertiesUsed, Members
  <2>5. \A e \in PropertyEquations : Result(e) \in Properties
    BY <1>1 DEF PropertyEquations
  <2>6. (Listed \cup P) \cap NetlistEquations = Listed
    BY <2>2, <1>2, Kinds
  <2>7. \A e \in P : \A v \in refs[e] : \E f \in Listed : Result(f) = v
    BY <1>2 DEF IInv, Sources
  <2>8. \A e \in PropertyEquations :
          e \in P <=> /\ \E f \in Listed \cup P : Result(e) \in refs[f]
                      /\ \A f \in Listed : Result(f) # Result(e)
    BY <2>4, <2>5, <2>7, <1>2
  <2>9. PropertyEquations \cap (Listed \cup P) = P
    BY <2>1, <1>2
  <2> QED
    BY <2>1, <2>6, <2>8, <2>9, <1>2, <1>4 DEF P
<1>7. CASE run # 0
  <2>1. PropertiesUsed = {}
    BY <1>7 DEF PropertiesUsed
  <2>2. P = {} /\ run > 0
    BY <2>1, <1>5, <1>7 DEF P
  <2>3. PropertyEquations \cap Listed =
              {e \in PropertyEquations :
                 /\ \E f \in Listed : Result(e) \in refs[f]
                 /\ \A f \in Listed \cap NetlistEquations : Result(f) # Result(e)}
    BY <2>2 DEF IInv, Sources
  <2>4. Listed \cup P = Listed
    BY <2>2
  <2> QED
    BY <2>2, <2>3, <2>4, <1>2, <1>4 DEF P
<1> QED
  BY <1>6, <1>7

\* collectDependencies adds the properties and looks for undefined and duplicate
\* names.
LEMMA CollectKeeps == IInv /\ Collect => IInv'
<1> SUFFICES ASSUME IInv, Collect PROVE IInv'
  OBVIOUS
<1>1. /\ phase = "collect" /\ phase' = "cycles" /\ pos' = 1 /\ seen' = {}
      /\ dependencies' = [e \in AllEquations |->
                            IF e \in Members(equations') THEN refs[e] ELSE dependencies[e]]
      /\ duplicate' = findDuplicate(equations')
      /\ err' = (findUndefined(equations') \/ \E e \in Members(equations') : duplicate'[e] > 1)
      /\ deps' = dependencies'[equations'[1]]
      /\ UNCHANGED <<refs, data, root, cycle, evalPossible, typed, evaluated, run>>
  BY DEF Collect, body
<1>2. PICK ps \in Orderings(PropertiesUsed) :
        equations' = equations \o [i \in DOMAIN ps |-> Equation(ps[i], "property")]
  BY Zenon DEF Collect
<1> DEFINE q == [i \in DOMAIN ps |-> Equation(ps[i], "property")]
           P == {Equation(p, "property") : p \in PropertiesUsed}
           u == equations \o q
<1>3. /\ IsFiniteSet(PropertiesUsed) /\ P \subseteq PropertyEquations /\ P \cap Listed = {}
      /\ PropertyEquations \cap (Listed \cup P) =
              {e \in PropertyEquations :
                 /\ \E f \in Listed \cup P : Result(e) \in refs[f]
                 /\ \A f \in (Listed \cup P) \cap NetlistEquations : Result(f) # Result(e)}
  BY <1>1, NewProperties
<1>4. q \in Seq(P) /\ Distinct(q) /\ Members(q) = P
  <2>1. IsFiniteSet(PropertiesUsed)
    BY <1>3, Zenon
  <2>2. Enumerates(PropertiesUsed, "property")
    BY <2>1, Enumerated
  <2> QED
    BY <2>2, Zenon DEF Enumerates
<1>5. q \in Seq(AllEquations)
  <2>1. P \subseteq AllEquations
    BY <1>3, Kinds
  <2> QED
    BY <1>4, <2>1
<1>6. equations' = u
  BY <1>2
<1> HIDE DEF q, P
<1>7. /\ root = <<>> /\ ~err /\ equations \in Seq(AllEquations) /\ equations # <<>>
      /\ Distinct(equations) /\ Members(root) = {} /\ Listed = Members(equations)
  <2>1. root = <<>> /\ ~err
    BY <1>1 DEF IInv, Places
  <2> QED
    BY <2>1, <1>1, LeadsAgree DEF IInv, Places, TypeOK, Members
<1>8. /\ u \in Seq(AllEquations) /\ Members(u) = Listed \cup P
      /\ Len(q) \in Nat /\ Len(equations) \in Nat
      /\ DOMAIN q = 1 .. Len(q) /\ DOMAIN equations = 1 .. Len(equations)
      /\ DOMAIN u = 1 .. Len(equations) + Len(q)
      /\ \A i \in 1 .. Len(equations) : u[i] = equations[i]
      /\ \A i \in 1 .. Len(q) : u[Len(equations) + i] = q[i]
      /\ \A i \in DOMAIN u : i \notin 1 .. Len(equations) => i - Len(equations) \in 1 .. Len(q)
  <2>1. equations \in Seq(AllEquations) /\ q \in Seq(AllEquations)
    BY <1>5, <1>7
  <2> QED
    BY <2>1, <1>4, <1>7, Concat
<1>9. Distinct(u)
  <2>1. equations \in Seq(AllEquations) /\ q \in Seq(AllEquations)
    BY <1>5, <1>7
  <2>2. Members(equations) \cap Members(q) = {}
    BY <1>3, <1>4, <1>7
  <2> QED
    BY <2>1, <2>2, <1>4, <1>7, ConcatInjective
<1> HIDE DEF u
<1>10. 1 \in DOMAIN u /\ 1 \in DOMAIN equations
  <2>1. Len(equations) # 0
    BY <1>7
  <2> QED
    BY <2>1, <1>8
<1>11. /\ \A i \in DOMAIN u : u[i] \in Members(u) /\ u[i] \in AllEquations
       /\ Members(u) \subseteq AllEquations /\ Listed \subseteq AllEquations
  BY <1>8 DEF Members
<1>12. Listed' = Listed \cup P /\ Listed' = Members(u) /\ Members(root') = {} /\ DOMAIN root' = {}
  BY <1>1, <1>6, <1>7, <1>8 DEF Listed, Members
<1>13. /\ refs \in [AllEquations -> SUBSET Variables]
       /\ dependencies \in [AllEquations -> SUBSET Variables]
       /\ duplicate \in [AllEquations -> Nat]
  BY DEF IInv, TypeOK, Sources
<1>14. /\ duplicate' \in [AllEquations -> Nat]
       /\ \A e \in Members(u) : duplicate'[e] # 0
       /\ \A e \in AllEquations \ Members(u) : duplicate'[e] = duplicate[e]
       /\ \A e, f \in Members(u) : Result(e) = Result(f) /\ e # f /\ duplicate[e] = 0
            => \E g \in Members(u) : duplicate'[g] > 1
  BY <1>1, <1>6, <1>8, <1>13, Duplicates, Zenon
<1>15. /\ dependencies' \in [AllEquations -> SUBSET Variables]
       /\ \A e \in Members(u) : dependencies'[e] = refs[e]
       /\ \A e \in AllEquations \ Members(u) : dependencies'[e] = dependencies[e]
       /\ deps' = refs[u[1]]
  BY <1>1, <1>6, <1>10, <1>11, <1>13
<1>16. err' \in BOOLEAN /\ (~err' => \A e \in Members(u) : ~(duplicate'[e] > 1))
  BY <1>1, <1>6, Zenon
<1>17. TypeOK'
  <2>1. root' \in Seq(AllEquations) /\ equations' \in Seq(AllEquations)
    BY <1>1, <1>6, <1>7, <1>8
  <2>2. deps' \subseteq Variables
    BY <1>10, <1>11, <1>13, <1>15
  <2>3. seen' \subseteq Variables
    BY <1>1
  <2> QED
    BY <1>1, <1>14, <1>15, <1>16, <2>1, <2>2, <2>3, Zenon DEF IInv, TypeOK
<1>18. Places'
  <2>1. Distinct(root')
    BY <1>12 DEF Distinct
  <2>2. equations' # <<>>
    BY <1>6, <1>10
  <2> QED
    BY <1>1, <1>6, <1>7, <1>9, <1>10, <1>12, <2>1, <2>2 DEF Places
<1>19. Sources'
  <2>1. NetlistEquations \cap Listed' = NetlistEquations \cap Listed
    BY <1>3, <1>12, Kinds
  <2>2. DataEquations \cap Listed' = DataEquations \cap Listed
    BY <1>3, <1>12, Kinds
  <2>3. PropertyEquations \cap Listed' =
         {e \in PropertyEquations :
            /\ run' > 0 \/ phase' # "collect"
            /\ \E f \in Listed' : Result(e) \in refs'[f]
            /\ \A f \in Listed' \cap NetlistEquations : Result(f) # Result(e)}
    BY <1>1, <1>3, <1>12
  <2> QED
    BY <2>1, <2>2, <2>3, <1>1 DEF IInv, Sources, Final
<1>20. Marks'
  <2>1. \A e \in AllEquations \ Listed' : duplicate'[e] = 0
    BY <1>12, <1>14 DEF IInv, Marks, Seen
  <2>2. \A e \in AllEquations : duplicate'[e] = 0 => e \notin evalPossible
    BY <1>14 DEF IInv, Marks, Seen
  <2>3. \A e \in Listed' : duplicate'[e] # 0
    BY <1>12, <1>14
  <2> QED
    BY <2>1, <2>2, <2>3, <1>1, <1>12, Zenon DEF Marks, Seen
<1>21. Names'
  <2> SUFFICES ASSUME ~err', NEW e \in Members(u), NEW f \in Members(u), Result(e) = Result(f), e # f
               PROVE  FALSE
    BY <1>12 DEF Names
  <2>1. duplicate[e] # 0 /\ duplicate[f] # 0
    BY <1>14, <1>16
  <2>2. e \in Listed /\ f \in Listed
    BY <2>1, <1>11 DEF IInv, Marks, Seen
  <2> QED
    BY <2>1, <2>2, <1>7 DEF IInv, Names, Seen
<1>22. ASSUME NEW i \in DOMAIN u, u[i] \in evalPossible
       PROVE  refs[u[i]] \ Generated \subseteq Behind(i)'
  <2>1. u[i] \in Listed /\ Seen(u[i])
    BY <1>11, <1>22 DEF IInv, Marks
  <2>2. i \in 1 .. Len(equations)
    <3> SUFFICES ASSUME i \notin 1 .. Len(equations) PROVE FALSE
      OBVIOUS
    <3>1. PICK j \in 1 .. Len(q) : i = Len(equations) + j
      <4>1. i - Len(equations) \in 1 .. Len(q) /\ i = Len(equations) + (i - Len(equations))
        BY <1>8
      <4> QED
        BY <4>1
    <3>2. u[i] = q[j] /\ q[j] \in P
      BY <3>1, <1>4, <1>8 DEF Members
    <3> QED
      BY <3>2, <2>1, <1>3
  <2>3. refs[u[i]] \subseteq dependencies[u[i]]
    BY <2>1, <1>11 DEF IInv, Contained
  <2>4. dependencies[u[i]] \ Generated \subseteq Behind(i)
    BY <2>2, <1>7, <1>8, <1>22 DEF IInv, Order
  <2>5. \A j \in 1 .. i - 1 : u[j] = equations[j]
    BY <2>2, <1>8
  <2>6. Behind(i) \subseteq Behind(i)'
    BY <2>5, <1>1, <1>6, <1>7 DEF Behind
  <2> QED
    BY <2>3, <2>4, <2>6
<1>23. Order'
  <2>1. \A i \in DOMAIN u : dependencies'[u[i]] = refs[u[i]]
    BY <1>11, <1>15
  <2>2. (deps' \cup seen') = refs[u[1]]
    BY <1>1, <1>15, Zenon
  <2> QED
    BY <2>1, <2>2, <1>1, <1>6, <1>10, <1>12, <1>22 DEF Order
<1>24. Contained'
  <2>1. \A e \in AllEquations : duplicate'[e] # 0 => refs[e] \subseteq dependencies'[e]
    BY <1>14, <1>15 DEF IInv, Contained, Seen
  <2>2. \A i \in DOMAIN u : dependencies'[u[i]] = refs[u[i]]
    BY <1>11, <1>15
  <2> QED
    BY <2>1, <2>2, <1>1, <1>6, <1>15 DEF Contained, Seen
<1>25. Folded'
  <2>1. cycle = {}
    BY <1>1, <1>7 DEF IInv, Folded
  <2>2. 1 .. pos' - 1 = {}
    BY <1>1
  <2> QED
    BY <2>1, <2>2, <1>1, <1>6, <1>15 DEF Folded
<1>26. Followed'
  <2>1. \A e \in AllEquations : refs[e] \subseteq Lead(e)'
    BY <1>1, <1>13, Zenon DEF Lead
  <2> QED
    BY <2>1, <1>1, <1>6, <1>10, <1>11, <1>12, <1>15 DEF Followed
<1>27. NoShortCycle' /\ Stuck' /\ Progress'
  BY <1>1, Zenon DEF NoShortCycle, Stuck, Progress, Accepted
<1> QED
  BY <1>17, <1>18, <1>19, <1>20, <1>21, <1>23, <1>24, <1>25, <1>26, <1>27 DEF IInv

-----------------------------------------------------------------------------
(* Looking for cycles. *)

\* A call of recurseDependencies goes deeper or returns.
LEMMA RecurseDependenciesKeeps == IInv /\ recurseDependencies => IInv'
<1> SUFFICES ASSUME IInv, recurseDependencies PROVE IInv'
  OBVIOUS
<1> DEFINE e == equations[pos]
           own == Result(e) \in deps
           known == {c \in Children : c \notin cycle}
           sub == UNION {dependencies[c] : c \in known}
           marked == own \/ e \in cycle \/ Children # known
           res == IF own THEN seen \cup deps ELSE Found(sub)
<1>f. Finds
  <2>1. equations \in Seq(AllEquations)
    BY DEF IInv, TypeOK
  <2> QED
    BY <2>1, Find DEF Finds
<1>1. /\ phase = "cycles"
      /\ cycle' = IF marked THEN cycle \cup {e} ELSE cycle
      /\ UNCHANGED <<refs, data, equations, root, duplicate, evalPossible, typed, evaluated, run>>
      /\ IF ~own /\ marked /\ sub # {}
           THEN /\ deps' = sub /\ seen' = seen \cup deps
                /\ UNCHANGED <<dependencies, err, pos, phase>>
           ELSE /\ IF marked \/ Result(e) \in res
                     THEN err' = TRUE /\ UNCHANGED dependencies
                     ELSE dependencies' = [dependencies EXCEPT ![e] = res] /\ UNCHANGED err
                /\ NextEquation
  BY DEF recurseDependencies, body
<1>2. CASE ~own /\ marked /\ sub # {}
  <2>1. known \subseteq Children /\ deps' = UNION {dependencies[c] : c \in known}
    BY <1>1, <1>2
  <2>2. /\ cycle' = cycle \cup {equations[pos]} /\ seen' = seen \cup deps
        /\ UNCHANGED <<dependencies, err, pos, phase>>
    BY <1>1, <1>2
  <2> HIDE DEF known
  <2> QED
    BY <1>1, <2>1, <2>2, <1>f, DeeperKeeps DEF Deeper
<1>3. CASE ~(~own /\ marked /\ sub # {})
  <2>1. /\ NextEquation
        /\ IF marked \/ Result(e) \in res
             THEN err' = TRUE /\ UNCHANGED dependencies
             ELSE dependencies' = [dependencies EXCEPT ![e] = res] /\ UNCHANGED err
    BY <1>1, <1>3
  <2>2. res \subseteq Lead(e)
    <3>1. sub \subseteq Lead(e)
      BY <1>1, <1>f, Followers
    <3>2. deps \cup seen \subseteq Lead(e)
      BY <1>1 DEF IInv, Followed
    <3> QED
      BY <3>1, <3>2 DEF Found
  <2>3. refs[e] \subseteq res
    <3>1. refs[e] \subseteq deps \cup seen
      BY <1>1 DEF IInv, Contained
    <3> QED
      BY <3>1 DEF Found
  <2>4. err \in BOOLEAN /\ cycle \subseteq AllEquations /\ e \in AllEquations
    BY <1>1, Walking DEF IInv, TypeOK
  <2>5. cycle' \subseteq AllEquations
    BY <1>1, <2>4
  <2>6. /\ err' \in BOOLEAN /\ (err => err')
        /\ \/ err' /\ dependencies' = dependencies
           \/ dependencies' = [dependencies EXCEPT ![e] = res]
    <3> HIDE DEF marked, res, e
    <3> QED
      BY <2>1, <2>4, Zenon
  <2>7. ASSUME ~err'
        PROVE  /\ dependencies' = [dependencies EXCEPT ![e] = res]
               /\ Result(e) \notin res /\ ~marked /\ ~err
    <3> HIDE DEF marked, res, e
    <3> QED
      BY <2>1, <2>7
  <2>8. ASSUME ~err'
        PROVE  /\ cycle' = {}
               /\ \A f \in Listed : Result(f) \in refs[e] => dependencies[f] \subseteq res
               /\ e \in evalPossible => res \ Generated \subseteq Behind(pos)
    <3>1. ~own /\ e \notin cycle /\ Children = known /\ ~err /\ res = seen \cup deps \cup sub
      BY <2>7, <2>8 DEF Found
    <3>2. cycle = {} /\ deps = refs[e]
      BY <3>1, <1>1 DEF IInv, Folded
    <3>3. cycle' = {}
      BY <3>1, <3>2, <1>1
    <3>4. \A f \in Listed : Result(f) \in refs[e] => f \in known
      BY <3>1, <3>2, <1>1, <1>f, Followers
    <3>5. e \in evalPossible => sub \ Generated \subseteq Behind(pos)
      BY <3>1, <1>1, <1>f, Followers
    <3>6. e \in evalPossible => (deps \cup seen) \ Generated \subseteq Behind(pos)
      BY <3>1, <1>1 DEF IInv, Order
    <3> HIDE DEF known, res, e
    <3> QED
      BY <3>1, <3>3, <3>4, <3>5, <3>6
  <2> HIDE DEF res
  <2> QED
    BY <1>1, <2>1, <2>2, <2>3, <2>5, <2>6, <2>7, <2>8, ReturnKeeps DEF Returns
<1> QED
  BY <1>2, <1>3

-----------------------------------------------------------------------------
(* The initial state. *)

\* A netlist that has been read satisfies the invariant.
LEMMA InitIInv == Init => IInv
<1> SUFFICES ASSUME Init PROVE IInv
  OBVIOUS
<1>1. /\ equations \in Lists /\ data \in Datasets /\ root = <<>>
      /\ dependencies = [e \in AllEquations |-> {}] /\ cycle = {}
      /\ duplicate = [e \in AllEquations |-> 0] /\ evalPossible = {} /\ typed = {}
      /\ evaluated = [e \in AllEquations |-> 0] /\ run = 0 /\ err = FALSE
      /\ phase = "collect" /\ pos = 1 /\ deps = {} /\ seen = {}
  BY DEF Init
<1>2. PICK written \in [Members(equations) -> {s \in SUBSET Variables : Cardinality(s) <= MaxRefs}],
           given \in [PropertyEquations -> {{}} \cup {{Result(e)} : e \in Members(equations)}] :
        refs = [e \in AllEquations |->
                  IF e \in Members(equations) THEN written[e]
                  ELSE IF e \in PropertyEquations THEN given[e]
                  ELSE {}]
  BY DEF Init
<1>3. /\ equations \in Seq(NetlistEquations) /\ equations # <<>> /\ Distinct(equations)
      /\ Members(equations) \subseteq NetlistEquations
  <2>1. equations \in Seq(NetlistEquations) /\ equations # <<>> /\ Distinct(equations)
    BY <1>1, ListsAssumption
  <2> QED
    BY <2>1, <1>1 DEF NetlistEquations
<1>4. /\ Listed = Members(equations) /\ Members(root) = {} /\ DOMAIN root = {}
      /\ Listed \subseteq AllEquations
  BY <1>1, <1>3, Kinds DEF Listed, Members
<1>5. MaxSolves \in Nat /\ ~Final
  BY <1>1, SizeAssumption DEF Final
<1>6. TypeOK
  <2>1. equations \in Seq(AllEquations) /\ root \in Seq(AllEquations)
    BY <1>1, <1>3, Kinds
  <2>2. 0 \in 0 .. MaxSolves + 1
    BY <1>5
  <2> QED
    BY <1>1, <2>1, <2>2, Zenon DEF TypeOK
<1>7. Places
  <2>1. Distinct(root)
    BY <1>4 DEF Distinct
  <2> QED
    BY <1>1, <1>3, <1>4, <2>1 DEF Places
<1>8. Sources
  <2>1. \A e \in Members(equations) : refs[e] = written[e] /\ refs[e] \subseteq Variables
    BY <1>2, <1>4
  <2>2. \A e \in PropertyEquations : refs[e] = given[e]
    BY <1>2, <1>3, Kinds
  <2>3. \A e \in DataEquations : refs[e] = {}
    BY <1>2, <1>3, Kinds
  <2>4. \A e \in PropertyEquations : \A v \in refs[e] : \E f \in Members(equations) : Result(f) = v
    BY <2>2
  <2>5. \A e \in PropertyEquations : refs[e] \subseteq Variables
    BY <2>4, <1>4, Kinds
  <2>6. \A e \in AllEquations : refs[e] \subseteq Variables
    <3>1. \A e \in AllEquations :
            e \in Members(equations) \/ e \in PropertyEquations \/ refs[e] = {}
      BY <1>2
    <3> QED
      BY <3>1, <2>1, <2>5
  <2>7. refs \in [AllEquations -> SUBSET Variables]
    BY <2>6, <1>2
  <2>8. /\ NetlistEquations \cap Listed = Members(equations)
        /\ PropertyEquations \cap Listed = {} /\ DataEquations \cap Listed = {}
    BY <1>3, <1>4, Kinds
  <2>9. ~(run > 0 \/ phase # "collect")
    BY <1>1
  <2> QED
    BY <2>3, <2>4, <2>7, <2>8, <2>9, <1>1, <1>5 DEF Sources
<1>9. Marks /\ Names
  <2>1. \A e \in AllEquations : ~Seen(e)
    BY <1>1 DEF Seen
  <2> QED
    BY <2>1, <1>1, <1>4 DEF Marks, Names
<1>10. Order
  BY <1>1, <1>4 DEF Order
<1>11. Contained
  BY <1>1, Zenon DEF Contained, Seen
<1>12. Folded /\ NoShortCycle /\ Followed /\ Stuck /\ Progress
  BY <1>1 DEF Folded, NoShortCycle, Followed, Stuck, Progress, Accepted
<1> QED
  BY <1>6, <1>7, <1>8, <1>9, <1>10, <1>11, <1>12 DEF IInv

\* Every step of checker and solver keeps it.
LEMMA NextIInv == IInv /\ [Next]_vars => IInv'
<1> SUFFICES ASSUME IInv, [Next]_vars PROVE IInv'
  OBVIOUS
<1>1. CASE MoveEquation
  BY <1>1, ReadyMeans, MoveEquationKeeps
<1>2. CASE applyTypes
  <2>1. ~err => Members(equations) \cap evalPossible = {}
    <3>1. \A i \in DOMAIN equations : ~Ready(equations[i])
      BY <1>2, Zenon DEF applyTypes
    <3> QED
      BY <3>1, NothingLeft
  <2> QED
    BY <1>2, <2>1, ReadyMeans, ApplyTypesKeeps
<1> QED
  BY <1>1, <1>2, CollectKeeps, RecurseDependenciesKeeps, EvaluateKeeps, EndEvaluationKeeps,
     SolveKeeps, StutterKeeps DEF Next

-----------------------------------------------------------------------------
(* The theorems. *)

\* The checker and the solver keep the invariant, for any netlist and dataset.
THEOREM Invariance == Spec => []IInv
<1> QED
  BY InitIInv, NextIInv, PTL DEF Spec

\* The variables keep their types.
THEOREM TypeCorrect == Spec => []TypeOK
<1>1. IInv => TypeOK
  BY DEF IInv
<1> QED
  BY <1>1, Invariance, PTL

\* reorderEquations: the equations marked as evaluable are exactly those that
\* lead to neither an undefined variable nor a cycle, however many equations
\* there are, in whatever order they are written and in every run.
THEOREM MarkedIfEvaluable == Spec => []EvaluableMarked
<1> QED
  BY Invariance, ImpliesEvaluableMarked, PTL

\* reorderEquations, collectDependencies and checkinDataset: every equation
\* stays in the list, once, while the list is taken apart and put together.
THEOREM EquationsKept == Spec => []NoneLost
<1> QED
  BY Invariance, ImpliesNoneLost, PTL

\* findDuplicate: no name has two definitions when the equations are evaluated,
\* though each run counts only the names it has not seen before.
THEOREM NamesUnique == Spec => []OneDefinition
<1> QED
  BY Invariance, ImpliesOneDefinition, PTL

\* detectCycles: a cycle of one, two or three equations is never accepted,
\* whatever the other equations are.
THEOREM ShortCyclesFound == Spec => []ShortCyclesReported
<1> QED
  BY Invariance, ImpliesShortCyclesReported, PTL

\* What an evaluable equation refers to is defined by equations evaluated
\* before it in the same run.
LEMMA OperandsReady ==
  ASSUME IInv, Evaluate, NEW e \in AllEquations, evaluated'[e] # evaluated[e],
         NEW v \in refs[e] \ Generated
  PROVE  Defines(equations, v) /\ evaluated[findEquation(equations, v)] = run
<1>1. phase = "evaluate" /\ Accepted /\ pos <= Len(equations) /\ pos \in Nat \ {0}
  BY DEF Evaluate, Accepted, IInv, Places
<1> USE Good
<1>2. pos \in DOMAIN equations
  BY <1>1
<1>3. e = equations[pos] /\ e \in evalPossible
  <2>1. evaluated \in [AllEquations -> 0 .. MaxSolves + 1]
    BY Zenon DEF IInv, TypeOK
  <2> QED
    BY <2>1 DEF Evaluate
<1>4. v \in dependencies[e]
  <2>1. Seen(e)
    BY <1>3 DEF IInv, Marks
  <2> QED
    BY <2>1, Zenon DEF IInv, Contained
<1>5. v \in Behind(pos)
  BY <1>1, <1>2, <1>3, <1>4 DEF IInv, Order
<1>6. PICK j \in 1 .. pos - 1 : equations[j] \in evalPossible /\ Result(equations[j]) = v
  BY <1>1, <1>5 DEF Behind
<1>7. j \in DOMAIN equations /\ j < pos
  BY <1>1, <1>2
<1>8. evaluated[equations[j]] = run
  BY <1>1, <1>6, <1>7 DEF IInv, Progress
<1>9. Defines(equations, v)
  BY <1>6, <1>7 DEF Defines
<1>10. findEquation(equations, v) \in Listed /\ Result(findEquation(equations, v)) = v
  BY <1>1, <1>9, Find
<1>11. findEquation(equations, v) = equations[j]
  <2>1. Seen(equations[j]) /\ Seen(findEquation(equations, v))
    BY <1>1, <1>7, <1>10 DEF IInv, Marks
  <2> QED
    BY <2>1, <1>1, <1>6, <1>7, <1>10 DEF IInv, Names
<1> QED
  BY <1>8, <1>9, <1>11

\* "The new order can be used to evaluate the list step by step": the solver
\* evaluates an equation after all it refers to, in the same run, for any
\* netlist the checker accepts.
THEOREM EvaluationOrder == Spec => OperandsFirst
<1> DEFINE A == \A e \in AllEquations :
                  evaluated'[e] # evaluated[e] =>
                    \A v \in refs[e] \ Generated :
                      Defines(equations, v) /\ evaluated[findEquation(equations, v)] = run
<1>1. IInv /\ [Next]_vars => [A]_vars
  <2> SUFFICES ASSUME IInv, Next PROVE A
    OBVIOUS
  <2>1. CASE Evaluate
    BY <2>1, OperandsReady
  <2>2. CASE ~Evaluate
    <3>1. evaluated' = evaluated
      BY <2>2, Zenon DEF Next, Collect, recurseDependencies, MoveEquation, applyTypes, EndEvaluation,
                  Solve, marks
    <3> QED
      BY <3>1
  <2> QED
    BY <2>1, <2>2, Zenon
<1> QED
  BY <1>1, Invariance, PTL DEF Spec, OperandsFirst
=============================================================================
