-------------------------- MODULE EquationsChecker --------------------------
(***************************************************************************)
(* The checker keeps the inductive invariant of Equations: the reordering  *)
(* by checker::reorderEquations, and the two ways a step of                *)
(* checker::recurseDependencies can go.  What needs counting or searching  *)
(* is a hypothesis here (Counted, Finds), and follows in EquationsProofs.  *)
(***************************************************************************)
EXTENDS EquationsInvariant

-----------------------------------------------------------------------------
(* Reordering. *)

\* reorderEquations moves the first equation that is ready to the new list.
LEMMA MoveEquationKeeps ==
  ASSUME IInv, MoveEquation, Counted
  PROVE  IInv'
<1>1. /\ phase = "reorder" /\ phase' = "reorder"
      /\ UNCHANGED <<refs, data, dependencies, cycle, duplicate, typed, evaluated, run, err,
                     pos, deps, seen>>
  BY DEF MoveEquation, body, walk
<1>2. PICK i \in DOMAIN equations :
        /\ Ready(equations[i])
        /\ root' = Append(root, equations[i]) /\ equations' = dropEquation(equations, i)
        /\ evalPossible' = evalPossible \cup {equations[i]}
  BY DEF MoveEquation, appendEquation
<1> DEFINE e == equations[i]
           n == Len(root)
<1>3. /\ equations \in Seq(AllEquations) /\ root \in Seq(AllEquations)
      /\ Len(equations) \in Nat /\ DOMAIN equations = 1 .. Len(equations)
      /\ n \in Nat /\ DOMAIN root = 1 .. n
      /\ Distinct(root) /\ Distinct(equations) /\ Members(root) \cap Members(equations) = {}
  BY TwoLists DEF IInv, Places
<1>4. e \in AllEquations /\ e \in Members(equations) /\ e \in Listed /\ e \notin Members(root)
  <2>1. e \in AllEquations /\ e \in Listed
    BY TwoLists
  <2>2. e \in Members(equations)
    BY Zenon DEF Members
  <2> QED
    BY <1>3, <2>1, <2>2
<1>5. \A v \in dependencies[e] \ Generated : Defines(root, v)
  BY <1>2, <1>4 DEF Counted
<1>6. /\ root' \in Seq(AllEquations) /\ DOMAIN root' = 1 .. n + 1
      /\ root'[n + 1] = e /\ \A j \in 1 .. n : root'[j] = root[j]
  BY <1>1, <1>2, <1>3, <1>4
<1>7. /\ equations' \in Seq(AllEquations) /\ DOMAIN equations' = 1 .. Len(equations) - 1
      /\ \A j \in DOMAIN equations' :
           equations'[j] = IF j < i THEN equations[j] ELSE equations[j + 1]
  BY <1>1, <1>2, <1>3, Removed, Zenon
<1> DEFINE old(j) == IF j < i THEN j ELSE j + 1
<1>8. \A j \in DOMAIN equations' : old(j) \in DOMAIN equations /\ old(j) # i /\ old(j) \in Nat
                                   /\ equations'[j] = equations[old(j)]
  BY <1>3, <1>2, <1>7
<1>9. \A k \in DOMAIN equations : k # i => \E j \in DOMAIN equations' : old(j) = k
  <2> SUFFICES ASSUME NEW k \in DOMAIN equations, k # i
               PROVE  \E j \in DOMAIN equations' : old(j) = k
    OBVIOUS
  <2>1. CASE k < i
    <3>1. k \in DOMAIN equations' /\ old(k) = k
      BY <2>1, <1>3, <1>2, <1>7
    <3> QED
      BY <3>1
  <2>2. CASE k > i
    <3>1. k - 1 \in DOMAIN equations' /\ old(k - 1) = k
      BY <2>2, <1>3, <1>2, <1>7
    <3> QED
      BY <3>1
  <2> QED
    BY <2>1, <2>2, <1>3, <1>2
<1>10. \A j, k \in DOMAIN equations' : (old(j) = old(k) => j = k) /\ (old(j) < old(k) => j < k)
  BY <1>3, <1>2, <1>7
<1> HIDE DEF old
<1>11. Members(root') = Members(root) \cup {e}
  <2>1. \A j \in 1 .. n + 1 : j = n + 1 \/ j \in 1 .. n
    BY <1>3
  <2>2. n + 1 \in 1 .. n + 1 /\ \A j \in 1 .. n : j \in 1 .. n + 1
    BY <1>3
  <2> QED
    BY <1>3, <1>6, <2>1, <2>2 DEF Members
<1>12. Members(equations') = Members(equations) \ {e}
  <2>1. \A j \in DOMAIN equations' : equations'[j] \in Members(equations) \ {e}
    BY <1>3, <1>2, <1>8 DEF Distinct, Members
  <2>2. \A k \in DOMAIN equations : equations[k] # e => equations[k] \in Members(equations')
    BY <1>8, <1>9 DEF Members
  <2> QED
    BY <2>1, <2>2 DEF Members
<1>13. Listed' = Listed
  BY <1>4, <1>11, <1>12 DEF Listed
<1>14. Distinct(root')
  <2> SUFFICES ASSUME NEW j \in 1 .. n + 1, NEW k \in 1 .. n + 1, root'[j] = root'[k]
               PROVE  j = k
    BY <1>6 DEF Distinct
  <2>1. \A l \in 1 .. n : root[l] # e
    BY <1>3, <1>4 DEF Members
  <2>2. (j \in 1 .. n \/ j = n + 1) /\ (k \in 1 .. n \/ k = n + 1)
    BY <1>3
  <2>3. \A l, m \in 1 .. n : root[l] = root[m] => l = m
    BY <1>3 DEF Distinct
  <2> QED
    BY <1>6, <2>1, <2>2, <2>3
<1>15. Distinct(equations')
  <2>1. \A j, k \in DOMAIN equations' : equations'[j] = equations'[k] => old(j) = old(k)
    BY <1>3, <1>8 DEF Distinct
  <2> HIDE DEF old
  <2> QED
    BY <2>1, <1>10 DEF Distinct
<1>16. TypeOK'
  <2>1. evalPossible' \subseteq AllEquations /\ typed' \subseteq evalPossible'
    BY <1>1, <1>2, <1>4 DEF IInv, TypeOK
  <2> QED
    BY <1>1, <1>6, <1>7, <2>1, Zenon DEF IInv, TypeOK
<1>17. Places'
  <2>1. Members(root') \cap Members(equations') = {}
    BY <1>3, <1>4, <1>11, <1>12
  <2> QED
    BY <1>1, <1>2, <1>14, <1>15, <2>1 DEF IInv, Places
<1>18. Sources'
  BY <1>1, <1>2, <1>13 DEF IInv, Sources, Final
<1>19. (\A f : Seen(f)' = Seen(f)) /\ \A f : Lead(f)' = Lead(f)
  BY <1>1, <1>2, <1>13 DEF Seen, Lead, Closed
<1>20. Marks' /\ Names'
  <2>1. Marks'
    BY <1>1, <1>2, <1>4, <1>11, <1>13, <1>19 DEF IInv, Marks
  <2>2. Names'
    BY <1>1, <1>2, <1>4, <1>11, <1>13, <1>19 DEF IInv, Names
  <2> QED
    BY <2>1, <2>2
<1>21. Contained' /\ Folded'
  <2>1. Contained'
    BY <1>1, <1>2, <1>19 DEF IInv, Contained
  <2>2. Folded'
    BY <1>1, <1>2, <1>19 DEF IInv, Folded
  <2> QED
    BY <2>1, <2>2
<1>22. NoShortCycle' /\ Followed'
  <2>1. NoShortCycle'
    BY <1>1, <1>2, <1>13, <1>19 DEF IInv, NoShortCycle
  <2>2. Followed'
    BY <1>1, <1>2, <1>13, <1>19 DEF IInv, Followed
  <2> QED
    BY <2>1, <2>2
<1>23. Stuck' /\ Progress'
  BY <1>1, <1>2 DEF Stuck, Progress, Accepted
<1>24. Order'
  <2> SUFFICES ASSUME ~err PROVE Order'
    BY <1>1, <1>2 DEF Order
  <2>1. ASSUME NEW j \in DOMAIN root', NEW v \in dependencies[root'[j]] \ Generated
        PROVE  \E k \in 1 .. j - 1 : Result(root'[k]) = v
    <3>1. CASE j \in 1 .. n
      <4>1. PICK k \in 1 .. j - 1 : Result(root[k]) = v
        BY <2>1, <3>1, <1>3, <1>6 DEF IInv, Order
      <4>2. k \in 1 .. n
        BY <3>1, <1>3
      <4> QED
        BY <4>1, <4>2, <1>6
    <3>2. CASE j = n + 1
      <4>1. PICK k \in DOMAIN root : Result(root[k]) = v
        BY <2>1, <3>2, <1>5, <1>6 DEF Defines
      <4>2. k \in 1 .. j - 1
        BY <3>2, <1>3
      <4> QED
        BY <4>1, <4>2, <1>3, <1>6
    <3> QED
      BY <3>1, <3>2, <1>3, <1>6
  <2>2. \A j \in DOMAIN root' : root'[j] \in evalPossible'
    <3>1. \A j \in 1 .. n : root[j] \in evalPossible
      BY <1>3 DEF IInv, Order
    <3> QED
      BY <3>1, <1>1, <1>2, <1>3, <1>6
  <2>3. ASSUME NEW j \in DOMAIN equations', equations'[j] \in evalPossible'
        PROVE  dependencies[equations'[j]] \ Generated \subseteq Behind(j)'
    <3> DEFINE f == equations'[j]
    <3>1. f = equations[old(j)] /\ f # e /\ f \in evalPossible /\ old(j) \in DOMAIN equations
      BY <2>3, <1>1, <1>2, <1>8, <1>12, Zenon DEF Members
    <3>2. dependencies[f] \ Generated \subseteq Behind(old(j))
      BY <3>1 DEF IInv, Order
    <3>3. Behind(old(j)) \subseteq Behind(j)'
      <4> SUFFICES ASSUME NEW v \in Behind(old(j)) PROVE v \in Behind(j)'
        OBVIOUS
      <4>1. CASE \E g \in Members(root) : v = Result(g)
        BY <4>1, <1>11 DEF Behind
      <4>2. CASE \E k \in 1 .. old(j) - 1 : equations[k] \in evalPossible /\ v = Result(equations[k])
        <5>1. PICK k \in 1 .. old(j) - 1 : equations[k] \in evalPossible /\ v = Result(equations[k])
          BY <4>2
        <5>2. k \in DOMAIN equations /\ k < old(j)
          BY <3>1, <1>3
        <5>3. CASE k = i
          BY <5>1, <5>3, <1>11 DEF Behind
        <5>4. CASE k # i
          <6>1. PICK l \in DOMAIN equations' : old(l) = k
            BY <5>2, <5>4, <1>9
          <6>2. l \in 1 .. j - 1
            BY <6>1, <5>2, <1>3, <1>7, <1>10
          <6>3. equations'[l] = equations[k]
            BY <6>1, <1>8
          <6> QED
            BY <5>1, <6>2, <6>3, <1>1, <1>2 DEF Behind
        <5> QED
          BY <5>3, <5>4
      <4> QED
        BY <4>1, <4>2 DEF Behind
    <3> QED
      BY <3>2, <3>3
  <2> QED
    BY <1>1, <1>2, <2>1, <2>2, <2>3 DEF Order
<1> QED
  BY <1>16, <1>17, <1>18, <1>20, <1>21, <1>22, <1>23, <1>24 DEF IInv

\* None is ready any more: the rest is appended, and applyTypes decides whether
\* the run is accepted.
LEMMA ApplyTypesKeeps ==
  ASSUME IInv, applyTypes, Counted, ~err => Members(equations) \cap evalPossible = {}
  PROVE  IInv'
<1> DEFINE u == root \o equations
           n == Len(root)
<1>1. /\ phase = "reorder" /\ \A i \in DOMAIN equations : ~Ready(equations[i])
      /\ equations' = u /\ root' = <<>> /\ typed' = typed \cup Members(root)
      /\ err' \in {err, TRUE}
      /\ phase' = IF err' THEN "failed" ELSE IF run = 0 THEN "checked" ELSE "evaluate"
      /\ UNCHANGED <<refs, data, dependencies, cycle, duplicate, evalPossible, evaluated, run,
                     pos, deps, seen>>
  BY Zenon DEF applyTypes, body, walk
<1>2. /\ equations \in Seq(AllEquations) /\ root \in Seq(AllEquations) /\ err \in BOOLEAN
      /\ run \in 0 .. MaxSolves + 1 /\ pos = 1 /\ MaxSolves \in Nat
      /\ Distinct(root) /\ Distinct(equations) /\ Members(root) \cap Members(equations) = {}
  BY <1>1, SizeAssumption DEF IInv, TypeOK, Places
<1>3. /\ u \in Seq(AllEquations) /\ n \in Nat /\ DOMAIN root = 1 .. n
      /\ DOMAIN equations = 1 .. Len(equations) /\ Len(equations) \in Nat
      /\ DOMAIN u = 1 .. n + Len(equations)
      /\ \A i \in 1 .. n : u[i] = root[i]
      /\ \A i \in 1 .. Len(equations) : u[n + i] = equations[i]
      /\ \A i \in DOMAIN u : i \notin 1 .. n => i - n \in 1 .. Len(equations)
      /\ Members(u) = Members(root) \cup Members(equations)
  BY <1>2, Concat
<1>4. Distinct(u)
  BY <1>2, ConcatInjective
<1> HIDE DEF u
<1>5. Members(root') = {} /\ DOMAIN root' = {}
  BY <1>1 DEF Members
<1>6. Listed' = Listed /\ Members(equations') = Listed
  BY <1>1, <1>3, <1>5 DEF Listed
<1>7. u # <<>>
  <2>1. PICK l \in Lists : NetlistEquations \cap Listed = Members(l)
    BY DEF IInv, Sources
  <2>2. l \in Seq(NetlistEquations) /\ l # <<>>
    BY <2>1, ListsAssumption
  <2>3. 1 \in DOMAIN l
    BY <2>2
  <2>4. Members(l) # {}
    BY <2>3 DEF Members
  <2>5. Members(u) # {}
    BY <2>1, <2>4, <1>3 DEF Listed
  <2> QED
    BY <2>5 DEF Members
<1>8. TypeOK'
  <2>1. Members(root) \subseteq evalPossible
    BY DEF IInv, Marks
  <2>2. root' \in Seq(AllEquations) /\ equations' \in Seq(AllEquations)
    BY <1>1, <1>3
  <2>3. /\ err' \in BOOLEAN
        /\ phase' \in {"collect", "cycles", "reorder", "checked", "evaluate", "done", "failed"}
    BY <1>1, <1>2, Zenon
  <2>4. typed' \subseteq evalPossible'
    BY <1>1, <2>1 DEF IInv, TypeOK
  <2> QED
    BY <1>1, <2>2, <2>3, <2>4 DEF IInv, TypeOK
<1>9. Places'
  <2>1. Distinct(root')
    BY <1>5 DEF Distinct
  <2>2. Distinct(equations') /\ equations' # <<>>
    BY <1>1, <1>4, <1>7
  <2>3. phase' = "evaluate" => run' > 0
    BY <1>1, <1>2
  <2>4. phase' = "checked" => run' <= MaxSolves
    BY <1>1, <1>2
  <2>5. phase' \in {"failed", "checked", "evaluate"} /\ (phase' # "failed" => ~err')
    BY <1>1
  <2> QED
    BY <1>1, <1>2, <1>5, <2>1, <2>2, <2>3, <2>4, <2>5 DEF Places
<1>10. phase' \in {"failed", "checked", "evaluate"} /\ (~err' => ~err)
  BY <1>1, <1>2, Zenon
<1>11. Sources'
  BY <1>1, <1>6, <1>10 DEF IInv, Sources, Final
<1>12. (\A f : Seen(f)' = Seen(f)) /\ \A f : Lead(f)' = Lead(f)
  BY <1>1, <1>6 DEF Seen, Lead, Closed
<1>13. Marks' /\ Names'
  <2>1. Marks'
    BY <1>1, <1>5, <1>6, <1>10, <1>12 DEF IInv, Marks
  <2>2. Names'
    BY <1>1, <1>5, <1>6, <1>10, <1>12 DEF IInv, Names
  <2> QED
    BY <2>1, <2>2
<1>14. Contained' /\ Folded'
  <2>1. Contained'
    BY <1>1, <1>10, <1>12 DEF IInv, Contained
  <2>2. Folded'
    BY <1>1, <1>10, <1>12 DEF IInv, Folded
  <2> QED
    BY <2>1, <2>2
<1>15. NoShortCycle' /\ Followed'
  <2>1. NoShortCycle'
    BY <1>1, <1>6, <1>10, <1>12 DEF IInv, NoShortCycle
  <2>2. Followed'
    BY <1>1, <1>6, <1>10, <1>12 DEF IInv, Followed
  <2> QED
    BY <2>1, <2>2
<1>16. Progress'
  <2>1. \A i \in DOMAIN equations' : ~(i < pos')
    BY <1>1, <1>2, <1>3
  <2> QED
    BY <2>1 DEF Progress
<1>17. Order'
  <2> SUFFICES ASSUME ~err' PROVE Order'
    BY DEF Order
  <2>1. Members(equations) \cap evalPossible = {}
    BY <1>10
  <2>2. ASSUME NEW i \in DOMAIN u, u[i] \in evalPossible, NEW v \in dependencies[u[i]] \ Generated
        PROVE  v \in Behind(i)'
    <3>1. i \in 1 .. n
      <4> SUFFICES ASSUME i \notin 1 .. n PROVE FALSE
        OBVIOUS
      <4>1. i - n \in DOMAIN equations /\ n + (i - n) = i
        BY <1>3
      <4>2. u[i] = equations[i - n]
        BY <4>1, <1>3
      <4> QED
        BY <4>1, <4>2, <2>1, <2>2 DEF Members
    <3>2. PICK j \in 1 .. i - 1 : Result(root[j]) = v
      BY <2>2, <3>1, <1>3, <1>10 DEF IInv, Order
    <3>3. j \in 1 .. n
      BY <3>1, <1>3
    <3>4. u[j] = root[j] /\ root[j] \in evalPossible
      BY <3>3, <1>3, <1>10 DEF IInv, Order
    <3> QED
      BY <3>2, <3>4, <1>1 DEF Behind
  <2> QED
    BY <2>2, <1>1, <1>5, <1>10, Zenon DEF Order
<1>18. Stuck'
  <2> SUFFICES ASSUME ~err', NEW e \in Listed \ evalPossible
               PROVE  \E v \in Lead(e) \ Generated : \A f \in Listed \cap evalPossible : Result(f) # v
    <3>1. Accepted' => ~err'
      BY <1>9 DEF Places, Accepted
    <3> QED
      BY <3>1, <1>1, <1>6, <1>12 DEF Stuck
  <2>1. Members(equations) \cap evalPossible = {}
    BY <1>10
  <2>2. e \in Members(equations)
    BY DEF IInv, Marks, Listed
  <2>3. e \in AllEquations /\ ~Ready(e)
    BY <2>2, <1>1, <1>2, <1>3 DEF Members
  <2>4. PICK v \in dependencies[e] \ Generated : ~Defines(root, v)
    BY <2>3 DEF Counted
  <2>5. v \in Lead(e)
    BY <2>4, <1>1, Zenon DEF IInv, Followed
  <2>6. \A f \in Listed \cap evalPossible : Result(f) # v
    BY <2>1, <2>4 DEF Listed, Defines, Members
  <2> QED
    BY <2>4, <2>5, <2>6
<1> QED
  BY <1>8, <1>9, <1>11, <1>13, <1>14, <1>15, <1>16, <1>17, <1>18 DEF IInv

-----------------------------------------------------------------------------
(* Looking for cycles. *)

\* While detectCycles walks over the equations all of them are in one list.
LEMMA Walking ==
  ASSUME IInv, phase = "cycles"
  PROVE  /\ root = <<>> /\ Members(root) = {} /\ Listed = Members(equations)
         /\ equations \in Seq(AllEquations) /\ Len(equations) \in Nat
         /\ DOMAIN equations = 1 .. Len(equations) /\ pos \in DOMAIN equations
         /\ Distinct(equations)
         /\ \A i \in DOMAIN equations : equations[i] \in AllEquations /\ equations[i] \in Listed
         /\ \A e \in Listed : e \in AllEquations /\ Result(e) \in Variables \ Generated /\ Seen(e)
<1>1. root = <<>>
  BY DEF IInv, Places
<1>2. Members(root) = {} /\ Listed = Members(equations)
  BY <1>1, LeadsAgree DEF Members
<1>3. equations \in Seq(AllEquations) /\ pos \in DOMAIN equations /\ Distinct(equations)
  BY DEF IInv, TypeOK, Places
<1>4. Len(equations) \in Nat /\ DOMAIN equations = 1 .. Len(equations)
  BY <1>3
<1>5. \A i \in DOMAIN equations : equations[i] \in AllEquations /\ equations[i] \in Listed
  BY <1>2, <1>3 DEF Members
<1>6. \A e \in Listed : e \in AllEquations
  BY <1>2, <1>5 DEF Members
<1>7. \A e \in Listed : Seen(e)
  BY DEF IInv, Marks
<1> QED
  BY <1>1, <1>2, <1>3, <1>4, <1>5, <1>6, <1>7, Kinds

\* The equations recurseDependencies follows: they define what the equation
\* leads to, and they come before one that is evaluable.
LEMMA Followers ==
  ASSUME IInv, phase = "cycles", Finds
  PROVE  /\ \A c \in Children : c \in Listed /\ Result(c) \in deps
         /\ ~err => \A f \in Listed : Result(f) \in deps => f \in Children
         /\ \A c \in Children : dependencies[c] \subseteq Lead(equations[pos])
         /\ ~err /\ equations[pos] \in evalPossible =>
              \A c \in Children : dependencies[c] \ Generated \subseteq Behind(pos)
<1> USE Walking
<1>1. \A c \in Children : c \in Listed /\ Result(c) \in deps
  BY DEF Children, Finds
<1>2. ASSUME ~err, NEW f \in Listed, Result(f) \in deps
      PROVE  f \in Children
  <2>1. Defines(equations, Result(f))
    BY DEF Defines, Members
  <2>2. findEquation(equations, Result(f)) \in Listed
        /\ Result(findEquation(equations, Result(f))) = Result(f)
    BY <2>1 DEF Finds
  <2>3. findEquation(equations, Result(f)) = f
    BY <1>2, <2>2 DEF IInv, Names
  <2> QED
    BY <1>2, <2>1, <2>3 DEF Children
<1>3. ASSUME NEW c \in Children
      PROVE  dependencies[c] \subseteq Lead(equations[pos])
  <2>1. Result(c) \in Lead(equations[pos])
    BY <1>1 DEF IInv, Followed
  <2>2. Lead(c) \subseteq Lead(equations[pos])
    BY <2>1, <1>1, LeadStep
  <2>3. dependencies[c] \subseteq Lead(c)
    BY <1>1 DEF IInv, Followed
  <2> QED
    BY <2>2, <2>3
<1>4. ASSUME ~err, equations[pos] \in evalPossible, NEW c \in Children
      PROVE  dependencies[c] \ Generated \subseteq Behind(pos)
  <2>1. Result(c) \in Behind(pos)
    BY <1>1, <1>4 DEF IInv, Order
  <2>2. PICK j \in 1 .. pos - 1 : equations[j] \in evalPossible /\ Result(c) = Result(equations[j])
    BY <2>1 DEF Behind
  <2>3. j \in DOMAIN equations /\ 1 .. j - 1 \subseteq 1 .. pos - 1
    OBVIOUS
  <2>4. c = equations[j]
    BY <2>2, <2>3, <1>1, <1>4 DEF IInv, Names
  <2>5. dependencies[c] \ Generated \subseteq Behind(j)
    BY <2>2, <2>3, <2>4, <1>4 DEF IInv, Order
  <2>6. Behind(j) \subseteq Behind(pos)
    BY <2>3 DEF Behind
  <2> QED
    BY <2>5, <2>6
<1> QED
  BY <1>1, <1>2, <1>3, <1>4

\* What the walk knows of the equations s, which refer to r and have dependencies d.
Gathered(s, n, r, d) ==
  \A i \in 1 .. n :
    /\ r[s[i]] \subseteq d[s[i]]
    /\ Result(s[i]) \notin d[s[i]]
    /\ \A f \in Members(s) : Result(f) \in r[s[i]] => r[f] \subseteq d[s[i]]
    /\ \A j \in 1 .. i - 1 : Result(s[j]) \in r[s[i]] => d[s[j]] \subseteq d[s[i]]

\* It excludes circles of up to three: one of the three comes after the one it
\* refers to, and so has the dependencies of that one.
LEMMA ShortCycles ==
  ASSUME NEW s, NEW n \in Nat, DOMAIN s = 1 .. n, NEW r, NEW d, Gathered(s, n, r, d),
         NEW e \in Members(s), NEW f \in Members(s), Result(f) \in r[e]
  PROVE  /\ Result(e) \notin r[f]
         /\ \A g \in Members(s) : Result(g) \in r[f] => Result(e) \notin r[g]
<1> USE DEF Gathered
<1>1. \A x \in Members(s) : \E i \in 1 .. n : s[i] = x
  BY DEF Members
<1>2. \A x \in Members(s) : Result(x) \notin r[x]
  BY <1>1
<1>3. \A x, y \in Members(s) : Result(y) \in r[x] => Result(x) \notin r[y]
  BY <1>1
<1>4. ASSUME NEW a \in 1 .. n, NEW b \in 1 .. n, NEW z \in Members(s),
             b <= a, Result(s[b]) \in r[s[a]], Result(z) \in r[s[b]], Result(s[a]) \in r[z]
      PROVE  FALSE
  <2>1. b # a
    BY <1>2, <1>4 DEF Members
  <2>2. b \in 1 .. a - 1
    BY <1>4, <2>1
  <2>3. d[s[b]] \subseteq d[s[a]]
    BY <1>4, <2>2
  <2>4. r[z] \subseteq d[s[b]]
    BY <1>4
  <2> QED
    BY <1>4, <2>3, <2>4
<1>5. ASSUME NEW g \in Members(s), Result(g) \in r[f], Result(e) \in r[g]
      PROVE  FALSE
  <2>1. PICK i \in 1 .. n : s[i] = e
    BY <1>1
  <2>2. PICK j \in 1 .. n : s[j] = f
    BY <1>1
  <2>3. PICK k \in 1 .. n : s[k] = g
    BY <1>1
  <2>4. CASE j <= i
    BY <2>1, <2>2, <2>4, <1>4, <1>5
  <2>5. CASE k <= j
    BY <2>2, <2>3, <2>5, <1>4, <1>5
  <2>6. CASE i <= k
    BY <2>1, <2>3, <2>6, <1>4, <1>5
  <2>7. j <= i \/ k <= j \/ i <= k
    OBVIOUS
  <2> QED
    BY <2>4, <2>5, <2>6, <2>7
<1> QED
  BY <1>3, <1>5

\* A call that calls itself, for the equations C among those it follows.
Deeper(C) ==
  /\ C \subseteq Children
  /\ deps' = UNION {dependencies[c] : c \in C} /\ seen' = seen \cup deps
  /\ cycle' = cycle \cup {equations[pos]}
  /\ UNCHANGED <<refs, data, equations, root, dependencies, duplicate, evalPossible, typed,
                 evaluated, run, err, phase, pos>>

\* recurseDependencies calls itself for the next level.
LEMMA DeeperKeeps ==
  ASSUME IInv, phase = "cycles", Finds, NEW C, Deeper(C)
  PROVE  IInv'
<1>1. /\ seen' = seen \cup deps /\ cycle' = cycle \cup {equations[pos]}
      /\ UNCHANGED <<refs, data, equations, root, dependencies, duplicate, evalPossible, typed,
                     evaluated, run, err, phase, pos>>
  BY DEF Deeper
<1>2. Listed' = Listed /\ (\A f : Lead(f)' = Lead(f)) /\ (\A f : Seen(f)' = Seen(f))
  BY <1>1 DEF Listed, Lead, Closed, Seen
<1>3. \A i : Behind(i)' = Behind(i)
  BY <1>1 DEF Behind
<1>4. deps' \subseteq Lead(equations[pos])
  BY Followers DEF Deeper
<1>5. equations[pos] \in AllEquations
  BY Walking
<1>6. TypeOK'
  <2>1. deps' \subseteq Variables
    BY <1>4 DEF Lead
  <2>2. cycle' \subseteq AllEquations /\ seen' \subseteq Variables
    <3>1. cycle \subseteq AllEquations /\ seen \subseteq Variables /\ deps \subseteq Variables
      BY Zenon DEF IInv, TypeOK
    <3> QED
      BY <3>1, <1>1, <1>5
  <2> QED
    BY <2>1, <2>2, <1>1, Zenon DEF IInv, TypeOK
<1>7. Places' /\ Sources' /\ Marks' /\ Names'
  BY <1>1, <1>2 DEF IInv, Places, Sources, Final, Marks, Names
<1>8. Order'
  <2>1. ~err /\ equations[pos] \in evalPossible => deps' \ Generated \subseteq Behind(pos)
    BY Followers DEF Deeper
  <2> QED
    BY <2>1, <1>1, <1>3 DEF IInv, Order
<1>9. Contained'
  BY <1>1, <1>2 DEF IInv, Contained
<1>10. Folded'
  <2>1. ~err => /\ \A i \in 1 .. pos - 1 :
                    LET e == equations[i] IN
                    /\ Result(e) \notin dependencies[e]
                    /\ \A f \in Members(equations) :
                         Result(f) \in refs[e] => refs[f] \subseteq dependencies[e]
                    /\ \A j \in 1 .. i - 1 : Result(equations[j]) \in refs[e]
                         => dependencies[equations[j]] \subseteq dependencies[e]
                /\ cycle \subseteq {equations[pos]}
    BY Zenon DEF IInv, Folded
  <2>2. cycle \subseteq {equations[pos]} => cycle' \subseteq {equations[pos]}
    BY <1>1
  <2>3. equations[pos] \in cycle'
    BY <1>1
  <2> QED
    BY <2>1, <2>2, <2>3, <1>1, Zenon DEF Folded
<1>11. Followed'
  BY <1>1, <1>2, <1>4 DEF IInv, Followed
<1>12. NoShortCycle' /\ Stuck' /\ Progress'
  BY <1>1 DEF NoShortCycle, Stuck, Progress, Accepted
<1> QED
  BY <1>6, <1>7, <1>8, <1>9, <1>10, <1>11, <1>12 DEF IInv

\* The end of the outermost call, which has found the dependencies res, and the
\* next equation.
Returns(res) ==
  /\ NextEquation
  /\ err' \in BOOLEAN /\ (err => err')
  /\ cycle' \subseteq AllEquations /\ (~err' => cycle' = {})
  /\ res \subseteq Lead(equations[pos]) /\ refs[equations[pos]] \subseteq res
  /\ \/ err' /\ dependencies' = dependencies
     \/ dependencies' = [dependencies EXCEPT ![equations[pos]] = res]
  /\ ~err' =>
       /\ dependencies' = [dependencies EXCEPT ![equations[pos]] = res]
       /\ Result(equations[pos]) \notin res
       /\ \A f \in Listed : Result(f) \in refs[equations[pos]] => dependencies[f] \subseteq res
       /\ equations[pos] \in evalPossible => res \ Generated \subseteq Behind(pos)
  /\ UNCHANGED <<refs, data, equations, root, duplicate, evalPossible, typed, evaluated, run>>

\* The outermost call returns, and detectCycles goes on to the next equation.
LEMMA ReturnKeeps ==
  ASSUME IInv, phase = "cycles", NEW res, Returns(res)
  PROVE  IInv'
<1> DEFINE e == equations[pos]
           n == Len(equations)
<1>u. UNCHANGED <<refs, data, equations, root, duplicate, evalPossible, typed, evaluated, run>>
  BY DEF Returns
<1>e. err' \in BOOLEAN /\ (err => err') /\ cycle' \subseteq AllEquations /\ (~err' => cycle' = {})
  BY DEF Returns
<1>r. res \subseteq Lead(e) /\ refs[e] \subseteq res
  BY DEF Returns
<1>f. ~err' => /\ Result(e) \notin res
               /\ \A f \in Listed : Result(f) \in refs[e] => dependencies[f] \subseteq res
               /\ e \in evalPossible => res \ Generated \subseteq Behind(pos)
  BY DEF Returns
<1>1. /\ root = <<>> /\ Members(root) = {} /\ Listed = Members(equations)
      /\ n \in Nat /\ DOMAIN equations = 1 .. n /\ pos \in 1 .. n
      /\ \A i \in DOMAIN equations : equations[i] \in AllEquations /\ equations[i] \in Listed
      /\ \A f \in Listed : f \in AllEquations /\ Result(f) \in Variables \ Generated /\ Seen(f)
  BY Walking
<1>2. \A i, j \in DOMAIN equations : equations[i] = equations[j] => i = j
  BY Walking DEF Distinct
<1>3. Listed' = Listed /\ (\A f : Lead(f)' = Lead(f)) /\ (\A f : Seen(f)' = Seen(f))
  BY <1>u DEF Listed, Lead, Closed, Seen
<1>4. \A i : Behind(i)' = Behind(i)
  BY <1>u DEF Behind
<1>5. /\ dependencies \in [AllEquations -> SUBSET Variables]
      /\ refs \in [AllEquations -> SUBSET Variables] /\ res \subseteq Variables
  BY <1>r DEF IInv, TypeOK, Sources, Lead
<1>6. /\ dependencies' \in [AllEquations -> SUBSET Variables]
      /\ \A f \in AllEquations : f # e => dependencies'[f] = dependencies[f]
      /\ dependencies'[e] = res \/ (err' /\ dependencies'[e] = dependencies[e])
      /\ ~err' => dependencies'[e] = res
  <2>1. e \in AllEquations
    BY <1>1
  <2>2. CASE dependencies' = [dependencies EXCEPT ![e] = res]
    <3>1. \A f \in AllEquations : f # e => dependencies'[f] = dependencies[f]
      BY <2>2, <1>5
    <3>2. dependencies'[e] = res
      BY <2>1, <2>2, <1>5
    <3>3. dependencies' \in [AllEquations -> SUBSET Variables]
      BY <2>2, <1>5, Zenon
    <3> QED
      BY <3>1, <3>2, <3>3
  <2>3. CASE err' /\ dependencies' = dependencies
    BY <2>1, <2>3, <1>5
  <2> QED
    BY <2>2, <2>3 DEF Returns
<1>7. \/ phase' = "cycles" /\ pos' = pos + 1 /\ pos' \in 1 .. n /\ seen' = {}
           /\ deps' = refs[equations[pos + 1]]
      \/ phase' = "reorder" /\ pos = n /\ pos' = 1 /\ deps' = {} /\ seen' = {}
  <2>1. CASE pos < n
    <3>1. pos + 1 \in DOMAIN equations /\ pos + 1 # pos
      BY <2>1, <1>1
    <3>2. dependencies'[equations[pos + 1]] = dependencies[equations[pos + 1]]
      BY <3>1, <1>1, <1>2, <1>6
    <3>3. dependencies[equations[pos + 1]] = refs[equations[pos + 1]]
      <4>1. pos + 1 >= pos
        BY <1>1
      <4> QED
        BY <3>1, <4>1 DEF IInv, Contained
    <3>4. /\ phase' = phase /\ pos' = pos + 1 /\ seen' = {}
          /\ deps' = dependencies'[equations[pos + 1]]
      BY <2>1 DEF Returns, NextEquation
    <3> QED
      BY <3>1, <3>2, <3>3, <3>4, <1>1
  <2>2. CASE ~(pos < n)
    <3>1. pos = n
      <4>1. n \in Nat /\ pos \in 1 .. n
        BY <1>1
      <4> HIDE DEF n
      <4> QED
        BY <2>2, <4>1
    <3> QED
      BY <2>2, <3>1 DEF Returns, NextEquation
  <2> QED
    BY <2>1, <2>2
<1>8. TypeOK'
  <2>1. deps' \subseteq Variables /\ seen' \subseteq Variables
    BY <1>1, <1>5, <1>7, Zenon
  <2>2. phase' \in {"cycles", "reorder"}
    BY <1>7
  <2> QED
    BY <1>u, <1>e, <1>6, <2>1, <2>2, Zenon DEF IInv, TypeOK
<1>9. Places'
  <2>1. pos' \in Nat \ {0}
    <3>1. n \in Nat /\ (pos' \in 1 .. n \/ pos' = 1)
      BY <1>1, <1>7, Zenon
    <3> HIDE DEF n
    <3> QED
      BY <3>1
  <2> QED
    BY <1>u, <1>1, <1>7, <2>1, Zenon DEF IInv, Places
<1>10. Sources' /\ Marks' /\ Names'
  BY <1>u, <1>e, <1>3, <1>7, Zenon DEF IInv, Sources, Final, Marks, Names
<1>11. Order'
  <2> SUFFICES ASSUME ~err' PROVE Order'
    BY DEF Order
  <2>1. ~err
    BY <1>e
  <2>2. ASSUME NEW i \in DOMAIN equations, equations[i] \in evalPossible
        PROVE  dependencies'[equations[i]] \ Generated \subseteq Behind(i)
    <3>1. CASE i = pos
      BY <2>2, <3>1, <1>f, <1>6
    <3>2. CASE i # pos
      <4>1. dependencies'[equations[i]] = dependencies[equations[i]]
        BY <3>2, <1>1, <1>2, <1>6
      <4> QED
        BY <2>1, <2>2, <4>1 DEF IInv, Order
    <3> QED
      BY <3>1, <3>2
  <2>3. ASSUME phase' = "cycles", equations[pos'] \in evalPossible
        PROVE  (deps' \cup seen') \ Generated \subseteq Behind(pos')
    <3>1. pos' \in DOMAIN equations /\ deps' \cup seen' = refs[equations[pos']]
      BY <2>3, <1>1, <1>7
    <3>2. refs[equations[pos']] \subseteq dependencies[equations[pos']]
      BY <3>1, <1>1 DEF IInv, Contained
    <3>3. dependencies[equations[pos']] \ Generated \subseteq Behind(pos')
      BY <2>1, <2>3, <3>1 DEF IInv, Order
    <3> QED
      BY <3>1, <3>2, <3>3
  <2>4. DOMAIN root' = {}
    BY <1>u, <1>1
  <2> QED
    BY <2>2, <2>3, <2>4, <1>u, <1>4, Zenon DEF Order
<1>12. \A f \in AllEquations : Seen(f) => refs[f] \subseteq dependencies'[f]
  BY <1>r, <1>6 DEF IInv, Contained
<1>13. Contained'
  <2>1. ASSUME phase' = "cycles"
        PROVE  /\ refs[equations[pos']] \subseteq deps' \cup seen'
               /\ \A i \in DOMAIN equations :
                    i >= pos' => dependencies'[equations[i]] = refs[equations[i]]
    <3>1. pos' = pos + 1 /\ deps' = refs[equations[pos']]
      BY <2>1, <1>7
    <3>2. \A i \in DOMAIN equations : i >= pos' => i # pos /\ i >= pos
      BY <3>1, <1>1
    <3>3. \A i \in DOMAIN equations : i >= pos' => dependencies'[equations[i]] = dependencies[equations[i]]
      BY <3>2, <1>1, <1>2, <1>6
    <3> QED
      BY <3>1, <3>2, <3>3 DEF IInv, Contained
  <2> QED
    BY <2>1, <1>u, <1>3, <1>12 DEF Contained
<1>14. ASSUME ~err', NEW i \in 1 .. pos
       PROVE  LET f == equations[i] IN
              /\ Result(f) \notin dependencies'[f]
              /\ \A g \in Members(equations) : Result(g) \in refs[f] => refs[g] \subseteq dependencies'[f]
              /\ \A j \in 1 .. i - 1 : Result(equations[j]) \in refs[f]
                   => dependencies'[equations[j]] \subseteq dependencies'[f]
  <2>1. i \in DOMAIN equations /\ \A j \in 1 .. i - 1 : j \in DOMAIN equations /\ j # pos
    BY <1>1
  <2>2. \A j \in 1 .. i - 1 : dependencies'[equations[j]] = dependencies[equations[j]]
    BY <2>1, <1>1, <1>2, <1>6
  <2>3. CASE i = pos
    <3>1. dependencies'[e] = res
      BY <1>6, <1>14
    <3>2. \A g \in Listed : refs[g] \subseteq dependencies[g]
      BY <1>1, Zenon DEF IInv, Contained
    <3> QED
      BY <2>1, <2>2, <2>3, <3>1, <3>2, <1>f, <1>1, <1>14
  <2>4. CASE i # pos
    <3>1. i \in 1 .. pos - 1
      BY <2>4, <1>1
    <3>2. dependencies'[equations[i]] = dependencies[equations[i]]
      BY <2>1, <2>4, <1>1, <1>2, <1>6
    <3> QED
      BY <2>2, <3>1, <3>2, <1>e, <1>14 DEF IInv, Folded
  <2> QED
    BY <2>3, <2>4
<1>15. Folded'
  <2> SUFFICES ASSUME ~err' PROVE Folded'
    BY DEF Folded
  <2>1. cycle' = {}
    BY <1>e
  <2>2. CASE phase' = "cycles"
    <3>1. pos' - 1 = pos /\ deps' = refs[equations[pos']]
      BY <2>2, <1>1, <1>7
    <3> QED
      BY <2>1, <2>2, <3>1, <1>u, <1>14 DEF Folded
  <2>3. CASE phase' = "reorder"
    BY <2>1, <2>3 DEF Folded
  <2> QED
    BY <2>2, <2>3, <1>7
<1>16. NoShortCycle'
  <2> SUFFICES ASSUME phase' = "reorder", ~err', NEW f \in Listed, NEW g \in Listed,
                      Result(g) \in refs[f]
               PROVE  /\ Result(f) \notin refs[g]
                      /\ \A h \in Listed : Result(h) \in refs[g] => Result(f) \notin refs[h]
    <3>1. phase' \in {"cycles", "reorder"} /\ refs' = refs /\ Listed' = Listed
      BY <1>u, <1>3, <1>7, Zenon
    <3> QED
      BY <3>1, Zenon DEF NoShortCycle
  <2>1. pos = n
    BY <1>7
  <2>2. Gathered(equations, n, refs, dependencies')
    BY <2>1, <1>1, <1>12, <1>14 DEF Gathered
  <2>3. n \in Nat /\ DOMAIN equations = 1 .. n /\ f \in Members(equations) /\ g \in Members(equations)
    BY <1>1
  <2> HIDE DEF n
  <2>4. /\ Result(f) \notin refs[g]
        /\ \A h \in Members(equations) : Result(h) \in refs[g] => Result(f) \notin refs[h]
    BY <2>2, <2>3, ShortCycles
  <2> QED
    BY <2>4, <1>1
<1>17. Followed'
  <2>1. \A f \in Listed : dependencies'[f] \subseteq Lead(f)
    BY <1>r, <1>1, <1>6 DEF IInv, Followed
  <2>2. phase' = "cycles" => deps' \cup seen' \subseteq Lead(equations[pos'])
    <3>1. \A i \in DOMAIN equations : refs[equations[i]] \subseteq Lead(equations[i])
      BY <1>1, LeadType DEF IInv
    <3> QED
      BY <3>1, <1>1, <1>7
  <2> QED
    BY <2>1, <2>2, <1>u, <1>3 DEF Followed
<1>18. Stuck' /\ Progress'
  BY <1>7 DEF Stuck, Progress, Accepted
<1> QED
  BY <1>8, <1>9, <1>10, <1>11, <1>13, <1>15, <1>16, <1>17, <1>18 DEF IInv
=============================================================================
