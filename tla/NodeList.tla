----------------------------- MODULE NodeList -----------------------------
(***************************************************************************)
(* The node list of a netlist (nodelist): for every node name the circuit  *)
(* nodes of that name.  The S-parameter analysis keeps it sorted by the    *)
(* number of nodes the circuit has that joining the two nodes would give.  *)
(*                                                                         *)
(* circ maps a circuit to its node names and whether it is a port; a       *)
(* circuit node is a pair of a circuit and a position in it.               *)
(***************************************************************************)
EXTENDS Integers, Sequences, FiniteSets, SequencesExt

Size(circ, c) == Len(circ[c].names)

NodesOf(circ, c) == [i \in 1 .. Size(circ, c) |-> <<c, i>>]

Name(circ, n) == circ[n[1]].names[n[2]]

\* All nodes of the circuits in a list, in the order loops over them take.
Nodes(circ, list) ==
  FoldLeft(LAMBDA s, c : s \o NodesOf(circ, c), <<>>, list)

Find(root, name) == SelectInSeq(root, LAMBDA nl : nl.name = name)

-----------------------------------------------------------------------------
\* Mutant: only the first circuit is asked whether it is a port.
FirstOnly(circ, nl) ==
  LET c1 == nl.nodes[1][1]
      one == Len(nl.nodes) = 1
      c2 == IF one THEN c1 ELSE nl.nodes[2][1]
  IN  IF circ[c1].port THEN -1
      ELSE IF one THEN Size(circ, c1)
      ELSE IF c1 = c2 THEN Size(circ, c1) - 2
      ELSE Size(circ, c1) + Size(circ, c2) - 2

sortfunc(circ, nl) ==
  LET c1 == nl.nodes[1][1]
      one == Len(nl.nodes) = 1
      c2 == IF one THEN c1 ELSE nl.nodes[2][1]
  IN  IF circ[c1].port \/ circ[c2].port THEN -1
      ELSE IF one THEN Size(circ, c1)
      ELSE IF c1 = c2 THEN Size(circ, c1) - 2
      ELSE Size(circ, c1) + Size(circ, c2) - 2

insfunc(circ, n1, n2) ==
  LET p1 == sortfunc(circ, n1)
      p2 == sortfunc(circ, n2)
  IN  p1 >= 0 /\ (p1 <= p2 \/ p2 < 0)

\* nodelist::insert (struct nodelist_t *) of a sorted list.
InsertEntry(circ, root, nl) ==
  LET k == SelectInSeq(root, LAMBDA m : insfunc(circ, nl, m))
  IN  IF k = 0 THEN Append(root, nl) ELSE InsertAt(root, k, nl)

\* An entry that has changed moves to its place, if joining its nodes leaves
\* any.
Rearrange(circ, root, k, nl) ==
  IF sortfunc(circ, nl) > 0
  THEN InsertEntry(circ, RemoveAt(root, k), nl)
  ELSE [root EXCEPT ![k] = nl]

RemoveNode(circ, root, n) ==
  LET k == Find(root, Name(circ, n))
      rest == SelectSeq(root[k].nodes, LAMBDA m : m # n)
  IN  IF k = 0 THEN root
      ELSE IF rest = <<>> THEN RemoveAt(root, k)
      ELSE Rearrange(circ, root, k, [root[k] EXCEPT !.nodes = rest])

\* nodelist::remove (circuit *).
RemoveFrom(circ, root, c) ==
  FoldLeft(LAMBDA r, n : RemoveNode(circ, r, n), root, NodesOf(circ, c))

InsertNode(circ, root, n) ==
  LET k == Find(root, Name(circ, n))
      nl == [name |-> Name(circ, n), nodes |-> <<n>>]
  IN  IF k # 0
      THEN Rearrange(circ, root, k, [root[k] EXCEPT !.nodes = Append(@, n)])
      ELSE IF circ[n[1]].port
      THEN Append(root, nl)
      ELSE InsertEntry(circ, root, nl)

\* nodelist::insert (circuit *) of a sorted list.
InsertInto(circ, root, c) ==
  FoldLeft(LAMBDA r, n : InsertNode(circ, r, n), root, NodesOf(circ, c))

-----------------------------------------------------------------------------
\* nodelist::sort takes the entries at ports first, then those of the largest
\* result, equal ones in their order, and puts each in front of those before.
Sort(circ, root) ==
  LET p(k) == sortfunc(circ, root[k])
      Before(j, k) == \/ p(j) = p(k) /\ j < k
                      \/ p(j) = -1 /\ p(k) # -1
                      \/ p(k) # -1 /\ p(j) > p(k)
      later(k) == {j \in DOMAIN root : Before(k, j)}
  IN  [i \in DOMAIN root |->
         root[CHOOSE k \in DOMAIN root : Cardinality(later(k)) = i - 1]]

\* The constructor: one entry for each name, the name met last in front.
Build(circ, list) ==
  LET all == Nodes(circ, list)
      names == FoldLeft(LAMBDA s, n : IF Contains(s, Name(circ, n)) THEN s
                                      ELSE <<Name(circ, n)>> \o s,
                        <<>>, all)
  IN  [k \in DOMAIN names |->
         [name |-> names[k], nodes |-> SelectSeq(all, LAMBDA n : Name(circ, n) = names[k])]]
=============================================================================
