----------------------------- MODULE MCSPReduce -----------------------------
(* Instances of SPReduce: circuit lists of a given shape whose nodes have any *)
(* of a few names.                                                            *)
EXTENDS SPReduce

CONSTANTS netA, netB, netC

\* Circuit lists of a shape, a sequence of ports (0) and circuits of n nodes.
\* Of the names of equal standing only the first that is free is used next.
Lists(shape, names) ==
  LET size(i) == IF shape[i] = 0 THEN 2 ELSE shape[i]
      first(i) == LET before == [j \in 1 .. i - 1 |-> size(j)]
                  IN  FoldLeft(LAMBDA x, y : x + y, 0, before)
      total == first(Len(shape) + 1)
      order == SelectSeq(names, LAMBDA n : n # gnd)
      canonical(f) ==
        \A k \in 2 .. Len(order) : \A i \in 1 .. total :
          f[i] = order[k] => \E j \in 1 .. i - 1 : f[j] = order[k - 1]
  IN  {[i \in DOMAIN shape |->
          [port |-> shape[i] = 0, names |-> SubSeq(f, first(i) + 1, first(i) + size(i))]] :
         f \in {g \in [1 .. total -> Range(names)] : canonical(g)}}

Some == Lists(<<0, 2, 2>>, <<gnd, netA, netB, netC>>) \cup Lists(<<2, 0, 1, 0>>, <<gnd, netA, netB>>)
=============================================================================
