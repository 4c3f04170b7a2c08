----------------------------- MODULE SPReduce -----------------------------
(***************************************************************************)
(* The S-parameter analysis (spsolver::solve) on the circuit list of a     *)
(* netlist: tees, crosses, opens, grounds and port transformers are        *)
(* inserted until every connection is between two nodes; for each          *)
(* frequency connections are eliminated by joining circuits until only the *)
(* ports are left, and the circuits joined are put back; at the end        *)
(* everything inserted is taken out again.                                 *)
(*                                                                         *)
(* The matrix of a circuit is represented by the circuits it is the result *)
(* of (parts).                                                             *)
(***************************************************************************)
EXTENDS NodeList, TLC

CONSTANTS
  Netlists,     \* circuit lists: sequences of [port, names]
  gnd,          \* name of the ground node
  PacGround,    \* name of the second node of a port
  Frequencies,  \* points of the frequency sweep
  MaxSolves     \* how often the analysis is run

ASSUME BoundsAssumption == Frequencies \in Nat \ {0} /\ MaxSolves \in Nat \ {0}

VARIABLES
  circ,           \* the circuits: node names, kind and origin
  root,           \* the circuit list
  drop,           \* originals joined into others
  inserted,       \* number of circuits inserted so far
  insertedNodes,  \* number of names made up so far
  reduced,        \* number of circuits made by joining in this frequency
  nlist,          \* the node list
  ports,          \* nodes still counted by solve
  point,          \* frequencies done
  todo,           \* nodes or circuits a loop still has to visit
  pc,
  given,          \* the circuits before the analysis
  solves          \* number of analyses run

vars == <<circ, root, drop, inserted, insertedNodes, reduced, nlist, ports,
          point, todo, pc, given, solves>>

ground == <<"ground", 0>>

Circuit(type, names, n) ==
  [type |-> type, port |-> type = "Pac", names |-> names, inserted |-> n,
   original |-> TRUE, parts |-> {}]

Listed == {root[k] : k \in DOMAIN root}

Init ==
  /\ \E net \in Netlists :
       /\ circ = [k \in {<<"circuit", i>> : i \in DOMAIN net} |->
                    Circuit(IF net[k[2]].port THEN "Pac" ELSE "any",
                            net[k[2]].names, -1)]
                 @@ (ground :> Circuit("GND", <<gnd>>, -1))
       /\ root = <<ground>> \o [i \in DOMAIN net |-> <<"circuit", i>>]
  /\ given = [c \in Listed |-> circ[c].names]
  /\ drop = <<>> /\ nlist = <<>> /\ todo = <<>>
  /\ inserted = 0 /\ insertedNodes = 0 /\ reduced = 0
  /\ ports = 0 /\ point = 0 /\ solves = 0
  /\ pc = "idle"

-----------------------------------------------------------------------------
(* Operations on a record of the circuits, the circuit list and the two     *)
(* counters.                                                                *)

Net == [circ |-> circ, root |-> root,
        inserted |-> inserted, insertedNodes |-> insertedNodes]

Becomes(net) ==
  /\ circ' = net.circ
  /\ root' = net.root
  /\ inserted' = net.inserted
  /\ insertedNodes' = net.insertedNodes

Rename(c, n, name) == [c EXCEPT ![n[1]].names[n[2]] = name]

Without(list, c) == SelectSeq(list, LAMBDA d : d # c)

\* Another node of the same name, the first in the list; <<>> if there is none.
findConnectedNode(net, n) ==
  LET s == SelectSeq(Nodes(net.circ, net.root),
                     LAMBDA m : m # n /\ Name(net.circ, m) = Name(net.circ, n))
  IN  IF s = <<>> THEN <<>> ELSE s[1]

\* The name inode<k> is represented by k.
Fresh(net, i) == net.insertedNodes + i - 1

\* insertedCircuit, insertedNode for the k nodes that get a name of their own,
\* and insertCircuit.
InsertCircuit(net, type, names, k) ==
  LET c == <<"inserted", net.inserted>>
  IN  [circ |-> (c :> Circuit(type, names, net.inserted)) @@ net.circ,
       root |-> <<c>> \o net.root,
       inserted |-> net.inserted + 1,
       insertedNodes |-> net.insertedNodes + k]

\* insertTee and insertCross: a circuit with a node of the given name and one
\* for each of the nodes, which are renamed.
InsertConnector(net, nodes, name) ==
  LET k == Len(nodes)
      new == InsertCircuit(net, IF k = 2 THEN "Tee" ELSE "Cross",
                           <<name>> \o [i \in 1 .. k |-> Fresh(net, i)], k)
  IN  [new EXCEPT !.circ =
         FoldLeft(LAMBDA c, i : Rename(c, nodes[i], Fresh(net, i)), @, [i \in 1 .. k |-> i])]

insertConnectors(net, n) ==
  LET name == Name(net.circ, n)
      peers == SelectSeq(Nodes(net.circ, net.root),
                         LAMBDA m : m # n /\ Name(net.circ, m) = name)
      Found(a, m) ==
        LET nodes == Append(a.nodes, m)
            new == InsertConnector(a.net, nodes, name)
        IN  IF Len(nodes) < 3 THEN [a EXCEPT !.nodes = nodes]
            ELSE [net |-> new, nodes |-> <<<<new.root[1], 1>>>>]
      end == FoldLeft(Found, [net |-> net, nodes |-> <<>>], peers)
  IN  IF name = gnd THEN net
      ELSE IF Len(end.nodes) = 2 THEN InsertConnector(end.net, end.nodes, name)
      ELSE end.net

insertOpen(net, n) ==
  IF Name(net.circ, n) # gnd /\ findConnectedNode(net, n) = <<>>
  THEN InsertCircuit(net, "Open", <<Name(net.circ, n)>>, 0)
  ELSE net

\* The loop body of insertDifferentialPorts: a transformer takes the place of
\* the port.
insertDifferentialPort(net, c) ==
  LET f == Fresh(net, 1)
      new == InsertCircuit(net, "iTrafo", <<f>> \o net.circ[c].names, 1)
  IN  [new EXCEPT !.circ[c].names = <<f, PacGround>>]

insertGround(net, n) ==
  IF Name(net.circ, n) = gnd /\ ~net.circ[n[1]].port /\ net.circ[n[1]].type # "GND"
  THEN LET new == InsertCircuit(net, "GND", <<Fresh(net, 1)>>, 1)
       IN  [new EXCEPT !.circ = Rename(@, n, Fresh(net, 1))]
  ELSE net

-----------------------------------------------------------------------------
\* solve begins: insertConnections takes the ground circuit out.
Solve ==
  /\ pc = "idle" /\ solves < MaxSolves
  /\ root' = Without(root, ground)
  /\ todo' = Nodes(circ, root')
  /\ pc' = "connect"
  /\ solves' = solves + 1
  /\ UNCHANGED <<circ, drop, inserted, insertedNodes, reduced, nlist, ports, point, given>>

\* A loop over what was in the list when it began; circuits inserted meanwhile
\* are in front of it.
Visit(label, Body(_, _), next, nextTodo) ==
  /\ pc = label
  /\ IF todo = <<>>
     THEN pc' = next /\ todo' = nextTodo /\ UNCHANGED <<circ, root, inserted, insertedNodes>>
     ELSE Becomes(Body(Net, todo[1])) /\ todo' = Tail(todo) /\ pc' = pc
  /\ UNCHANGED <<drop, reduced, nlist, ports, point, given, solves>>

ConnectNode(net, n) == insertOpen(insertConnectors(net, n), n)

InsertConnectors ==
  Visit("connect", ConnectNode, "trafo",
        SelectSeq(root, LAMBDA c : circ[c].port))

InsertDifferentialPorts ==
  Visit("trafo", insertDifferentialPort, "ground", Nodes(circ, root))

InsertGrounds == Visit("ground", insertGround, "list", <<>>)

BuildList ==
  /\ pc = "list"
  /\ nlist' = Sort(circ, Build(circ, root))
  /\ pc' = "sweep"
  /\ point' = 0
  /\ UNCHANGED <<circ, root, drop, inserted, insertedNodes, reduced, ports, todo, given, solves>>

PortCount == Cardinality({c \in Listed : circ[c].port})

\* Mutant: grounds are not counted.
ExceptGrounds ==
  Len(Nodes(circ, SelectSeq(root, LAMBDA c : ~circ[c].port /\ circ[c].type # "GND")))

\* countNodes.
InnerNodes == Len(Nodes(circ, SelectSeq(root, LAMBDA c : ~circ[c].port)))

\* The next frequency: countNodes, setReduced and calc.
NextFrequency ==
  /\ pc = "sweep" /\ point < Frequencies
  /\ ports' = InnerNodes
  /\ reduced' = 0
  /\ circ' = [c \in DOMAIN circ |-> [circ[c] EXCEPT !.parts = {c}]]
  /\ pc' = "reduce"
  /\ UNCHANGED <<root, drop, inserted, insertedNodes, nlist, point, todo, given, solves>>

\* Node names of the joined circuit.
JoinedNames(n1, n2) ==
  LET rest(c) == SelectSeq(NodesOf(circ, c), LAMBDA n : n \notin {n1, n2})
      nodes == rest(n1[1]) \o (IF n1[1] = n2[1] THEN <<>> ELSE rest(n2[1]))
  IN  [i \in DOMAIN nodes |-> Name(circ, nodes[i])]

Joined(n1, n2, parts) ==
  [Circuit("any", JoinedNames(n1, n2), -1) EXCEPT !.original = FALSE, !.parts = parts]

\* Mutant: the block of the second circuit is left out.
FirstBlock(n1, n2) == Joined(n1, n2, circ[n1[1]].parts)

\* connectedJoin or interconnectJoin.
Join(n1, n2) == Joined(n1, n2, circ[n1[1]].parts \cup circ[n2[1]].parts)

\* removeCircuit: originals are kept on the drop list, others deleted.
Removed(cands) == {c \in cands : ~circ[c].original}

Reduce ==
  LET n1 == nlist[1].nodes[1]
      n2 == nlist[1].nodes[2]
      cands == IF n1[1] = n2[1] THEN <<n1[1]>> ELSE <<n1[1], n2[1]>>
      result == <<"reduced", reduced>>
      made == (result :> Join(n1, n2)) @@ circ
  IN  /\ pc = "reduce" /\ ports > PortCount
      /\ nlist' = InsertInto(made, FoldLeft(LAMBDA r, c : RemoveFrom(made, r, c), nlist, cands), result)
      /\ root' = <<result>> \o SelectSeq(root, LAMBDA c : c \notin Range(cands))
      /\ drop' = FoldLeft(LAMBDA d, c : IF circ[c].original THEN <<c>> \o d ELSE d, drop, cands)
      /\ circ' = [c \in DOMAIN made \ Removed(Range(cands)) |-> made[c]]
      /\ reduced' = reduced + 1
      /\ ports' = ports - 2
      /\ UNCHANGED <<inserted, insertedNodes, point, todo, pc, given, solves>>

\* saveResults reads the circuits left.
saveResults ==
  /\ pc = "reduce" /\ ~(ports > PortCount)
  /\ pc' = "save"
  /\ UNCHANGED <<circ, root, drop, inserted, insertedNodes, reduced, nlist, ports,
                 point, todo, given, solves>>

\* One turn of getDroppedCircuits: an original is put back.
getDroppedCircuits ==
  /\ pc \in {"save", "restore"} /\ drop # <<>>
  /\ nlist' = InsertInto(circ, nlist, Head(drop))
  /\ root' = <<Head(drop)>> \o root
  /\ drop' = Tail(drop)
  /\ pc' = "restore"
  /\ UNCHANGED <<circ, inserted, insertedNodes, reduced, ports, point, todo, given, solves>>

\* Mutant: the circuits deleted stay in the node list.
StaysListed(c) == nlist

\* The node list without a circuit that is deleted.
Unlisted(c) == RemoveFrom(circ, nlist, c)

FirstUnused == SelectInSeq(root, LAMBDA c : ~circ[c].original)

\* One turn of deleteUnusedCircuits.
deleteUnusedCircuits ==
  /\ pc \in {"save", "restore"} /\ drop = <<>> /\ FirstUnused # 0
  /\ nlist' = Unlisted(root[FirstUnused])
  /\ root' = RemoveAt(root, FirstUnused)
  /\ circ' = [c \in DOMAIN circ \ {root[FirstUnused]} |-> circ[c]]
  /\ pc' = "restore"
  /\ UNCHANGED <<drop, inserted, insertedNodes, reduced, ports, point, todo, given, solves>>

\* The circuits are those of the next frequency again.
EndFrequency ==
  /\ pc \in {"save", "restore"} /\ drop = <<>> /\ FirstUnused = 0
  /\ point' = point + 1
  /\ pc' = "sweep"
  /\ UNCHANGED <<circ, root, drop, inserted, insertedNodes, reduced, nlist, ports, todo,
                 given, solves>>

-----------------------------------------------------------------------------
\* Mutant: in the order they were inserted.
FirstInserted ==
  LET some == {c \in Listed : circ[c].inserted >= 0}
  IN  CHOOSE c \in Listed :
        some # {} => c \in some /\ \A d \in some : circ[c].inserted <= circ[d].inserted

\* The circuit dropConnections takes out next: the one inserted last.
LastInserted ==
  CHOOSE c \in Listed : \A d \in Listed : circ[d].inserted <= circ[c].inserted

\* dropTee, dropCross, dropGround, dropDifferentialPort and dropOpen: the
\* names the nodes had.
DroppedNames(c) ==
  LET other(i) == findConnectedNode(Net, <<c, i>>)
      type == circ[c].type
  IN  CASE type \in {"Tee", "Cross"} ->
             FoldLeft(LAMBDA r, i : Rename(r, other(i), Name(circ, <<c, 1>>)),
                      circ, [i \in 1 .. Size(circ, c) - 1 |-> i + 1])
        [] type = "GND" -> Rename(circ, other(1), gnd)
        [] type = "iTrafo" -> [circ EXCEPT ![other(1)[1]].names = Tail(circ[c].names)]
        [] type = "Open" -> circ

DropConnection ==
  /\ pc = "sweep" /\ point = Frequencies
  /\ circ[LastInserted].inserted >= 0
  /\ LET after == DroppedNames(LastInserted)
     IN  circ' = [c \in DOMAIN circ \ {LastInserted} |-> after[c]]
  /\ root' = Without(root, LastInserted)
  /\ UNCHANGED <<drop, inserted, insertedNodes, reduced, nlist, ports, point, todo, pc,
                 given, solves>>

\* dropConnections puts the ground circuit back, and solve returns.
EndSolve ==
  /\ pc = "sweep" /\ point = Frequencies
  /\ circ[LastInserted].inserted < 0
  /\ root' = <<ground>> \o root
  /\ nlist' = <<>>
  /\ pc' = "idle"
  /\ UNCHANGED <<circ, drop, inserted, insertedNodes, reduced, ports, point, todo, given, solves>>

\* No further analysis.
Finished == pc = "idle" /\ solves = MaxSolves /\ UNCHANGED vars

Next ==
  \/ Solve
  \/ InsertConnectors
  \/ InsertDifferentialPorts
  \/ InsertGrounds
  \/ BuildList
  \/ NextFrequency
  \/ Reduce
  \/ saveResults
  \/ getDroppedCircuits
  \/ deleteUnusedCircuits
  \/ EndFrequency
  \/ DropConnection
  \/ EndSolve
  \/ Finished

Spec == Init /\ [][Next]_vars

-----------------------------------------------------------------------------
Reducing == pc \in {"reduce", "save"}

\* The node list that nodelist::insert and nodelist::remove keep up to date has
\* one entry for each name, with exactly the nodes of that name of the circuits
\* in the circuit list, whatever was joined and put back.
NodeListAgrees ==
  (Reducing \/ (pc = "sweep" /\ point < Frequencies)) =>
    /\ \A j, k \in DOMAIN nlist : nlist[j].name = nlist[k].name => j = k
    /\ \A k \in DOMAIN nlist : nlist[k].nodes # <<>>
    /\ \A k \in DOMAIN nlist : IsInjective(nlist[k].nodes)
    /\ UNION {Range(nlist[k].nodes) : k \in DOMAIN nlist} = Range(Nodes(circ, root))
    /\ \A k \in DOMAIN nlist : \A n \in Range(nlist[k].nodes) :
         Name(circ, n) = nlist[k].name

\* While nodes are left to eliminate the first entry of the sorted list joins
\* exactly two nodes, which is what nodelist::sortedNodes asserts, and none of
\* them is a port.
HeadReducible ==
  (pc = "reduce" /\ ports > PortCount) =>
    /\ nlist # <<>>
    /\ Len(nlist[1].nodes) = 2
    /\ \A n \in Range(nlist[1].nodes) : ~circ[n[1]].port

\* Not kept by the code: README, section 3.  The connection reduce takes is one
\* "which results in a new subnetwork with the smallest number of s-parameters".
SmallestFirst ==
  (pc = "reduce" /\ ports > PortCount) =>
    \A k \in DOMAIN nlist :
      \/ sortfunc(circ, nlist[k]) = -1
      \/ sortfunc(circ, nlist[1]) <= sortfunc(circ, nlist[k])

\* What saveResults finds: every node of the circuits left is connected to the
\* first node of a port, whose number it uses, and each port has one.
ResultsAtPorts ==
  pc = "save" =>
    LET left == {n \in Range(Nodes(circ, root)) : ~circ[n[1]].port}
        at(n) == findConnectedNode(Net, n)
    IN  /\ \A n \in left : at(n) # <<>> /\ circ[at(n)[1]].port /\ at(n)[2] = 1
        /\ \A c \in Listed : circ[c].port => Cardinality({n \in left : at(n)[1] = c}) = 1

\* solve leaves the circuits and their connections as it found them, so that a
\* further analysis or sweep point starts from the netlist of the user.
NetlistRestored ==
  pc = "idle" =>
    /\ DOMAIN circ = DOMAIN given /\ Listed = DOMAIN given
    /\ IsInjective(root)
    /\ \A c \in Listed : circ[c].names = given[c]

\* Inner circuits and connections of the prepared network.
Inner == {c \in Listed \cup Range(drop) : circ[c].original /\ ~circ[c].port}
NamesOf(c) == Range(circ[c].names)
Connections ==
  UNION {NamesOf(c) : c \in Inner} \ UNION {NamesOf(c) : c \in {d \in Listed : circ[d].port}}

Reduction == INSTANCE NetworkReduction WITH
  ends <- IF Reducing
          THEN [e \in Connections |-> {c \in Inner : e \in NamesOf(c)}]
          ELSE <<>>,
  blocks <- IF Reducing
            THEN {circ[c].parts : c \in {d \in Listed : ~circ[d].port}}
            ELSE {},
  open <- IF Reducing
          THEN Connections \cap UNION {NamesOf(c) : c \in {d \in Listed : ~circ[d].port}}
          ELSE {}

\* Every call of reduce eliminates one connection of the network and joins
\* just what it connects, and results are saved when none is left.
ImplementsReduction == Reduction!Spec
=============================================================================
