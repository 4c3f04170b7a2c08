------------------------- MODULE NetworkReduction -------------------------
(***************************************************************************)
(* What the S-parameter analysis promises for every frequency: starting    *)
(* from the circuits of the network, each connection between two circuit   *)
(* nodes is eliminated exactly once by joining what it connects, until     *)
(* none is left.                                                           *)
(***************************************************************************)
VARIABLES
  ends,    \* the connections of the network: the circuits each one touches
  blocks,  \* the circuits that have been joined into one
  open     \* connections still to be eliminated

vars == <<ends, blocks, open>>

Init == ends = <<>> /\ blocks = {} /\ open = {}

\* A frequency begins, or the analysis is left (nothing is there any more).
Start ==
  /\ open = {}
  /\ \A b \in blocks' : \E c \in b : b = {c}
  /\ \A e \in DOMAIN ends' : ends'[e] # {} /\ ends'[e] \subseteq UNION blocks'
  /\ open' = DOMAIN ends'

Touched(e) == {b \in blocks : b \cap ends[e] # {}}

Eliminate(e) ==
  /\ e \in open
  /\ blocks' = (blocks \ Touched(e)) \cup {UNION Touched(e)}
  /\ open' = open \ {e}
  /\ UNCHANGED ends

Next == Start \/ \E e \in open : Eliminate(e)

Spec == Init /\ [][Next]_vars

-----------------------------------------------------------------------------
Eliminated == DOMAIN ends \ open

\* No circuit is in two results.
Disjoint == \A a, b \in blocks : a \cap b # {} => a = b

\* What an eliminated connection touched is in one result.
Joined == \A e \in Eliminated : \E b \in blocks : ends[e] \subseteq b

\* Nothing is joined without a connection: a set of circuits no eliminated
\* connection leaves is not left by a result either.
NoMore ==
  \A P \in SUBSET UNION blocks :
    (\A e \in Eliminated : ends[e] \subseteq P \/ ends[e] \cap P = {})
      => \A b \in blocks : b \subseteq P \/ b \cap P = {}

\* When spsolver::solve saves the results of a frequency they are the
\* connected parts of the network: no connection leaves one, and nothing
\* smaller is left by none.
ResultsAreComponents ==
  open = {} =>
    /\ Disjoint
    /\ \A e \in DOMAIN ends : \E b \in blocks : ends[e] \subseteq b
    /\ \A b \in blocks : \A P \in SUBSET b :
         (\A e \in DOMAIN ends : ends[e] \subseteq P \/ ends[e] \cap P = {})
           => P = {} \/ P = b

IInv ==
  /\ open \subseteq DOMAIN ends
  /\ \A e \in DOMAIN ends : ends[e] # {} /\ ends[e] \subseteq UNION blocks
  /\ Disjoint
  /\ Joined
  /\ NoMore
=============================================================================
