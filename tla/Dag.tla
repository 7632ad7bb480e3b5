-------------------------------- MODULE Dag --------------------------------
(***************************************************************************)
(* utils/dag.py: a graph of named nodes and its topological sort.          *)
(*                                                                         *)
(* A graph is its nodes, each with the place that adding it had in the     *)
(* building of the graph, and its edges.  The sort is a step per node: the *)
(* successors of a node are a Python set, and come in any order.           *)
(***************************************************************************)
EXTENDS Integers, Sequences, FiniteSets

NodesOf(g) == DOMAIN g.nodes

(* Places are tuples; they come in lexicographic order.                    *)
Earlier(a, b) == \E k \in DOMAIN a : a[k] < b[k] /\ \A h \in 1..(k - 1) : a[h] = b[h]

(* add_node_if_not_exists.                                                 *)
AddNode(g, n, place) ==
  IF n \in NodesOf(g) THEN g
  ELSE [g EXCEPT !.nodes =
          [m \in NodesOf(g) \cup {n} |-> IF m = n THEN place ELSE g.nodes[m]]]

InEdges(g, v) == {e \in g.edges : e[2] = v}

(* all_leaves.                                                             *)
Leaves(g) == {n \in NodesOf(g) : ~\E e \in g.edges : e[1] = n}

(* What validate decides by sorting: no set of nodes keeps itself waiting. *)
Acyclic(g) ==
  \A S \in SUBSET NodesOf(g) : S # {} => \E v \in S : \A e \in InEdges(g, v) : e[1] \notin S

---------------------------------------------------------------------------
(* topological_sort: result, in_degree and ready.                          *)

ToSetOf(seq) == {seq[i] : i \in DOMAIN seq}

(* The orders of a set.                                                    *)
Orders(S) ==
  {o \in [1..Cardinality(S) -> S] : \A i, j \in 1..Cardinality(S) : o[i] = o[j] => i = j}

(* The order of the graph's own list.                                      *)
AsListed(g, o) ==
  \A i, j \in DOMAIN o : i < j => Earlier(g.nodes[o[i]], g.nodes[o[j]])

Roots(g) == {v \in NodesOf(g) : InEdges(g, v) = {}}

SortsOf(g) ==
  {[result |-> <<>>, ready |-> o,
    degree |-> [v \in NodesOf(g) |-> Cardinality(InEdges(g, v))]] :
     o \in {o \in Orders(Roots(g)) : AsListed(g, o)}}

(* Faulty variant: a node is ready when the first of those it waits for is *)
(* done.                                                                   *)
PoppedEarly(g, s) ==
  LET u == s.ready[Len(s.ready)]
      freed == {v \in NodesOf(g) : /\ <<u, v>> \in g.edges
                                   /\ s.degree[v] = Cardinality(InEdges(g, v))}
  IN {[result |-> Append(s.result, u),
       ready |-> SubSeq(s.ready, 1, Len(s.ready) - 1) \o o,
       degree |-> [v \in NodesOf(g) |->
                     IF <<u, v>> \in g.edges THEN s.degree[v] - 1 ELSE s.degree[v]]] :
        o \in Orders(freed)}

(* The last of the ready nodes is taken; those it was the last to hold back*)
(* become ready.                                                           *)
Popped(g, s) ==
  LET u == s.ready[Len(s.ready)]
      rest == SubSeq(s.ready, 1, Len(s.ready) - 1)
      freed == {v \in NodesOf(g) : <<u, v>> \in g.edges /\ s.degree[v] = 1}
  IN {[result |-> Append(s.result, u), ready |-> rest \o o,
       degree |-> [v \in NodesOf(g) |->
                     IF <<u, v>> \in g.edges THEN s.degree[v] - 1 ELSE s.degree[v]]] :
        o \in Orders(freed)}

(* Of what is sorted, each node comes after all the nodes it depends on;   *)
(* nothing is sorted twice.                                                *)
RespectsEdges(g, s) ==
  /\ \A i \in DOMAIN s.result : \A e \in InEdges(g, s.result[i]) :
       \E j \in DOMAIN s.result : j < i /\ s.result[j] = e[1]
  /\ \A i, j \in DOMAIN s.result : s.result[i] = s.result[j] => i = j

(* A sort ends with all nodes exactly if there is no cycle: the test of    *)
(* validate and of the caller (len(result) == len(graph)).                 *)
EndsComplete(g, s) ==
  s.ready = <<>> => (ToSetOf(s.result) = NodesOf(g) <=> Acyclic(g))

=============================================================================
