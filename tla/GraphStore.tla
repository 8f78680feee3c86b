----------------------------- MODULE GraphStore -----------------------------
(***************************************************************************)
(* How DependencyGraph (src/fromager/dependency_graph.py) keeps a graph:    *)
(* every edge twice, in the children of one node and in the parents of the  *)
(* other; how a package that failed in test mode is taken out of it, one    *)
(* orphan after another; and what of it graph.json keeps.                   *)
(***************************************************************************)
EXTENDS DependencyGraph, SequencesExt

CONSTANT MaxRemovals  \* how many packages may fail

ASSUME StoreAssumption == IsFiniteSet(Package) /\ MaxRemovals \in Nat

VARIABLES
  nodes,     \* the keys of DependencyGraph.nodes
  children,  \* edges in the children list of their parent
  parents,   \* edges in the parents list of their child
  queue,     \* orphans that remove_dependency has yet to remove
  before,    \* [graph, node] of the last removal, to compare with
  removals   \* how many there were

storeVars == <<nodes, children, parents, queue, before, removals>>

Removing == queue # <<>>

StoreTypeOK ==
  /\ nodes \subseteq Package \cup {ROOT} /\ ROOT \in nodes
  /\ children \subseteq Edge /\ parents \subseteq Edge
  /\ queue \in Seq(Package) /\ removals \in 0..MaxRemovals

(* The graph as seen along the children.                                     *)
Stored == [nodes |-> nodes, edges |-> children]

StoreInit(graphs) ==
  \E g \in graphs :
    /\ nodes = g.nodes /\ children = g.edges /\ parents = g.edges
    /\ queue = <<>> /\ removals = 0
    /\ before = [graph |-> g, node |-> ROOT]

(* remove_dependency(n), up to its loop.                                     *)
RemovePackage(n) ==
  /\ ~Removing /\ removals < MaxRemovals /\ n \in nodes \ {ROOT}
  /\ queue' = <<n>> /\ removals' = removals + 1
  /\ before' = [graph |-> Stored, node |-> n]
  /\ UNCHANGED <<nodes, children, parents>>

(* Mutant: only the node goes, whatever it leaves behind. *)
NoOrphans(kids, ps) == <<>>

(* Mutant: every child goes, whoever else requires it. *)
AllKids(kids, ps) ==
  [i \in 1..Cardinality(kids) |-> SetToSeq(kids)[i].child]

(* The children that lost their last parent, once per edge to them.          *)
Orphans(kids, ps) ==
  LET lost == {e \in kids : e.child \in nodes /\ \A f \in ps : f.child # e.child}
  IN  [i \in 1..Cardinality(lost) |-> SetToSeq(lost)[i].child]

(* One turn of the loop: the children forget the node as a parent, its parents *)
(* forget it as a child, and it goes with both of its lists.                 *)
RemoveNext ==
  /\ Removing
  /\ LET n     == Head(queue)
         kids  == {e \in children : e.parent = n}
         ps    == {e \in parents : ~(e.parent = n /\ e.child \in {k.child : k \in kids})}
         folks == {e.parent : e \in {e \in ps : e.child = n}}
     IN  IF n \notin nodes
         THEN queue' = Tail(queue) /\ UNCHANGED <<nodes, children, parents>>
         ELSE /\ nodes' = nodes \ {n}
              /\ children' = {e \in children : e.parent # n /\ ~(e.parent \in folks /\ e.child = n)}
              /\ parents' = {e \in ps : e.child # n}
              /\ queue' = Tail(queue) \o Orphans({k \in kids : k.child # n}, parents')
  /\ UNCHANGED <<before, removals>>

-----------------------------------------------------------------------------
(* The nodes reached from S along edges: what the depth-first walks visit.   *)
Walk(edges, S) ==
  LET step(R) == R \cup {e.child : e \in {e \in edges : e.parent \in R}}
      walk[R \in SUBSET (Package \cup {ROOT})] == IF step(R) = R THEN R ELSE walk[step(R)]
  IN  walk[S]

WalkUp(edges, S) ==
  Walk({[parent |-> e.child, child |-> e.parent] : e \in edges}, S)

Along(g, types) == {e \in g.edges : e.type \in types}

(* _to_dict, then from_dict: a graph.json written and read.                  *)
Loaded(g) ==
  LET kept == Walk(g.edges, {ROOT})
  IN  [nodes |-> kept, edges |-> {e \in g.edges : e.parent \in kept}]

(* A graph all of which the command line leads to.                           *)
Rooted(g) == g \in Graph /\ WellFormed(g) /\ Loaded(g) = g

(* find_why without limits: the nodes on the chains it prints for a package.  *)
Why(n) == WalkUp(parents, {n})

Acyclic(edges) == \A e \in edges : e.parent \notin Walk(edges, {e.child})

-----------------------------------------------------------------------------
(* Removing a package in steps removes what the specification of the graph     *)
(* says (Orphaned): the package and, by cascade, what only it led to, which is *)
(* the least set that holds it and is closed under orphaning.                 *)
RemovalCascades ==
  ~Removing /\ removals > 0 =>
    LET g       == before.graph
        gone    == g.nodes \ nodes
        Good(S) == before.node \in S /\ ClosedUnderOrphans(g, S)
    IN  /\ Good(gone) /\ \A S \in SUBSET gone : Good(S) => S = gone
        /\ children = {e \in g.edges : e.parent \notin gone /\ e.child \notin gone}

(* The two ends of the store tell the same: graph.json keeps a package exactly *)
(* if why can trace it to the command line; and it keeps all, unless packages  *)
(* that require each other are left behind.                                  *)
KeptIsExplained ==
  ~Removing =>
    /\ \A n \in nodes : n \in Loaded(Stored).nodes <=> ROOT \in Why(n)
    /\ Acyclic(children) => Loaded(Stored) = Stored
=============================================================================
