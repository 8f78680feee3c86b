-------------------------- MODULE DependencyGraph --------------------------
(***************************************************************************)
(* The dependency graph that bootstrap builds and build-parallel reads      *)
(* (src/fromager/dependency_graph.py), as a value and operators on it.      *)
(*                                                                         *)
(* A graph is a record of a set of nodes, ROOT among them, and a set of     *)
(* typed edges.  The code keeps each edge twice, in the parent's children   *)
(* and in the child's parents; both lists are derived from edges here.  A   *)
(* list may repeat an edge and an edge carries its requirement: neither     *)
(* makes a difference to the operators below, which are about nodes.        *)
(***************************************************************************)
EXTENDS FiniteSets

CONSTANTS
  Package,  \* every name==version that can be a node of a graph
  ROOT      \* the node that stands for the command line, never a package

ASSUME RootAssumption == ROOT \notin Package

BuildType   == {"build-system", "build-backend", "build-sdist"}
InstallType == {"install", "toplevel"}
ReqType     == BuildType \cup InstallType

Edge  == [parent : Package \cup {ROOT}, type : ReqType, child : Package]
Graph == [nodes : SUBSET (Package \cup {ROOT}), edges : SUBSET Edge]

(* What add_dependency and from_dict guarantee: an edge joins known nodes.   *)
WellFormed(g) ==
  /\ ROOT \in g.nodes
  /\ \A e \in g.edges : e.parent \in g.nodes /\ e.child \in g.nodes

(* DependencyGraph.clear: nothing but ROOT. *)
EmptyGraph == [nodes |-> {ROOT}, edges |-> {}]

Children(g, n, types) == {e.child : e \in {e \in g.edges : e.parent = n /\ e.type \in types}}
Parents(g, n)         == {e.parent : e \in {e \in g.edges : e.child = n}}

-----------------------------------------------------------------------------
(* add_dependency stores the child's node first and looks for the parent    *)
(* second, so that an unknown parent raises ValueError with the node added. *)
AddNode(g, n) == [g EXCEPT !.nodes = @ \cup {n}]

ParentExists(g, parent) == parent \in g.nodes

AddDependency(g, parent, type, child) ==
  IF ParentExists(AddNode(g, child), parent)
    THEN [AddNode(g, child) EXCEPT
            !.edges = @ \cup {[parent |-> parent, type |-> type, child |-> child]}]
    ELSE AddNode(g, child)

(* A set of nodes is closed under orphaning when it holds every node whose   *)
(* parents, of which there is one at least, are all in it.                   *)
ClosedUnderOrphans(g, S) ==
  \A n \in g.nodes \ {ROOT} :
    Parents(g, n) # {} /\ Parents(g, n) \subseteq S => n \in S

(* What remove_dependency(n) deletes: n, and by cascade every node that      *)
(* loses its last parent.                                                    *)
Orphaned(g, n) ==
  {m \in g.nodes : \A S \in SUBSET g.nodes :
     n \in S /\ ClosedUnderOrphans(g, S) => m \in S}

RemoveDependency(g, n) ==
  IF n \notin g.nodes THEN g
  ELSE LET gone == Orphaned(g, n)
       IN  [nodes |-> g.nodes \ gone,
            edges |-> {e \in g.edges : e.parent \notin gone /\ e.child \notin gone}]

-----------------------------------------------------------------------------
(* The nodes reached from S along edges of the given types, S included.      *)
ClosedUnder(g, S, types) ==
  \A e \in g.edges : e.type \in types /\ e.parent \in S => e.child \in S

Closure(g, S, types) ==
  {m \in g.nodes : \A C \in SUBSET g.nodes :
     S \subseteq C /\ ClosedUnder(g, C, types) => m \in C}

(* _to_dict writes, and from_dict reads back, what ROOT reaches.             *)
Serialized(g) ==
  LET kept == Closure(g, {ROOT}, ReqType)
  IN  [nodes |-> kept, edges |-> {e \in g.edges : e.parent \in kept}]

(* Mutant: the direct build requirements only. *)
DirectBuildRequirements(g, n) == Children(g, n, BuildType)

(* iter_build_requirements: the direct build requirements and, recursively,  *)
(* the install requirements of these.                                        *)
BuildRequirements(g, n) == Closure(g, Children(g, n, BuildType), InstallType)

(* What pip can install from the wheels it is offered: the packages asked    *)
(* for and, with every package, its install requirements.                    *)
Installable(g, asked, offered) ==
  \E env \in SUBSET offered : asked \subseteq env /\ ClosedUnder(g, env, InstallType)

(* Mutant: ROOT is not skipped. *)
TopologyWithRoot(g) == [n \in g.nodes |-> BuildRequirements(g, n)]

(* get_build_topology: the predecessors of every node but ROOT.              *)
BuildTopology(g) == [n \in g.nodes \ {ROOT} |-> BuildRequirements(g, n)]

(* graphlib's CycleError: some set of nodes in which each waits for another. *)
HasCycle(preds) ==
  \E S \in SUBSET DOMAIN preds :
    S # {} /\ \A n \in S : preds[n] \cap S # {}
=============================================================================
