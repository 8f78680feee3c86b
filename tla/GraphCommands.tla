--------------------------- MODULE GraphCommands ---------------------------
(***************************************************************************)
(* The life of a graph: bootstrap takes the packages that failed out of it  *)
(* and writes graph.json (GraphFile), and commands read it: to-constraints   *)
(* (ConstraintsFile), subset and to-dot --overrides-only                   *)
(* (src/fromager/commands/graph.py).                                       *)
(***************************************************************************)
EXTENDS GraphFile, ConstraintsFile

VARIABLES
  reqOf,      \* [edges -> packages that the edge's requirement admits]
  customized  \* packages with settings, patches or plugins

vars == <<storeVars, fileVars, constraintsVars, reqOf, customized>>

TypeOK ==
  /\ StoreTypeOK
  /\ FileTypeOK
  /\ ConstraintsTypeOK
  /\ customized \subseteq Package

(* A world: a graph as bootstrap makes it, with the packages that each          *)
(* requirement admits, which have the name of the one that it led to.          *)
Fitting(w, e) ==
  /\ e.parent = ROOT => e.type = "toplevel"
  /\ e.child \in w.reqOf[e] /\ \A p \in w.reqOf[e] : Name(p) = Name(e.child)

World(w) ==
  /\ Rooted(w.graph) /\ w.customized \subseteq Package
  /\ \A e \in w.graph.edges : Fitting(w, e)

InitWith(worlds) ==
  \E w \in worlds :
    /\ StoreInit({w.graph}) /\ FileInit(w.over) /\ reqOf = w.reqOf /\ customized = w.customized
    /\ graph = EmptyGraph /\ admits = <<>> /\ candidates = {}
    /\ resolved = {} /\ conflicting = {} /\ todo = {} /\ progress = FALSE /\ writing = "unread"

(* The bootstrap run, in which packages may fail.                            *)
Bootstrap ==
  /\ writing = "unread" /\ FileNext
  /\ UNCHANGED <<constraintsVars, reqOf, customized>>

(* A command reads graph.json, if it is whole; the run and all that it kept in *)
(* memory are gone.  get_install_dependency_versions: what packages and the   *)
(* command line install.                                                     *)
Read ==
  /\ writing = "unread" /\ ended \in {"finalized", "aborted", "killed"}
  /\ disk.state = "whole"
  /\ graph' = disk.graph
  /\ admits' = [e \in graph'.edges |-> reqOf[e]]
  /\ candidates' = Walk(Along(graph', InstallType), {ROOT}) \ {ROOT}
  /\ writing' = "no"
  /\ nodes' = {ROOT} /\ children' = {} /\ parents' = {} /\ queue' = <<>> /\ removals' = 0
  /\ before' = [graph |-> EmptyGraph, node |-> ROOT]
  /\ pending' = <<>> /\ disk' = [state |-> "none", graph |-> EmptyGraph] /\ ended' = "no"
  /\ UNCHANGED <<resolved, conflicting, todo, progress, reqOf, customized>>

ToConstraints == WriteConstraints /\ UNCHANGED <<storeVars, fileVars, reqOf, customized>>

Next == Bootstrap \/ Read \/ ToConstraints

-----------------------------------------------------------------------------
(* extract_package_subset: the targets with what they require or what         *)
(* requires them or both; if only with what they require, the command line    *)
(* requires the targets and nothing else.                                    *)
SubsetNodes(g, targets, dependencies, dependents) ==
  {ROOT} \cup targets
    \cup (IF dependencies THEN Walk(g.edges, targets) ELSE {})
    \cup (IF dependents THEN WalkUp(g.edges, targets) ELSE {})

(* Mutant: the targets hang in the air. *)
Unrooted(targets, dependents) == {}

RootEdges(targets, dependents) ==
  IF dependents THEN {}
  ELSE {[parent |-> ROOT, type |-> "toplevel", child |-> t] : t \in targets}

SubsetGraph(g, targets, dependencies, dependents) ==
  LET kept == SubsetNodes(g, targets, dependencies, dependents)
  IN  [nodes |-> kept,
       edges |-> {e \in g.edges : /\ e.parent \in kept /\ e.child \in kept
                                  /\ e.parent = ROOT => dependents}
                 \cup RootEdges(targets, dependents)]

(* What iter_build_requirements finds, in the manner of a walk.              *)
BuildRequirementsOf(g, n) == Walk(Along(g, InstallType), Children(g, n, BuildType))

-----------------------------------------------------------------------------
(* reduce_graph: customized packages only.  Each one depends on those that a   *)
(* depth-first search meets first, which does not go on beyond them.          *)
Relevant(g, installOnly) ==
  IF installOnly THEN [g EXCEPT !.edges = Along(g, InstallType)] ELSE g

(* Mutant: only direct dependencies. *)
DirectCustomized(g, n) == {e.child : e \in {e \in g.edges : e.parent = n}} \cap customized

CustomizedDependencies(g, n) ==
  LET visited == Walk({e \in g.edges : e.child \notin customized}, {n})
  IN  {e.child : e \in {e \in g.edges : e.parent \in visited}} \cap customized

ReducedGraph(g, installOnly) ==
  LET rel  == Relevant(g, installOnly)
      kept == IF installOnly THEN Walk(rel.edges, {ROOT}) ELSE g.nodes
  IN  UNION {{[parent |-> n, child |-> m] : m \in CustomizedDependencies(rel, n)} :
               n \in kept \cap customized}

-----------------------------------------------------------------------------
Ready == writing = "no"

(* A subset graph is a graph of its own: its file loses nothing of it, and a  *)
(* target with its dependencies is built with what it was built with before.  *)
(* (extract_package_subset, _build_subset_graph; docs/how-tos/graph-commands). *)
SubsetIsUsable ==
  Ready =>
    \A t \in graph.nodes \ {ROOT}, mode \in {"dependencies", "dependents", "both"} :
      LET sub == SubsetGraph(graph, {t}, mode # "dependents", mode # "dependencies")
      IN  /\ Loaded(sub) = sub
          /\ mode # "dependents" => BuildRequirementsOf(sub, t) = BuildRequirementsOf(graph, t)

(* The reduced graph leaves packages out, never a dependency between two that  *)
(* it shows (reduce_graph, _find_customized_dependencies_for_node).            *)
ReductionKeepsPaths ==
  Ready =>
    \A installOnly \in BOOLEAN :
      LET edges   == Relevant(graph, installOnly).edges
          reduced == ReducedGraph(graph, installOnly)
          shown   == customized \cap (IF installOnly THEN candidates ELSE graph.nodes)
          below(es, n) == UNION {Walk(es, {e.child}) : e \in {e \in es : e.parent = n}}
      IN  \A n \in shown : below(reduced, n) = below(edges, n) \cap customized
=============================================================================
