-------------------------- MODULE MCBuildParallel --------------------------
(***************************************************************************)
(* Small instances of BuildParallel: graphs over three packages.            *)
(***************************************************************************)
EXTENDS BuildParallel

CONSTANTS a, b, c, root, t1, t2

MCPackage   == {a, b, c}
MCRank      == [n \in MCPackage |-> CASE n = a -> 1 [] n = b -> 2 [] n = c -> 3]
MCLeftovers == {{}, {a}}

(* Two packages are unrelated, one requires the other in either way, or each *)
(* installs the other.  All are reachable, as in every graph file.           *)
Relation(p, q) ==
  {{}} \cup
  {{[parent |-> x[1], type |-> t, child |-> x[2]]} :
     x \in {<<p, q>>, <<q, p>>}, t \in {"install", "build-system"}} \cup
  {{[parent |-> p, type |-> "install", child |-> q],
    [parent |-> q, type |-> "install", child |-> p]}}

GraphOf(edges) ==
  [nodes |-> MCPackage \cup {root},
   edges |-> edges \cup {[parent |-> root, type |-> "toplevel", child |-> n] : n \in MCPackage}]

MCGraphs ==
  {GraphOf(x \cup y \cup z) :
     x \in Relation(a, b), y \in Relation(b, c), z \in Relation(a, c)}
=============================================================================
