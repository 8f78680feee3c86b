------------------------------ MODULE Minimize ------------------------------
(***************************************************************************)
(* The minimize command (src/fromager/commands/minimize.py): requirements    *)
(* that a package in the graph has, too, are left out of a requirements      *)
(* file.                                                                   *)
(*                                                                         *)
(* A package is <<name, version>>.  A dependency may hold only for a package *)
(* that is asked for with some of its extras, and may ask for extras itself; *)
(* the graph, and so the command, does not tell these from others.           *)
(***************************************************************************)
EXTENDS DependencyGraph

CONSTANTS
  Extra,  \* names of extras
  Worlds  \* requirements files, and what bootstrap made of them

VARIABLES
  input,    \* the requirements of the file, the graph, and the extras that each
            \* edge of it holds for and asks for
  left,     \* the requirements that were not yet considered
  minimal   \* those that are kept

graph == input.graph

(* exact: the specifier has an operator "==", be it for one version or a      *)
(* prefix of many; leads: the package that bootstrap chose for it.            *)
Requirement == [leads : Package, admits : SUBSET Package, exact : BOOLEAN, asks : SUBSET Extra]

Name(p) == p[1]

Init ==
  /\ input \in Worlds
  /\ left = input.file /\ minimal = {}

(* get_install_dependencies, without ROOT.                                   *)
InstallDependencies == Closure(graph, {ROOT}, InstallType) \ {ROOT}

(* Mutant: what is required to build a package counts, too. *)
NeededByAny(r) ==
  /\ ~r.exact
  /\ \E e \in graph.edges :
       /\ e.parent # ROOT
       /\ Name(e.child) = Name(r.leads) /\ e.child \in r.admits

(* A package that is installed, the same one perhaps, requires a version that *)
(* the specifier admits; extras are not compared.                            *)
Redundant(r) ==
  /\ ~r.exact
  /\ \E e \in graph.edges :
       /\ e.parent \in InstallDependencies /\ e.type \in InstallType
       /\ Name(e.child) = Name(r.leads) /\ e.child \in r.admits

(* One turn of the loop of _minimize_requirements.                            *)
Consider ==
  \E r \in left :
    /\ left' = left \ {r}
    /\ minimal' = (IF Redundant(r) THEN minimal ELSE minimal \cup {r})
    /\ UNCHANGED input

-----------------------------------------------------------------------------
(* What pip installs for a list of requirements: packages with extras, and    *)
(* with each one what it requires for these extras.                          *)
Demands ==
  [nodes |-> (graph.nodes \ {ROOT}) \X SUBSET Extra,
   edges |-> UNION {{[parent |-> <<e.parent, x>>, type |-> "install",
                      child |-> <<e.child, input.extras[e].asks>>] :
                       x \in {x \in SUBSET Extra : input.extras[e].for \subseteq x}} :
                      e \in {e \in graph.edges : e.type = "install"}}]

Installs(list) ==
  {d[1] : d \in Closure(Demands, {<<r.leads, r.asks>> : r \in list}, InstallType)}

OneVersionEach == \A p, q \in graph.nodes \ {ROOT} : Name(p) = Name(q) => p = q

Lost == Installs(input.file) \ Installs(minimal)

OnCycle(p) == p \in Closure(graph, Children(graph, p, InstallType), InstallType)

(* "removing packages that would be automatically included as dependencies of  *)
(* other packages" (minimize): a package is lost only with a requirement that  *)
(* was dropped although it asks for extras or leads to a package that requires *)
(* itself, over others or not.  Other requirements drop each other in no order *)
(* that loses a package, where the graph tells by its versions what is         *)
(* installed (_minimize_requirements).                                       *)
LossIsExplained ==
  left = {} /\ OneVersionEach =>
    \A p \in Lost : \E r \in input.file \ minimal :
      p \in Installs({r}) /\ (r.asks # {} \/ OnCycle(r.leads))
=============================================================================
