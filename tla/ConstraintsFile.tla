-------------------------- MODULE ConstraintsFile --------------------------
(***************************************************************************)
(* write_constraints_file (src/fromager/commands/bootstrap.py): picking one *)
(* version of every package to install, for constraints.txt.  Packages with *)
(* one version are settled first; the others are considered by name, in      *)
(* passes, each with the versions settled so far.                           *)
(*                                                                         *)
(* A package is <<name, version>>, names and versions are numbers.  An edge  *)
(* of the graph carries the versions that its requirement admits.            *)
(***************************************************************************)
EXTENDS DependencyGraph, Integers

ASSUME PackageAssumption == Package \subseteq Nat \X Nat

VARIABLES
  graph,       \* the graph that was read
  admits,      \* [edges -> packages that the requirement admits]
  candidates,  \* install dependencies
  resolved,    \* the packages chosen so far
  conflicting, \* names without a version for all users
  todo,        \* names left in this pass
  progress,    \* resolved_something
  writing      \* "unread", "no", "choosing", "done"

choiceVars == <<resolved, conflicting, todo, progress, writing>>
constraintsVars == <<graph, admits, candidates, resolved, conflicting, todo, progress, writing>>

Name(p)      == p[1]
Named(n)     == {p \in candidates : Name(p) = n}
Names        == {Name(p) : p \in candidates}

(* Mutant: versions are not counted. *)
HoweverMany(n) == TRUE

Single(n)    == \A p, q \in Named(n) : p = q
Unresolved   == Names \ {Name(p) : p \in resolved}
Highest(S)   == {p \in S : \A q \in S : q[2] <= p[2]}

ConstraintsTypeOK ==
  /\ candidates \subseteq Package
  /\ resolved \subseteq candidates
  /\ \A p, q \in resolved : Name(p) = Name(q) => p = q
  /\ conflicting \subseteq Unresolved /\ todo \subseteq Unresolved
  /\ progress \in BOOLEAN /\ writing \in {"unread", "no", "choosing", "done"}

(* get_incoming_install_edges; the command line's edges are of another type.  *)
InstallEdges(p) == {e \in graph.edges : e.child = p /\ e.type = "install"}

(* Mutant: a parent counts once its version is settled. *)
UsersOnceResolved(n) ==
  {e \in UNION {InstallEdges(p) : p \in Named(n)} : e.parent \in resolved}

(* The users of a name: the install edges to any of its versions, but for     *)
(* those of parents of which another version was chosen.                     *)
Users(n) ==
  {e \in UNION {InstallEdges(p) : p \in Named(n)} :
     ~\E q \in resolved : Name(q) = Name(e.parent) /\ q # e.parent}

UsersOf(p) == {e \in Users(Name(p)) : p \in admits[e]}

(* Mutant: every version counts as a user of itself. *)
Oneself(p) == 1

(* A version that no package installs counts as a user of itself, which is    *)
(* not among the users that are counted.                                     *)
OwnUsers(p) == IF InstallEdges(p) = {} THEN 1 ELSE 0

Usable(n) ==
  {p \in Named(n) :
     LET count == Cardinality(UsersOf(p)) + OwnUsers(p)
     IN  count > 0 /\ count = Cardinality(Users(n))}

-----------------------------------------------------------------------------
(* The packages with one version.                                            *)
ChooseSingles ==
  /\ writing = "no"
  /\ resolved' = {p \in candidates : Single(Name(p))}
  /\ todo' = {} /\ conflicting' = {} /\ progress' = TRUE /\ writing' = "choosing"
  /\ UNCHANGED <<graph, admits, candidates>>

(* Mutant: the pass resolved something, or so it says. *)
AlwaysProgress == writing = "choosing" /\ todo = {} /\ Unresolved # {}

(* The condition of the outer loop.                                          *)
AnotherPass == writing = "choosing" /\ todo = {} /\ Unresolved # {} /\ progress

StartPass ==
  /\ AnotherPass
  /\ todo' = Unresolved /\ progress' = FALSE
  /\ UNCHANGED <<graph, admits, candidates, resolved, conflicting, writing>>

(* The body of the inner loop: skip what is known to conflict, otherwise take *)
(* the highest version that all users admit, or give the name up for good.    *)
Consider ==
  /\ writing = "choosing"
  /\ \E n \in todo :
       /\ \A m \in todo : n <= m
       /\ todo' = todo \ {n}
       /\ \/ /\ n \in conflicting
             /\ UNCHANGED <<resolved, conflicting, progress>>
          \/ /\ n \notin conflicting /\ Usable(n) # {}
             /\ resolved' = resolved \cup Highest(Usable(n))
             /\ progress' = TRUE /\ UNCHANGED conflicting
          \/ /\ n \notin conflicting /\ Usable(n) = {}
             /\ conflicting' = conflicting \cup {n}
             /\ UNCHANGED <<resolved, progress>>
  /\ UNCHANGED <<graph, admits, candidates, writing>>

(* The file is written, with what was resolved; the caller is told whether    *)
(* that is everything.                                                       *)
Finish ==
  /\ writing = "choosing" /\ todo = {} /\ ~AnotherPass
  /\ writing' = "done"
  /\ UNCHANGED <<graph, admits, candidates, resolved, conflicting, todo, progress>>

WriteConstraints == ChooseSingles \/ StartPass \/ Consider \/ Finish

Succeeded == writing = "done" /\ Unresolved = {}

-----------------------------------------------------------------------------
(* The edges from chosen packages that refuse a version.                      *)
Refusing(p) ==
  {e \in graph.edges :
     /\ e.type = "install" /\ e.parent \in resolved
     /\ Name(e.child) = Name(p) /\ p \notin admits[e]}

(* The file is written "to ensure all built packages can be installed          *)
(* together" (docs/reference/files.md): when the command says that it found a  *)
(* version of everything, no chosen package refuses another one               *)
(* (write_constraints_file).                                                 *)
InstallableTogether == Succeeded => \A p \in resolved : Refusing(p) = {}

(* A chosen version that some package installs is refused by no chosen package, *)
(* in whatever order names are considered, while some parents are settled and  *)
(* others are not yet; one that only the command line asks for is refused by   *)
(* one of them at most, in the place of which it counts itself                 *)
(* (write_constraints_file).                                                 *)
InstallsFit == \A p \in resolved : Cardinality(Refusing(p)) <= OwnUsers(p)

(* What explain-duplicates reports as usable by all consumers: it counts all   *)
(* install edges, whatever was chosen, and nothing if there are none           *)
(* (show_explain_duplicates).                                                *)
Consumers(n) == UNION {InstallEdges(p) : p \in Named(n)}

UsableByConsumers(n) ==
  {p \in Named(n) : Consumers(n) # {} /\ \A e \in Consumers(n) : p \in admits[e]}

(* A name for which explain-duplicates finds a usable version is given up only *)
(* if no package installs that version, which the command line then counts for *)
(* in excess of its users, or if other versions of all the consumers were      *)
(* chosen (write_constraints_file, show_explain_duplicates).                   *)
ExplainAgrees ==
  \A n \in conflicting : \A p \in UsableByConsumers(n) :
    \/ InstallEdges(p) = {}
    \/ \A e \in Consumers(n) : e.parent \notin resolved /\ Name(e.parent) \notin Unresolved

(* The loop ends (write_constraints_file, while unresolved_dependencies).      *)
ConstraintsWritten == writing = "no" ~> writing = "done"
=============================================================================
