-------------------------- MODULE MCGraphCommands --------------------------
(***************************************************************************)
(* Instances for TLC: graphs as a bootstrap makes them, from requirements    *)
(* that each choose the highest version they admit.  The minimize command,   *)
(* which reads a graph of its own, runs beside the others.                   *)
(***************************************************************************)
EXTENDS GraphCommands

CONSTANTS root, extra

VARIABLES input, left, minimal  \* of Minimize

(* a, b and c have two versions, x and y one; d has three, and the second is   *)
(* taken from a repository, where only the command line finds it.              *)
A == 1
B == 2
C == 3
X == 4
Y == 5
D == 6

MCPackage == {<<n, v>> : n \in {A, B, C}, v \in 1..2} \cup {<<X, 1>>, <<Y, 1>>} \cup {<<D, v>> : v \in 1..3}

Free(n)    == [name |-> n, spec |-> {1, 2}, type |-> "install"]
Old(n)    == [name |-> n, spec |-> {1}, type |-> "install"]
New(n)    == [name |-> n, spec |-> {2}, type |-> "install"]
Build(r)  == [r EXCEPT !.type = "build-system"]
OfTop(rs) == {[r EXCEPT !.type = "toplevel"] : r \in rs}

Admitted(r) == {p \in MCPackage : p[1] = r.name /\ p[2] \in r.spec}
Found(r)    == Admitted(r) \ (IF r.type = "toplevel" THEN {} ELSE {<<D, 2>>})
Latest(r)   == CHOOSE p \in Found(r) : \A q \in Found(r) : q[2] <= p[2]

(* needs: the requirements of each package and of the command line.           *)
EdgesOf(needs, n) ==
  {[edge |-> [parent |-> n, type |-> r.type, child |-> Latest(r)], admitted |-> Admitted(r)] :
     r \in needs[n]}

WorldOf(needs, custom, over) ==
  LET all  == UNION {EdgesOf(needs, n) : n \in DOMAIN needs}
      walk == Walk({x.edge : x \in all}, {ROOT})
      used == {x \in all : x.edge.parent \in walk}
  IN  [graph |-> [nodes |-> walk, edges |-> {x.edge : x \in used}],
       reqOf |-> [e \in {x.edge : x \in used} |->
                    (CHOOSE x \in used : x.edge = e).admitted],
       customized |-> custom, over |-> over]

Nothing == [n \in MCPackage \cup {ROOT} |-> {}]

Needs(top, x, y, a1, a2, c1, c2, b2) ==
  [Nothing EXCEPT ![ROOT] = OfTop(top), ![<<X, 1>>] = x, ![<<Y, 1>>] = y,
                  ![<<A, 1>>] = a1, ![<<A, 2>>] = a2, ![<<C, 1>>] = c1, ![<<C, 2>>] = c2,
                  ![<<B, 2>>] = b2]

(* x asks for old versions and y for any: a and c have two users each, which  *)
(* ask for b; the command line may, too.                                     *)
TwoVersions ==
  {Needs({Free(X), Free(Y)} \cup top, x, y, a1, a2, c1, c2, b2) :
     top \in {{}, {Free(B)}, {Old(B)}},
     x \in {{Old(A), Old(C)}, {Old(A), Free(C), Old(B)}, {Build(Old(A)), Old(C)}},
     y \in {{Free(A), Free(C)}, {Free(A), Free(C), Free(B)}, {New(A)}},
     a1 \in {{}, {Old(B)}, {Build(Free(B))}}, a2 \in {{}, {Free(B)}, {New(B)}},
     c1 \in {{}, {Old(B)}}, c2 \in {{}, {Free(B)}, {New(B)}}, b2 \in {{}, {New(C)}}}

(* The command line asks for the second version of d, packages for others that  *)
(* it would do for, or would not.                                           *)
FromRepository ==
  LET d(spec) == [name |-> D, spec |-> spec, type |-> "install"]
  IN  {[Nothing EXCEPT ![ROOT] = OfTop({Free(X), Free(Y), Free(A), d({2})}),
                      ![<<X, 1>>] = x, ![<<Y, 1>>] = y, ![<<A, 2>>] = a] :
         x \in {{}, {d({1, 2})}, {d({1})}}, y \in {{d({2, 3})}, {d({1, 2, 3})}},
         a \in {{}, {d({1, 2})}, {Old(B)}}}

(* One version of each package, and packages that require each other.         *)
OneVersion ==
  {Needs(top, x, y, {}, a2, {}, c2, b2) :
     top \in {{Free(X)}, {Free(X), Free(Y), Free(B)}, {Free(Y), Free(A), Free(C)}},
     x \in {{}, {Free(A), Free(B)}, {Free(B), Build(Free(B)), Free(Y)}}, y \in {{Free(A)}, {Free(X), Build(Free(C))}},
     a2 \in {{}, {Free(B)}, {Build(Free(C))}}, c2 \in {{}, {Free(A)}}, b2 \in {{}, {Free(C)}, {Free(A)}}}

Customized == {{}, {<<B, 2>>, <<X, 1>>}, {<<A, 1>>, <<A, 2>>, <<C, 2>>, <<Y, 1>>}}

(* Finished graphs of both kinds; and runs with failures on some of each.     *)
MCWorlds ==
  {WorldOf(n, {<<B, 1>>, <<A, 2>>, <<X, 1>>}, TRUE) : n \in TwoVersions \cup FromRepository}
    \cup {WorldOf(n, custom, TRUE) : n \in OneVersion, custom \in Customized}
    \cup {WorldOf(n, {<<A, 2>>}, FALSE) : n \in OneVersion \cup {n \in TwoVersions : n[<<C, 1>>] = {} /\ n[<<B, 2>>] = {}}}

ASSUME WorldsAssumption == \A w \in MCWorlds : World(w)

-----------------------------------------------------------------------------
(* Requirements files for up to three names, one of which has two versions.   *)
OneX == <<X, 1>>
OneY == <<Y, 1>>
Z    == <<A, 2>>
OldZ == <<A, 1>>

Asked(p, extras)    == [leads |-> p, admits |-> {p}, exact |-> FALSE, asks |-> extras]
Pinned(p)           == [Asked(p, {}) EXCEPT !.exact = TRUE]
AnyZ                == [Asked(Z, {}) EXCEPT !.admits = {Z, OldZ}]
Files ==
  {x \cup y \cup z : x \in {{}, {Asked(OneX, {})}, {Asked(OneX, {extra})}},
                  y \in {{}, {Pinned(OneY)}, {Asked(OneY, {})}}, z \in {{}, {AnyZ}}} \ {{}}

(* What a package requires, for all its users or for those of an extra.       *)
Asks(p, type, c, for, asks) ==
  [edge |-> [parent |-> p, type |-> type, child |-> c], for |-> for, asks |-> asks]

Metadata ==
  {x \cup y \cup z :
     x \in {{}, {Asks(OneX, "install", Z, {extra}, {})}, {Asks(OneX, "install", OneX, {extra}, {})},
           {Asks(OneX, "install", OneY, {}, {}), Asks(OneX, "install", Z, {extra}, {})}},
     y \in {{}, {Asks(OneY, "install", OneX, {}, {})}, {Asks(OneY, "build-system", OneX, {}, {})},
           {Asks(OneY, "install", OldZ, {}, {}), Asks(OneY, "install", OneX, {}, {})}},
     z \in {{}, {Asks(Z, "build-backend", OneY, {}, {})}, {Asks(Z, "install", OneX, {}, {extra})}}}

(* A requirement is in the graph if its package was asked for with its extras. *)
WorldOfList(needs, reqs) ==
  LET demands == [nodes |-> {OneX, OneY, Z, OldZ} \X SUBSET {extra},
                  edges |-> UNION {{[parent |-> <<m.edge.parent, x>>, type |-> "install",
                                     child |-> <<m.edge.child, m.asks>>] :
                                      x \in {x \in SUBSET {extra} : m.for \subseteq x}} : m \in needs}]
      asked   == Closure(demands, {<<r.leads, r.asks>> : r \in reqs}, {"install"})
      used    == {m \in needs : \E d \in asked : d[1] = m.edge.parent /\ m.for \subseteq d[2]}
      tops    == {[parent |-> ROOT, type |-> "toplevel", child |-> r.leads] : r \in reqs}
      edges   == {m.edge : m \in used} \cup tops
      Of(e)   == {m \in used : m.edge = e}
  IN  [graph  |-> [nodes |-> {d[1] : d \in asked} \cup {ROOT}, edges |-> edges],
       extras |-> [e \in edges |->
                     IF e \in tops THEN [for |-> {}, asks |-> {}]
                     ELSE LET m == CHOOSE m \in Of(e) : TRUE IN [for |-> m.for, asks |-> m.asks]],
       file   |-> reqs]

Lists ==
  INSTANCE Minimize
    WITH Extra <- {extra}, Worlds <- {WorldOfList(asks, reqs) : asks \in Metadata, reqs \in Files}

(* What a minimized file loses, it loses with a requirement that asks for      *)
(* extras or leads to a cycle (_minimize_requirements).                       *)
LossIsExplained == Lists!LossIsExplained

-----------------------------------------------------------------------------
NoFile == [graph |-> EmptyGraph, extras |-> <<>>, file |-> {}]

Small == WorldOf(Needs({Free(X)}, {}, {}, {}, {}, {}, {}, {}), {}, TRUE)

Init ==
  \/ InitWith(MCWorlds) /\ input = NoFile /\ left = {} /\ minimal = {}
  \/ InitWith({Small}) /\ Lists!Init

Steps ==
  \/ Next /\ UNCHANGED <<input, left, minimal>>
  \/ Lists!Consider /\ UNCHANGED vars

Spec ==
  /\ Init /\ [][Steps]_<<vars, input, left, minimal>>
  /\ WF_vars(Next /\ UNCHANGED <<input, left, minimal>>)
=============================================================================
