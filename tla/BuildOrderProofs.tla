-------------------------- MODULE BuildOrderProofs --------------------------
(***************************************************************************)
(* What the order in which the bootstrap loop visits requirements is good     *)
(* for, in every universe that asks for nothing impossible: no phase fails of *)
(* itself, the build order can be followed, nothing is built twice, and with   *)
(* --sdist-only the wheels that builds need are built, and no others.          *)
(*                                                                         *)
(* HealthInv is the invariant that the other parts stand on: what is above a  *)
(* place of the stack, and that a package which was visited is still in work   *)
(* or has its wheel, is in the build order and has all it installs visited.    *)
(***************************************************************************)
EXTENDS BootstrapperProofs

-----------------------------------------------------------------------------
(* What a set of nodes reaches.                                              *)
LEMMA ClosureIsLeast ==
  ASSUME NEW g, NEW S \in SUBSET g.nodes, NEW types, \A e \in g.edges : e.child \in g.nodes
  PROVE  /\ S \subseteq Closure(g, S, types) /\ Closure(g, S, types) \subseteq g.nodes
         /\ ClosedUnder(g, Closure(g, S, types), types)
         /\ \A C \in SUBSET g.nodes :
              S \subseteq C /\ ClosedUnder(g, C, types) => Closure(g, S, types) \subseteq C
<1>1. S \subseteq Closure(g, S, types) /\ Closure(g, S, types) \subseteq g.nodes
  BY DEF Closure
<1>2. ClosedUnder(g, Closure(g, S, types), types)
  BY DEF Closure, ClosedUnder
<1>3. \A C \in SUBSET g.nodes : S \subseteq C /\ ClosedUnder(g, C, types) => Closure(g, S, types) \subseteq C
  BY DEF Closure
<1> QED BY <1>1, <1>2, <1>3

AllNeeds(g, p)   == Closure(g, Children(g, p, BuildType), ReqType)
AllReached(g, p) == Closure(g, {p}, ReqType)

PackagesOnly(g) ==
  /\ g.nodes = Pkg \cup {ROOT}
  /\ \A e \in g.edges : e.parent \in Pkg /\ e.child \in Pkg /\ e.type \in ReqType

LEMMA NeedsOfGraph ==
  ASSUME NEW g, PackagesOnly(g), NEW p \in Pkg
  PROVE  /\ Children(g, p, BuildType) \subseteq AllNeeds(g, p)
         /\ AllNeeds(g, p) \subseteq Pkg /\ ClosedUnder(g, AllNeeds(g, p), ReqType)
         /\ p \in AllReached(g, p)
         /\ AllReached(g, p) \subseteq Pkg /\ ClosedUnder(g, AllReached(g, p), ReqType)
         /\ AllNeeds(g, p) \subseteq AllReached(g, p)
         /\ \A C \in SUBSET Pkg : ClosedUnder(g, C, ReqType) =>
              /\ Children(g, p, BuildType) \subseteq C => AllNeeds(g, p) \subseteq C
              /\ p \in C => AllReached(g, p) \subseteq C
<1>1. Children(g, p, BuildType) \in SUBSET g.nodes /\ Children(g, p, BuildType) \subseteq Pkg
  BY DEF PackagesOnly, Children
<1>2. Pkg \in SUBSET g.nodes /\ ClosedUnder(g, Pkg, ReqType) /\ p \in g.nodes
  BY DEF PackagesOnly, ClosedUnder
<1>3. \A e \in g.edges : e.child \in g.nodes
  BY DEF PackagesOnly
<1>4. /\ Children(g, p, BuildType) \subseteq AllNeeds(g, p)
      /\ ClosedUnder(g, AllNeeds(g, p), ReqType)
      /\ \A C \in SUBSET g.nodes :
           Children(g, p, BuildType) \subseteq C /\ ClosedUnder(g, C, ReqType) => AllNeeds(g, p) \subseteq C
  BY <1>1, <1>3, ClosureIsLeast DEF AllNeeds
<1>5. /\ p \in AllReached(g, p) /\ ClosedUnder(g, AllReached(g, p), ReqType)
      /\ \A C \in SUBSET g.nodes :
           p \in C /\ ClosedUnder(g, C, ReqType) => AllReached(g, p) \subseteq C
  <2>1. {p} \in SUBSET g.nodes
    BY <1>2
  <2> QED BY SMTT(30), <1>3, <2>1, ClosureIsLeast DEF AllReached
<1>6. AllNeeds(g, p) \subseteq Pkg /\ AllReached(g, p) \subseteq Pkg
  BY <1>1, <1>2, <1>4, <1>5
<1>7. AllNeeds(g, p) \subseteq AllReached(g, p)
  <2>1. Children(g, p, BuildType) \subseteq AllReached(g, p)
    BY <1>5 DEF Children, ClosedUnder, ReqType
  <2>2. AllReached(g, p) \in SUBSET g.nodes
    BY <1>2, <1>6
  <2> QED BY <1>4, <1>5, <2>1, <2>2
<1>8. SUBSET Pkg \subseteq SUBSET g.nodes
  BY <1>2
<1> QED BY <1>4, <1>5, <1>6, <1>7, <1>8

(* A graph without a cycle of build requirements, as get_build_topology sees    *)
(* them, has no package that needs itself, at any depth, to be built.          *)
LEMMA NothingNeedsItself ==
  ASSUME NEW g, PackagesOnly(g), ~HasCycle(BuildTopology(g)), NEW p \in Pkg
  PROVE  p \notin AllNeeds(g, p)
<1> SUFFICES ASSUME p \in AllNeeds(g, p) PROVE FALSE
  OBVIOUS
<1>1. \A n \in Pkg : /\ AllNeeds(g, n) \subseteq Pkg /\ ClosedUnder(g, AllNeeds(g, n), ReqType)
                     /\ Children(g, n, BuildType) \subseteq AllNeeds(g, n)
                     /\ \A C \in SUBSET Pkg :
                          ClosedUnder(g, C, ReqType) /\ Children(g, n, BuildType) \subseteq C =>
                            AllNeeds(g, n) \subseteq C
  BY NeedsOfGraph
<1>2. ASSUME NEW n \in Pkg
      PROVE  /\ Children(g, n, BuildType) \subseteq BuildRequirements(g, n)
             /\ ClosedUnder(g, BuildRequirements(g, n), InstallType)
             /\ BuildRequirements(g, n) \subseteq AllNeeds(g, n)
  <2>1. Children(g, n, BuildType) \in SUBSET g.nodes /\ AllNeeds(g, n) \in SUBSET g.nodes
    BY <1>1 DEF PackagesOnly, Children
  <2>2. ClosedUnder(g, AllNeeds(g, n), InstallType)
    BY <1>1 DEF ClosedUnder, ReqType
  <2>3. \A e \in g.edges : e.child \in g.nodes
    BY DEF PackagesOnly
  <2>4. /\ Children(g, n, BuildType) \subseteq BuildRequirements(g, n)
        /\ ClosedUnder(g, BuildRequirements(g, n), InstallType)
        /\ \A C \in SUBSET g.nodes :
             Children(g, n, BuildType) \subseteq C /\ ClosedUnder(g, C, InstallType) =>
               BuildRequirements(g, n) \subseteq C
    BY <2>1, <2>3, ClosureIsLeast DEF BuildRequirements
  <2> QED BY <1>1, <2>1, <2>2, <2>4
<1>3. ASSUME NEW n \in Pkg, NEW m \in AllNeeds(g, n), m \notin BuildRequirements(g, n)
      PROVE  \E x \in BuildRequirements(g, n) : x \in Pkg /\ m \in AllNeeds(g, x)
  <2>1. PICK C : C = BuildRequirements(g, n) \cup UNION {AllNeeds(g, x) : x \in BuildRequirements(g, n)}
    OBVIOUS
  <2>2. BuildRequirements(g, n) \subseteq Pkg /\ C \in SUBSET Pkg
    BY <1>1, <1>2, <2>1
  <2>3. ASSUME NEW e \in g.edges, e.type \in ReqType, e.parent \in C PROVE e.child \in C
    <3>1. CASE \E x \in BuildRequirements(g, n) : e.parent \in AllNeeds(g, x)
      BY <1>1, <2>1, <2>2, <2>3, <3>1 DEF ClosedUnder
    <3>2. CASE e.parent \in BuildRequirements(g, n) /\ e.type \in InstallType
      BY <1>2, <2>1, <3>2 DEF ClosedUnder
    <3>3. CASE e.parent \in BuildRequirements(g, n) /\ e.type \in BuildType
      <4>1. e.child \in Children(g, e.parent, BuildType)
        BY <3>3 DEF Children
      <4> QED BY <1>1, <2>1, <2>2, <3>3, <4>1
    <3> QED BY <2>1, <2>3, <3>1, <3>2, <3>3 DEF ReqType
  <2>4. AllNeeds(g, n) \subseteq C
    BY <1>1, <1>2, <2>1, <2>2, <2>3 DEF ClosedUnder
  <2> QED BY <1>3, <2>1, <2>2, <2>4
<1>4. \A n \in AllNeeds(g, p) : AllNeeds(g, n) \subseteq AllNeeds(g, p)
  <2> SUFFICES ASSUME NEW n \in AllNeeds(g, p) PROVE AllNeeds(g, n) \subseteq AllNeeds(g, p)
    OBVIOUS
  <2>1. Children(g, n, BuildType) \subseteq AllNeeds(g, p)
    BY <1>1 DEF Children, ClosedUnder, ReqType
  <2> QED BY <1>1, <2>1
<1>5. PICK S : S = {n \in AllNeeds(g, p) : p \in AllNeeds(g, n)}
  OBVIOUS
<1>6. ASSUME NEW n \in S PROVE BuildRequirements(g, n) \cap S # {}
  <2>1. n \in Pkg /\ p \in AllNeeds(g, n)
    BY <1>1, <1>5
  <2>2. CASE p \in BuildRequirements(g, n)
    BY <1>5, <2>2
  <2>3. CASE p \notin BuildRequirements(g, n)
    <3>1. PICK x \in BuildRequirements(g, n) : p \in AllNeeds(g, x)
      BY <1>3, <2>1, <2>3
    <3>2. x \in AllNeeds(g, p)
      BY <1>2, <1>4, <1>5, <2>1
    <3> QED BY <1>5, <3>1, <3>2
  <2> QED BY <2>2, <2>3
<1>7. g.nodes \ {ROOT} = Pkg
  BY BootstrapperAssumption DEF PackagesOnly
<1>8. S \in SUBSET Pkg /\ S # {}
  BY <1>1, <1>5
<1>9. DOMAIN BuildTopology(g) = Pkg /\ \A n \in Pkg : BuildTopology(g)[n] = BuildRequirements(g, n)
  BY <1>7 DEF BuildTopology
<1>10. HasCycle(BuildTopology(g))
  BY <1>6, <1>8, <1>9 DEF HasCycle
<1> QED BY <1>10

-----------------------------------------------------------------------------
(* The universe: every known requirement has one package, and what a package    *)
(* needs to be built and what it reaches are closed under requirements.        *)
Soles == [r \in Req |-> <<r.name, Highest(Offered[r])>>]

ReachOf == [p \in Pkg |-> AllReached(UniverseGraph, p)]
NeedsOf == [p \in Pkg |-> AllNeeds(UniverseGraph, p)]

LEMMA UniverseStays ==
  ASSUME UNCHANGED u
  PROVE  /\ Known' = Known /\ Soles' = Soles /\ ReachOf' = ReachOf /\ NeedsOf' = NeedsOf
         /\ Everything' = Everything /\ Buildable' = Buildable
<1>1. Offered' = Offered
  BY OfferedStays
<1>2. Soles' = Soles
  BY <1>1 DEF Soles
<1>3. Known' = Known
  BY DEF Known, Requirements, BuildRequires
<1>4. UniverseGraph' = UniverseGraph
  BY DEF UniverseGraph, Candidates, Matching, Offer
<1>5. ReachOf' = ReachOf /\ NeedsOf' = NeedsOf
  BY <1>4 DEF ReachOf, NeedsOf
<1>6. Everything' = Everything
  BY DEF Everything
<1>7. Buildable' = Buildable
  BY <1>3, <1>4, <1>6 DEF Buildable, Candidates, Matching, Offer, InstallsFrom
<1> QED BY <1>2, <1>3, <1>5, <1>6, <1>7

LEMMA KnownRequirements ==
  ASSUME TypeInv
  PROVE  /\ Known \subseteq Req /\ ElementsOf(u.top) \subseteq Known
         /\ \A p \in Pkg : Requirements(p) \subseteq Known /\ BuildRequires(p) \subseteq Requirements(p)
         /\ \A p \in Pkg : \A x : Installs(p, x) \subseteq Requirements(p)
<1>1. /\ u.top \in Seq(Req)
      /\ \A p \in Pkg : u.system[p] \subseteq Req /\ u.backend[p] \subseteq Req /\ u.sdist[p] \subseteq Req
      /\ \A p \in Pkg : u.install[p] \subseteq Req /\ u.extra[p] \subseteq Req
  BY DEF TypeInv, LoopTypeOK, Universe
<1>2. ElementsOf(u.top) \subseteq Req
  BY <1>1 DEF ElementsOf
<1>3. ElementsOf(u.top) = {u.top[i] : i \in DOMAIN u.top}
  BY DEF ElementsOf
<1> QED BY <1>1, <1>2, <1>3 DEF Known, Requirements, BuildRequires, Installs

LEMMA SoleCandidate ==
  ASSUME TypeInv, Buildable, NEW r \in Known
  PROVE  /\ r \in Req /\ Soles[r] \in Pkg /\ Soles[r] \in Everything
         /\ Soles[r] = <<r.name, Highest(Candidates(r))>> /\ Soles[r][2] \in Version
         /\ Candidates(r) = {Soles[r][2]}
         /\ \A q \in Everything : q[1] = r.name /\ q[2] \in r.spec => q = Soles[r]
<1>1. r \in Req /\ r.name \in Name /\ r.spec \subseteq Version
  BY KnownRequirements DEF Req
<1>2. Cardinality(Candidates(r)) = 1
  BY DEF Buildable
<1>3. Candidates(r) \subseteq Version /\ IsFiniteSet(Candidates(r))
  BY <1>1, CandidateVersions, BootstrapperAssumption, FS_Subset
<1>4. PICK v : Candidates(r) = {v}
  BY <1>2, <1>3, FS_Singleton
<1>5. Highest(Candidates(r)) = v /\ v \in Version
  BY <1>3, <1>4, HighestVersion
<1>6. Soles[r] = <<r.name, v>> /\ Soles[r] \in Pkg
  BY <1>1, <1>5 DEF Soles, Offered, Pkg
<1>7. ASSUME NEW q \in Pkg, q[1] = r.name
      PROVE  q \in Everything /\ q[2] \in r.spec <=> q[2] \in Candidates(r)
  <2>1. q = <<r.name, q[2]>>
    BY <1>7 DEF Pkg
  <2>2. Offer(r) = IF q[1] \in u.prebuilt THEN u.wheels ELSE u.sdists
    BY <1>7 DEF Offer
  <2>3. q[2] \in Candidates(r) <=> q[2] \in r.spec /\ q \in Offer(r)
    BY <2>1 DEF Candidates, Matching
  <2> QED BY <1>7, <2>2, <2>3 DEF Everything
<1>8. Soles[r] \in Everything
  BY <1>4, <1>6, <1>7
<1>9. ASSUME NEW q \in Everything, q[1] = r.name, q[2] \in r.spec PROVE q = Soles[r]
  <2>1. q \in Pkg
    BY DEF Everything
  <2>2. q = <<q[1], q[2]>>
    BY <2>1 DEF Pkg
  <2> QED BY <1>4, <1>6, <1>7, <1>9, <2>1, <2>2
<1> QED BY <1>1, <1>4, <1>5, <1>6, <1>8, <1>9

LEMMA UniverseEdges ==
  ASSUME TypeInv
  PROVE  /\ PackagesOnly(UniverseGraph)
         /\ \A p \in Pkg : \A r \in Requirements(p) : \A v \in Candidates(r) :
              \E e \in UniverseGraph.edges :
                /\ e.parent = p /\ e.child = <<r.name, v>>
                /\ r \in BuildRequires(p) => e.type \in BuildType
<1> DEFINE EdgesOf(of, type) ==
             UNION {{[parent |-> x[1], type |-> type, child |-> <<x[2].name, v>>] : v \in Candidates(x[2])} :
                      x \in {x \in Pkg \X Req : x[2] \in of[x[1]]}}
<1>1. /\ UniverseGraph.nodes = Pkg \cup {ROOT}
      /\ UniverseGraph.edges = EdgesOf(u.system, "build-system") \cup EdgesOf(u.backend, "build-backend")
                 \cup EdgesOf(u.sdist, "build-sdist") \cup EdgesOf(u.install, "install")
                 \cup EdgesOf(u.extra, "install")
  BY Zenon DEF UniverseGraph
<1>2. ASSUME NEW of, NEW type \in ReqType, NEW e \in EdgesOf(of, type)
      PROVE  e.parent \in Pkg /\ e.child \in Pkg /\ e.type = type
  <2>1. PICK x \in Pkg \X Req : \E v \in Candidates(x[2]) :
               e = [parent |-> x[1], type |-> type, child |-> <<x[2].name, v>>]
    BY <1>2
  <2>2. x[1] \in Pkg /\ x[2] \in Req /\ x[2].name \in Name
    BY DEF Req
  <2>3. Candidates(x[2]) \subseteq Version
    BY <2>2, CandidateVersions
  <2> QED BY <2>1, <2>2, <2>3 DEF Pkg
<1>3. ASSUME NEW of, NEW type, NEW p \in Pkg, NEW r \in Req, r \in of[p], NEW v \in Candidates(r)
      PROVE  [parent |-> p, type |-> type, child |-> <<r.name, v>>] \in EdgesOf(of, type)
  <2>1. PICK x : x = <<p, r>>
    OBVIOUS
  <2>2. x[1] = p /\ x[2] = r /\ x \in {y \in Pkg \X Req : y[2] \in of[y[1]]}
    BY <1>3, <2>1
  <2> QED BY <2>2
<1> HIDE DEF EdgesOf
<1>4. {"build-system", "build-backend", "build-sdist", "install"} \subseteq ReqType
  BY DEF ReqType, BuildType, InstallType
<1>5. \A e \in UniverseGraph.edges : e.parent \in Pkg /\ e.child \in Pkg /\ e.type \in ReqType
  BY <1>1, <1>2, <1>4
<1>6. ASSUME NEW p \in Pkg, NEW r \in Requirements(p), NEW v \in Candidates(r)
      PROVE  \E e \in UniverseGraph.edges :
                /\ e.parent = p /\ e.child = <<r.name, v>>
                /\ r \in BuildRequires(p) => e.type \in BuildType
  <2>1. r \in Req
    BY KnownRequirements
  <2>2. \/ r \in u.system[p] \/ r \in u.backend[p] \/ r \in u.sdist[p]
        \/ r \notin BuildRequires(p) /\ (r \in u.install[p] \/ r \in u.extra[p])
    BY DEF Requirements, BuildRequires
  <2>3. CASE r \in u.system[p]
    <3>1. [parent |-> p, type |-> "build-system", child |-> <<r.name, v>>] \in UniverseGraph.edges
      BY <1>1, <1>3, <2>1, <2>3
    <3> QED BY <3>1 DEF BuildType
  <2>4. CASE r \in u.backend[p]
    <3>1. [parent |-> p, type |-> "build-backend", child |-> <<r.name, v>>] \in UniverseGraph.edges
      BY <1>1, <1>3, <2>1, <2>4
    <3> QED BY <3>1 DEF BuildType
  <2>5. CASE r \in u.sdist[p]
    <3>1. [parent |-> p, type |-> "build-sdist", child |-> <<r.name, v>>] \in UniverseGraph.edges
      BY <1>1, <1>3, <2>1, <2>5
    <3> QED BY <3>1 DEF BuildType
  <2>6. CASE r \notin BuildRequires(p) /\ (r \in u.install[p] \/ r \in u.extra[p])
    <3>1. [parent |-> p, type |-> "install", child |-> <<r.name, v>>] \in UniverseGraph.edges
      BY <1>1, <1>3, <2>1, <2>6
    <3> QED BY <2>6, <3>1
  <2> QED BY <2>2, <2>3, <2>4, <2>5, <2>6
<1> QED BY <1>1, <1>5, <1>6 DEF PackagesOnly

LEMMA NeedsFollow ==
  ASSUME TypeInv, Buildable, NEW p \in Pkg
  PROVE  /\ p \in ReachOf[p] /\ ReachOf[p] \subseteq Pkg
         /\ NeedsOf[p] \subseteq ReachOf[p] /\ p \notin NeedsOf[p]
         /\ \A r \in BuildRequires(p) : Soles[r] \in NeedsOf[p]
         /\ \A q \in ReachOf[p] : \A r \in Requirements(q) : Soles[r] \in ReachOf[p]
         /\ \A q \in NeedsOf[p] : ReachOf[q] \subseteq NeedsOf[p]
         /\ \A q \in NeedsOf[p] : \A r \in Requirements(q) : Soles[r] \in NeedsOf[p]
<1>1. PICK g : g = UniverseGraph
  OBVIOUS
<1>2. PackagesOnly(g) /\ ~HasCycle(BuildTopology(g))
  BY <1>1, UniverseEdges DEF Buildable
<1>3. \A q \in Pkg : ReachOf[q] = AllReached(g, q) /\ NeedsOf[q] = AllNeeds(g, q)
  BY <1>1 DEF ReachOf, NeedsOf
<1>4. \A q \in Pkg :
        /\ Children(g, q, BuildType) \subseteq NeedsOf[q]
        /\ NeedsOf[q] \subseteq Pkg /\ ClosedUnder(g, NeedsOf[q], ReqType)
        /\ q \in ReachOf[q]
        /\ ReachOf[q] \subseteq Pkg /\ ClosedUnder(g, ReachOf[q], ReqType)
        /\ NeedsOf[q] \subseteq ReachOf[q]
        /\ \A C \in SUBSET Pkg : ClosedUnder(g, C, ReqType) /\ q \in C => ReachOf[q] \subseteq C
  BY <1>2, <1>3, NeedsOfGraph
<1>5. p \notin NeedsOf[p]
  BY <1>2, <1>3, NothingNeedsItself
<1>6. ASSUME NEW q \in Pkg, NEW r \in Requirements(q)
      PROVE  \E e \in g.edges :
               /\ e.parent = q /\ e.child = Soles[r] /\ e.type \in ReqType
               /\ r \in BuildRequires(q) => e.type \in BuildType
  <2>1. r \in Known
    BY KnownRequirements
  <2>2. PICK v : Candidates(r) = {v} /\ Soles[r] = <<r.name, v>>
    BY <2>1, SoleCandidate
  <2>3. PICK e \in g.edges : /\ e.parent = q /\ e.child = <<r.name, v>>
                             /\ r \in BuildRequires(q) => e.type \in BuildType
    BY <1>1, <2>2, UniverseEdges
  <2> QED BY <1>2, <2>2, <2>3 DEF PackagesOnly
<1>7. ASSUME NEW C \in SUBSET Pkg, ClosedUnder(g, C, ReqType), NEW q \in C, NEW r \in Requirements(q)
      PROVE  Soles[r] \in C
  <2>1. q \in Pkg /\ \A e \in g.edges : e.type \in ReqType /\ e.parent = q => e.child \in C
    BY <1>7 DEF ClosedUnder
  <2>2. PICK e \in g.edges : e.parent = q /\ e.child = Soles[r] /\ e.type \in ReqType
    BY <1>6, <2>1
  <2> QED BY <2>1, <2>2
<1>8. \A r \in BuildRequires(p) : Soles[r] \in NeedsOf[p]
  <2> SUFFICES ASSUME NEW r \in BuildRequires(p) PROVE Soles[r] \in NeedsOf[p]
    OBVIOUS
  <2>1. r \in Requirements(p)
    BY KnownRequirements
  <2>2. PICK e \in g.edges : e.parent = p /\ e.child = Soles[r] /\ e.type \in BuildType
    BY <1>6, <2>1
  <2>3. Soles[r] \in Children(g, p, BuildType)
    BY <2>2 DEF Children
  <2> QED BY <1>4, <2>3
<1>9. \A q \in ReachOf[p] : \A r \in Requirements(q) : Soles[r] \in ReachOf[p]
  BY <1>4, <1>7
<1>10. /\ \A q \in NeedsOf[p] : ReachOf[q] \subseteq NeedsOf[p]
       /\ \A q \in NeedsOf[p] : \A r \in Requirements(q) : Soles[r] \in NeedsOf[p]
  BY <1>4, <1>7
<1> QED BY <1>4, <1>5, <1>8, <1>9, <1>10

-----------------------------------------------------------------------------
(* The invariant, in a calm run: a universe that is buildable, and no fault or *)
(* a mode in which the first failure ends the run.                            *)
Calm == Buildable /\ (faults = {} \/ ~(TestMode \/ MultipleVersions))

Waiting == {"prepare-build", "build"}

(* What the places of the stack are about.                                   *)
Job(it) == [phase |-> it.phase, req |-> it.req, light |-> OnlySdist(it)]

Jobs(s)     == {Job(s[i]) : i \in DOMAIN s}
Above(s, k) == {Job(s[j]) : j \in 1..(k - 1)}

(* The package that a requirement stands for has been visited, with its extras *)
(* if the requirement asks for them, and not for its sdist only.              *)
Answered(r, marks) ==
  \E x \in BOOLEAN : (r.extras => x) /\ <<r.name, x, Soles[r][2], "wheel">> \in marks

Asks(t, r) == t.phase \in Asking /\ t.req = r /\ ~t.light

WaitsFor(t) ==
  LET p == Soles[t.req]
  IN  CASE t.phase = "prepare-build" -> u.system[p]
        [] t.phase = "build" -> BuildRequires(p)
        [] t.phase = "process-install-deps" -> IF p[1] \in u.prebuilt THEN {} ELSE BuildRequires(p)
        [] t.phase = "complete" -> IF t.light THEN {} ELSE Installs(p, t.req.extras)
        [] OTHER -> {}

Under(t) == IF t.phase \in Waiting THEN NeedsOf[Soles[t.req]] ELSE ReachOf[Soles[t.req]]

(* Only what a place leads to is above it, and there is asked whatever it waits *)
(* for and is not answered yet.                                              *)
Placed(t, above, marks) ==
  /\ t.phase # "resolve" => \A s \in above : Soles[s.req] \in Under(t)
  /\ \A r \in WaitsFor(t) : Answered(r, marks) \/ \E s \in above : Asks(s, r)

(* A package that was visited is still in work or has its wheel, is in the      *)
(* build order, and all that it installs has been visited.                    *)
InWork(k, jobs) ==
  \E t \in jobs : /\ t.phase \notin Asking /\ ~t.light
                  /\ Soles[t.req] = <<k[1], k[3]>> /\ t.req.extras = k[2]

Settled(k, wheels, order, marks) ==
  /\ <<k[1], k[3]>> \in wheels /\ <<k[1], k[3]>> \in order
  /\ \A r \in Installs(<<k[1], k[3]>>, k[2]) : Answered(r, marks)

MarksSettle(jobs, wheels, order, marks) ==
  \A k \in marks : k[4] = "wheel" => InWork(k, jobs) \/ Settled(k, wheels, order, marks)

EdgeMarked(e, marks) ==
  e.type \in BuildType =>
    e.child \in Everything /\ \E x \in BOOLEAN : <<e.child[1], x, e.child[2], "wheel">> \in marks

(* What an item says of itself is right.                                      *)
Sound(it, nodes, wheels, order, faulty) ==
  LET p == Soles[it.req]
  IN  /\ it.req \in Known
      /\ it.future = "failed" => faulty
      /\ it.phase # "resolve" => PkgOf(it) = p
      /\ it.type # "toplevel" => it.parent \in nodes
      /\ it.type = "toplevel" \/ it.phase \notin Asking => p \in nodes
      /\ it.phase \notin Asking => it.sdistOnly = OnlySdist(it)
      /\ it.cached => p \in wheels
      /\ it.phase = "prepare-source" /\ it.future = "done" /\ p[1] \in u.prebuilt => p \in wheels
      /\ it.phase \in Waiting => p[1] \notin u.prebuilt
      /\ it.phase = "prepare-build" => it.system = u.system[p]
      /\ it.phase = "build" => it.backend \subseteq u.backend[p] /\ it.sdist \subseteq u.sdist[p]
      /\ it.phase \in Built => it.result = it.ver
      /\ it.phase \in Built /\ ~it.sdistOnly => p \in wheels
      /\ it.phase = "complete" => p \in order

Health(s, marks, g, wheels, order, faulty) ==
  /\ MarksSettle(Jobs(s), wheels, order, marks)
  /\ \A e \in g.edges : EdgeMarked(e, marks)
  /\ \A i \in DOMAIN s : Sound(s[i], g.nodes, wheels, order, faulty)
  /\ \A i \in DOMAIN s : Placed(Job(s[i]), Above(s, i), marks)

Quiet ==
  /\ failures = {} /\ failedVersions = {} /\ raw = {} /\ wheelsBuild = {}
  /\ \A p \in prebuiltDir : p[1] \in u.prebuilt
  /\ ElementsOf(todo) \subseteq ElementsOf(u.top)

HealthNow == Health(stack, seen, graph, Mirror, ElementsOf(buildOrder), faults # {})

HealthInv ==
  Calm => /\ faults = {} => pc # "aborted"
          /\ pc # "aborted" => Quiet /\ HealthNow

-----------------------------------------------------------------------------
(* Environments: what was visited below a package is settled, so that whatever *)
(* can be installed from everything there is can be installed from the wheels  *)
(* that there are by now.                                                    *)
LEMMA InstallsFewer ==
  ASSUME NEW asked, NEW fewer, fewer \subseteq asked, NEW wheels, InstallsFrom(asked, wheels)
  PROVE  InstallsFrom(fewer, wheels)
<1>1. PICK env \in SUBSET wheels, extended \in SUBSET Name :
        LET reqs == UNION ({asked} \cup {u.install[p] : p \in env}
                             \cup {u.extra[p] : p \in {q \in env : q[1] \in extended}})
        IN  /\ \A p, q \in env : p[1] = q[1] => p = q
            /\ \A r \in reqs : /\ \E p \in env : p[1] = r.name /\ p[2] \in r.spec
                               /\ r.extras => r.name \in extended
  BY DEF InstallsFrom
<1> DEFINE reqs == UNION ({fewer} \cup {u.install[p] : p \in env}
                            \cup {u.extra[p] : p \in {q \in env : q[1] \in extended}})
<1>2. /\ \A p, q \in env : p[1] = q[1] => p = q
      /\ \A r \in reqs : /\ \E p \in env : p[1] = r.name /\ p[2] \in r.spec
                         /\ r.extras => r.name \in extended
  BY <1>1
<1> QED BY <1>2 DEF InstallsFrom

LEMMA EnvironmentFrom ==
  ASSUME TypeInv, Buildable, NEW p \in Pkg, NEW asked \in SUBSET BuildRequires(p),
         InstallsFrom(asked, Everything), NEW marks, NEW wheels,
         \A r \in asked : Answered(r, marks),
         \A q \in NeedsOf[p] : \A x \in BOOLEAN : <<q[1], x, q[2], "wheel">> \in marks =>
           q \in wheels /\ \A r \in Installs(q, x) : Answered(r, marks)
  PROVE  InstallsFrom(asked, wheels)
<1>1. PICK all \in SUBSET Everything, full \in SUBSET Name :
        LET reqs == UNION ({asked} \cup {u.install[q] : q \in all}
                             \cup {u.extra[q] : q \in {o \in all : o[1] \in full}})
        IN  /\ \A q, s \in all : q[1] = s[1] => q = s
            /\ \A r \in reqs : /\ \E q \in all : q[1] = r.name /\ q[2] \in r.spec
                               /\ r.extras => r.name \in full
  BY DEF InstallsFrom
<1>2. PICK filled : filled = {o \in all : o[1] \in full}
  OBVIOUS
<1> DEFINE wanted == UNION ({asked} \cup {u.install[q] : q \in all} \cup {u.extra[q] : q \in filled})
<1>3. /\ \A q, s \in all : q[1] = s[1] => q = s
      /\ \A r \in wanted : \E q \in all : q[1] = r.name /\ q[2] \in r.spec
      /\ \A r \in wanted : r.extras => r.name \in full
  BY <1>1, <1>2
<1>4. PICK env : env = {q \in all :
                       q \in NeedsOf[p] /\ \E x \in BOOLEAN : <<q[1], x, q[2], "wheel">> \in marks}
  OBVIOUS
<1>5. PICK extended : extended = {n \in full : \E q \in env : q[1] = n /\ <<q[1], TRUE, q[2], "wheel">> \in marks}
  OBVIOUS
<1>6. all \subseteq Pkg
  BY DEF Everything
<1>7. env \in SUBSET wheels /\ extended \in SUBSET Name /\ env \subseteq all
  BY <1>4, <1>5
<1>11. PICK picked : picked = {o \in env : o[1] \in extended}
  OBVIOUS
<1> DEFINE Reqs == UNION ({asked} \cup {u.install[q] : q \in env} \cup {u.extra[q] : q \in picked})
<1>8. ASSUME NEW r \in Reqs PROVE r \in wanted /\ r \in Known /\ Answered(r, marks) /\ Soles[r] \in NeedsOf[p]
  <2>1. CASE r \in asked
    BY <2>1, NeedsFollow, KnownRequirements
  <2>2. ASSUME NEW q \in env, NEW x \in BOOLEAN, <<q[1], x, q[2], "wheel">> \in marks, r \in Installs(q, x)
        PROVE  r \in Known /\ Answered(r, marks) /\ Soles[r] \in NeedsOf[p]
    <3>1. q \in Pkg /\ q \in NeedsOf[p] /\ r \in Requirements(q)
      BY <1>4, <1>6, <2>2, KnownRequirements
    <3> QED BY <2>2, <3>1, NeedsFollow, KnownRequirements
  <2>3. CASE \E q \in env : r \in u.install[q]
    <3>1. PICK q \in env : r \in u.install[q]
      BY <2>3
    <3>2. PICK x \in BOOLEAN : <<q[1], x, q[2], "wheel">> \in marks
      BY <1>4
    <3>3. r \in Installs(q, x)
      BY <3>1 DEF Installs
    <3> QED BY <1>7, <2>2, <3>1, <3>2, <3>3
  <2>4. CASE \E q \in env : q[1] \in extended /\ r \in u.extra[q]
    <3>1. PICK q \in env : q[1] \in extended /\ r \in u.extra[q]
      BY <2>4
    <3>2. PICK s \in env : s[1] = q[1] /\ <<s[1], TRUE, s[2], "wheel">> \in marks
      BY <1>5, <3>1
    <3>3. s = q /\ q[1] \in full
      BY <1>3, <1>5, <1>7, <3>1, <3>2
    <3>4. r \in Installs(q, TRUE)
      BY <3>1 DEF Installs
    <3>5. q \in filled
      BY <1>2, <1>7, <3>3
    <3>6. r \in wanted
      BY <3>1, <3>5
    <3> QED BY <2>2, <3>2, <3>3, <3>4, <3>6
  <2>5. \/ r \in asked \/ \E q \in env : r \in u.install[q]
        \/ \E q \in picked : r \in u.extra[q]
    BY <1>8
  <2> QED BY <1>11, <2>1, <2>3, <2>4, <2>5
<1>9. ASSUME NEW r \in Reqs
      PROVE  /\ \E q \in env : q[1] = r.name /\ q[2] \in r.spec
             /\ r.extras => r.name \in extended
  <2>1. r \in wanted /\ r \in Known /\ Answered(r, marks) /\ Soles[r] \in NeedsOf[p]
    BY <1>8
  <2>2. PICK q \in all : q[1] = r.name /\ q[2] \in r.spec
    BY <1>3, <2>1
  <2>3. q = Soles[r]
    <3>1. q \in Everything
      OBVIOUS
    <3> QED BY <2>1, <2>2, <3>1, SoleCandidate
  <2>4. PICK x \in BOOLEAN : (r.extras => x) /\ <<q[1], x, q[2], "wheel">> \in marks
    <3>1. PICK x \in BOOLEAN : (r.extras => x) /\ <<r.name, x, Soles[r][2], "wheel">> \in marks
      BY <2>1 DEF Answered
    <3>2. <<r.name, x, Soles[r][2], "wheel">> = <<q[1], x, q[2], "wheel">>
      BY <2>2, <2>3
    <3> QED BY <3>1, <3>2
  <2>5. q \in env
    BY <1>4, <2>1, <2>3, <2>4
  <2>6. r.extras => r.name \in extended
    BY <1>3, <1>5, <2>1, <2>2, <2>4, <2>5
  <2> QED BY <2>2, <2>5, <2>6
<1>10. \A q, s \in env : q[1] = s[1] => q = s
  BY <1>3, <1>7
<1> QED BY <1>7, <1>9, <1>10, <1>11 DEF InstallsFrom

-----------------------------------------------------------------------------
(* The places of the stack when its top is replaced.                          *)
LEMMA JobFields ==
  \A it : Job(it).phase = it.phase /\ Job(it).req = it.req /\ Job(it).light = OnlySdist(it)
  BY DEF Job

LEMMA JobsOfShort == Jobs(<<>>) = {} /\ \A it : Jobs(<<it>>) = {Job(it)} /\ Above(<<it>>, 1) = {}
<1>1. Jobs(<<>>) = {}
  BY DEF Jobs
<1>2. ASSUME NEW it PROVE Jobs(<<it>>) = {Job(it)} /\ Above(<<it>>, 1) = {}
  <2>1. DOMAIN <<it>> = {1} /\ <<it>>[1] = it /\ 1..(1 - 1) = {}
    OBVIOUS
  <2> QED BY <2>1, Zenon DEF Jobs, Above
<1> QED BY <1>1, <1>2

LEMMA AbovePush ==
  ASSUME TypeInv, stack # <<>>, NEW items \in Seq(FitItem), NEW k \in DOMAIN Push(items)
  PROVE  \/ \E i \in DOMAIN items : Push(items)[k] = items[i] /\ Above(Push(items), k) = Above(items, i)
         \/ \E i \in DOMAIN stack : \E A :
              /\ Push(items)[k] = stack[i] /\ Above(stack, i) = {Job(Top)} \cup A
              /\ Above(Push(items), k) = Jobs(items) \cup A
<1>1. stack \in Seq(FitItem)
  BY DEF TypeInv, LoopTypeOK
<1>2. PICK rest : rest = Tail(stack)
  OBVIOUS
<1>3. /\ rest \in Seq(FitItem) /\ Len(rest) \in Nat /\ Len(stack) = Len(rest) + 1
      /\ \A j \in 1..Len(rest) : rest[j] = stack[j + 1]
      /\ stack[1] = Top /\ DOMAIN items = 1..Len(items) /\ Len(items) \in Nat
  BY <1>1, <1>2 DEF Top
<1>4. PICK new : new = Push(items)
  OBVIOUS
<1>5. PICK m \in Nat : m = Len(items)
  BY <1>3
<1>6. PICK n \in Nat : n = Len(rest)
  BY <1>3
<1>7. /\ k \in 1..(m + n)
      /\ \A j \in 1..m : new[j] = items[j]
      /\ \A j \in 1..n : new[m + j] = rest[j] /\ rest[j] = stack[j + 1]
      /\ DOMAIN stack = 1..(n + 1) /\ DOMAIN items = 1..m
  <2>1. new = items \o rest
    BY <1>2, <1>4 DEF Push
  <2>2. DOMAIN stack = 1..(n + 1)
    BY <1>1, <1>3, <1>6
  <2>3. k \in 1..(m + n)
    BY <1>3, <1>4, <1>5, <1>6, <2>1
  <2>4. \A j \in 1..m : new[j] = items[j]
    BY <1>3, <1>5, <2>1
  <2>5. \A j \in 1..n : new[m + j] = rest[j]
    BY <1>3, <1>5, <1>6, <2>1
  <2> QED BY <1>3, <1>5, <1>6, <2>2, <2>3, <2>4, <2>5
<1>8. CASE k \in 1..m
  <2>1. 1..(k - 1) \subseteq 1..m
    BY <1>8
  <2>2. Above(new, k) = Above(items, k)
    BY <1>7, <2>1 DEF Above
  <2> QED BY <1>4, <1>7, <1>8, <2>2
<1>9. CASE k \notin 1..m
  <2>1. PICK i \in 1..n : k = m + i
    <3>1. k - m \in 1..n /\ k = m + (k - m)
      BY <1>7, <1>9
    <3> QED BY <3>1
  <2>2. i + 1 \in DOMAIN stack /\ new[k] = stack[i + 1]
    <3>1. i + 1 \in 1..(n + 1)
      OBVIOUS
    <3>2. new[m + i] = rest[i] /\ rest[i] = stack[i + 1]
      BY <1>7
    <3> QED BY <1>7, <2>1, <3>1, <3>2
  <2>3. PICK A : A = {Job(rest[j]) : j \in 1..(i - 1)}
    OBVIOUS
  <2>4. Above(stack, i + 1) = {Job(Top)} \cup A
    <3>0. (i + 1) - 1 = i
      OBVIOUS
    <3>1. ASSUME NEW j \in 1..i PROVE Job(stack[j]) \in {Job(Top)} \cup A
      <4>1. CASE j = 1
        BY <1>3, <4>1
      <4>2. CASE j # 1
        <5>1. j - 1 \in 1..(i - 1) /\ j - 1 \in 1..n /\ (j - 1) + 1 = j
          BY <4>2
        <5>2. rest[j - 1] = stack[(j - 1) + 1]
          BY <1>7, <5>1
        <5> QED BY <2>3, <5>1, <5>2
      <4> QED BY <4>1, <4>2
    <3>2. ASSUME NEW j \in 1..(i - 1) PROVE j + 1 \in 1..i /\ rest[j] = stack[j + 1]
      <4>1. j + 1 \in 1..i /\ j \in 1..n
        OBVIOUS
      <4> QED BY <1>7, <4>1
    <3>3. 1 \in 1..i
      OBVIOUS
    <3>4. Above(stack, i + 1) = {Job(stack[j]) : j \in 1..i}
      BY <3>0 DEF Above
    <3>5. \A j \in 1..(i - 1) : Job(rest[j]) \in {Job(stack[l]) : l \in 1..i}
      BY <3>2
    <3>6. Job(Top) \in {Job(stack[j]) : j \in 1..i}
      BY <1>3, <3>3
    <3>7. {Job(stack[j]) : j \in 1..i} \subseteq {Job(Top)} \cup A
      BY <3>1
    <3>8. A \subseteq {Job(stack[j]) : j \in 1..i}
      BY <2>3, <3>5
    <3> QED BY <3>4, <3>6, <3>7, <3>8
  <2>5. Above(new, k) = Jobs(items) \cup A
    <3>1. ASSUME NEW j \in 1..(k - 1) PROVE Job(new[j]) \in Jobs(items) \cup A
      <4>1. CASE j \in 1..m
        BY <1>7, <4>1 DEF Jobs
      <4>2. CASE j \notin 1..m
        <5>1. j - m \in 1..(i - 1) /\ j - m \in 1..n /\ m + (j - m) = j
          BY <2>1, <4>2
        <5>2. new[m + (j - m)] = rest[j - m]
          BY <1>7, <5>1
        <5> QED BY <2>3, <5>1, <5>2
      <4> QED BY <4>1, <4>2
    <3>2. ASSUME NEW j \in 1..m PROVE Job(items[j]) \in Above(new, k)
      <4>1. j \in 1..(k - 1) /\ new[j] = items[j]
        BY <1>7, <2>1
      <4> QED BY <4>1 DEF Above
    <3>3. ASSUME NEW j \in 1..(i - 1) PROVE Job(rest[j]) \in Above(new, k)
      <4>1. m + j \in 1..(k - 1) /\ j \in 1..n
        BY <2>1
      <4>2. new[m + j] = rest[j]
        BY <1>7, <4>1
      <4> QED BY <4>1, <4>2 DEF Above
    <3>4. Above(new, k) \subseteq Jobs(items) \cup A
      BY <3>1 DEF Above
    <3>5. Jobs(items) \subseteq Above(new, k)
      BY <1>7, <3>2 DEF Jobs
    <3>6. A \subseteq Above(new, k)
      BY <2>3, <3>3
    <3> QED BY <3>4, <3>5, <3>6
  <2> QED BY <1>4, <2>2, <2>4, <2>5
<1> QED BY <1>8, <1>9

LEMMA JobsBelow ==
  ASSUME TypeInv, stack # <<>>, NEW items \in Seq(FitItem)
  PROVE  \E B : Jobs(stack) = {Job(Top)} \cup B /\ Jobs(Push(items)) = Jobs(items) \cup B
<1>1. stack \in Seq(FitItem) /\ Tail(stack) \in Seq(FitItem) /\ stack = <<Top>> \o Tail(stack)
  BY DEF TypeInv, LoopTypeOK, Top
<1>2. Top \in FitItem
  BY <1>1 DEF Top
<1>3. ASSUME NEW a \in Seq(FitItem), NEW b \in Seq(FitItem) PROVE Jobs(a \o b) = Jobs(a) \cup Jobs(b)
  <2>1. \A i \in DOMAIN a : i \in DOMAIN (a \o b) /\ (a \o b)[i] = a[i]
    OBVIOUS
  <2>2. \A i \in DOMAIN b : i + Len(a) \in DOMAIN (a \o b) /\ (a \o b)[i + Len(a)] = b[i]
    OBVIOUS
  <2>3. \A i \in DOMAIN (a \o b) : \/ i \in DOMAIN a
                                   \/ i - Len(a) \in DOMAIN b /\ (a \o b)[i] = b[i - Len(a)]
    OBVIOUS
  <2> QED BY <2>1, <2>2, <2>3 DEF Jobs
<1>4. Jobs(stack) = {Job(Top)} \cup Jobs(Tail(stack))
  <2>1. <<Top>> \in Seq(FitItem)
    BY <1>2
  <2>2. Jobs(<<Top>> \o Tail(stack)) = Jobs(<<Top>>) \cup Jobs(Tail(stack))
    BY <1>1, <1>3, <2>1
  <2> QED BY <1>1, <2>2, JobsOfShort
<1>5. Jobs(Push(items)) = Jobs(items) \cup Jobs(Tail(stack))
  BY <1>1, <1>3 DEF Push
<1> QED BY <1>4, <1>5

-----------------------------------------------------------------------------
(* What a step keeps.                                                        *)
LEMMA AnsweredStays ==
  ASSUME NEW marks, NEW more, marks \subseteq more
  PROVE  \A r : Answered(r, marks) => Answered(r, more)
  BY DEF Answered

LEMMA SoundStays ==
  ASSUME NEW it, NEW nodes, NEW wheels, NEW order, NEW faulty,
         NEW nodes2, NEW wheels2, NEW order2, NEW faulty2, Sound(it, nodes, wheels, order, faulty),
         nodes \subseteq nodes2, wheels \subseteq wheels2, order \subseteq order2, faulty => faulty2
  PROVE  Sound(it, nodes2, wheels2, order2, faulty2)
  BY DEF Sound

LEMMA SettledStays ==
  ASSUME NEW k, NEW wheels, NEW order, NEW marks, NEW wheels2, NEW order2, NEW marks2,
         Settled(k, wheels, order, marks),
         wheels \subseteq wheels2, order \subseteq order2, marks \subseteq marks2
  PROVE  Settled(k, wheels2, order2, marks2)
  BY AnsweredStays DEF Settled

(* What is under a place stays under it, with all that it leads to.            *)
LEMMA UnderFollows ==
  ASSUME TypeInv, Buildable, NEW t, t.req \in Known, NEW r \in Known, Soles[r] \in Under(t)
  PROVE  \A s \in Requirements(Soles[r]) : Soles[s] \in Under(t)
<1>1. Soles[t.req] \in Pkg
  BY SoleCandidate
<1> QED BY <1>1, NeedsFollow DEF Under

LEMMA PushHealth ==
  ASSUME TypeInv, Buildable, HealthNow, stack # <<>>, NEW items \in Seq(FitItem),
         NEW marks, seen \subseteq marks, NEW g, graph.nodes \subseteq g.nodes,
         NEW wheels, Mirror \subseteq wheels, NEW order, ElementsOf(buildOrder) \subseteq order,
         NEW faulty, faults # {} => faulty,
         \A i \in DOMAIN items :
           /\ Sound(items[i], g.nodes, wheels, order, faulty)
           /\ Placed(Job(items[i]), Above(items, i), marks),
         \A t \in Jobs(items) : t.req = Top.req \/ t.req \in Requirements(Soles[Top.req]),
         Top.phase \in Asking /\ ~OnlySdist(Top) =>
           Answered(Top.req, marks) \/ \E t \in Jobs(items) : Asks(t, Top.req),
         Top.phase \notin Asking /\ ~OnlySdist(Top) =>
           \/ \E t \in Jobs(items) : t.phase \notin Asking /\ ~t.light /\ t.req = Top.req
           \/ \A k : /\ Soles[Top.req] = <<k[1], k[3]>> /\ Top.req.extras = k[2]
                     => Settled(k, wheels, order, marks),
         \A k \in marks \ seen : k[4] = "wheel" => InWork(k, Jobs(items)),
         \A e \in g.edges \ graph.edges : EdgeMarked(e, marks)
  PROVE  Health(Push(items), marks, g, wheels, order, faulty)
<1>1. /\ MarksSettle(Jobs(stack), Mirror, ElementsOf(buildOrder), seen)
      /\ \A e \in graph.edges : EdgeMarked(e, seen)
      /\ \A i \in DOMAIN stack : Sound(stack[i], graph.nodes, Mirror, ElementsOf(buildOrder), faults # {})
      /\ \A i \in DOMAIN stack : Placed(Job(stack[i]), Above(stack, i), seen)
  BY DEF HealthNow, Health
<1>2. /\ 1 \in DOMAIN stack /\ stack[1] = Top
      /\ \A i \in DOMAIN stack : stack[i] \in FitItem
  BY DEF TypeInv, LoopTypeOK, Top
<1>3. Top.req \in Known
  BY <1>1, <1>2 DEF Sound
<1>4. ASSUME NEW i \in DOMAIN stack, NEW A, Above(stack, i) = {Job(Top)} \cup A
      PROVE  /\ Sound(stack[i], g.nodes, wheels, order, faulty)
             /\ Placed(Job(stack[i]), Jobs(items) \cup A, marks)
  <2>1. Sound(stack[i], g.nodes, wheels, order, faulty)
    <3>1. PICK it, nodes : it = stack[i] /\ nodes = graph.nodes
      OBVIOUS
    <3>2. Sound(it, nodes, Mirror, ElementsOf(buildOrder), faults # {})
      BY <1>1, <3>1
    <3>3. Sound(it, g.nodes, wheels, order, faulty)
      BY <3>1, <3>2 DEF Sound
    <3> QED BY <3>1, <3>3
  <2>2. PICK t : t = Job(stack[i])
    OBVIOUS
  <2>3. Placed(t, {Job(Top)} \cup A, seen)
    BY <1>1, <1>4, <2>2
  <2>4. t.req \in Known
    BY <1>1, <2>2, JobFields DEF Sound
  <2>5. ASSUME t.phase # "resolve", NEW s \in Jobs(items) \cup A PROVE Soles[s.req] \in Under(t)
    <3>1. CASE s \in A
      BY <2>3, <2>5, <3>1 DEF Placed
    <3>2. CASE s \in Jobs(items)
      <4>1. Soles[Top.req] \in Under(t)
        BY <2>3, <2>5, JobFields DEF Placed
      <4>2. s.req = Top.req \/ s.req \in Requirements(Soles[Top.req])
        BY <3>2
      <4> QED BY <1>3, <2>4, <4>1, <4>2, UnderFollows
    <3> QED BY <2>5, <3>1, <3>2
  <2>6. ASSUME NEW r \in WaitsFor(t)
        PROVE  Answered(r, marks) \/ \E s \in Jobs(items) \cup A : Asks(s, r)
    <3>1. CASE Answered(r, seen)
      BY <3>1, AnsweredStays
    <3>2. CASE \E s \in A : Asks(s, r)
      BY <3>2
    <3>3. CASE Asks(Job(Top), r)
      <4>1. Top.phase \in Asking /\ Top.req = r /\ ~OnlySdist(Top)
        BY <3>3, JobFields DEF Asks
      <4> QED BY <4>1
    <3> QED BY <2>3, <3>1, <3>2, <3>3 DEF Placed
  <2>7. Placed(t, Jobs(items) \cup A, marks)
    BY <2>5, <2>6 DEF Placed
  <2> QED BY <2>1, <2>2, <2>7
<1>5. ASSUME NEW k \in DOMAIN Push(items)
      PROVE  /\ Sound(Push(items)[k], g.nodes, wheels, order, faulty)
             /\ Placed(Job(Push(items)[k]), Above(Push(items), k), marks)
  <2>1. CASE \E i \in DOMAIN items : Push(items)[k] = items[i] /\ Above(Push(items), k) = Above(items, i)
    BY <2>1
  <2>2. CASE \E i \in DOMAIN stack : \E A :
               /\ Push(items)[k] = stack[i] /\ Above(stack, i) = {Job(Top)} \cup A
               /\ Above(Push(items), k) = Jobs(items) \cup A
    BY <1>4, <2>2
  <2> QED BY <2>1, <2>2, AbovePush
<1>6. PICK B : Jobs(stack) = {Job(Top)} \cup B /\ Jobs(Push(items)) = Jobs(items) \cup B
  BY JobsBelow
<1>7. ASSUME NEW k \in marks, k[4] = "wheel"
      PROVE  InWork(k, Jobs(Push(items))) \/ Settled(k, wheels, order, marks)
  <2>1. CASE k \notin seen
    BY <1>6, <1>7, <2>1 DEF InWork
  <2>2. CASE Settled(k, Mirror, ElementsOf(buildOrder), seen)
    BY <2>2, SettledStays
  <2>3. CASE InWork(k, B)
    BY <1>6, <2>3 DEF InWork
  <2>4. CASE InWork(k, {Job(Top)})
    <3>1. /\ Top.phase \notin Asking /\ ~OnlySdist(Top)
          /\ Soles[Top.req] = <<k[1], k[3]>> /\ Top.req.extras = k[2]
      BY <2>4, JobFields DEF InWork
    <3>2. CASE \E t \in Jobs(items) : t.phase \notin Asking /\ ~t.light /\ t.req = Top.req
      BY <1>6, <3>1, <3>2 DEF InWork
    <3> QED BY <3>1, <3>2
  <2>5. k \in seen => InWork(k, {Job(Top)} \cup B) \/ Settled(k, Mirror, ElementsOf(buildOrder), seen)
    BY <1>1, <1>6, <1>7 DEF MarksSettle
  <2>6. InWork(k, {Job(Top)} \cup B) => InWork(k, {Job(Top)}) \/ InWork(k, B)
    BY DEF InWork
  <2> QED BY <2>1, <2>2, <2>3, <2>4, <2>5, <2>6
<1>8. \A e \in g.edges : EdgeMarked(e, marks)
  BY <1>1 DEF EdgeMarked
<1> QED BY <1>5, <1>7, <1>8 DEF Health, MarksSettle

LEMMA HealthStays ==
  ASSUME UNCHANGED u,
         Health(stack', seen', graph', Mirror', ElementsOf(buildOrder'), faults' # {})
  PROVE  HealthNow'
<1>1. Known' = Known /\ Soles' = Soles /\ ReachOf' = ReachOf /\ NeedsOf' = NeedsOf /\ Everything' = Everything
  BY UniverseStays
<1>2. PICK s, marks, g, wheels, order, faulty :
        /\ s = stack' /\ marks = seen' /\ g = graph' /\ wheels = Mirror'
        /\ order = ElementsOf(buildOrder') /\ faulty = (faults' # {})
  OBVIOUS
<1>3. Health(s, marks, g, wheels, order, faulty)
  BY <1>2
<1>4. MarksSettle(Jobs(s), wheels, order, marks)'
  BY <1>1, <1>3 DEF Health, MarksSettle, Jobs, Job, InWork, Settled, Answered, Installs, OnlySdist
<1>5. \A e \in g.edges : EdgeMarked(e, marks)'
  BY <1>1, <1>3 DEF Health, EdgeMarked
<1>6. \A i \in DOMAIN s : Sound(s[i], g.nodes, wheels, order, faulty)'
  BY <1>1, <1>3 DEF Health, Sound
<1>7. \A i \in DOMAIN s : Placed(Job(s[i]), Above(s, i), marks)'
  BY <1>1, <1>3 DEF Health, Placed, WaitsFor, Under, Answered, Installs, BuildRequires, Job, Above, OnlySdist
<1> QED BY <1>2, <1>4, <1>5, <1>6, <1>7 DEF HealthNow, Health

-----------------------------------------------------------------------------
(* Steps.  In a calm run the first failure is a fault that ends the run, or     *)
(* does not happen.                                                          *)
Healthy == IF pc = "aborted" THEN faults # {} ELSE Quiet /\ HealthNow

CalmBy(after) == Buildable /\ (after = {} \/ ~(TestMode \/ MultipleVersions))

(* An item whose source was fetched and whose build is yet to come.  The step   *)
(* that replaces the top of the stack leaves no such item but the top itself,    *)
(* with no new wheel then, and puts no wheel but of the top into the mirror.   *)
Fetched(it) ==
  \/ it.phase \in Waiting
  \/ it.phase = "prepare-source" /\ it.future = "done" /\ it.req.name \notin u.prebuilt

LeadsTo(it, new) ==
  Fetched(new) => Fetched(it) /\ new.req = it.req /\ new.cached = it.cached /\ Mirror' = Mirror

OnlyOwn ==
  pc' = "aborted" \/
    /\ \E items \in Seq(FitItem) :
         stack' = Push(items) /\ \A i \in DOMAIN items : LeadsTo(Top, items[i])
    /\ Mirror' \subseteq Mirror \cup {Soles[Top.req]}

LEMMA FaultAborts ==
  ASSUME NEW it, NEW g, NEW left, PhaseFailed(it, g, left),
         CalmBy(faults'), faults' # {}
  PROVE  Healthy' /\ OnlyOwn
<1>1. ~TestMode /\ ~MultipleVersions
  BY DEF CalmBy
<1>2. pc' = "aborted"
  BY <1>1 DEF PhaseFailed, FallBack, RecordFailure, DropVersion, Abort
<1> QED BY <1>2 DEF Healthy, OnlyOwn

LEMMA FaultHappens ==
  ASSUME NEW it, Fault(it)
  PROVE  faults \subseteq faults' /\ faults' # {}
  BY DEF Fault

LEMMA HealthStep ==
  ASSUME TypeInv, Buildable, HealthNow, UNCHANGED u, stack # <<>>, NEW items \in Seq(FitItem),
         stack' = Push(items), seen \subseteq seen', graph.nodes \subseteq graph'.nodes,
         Mirror \subseteq Mirror', ElementsOf(buildOrder) \subseteq ElementsOf(buildOrder)',
         faults \subseteq faults',
         \A i \in DOMAIN items :
           /\ Sound(items[i], graph'.nodes, Mirror', ElementsOf(buildOrder)', faults' # {})
           /\ Placed(Job(items[i]), Above(items, i), seen'),
         \A t \in Jobs(items) : t.req = Top.req \/ t.req \in Requirements(Soles[Top.req]),
         Top.phase \in Asking /\ ~OnlySdist(Top) =>
           Answered(Top.req, seen') \/ \E t \in Jobs(items) : Asks(t, Top.req),
         Top.phase \notin Asking /\ ~OnlySdist(Top) =>
           \/ \E t \in Jobs(items) : t.phase \notin Asking /\ ~t.light /\ t.req = Top.req
           \/ \A k : /\ Soles[Top.req] = <<k[1], k[3]>> /\ Top.req.extras = k[2]
                     => Settled(k, Mirror', ElementsOf(buildOrder)', seen'),
         \A k \in seen' \ seen : k[4] = "wheel" => InWork(k, Jobs(items)),
         \A e \in graph'.edges \ graph.edges : EdgeMarked(e, seen')
  PROVE  HealthNow'
<1>1. PICK marks, g, wheels, order : /\ marks = seen' /\ g = graph' /\ wheels = Mirror'
                                     /\ order = ElementsOf(buildOrder)'
  OBVIOUS
<1>2. PICK faulty \in BOOLEAN : faulty = (faults' # {})
  OBVIOUS
<1>3. \A i \in DOMAIN items :
        /\ Sound(items[i], g.nodes, wheels, order, faulty)
        /\ Placed(Job(items[i]), Above(items, i), marks)
  BY <1>1, <1>2, Zenon
<1>4. Health(Push(items), marks, g, wheels, order, faulty)
  BY <1>1, <1>2, <1>3, PushHealth
<1>5. Health(stack', seen', graph', Mirror', ElementsOf(buildOrder'), faults' # {})
  BY <1>1, <1>2, <1>4, Zenon
<1> QED BY <1>5, HealthStays

(* A phase that works on a package: it leaves its own item, below items that    *)
(* ask for requirements of the package.                                      *)
RequestOf(it, r, type) == NewItem(r, type, Append(it.why, LinkOf(it)), PkgOf(it))

AsksFor(it, items, reqs, type) ==
  /\ \A i \in DOMAIN items : \E r \in reqs : items[i] = RequestOf(it, r, type)
  /\ \A r \in reqs : \E i \in DOMAIN items : items[i] = RequestOf(it, r, type)

LEMMA ResolvesAskFor ==
  ASSUME NEW S \in SUBSET Req, NEW order \in ByName(S), NEW type \in ReqType,
         NEW it \in FitItem, it.phase # "resolve"
  PROVE  Resolves(order, type, it) \in Seq(FitItem) /\ AsksFor(it, Resolves(order, type, it), S, type)
<1>1. IsFiniteSet(S)
  BY ReqsAreFinite, FS_Subset
<1>2. order \in Seq(S) /\ ElementsOf(order) = S
  BY <1>1, OrdersAreSequences DEF ByName
<1>3. Resolves(order, type, it) = [i \in DOMAIN order |-> RequestOf(it, order[i], type)]
  BY DEF Resolves, RequestOf
<1>4. \A i \in DOMAIN order : order[i] \in S
  BY <1>2
<1>5. \A r \in S : \E i \in DOMAIN order : order[i] = r
  BY <1>2 DEF ElementsOf
<1>6. DOMAIN Resolves(order, type, it) = DOMAIN order
  BY <1>3
<1>7. \A i \in DOMAIN order : Resolves(order, type, it)[i] = RequestOf(it, order[i], type)
  BY <1>3
<1>8. AsksFor(it, Resolves(order, type, it), S, type)
  BY <1>4, <1>5, <1>6, <1>7 DEF AsksFor
<1> QED BY <1>8, ResolvesFit

IsRequestOf(new, it, r, type) ==
  /\ new.phase = "resolve" /\ new.req = r /\ new.type = type /\ new.parent = PkgOf(it)
  /\ new.future = "pending" /\ new.cached = FALSE
  /\ OnlySdist(new) => OnlySdist(it) /\ type \notin BuildType

LEMMA RequestOfFields ==
  ASSUME NEW it \in FitItem, it.phase # "resolve", NEW r, NEW type \in ReqType \ {"toplevel"}
  PROVE  IsRequestOf(RequestOf(it, r, type), it, r, type)
<1>1. PICK new : new = RequestOf(it, r, type)
  OBVIOUS
<1>2. PICK why : why = Append(it.why, LinkOf(it))
  OBVIOUS
<1>3. /\ new.phase = "resolve" /\ new.req = r /\ new.type = type /\ new.parent = PkgOf(it)
      /\ new.future = "pending" /\ new.cached = FALSE /\ new.why = why
  BY <1>1, <1>2 DEF RequestOf, NewItem
<1>4. ASSUME OnlySdist(new) PROVE OnlySdist(it) /\ type \notin BuildType
  <2>1. SdistOnly /\ type \notin BuildType /\ type \in InstallType
    BY <1>3, <1>4 DEF OnlySdist, BuildContext, ReqType
  <2>2. \A i \in DOMAIN why : why[i].type \notin BuildType
    BY <1>3, <1>4, <2>1 DEF OnlySdist, BuildContext
  <2>3. it.why \in Seq(Link) /\ LinkOf(it) \in Link /\ LinkOf(it).type = it.type
    BY ItemFields DEF LinkOf, Link
  <2>4. /\ Len(it.why) + 1 \in DOMAIN why /\ why[Len(it.why) + 1] = LinkOf(it)
        /\ \A i \in DOMAIN it.why : i \in DOMAIN why /\ why[i] = it.why[i]
    BY <1>2, <2>3
  <2>5. it.type \notin BuildType /\ \A i \in DOMAIN it.why : it.why[i].type \notin BuildType
    BY <2>2, <2>3, <2>4
  <2> QED BY <2>1, <2>5 DEF OnlySdist, BuildContext
<1> QED BY <1>1, <1>3, <1>4 DEF IsRequestOf

EndsWith(items, a, own) ==
  \A i \in DOMAIN items : \/ i \in DOMAIN a /\ items[i] = a[i]
                          \/ items[i] = own /\ Above(items, i) = Jobs(a)

LEMMA AboveTheLast ==
  ASSUME NEW a \in Seq(FitItem), NEW own \in FitItem, NEW items, items = a \o <<own>>
  PROVE  /\ items \in Seq(FitItem) /\ Jobs(items) = Jobs(a) \cup {Job(own)}
         /\ EndsWith(items, a, own)
<1>1. PICK n \in Nat : n = Len(a)
  OBVIOUS
<1>2. /\ items \in Seq(FitItem) /\ DOMAIN items = 1..(n + 1) /\ DOMAIN a = 1..n
      /\ \A i \in 1..n : items[i] = a[i]
      /\ items[n + 1] = own
  BY <1>1
<1>3. Above(items, n + 1) = Jobs(a)
  <2>1. (n + 1) - 1 = n
    OBVIOUS
  <2> QED BY <1>2, <2>1 DEF Above, Jobs
<1>4. \A i \in 1..(n + 1) : i \in 1..n \/ i = n + 1
  OBVIOUS
<1>5. Jobs(items) = Jobs(a) \cup {Job(own)}
  <2>1. n + 1 \in 1..(n + 1) /\ 1..n \subseteq 1..(n + 1)
    OBVIOUS
  <2>2. Jobs(items) \subseteq Jobs(a) \cup {Job(own)}
    BY <1>2, <1>4 DEF Jobs
  <2>3. Jobs(a) \subseteq Jobs(items)
    BY <1>2, <2>1 DEF Jobs
  <2>4. Job(own) \in Jobs(items)
    BY <1>2, <2>1 DEF Jobs
  <2> QED BY <2>2, <2>3, <2>4
<1> QED BY <1>2, <1>3, <1>4, <1>5 DEF EndsWith

LEMMA TopIsSound ==
  ASSUME TypeInv, HealthNow, stack # <<>>
  PROVE  /\ Top \in FitItem /\ Top.req \in Known
         /\ Sound(Top, graph.nodes, Mirror, ElementsOf(buildOrder), faults # {})
         /\ \A r \in WaitsFor(Job(Top)) : Answered(r, seen)
<1>1. 1 \in DOMAIN stack /\ stack[1] = Top /\ Top \in FitItem
  BY DEF TypeInv, LoopTypeOK, Top
<1>2. /\ Sound(Top, graph.nodes, Mirror, ElementsOf(buildOrder), faults # {})
      /\ Placed(Job(Top), Above(stack, 1), seen)
  BY <1>1 DEF HealthNow, Health
<1>3. Above(stack, 1) = {}
  <2>1. 1..(1 - 1) = {}
    OBVIOUS
  <2> QED BY <2>1, Zenon DEF Above
<1> QED BY <1>1, <1>2, <1>3 DEF Placed, Sound

LEMMA WorkStep ==
  ASSUME TypeInv, Buildable, HealthNow, UNCHANGED u, stack # <<>>, Top.phase \notin Asking,
         NEW p, p = PkgOf(Top),
         NEW a \in Seq(FitItem), NEW own \in FitItem,
         own.req = Top.req, own.type = Top.type, own.why = Top.why, own.phase \notin Asking,
         \A i \in DOMAIN a : \E r \in Requirements(p) : \E type \in ReqType \ {"toplevel"} :
           a[i] = RequestOf(Top, r, type) /\ (own.phase \in Waiting => r \in BuildRequires(p)),
         \A r \in WaitsFor(Job(own)) : Answered(r, seen) \/ \E t \in Jobs(a) : Asks(t, r),
         stack' = Push(a \o <<own>>), seen' = seen, graph.nodes \subseteq graph'.nodes,
         Mirror \subseteq Mirror', ElementsOf(buildOrder) \subseteq ElementsOf(buildOrder)',
         faults \subseteq faults',
         Sound(own, graph'.nodes, Mirror', ElementsOf(buildOrder)', faults' # {}),
         \A e \in graph'.edges \ graph.edges : EdgeMarked(e, seen),
         LeadsTo(Top, own), Mirror' \subseteq Mirror \cup {p}
  PROVE  HealthNow' /\ OnlyOwn
<1>1. /\ Top \in FitItem /\ Top.req \in Known /\ Top.phase # "resolve"
      /\ p = Soles[Top.req] /\ p \in Pkg /\ p \in graph.nodes
  <2>1. Top.phase # "resolve"
    BY DEF Asking
  <2> QED BY <2>1, TopIsSound, SoleCandidate DEF Sound
<1>2. PICK items : items = a \o <<own>>
  OBVIOUS
<1>3. /\ items \in Seq(FitItem) /\ Jobs(items) = Jobs(a) \cup {Job(own)}
      /\ EndsWith(items, a, own)
  BY <1>2, AboveTheLast
<1>4. OnlySdist(own) = OnlySdist(Top)
  BY DEF OnlySdist, BuildContext
<1>5. ASSUME NEW i \in DOMAIN a
      PROVE  /\ Sound(a[i], graph'.nodes, Mirror', ElementsOf(buildOrder)', faults' # {})
             /\ a[i].phase = "resolve" /\ Job(a[i]).req \in Requirements(p)
             /\ own.phase \in Waiting => Job(a[i]).req \in BuildRequires(p)
  <2>1. PICK r \in Requirements(p), type \in ReqType \ {"toplevel"} :
          a[i] = RequestOf(Top, r, type) /\ (own.phase \in Waiting => r \in BuildRequires(p))
    OBVIOUS
  <2>2. PICK new : new = a[i]
    OBVIOUS
  <2>3. /\ new.phase = "resolve" /\ new.req = r /\ new.type = type /\ new.parent = p
        /\ new.future = "pending" /\ new.cached = FALSE
    <3>1. IsRequestOf(new, Top, r, type)
      BY <1>1, <2>1, <2>2, RequestOfFields
    <3> QED BY <1>1, <3>1 DEF IsRequestOf
  <2>4. r \in Known /\ "resolve" \in Asking /\ "resolve" \notin Waiting /\ "resolve" \notin Built
    BY <1>1, KnownRequirements DEF Asking, Waiting, Built
  <2>5. Sound(new, graph'.nodes, Mirror', ElementsOf(buildOrder)', faults' # {})
    BY <1>1, <2>3, <2>4 DEF Sound
  <2> QED BY <2>1, <2>2, <2>3, <2>5, JobFields
<1>6. \A t \in Jobs(a) : t.req \in Requirements(p) /\ (own.phase \in Waiting => t.req \in BuildRequires(p))
  BY <1>5 DEF Jobs
<1>7. Placed(Job(own), Jobs(a), seen')
  <2>1. ASSUME NEW t \in Jobs(a) PROVE Soles[t.req] \in Under(Job(own))
    <3>1. CASE own.phase \in Waiting
      BY <1>1, <1>6, <3>1, NeedsFollow, JobFields DEF Under
    <3>2. CASE own.phase \notin Waiting
      BY <1>1, <1>6, <3>2, NeedsFollow, JobFields DEF Under
    <3> QED BY <3>1, <3>2
  <2> QED BY <2>1 DEF Placed
<1>8. \A i \in DOMAIN items :
        /\ Sound(items[i], graph'.nodes, Mirror', ElementsOf(buildOrder)', faults' # {})
        /\ Placed(Job(items[i]), Above(items, i), seen')
  <2>1. ASSUME NEW i \in DOMAIN a PROVE Placed(Job(a[i]), Above(items, i), seen')
    BY <1>5, JobFields DEF Placed, WaitsFor
  <2> QED BY <1>3, <1>5, <1>7, <2>1 DEF EndsWith
<1>9. \A t \in Jobs(items) : t.req = Top.req \/ t.req \in Requirements(Soles[Top.req])
  BY <1>1, <1>3, <1>6, JobFields
<1>10. ~OnlySdist(Top) => \E t \in Jobs(items) : t.phase \notin Asking /\ ~t.light /\ t.req = Top.req
  BY <1>3, <1>4, JobFields
<1>11. HealthNow'
  BY <1>2, <1>3, <1>8, <1>9, <1>10, HealthStep
<1>12. \A i \in DOMAIN items : LeadsTo(Top, items[i])
  <2>1. ASSUME NEW it, it.phase = "resolve" PROVE LeadsTo(Top, it)
    BY <2>1 DEF LeadsTo, Fetched, Waiting
  <2> QED BY <1>3, <1>5, <2>1 DEF EndsWith
<1> QED BY <1>1, <1>2, <1>3, <1>11, <1>12 DEF OnlyOwn

(* When a package is on top of the stack, nothing that it needs to be built is  *)
(* in work: below are only packages that lead to it, which it does not need.  *)
LEMMA NothingNeededIsInWork ==
  ASSUME TypeInv, Buildable, HealthNow, stack # <<>>, Top.phase \notin Asking,
         NEW q \in NeedsOf[PkgOf(Top)], NEW x \in BOOLEAN, <<q[1], x, q[2], "wheel">> \in seen
  PROVE  q \in Mirror /\ q \in ElementsOf(buildOrder) /\ \A r \in Installs(q, x) : Answered(r, seen)
<1>1. PICK p : p = PkgOf(Top)
  OBVIOUS
<1>2. p = Soles[Top.req] /\ p \in Pkg /\ Top.req \in Known
  BY <1>1, TopIsSound, SoleCandidate DEF Sound, Asking
<1>3. q \in NeedsOf[p] /\ q \in Pkg /\ q # p
  BY <1>1, <1>2, NeedsFollow
<1>4. PICK k : k = <<q[1], x, q[2], "wheel">>
  OBVIOUS
<1>5. <<k[1], k[3]>> = q /\ k[2] = x /\ k[4] = "wheel" /\ k \in seen
  BY <1>3, <1>4 DEF Pkg
<1>6. ~InWork(k, Jobs(stack))
  <2> SUFFICES ASSUME InWork(k, Jobs(stack)) PROVE FALSE
    OBVIOUS
  <2>1. PICK i \in DOMAIN stack : stack[i].phase \notin Asking /\ Soles[stack[i].req] = q
    BY <1>5, JobFields DEF InWork, Jobs
  <2>2. i # 1
    BY <1>2, <1>3, <2>1 DEF Top, TypeInv, LoopTypeOK
  <2>3. 1 \in 1..(i - 1) /\ stack[1] = Top
    BY <2>1, <2>2 DEF Top, TypeInv, LoopTypeOK
  <2>4. Job(Top) \in Above(stack, i)
    BY <2>3 DEF Above
  <2>5. Placed(Job(stack[i]), Above(stack, i), seen)
    BY <2>1 DEF HealthNow, Health
  <2>6. p \in Under(Job(stack[i]))
    BY <1>2, <2>1, <2>4, <2>5, JobFields DEF Placed, Asking
  <2>7. p \in ReachOf[q]
    BY <1>3, <2>1, <2>6, NeedsFollow, JobFields DEF Under
  <2> QED BY <1>2, <1>3, <2>7, NeedsFollow
<1>7. Settled(k, Mirror, ElementsOf(buildOrder), seen)
  BY <1>5, <1>6 DEF HealthNow, Health, MarksSettle
<1> QED BY <1>5, <1>7 DEF Settled

LEMMA NeededIsInstalled ==
  ASSUME TypeInv, Buildable, HealthNow, stack # <<>>, Top.phase \in Waiting,
         NEW asked \in SUBSET BuildRequires(PkgOf(Top)),
         \A r \in asked : Answered(r, seen), InstallsFrom(asked, Everything)
  PROVE  CanInstall(asked)
<1>1. PICK p \in Pkg : p = PkgOf(Top)
  BY TopIsSound, SoleCandidate DEF Sound, Waiting
<1>2. \A q \in NeedsOf[p] : \A x \in BOOLEAN : <<q[1], x, q[2], "wheel">> \in seen =>
        q \in Mirror /\ \A r \in Installs(q, x) : Answered(r, seen)
  BY <1>1, NothingNeededIsInWork DEF Waiting, Asking
<1>3. InstallsFrom(asked, Mirror)
  BY <1>1, <1>2, EnvironmentFrom
<1> QED BY <1>3 DEF CanInstall

-----------------------------------------------------------------------------
(* One lemma for each phase.                                                 *)
LEMMA RunCompleteHealth ==
  ASSUME TypeInv, Buildable, Quiet, HealthNow, RunComplete
  PROVE  Healthy' /\ OnlyOwn
<1>1. /\ pc = "loop" /\ stack # <<>> /\ Top.phase = "complete" /\ stack' = Push(<<>>)
      /\ UNCHANGED <<u, pc, todo, records, dirs, exitCode, faults>>
  BY Zenon DEF RunComplete, Running
<1>2. UNCHANGED <<u, pc, todo, seen, graph, buildOrder, failures, failedVersions,
                  wheelsBuild, downloads, prebuiltDir, raw, faults>>
  BY <1>1 DEF records, dirs
<1>3. Mirror' = Mirror /\ ElementsOf(buildOrder)' = ElementsOf(buildOrder)
  BY <1>2 DEF Mirror, ElementsOf
<1>4. PICK items : items = <<>>
  OBVIOUS
<1>5. items \in Seq(FitItem) /\ DOMAIN items = {} /\ Jobs(items) = {} /\ stack' = Push(items)
  BY <1>1, <1>4, JobsOfShort
<1>6. /\ Top.req \in Known /\ Top.phase \notin Asking /\ Soles[Top.req] = PkgOf(Top)
      /\ ~OnlySdist(Top) => Soles[Top.req] \in Mirror
      /\ Soles[Top.req] \in ElementsOf(buildOrder)
  BY <1>1, TopIsSound DEF Sound, Asking, Built
<1>7. ASSUME ~OnlySdist(Top), NEW k, Soles[Top.req] = <<k[1], k[3]>>, Top.req.extras = k[2]
      PROVE  Settled(k, Mirror', ElementsOf(buildOrder)', seen')
  <2>1. \A r \in Installs(Soles[Top.req], Top.req.extras) : Answered(r, seen)
    BY <1>1, <1>7, TopIsSound, JobFields DEF WaitsFor
  <2> QED BY <1>2, <1>3, <1>6, <1>7, <2>1 DEF Settled
<1>8. HealthNow'
  BY <1>1, <1>2, <1>3, <1>5, <1>6, <1>7, HealthStep
<1>9. Quiet'
  BY <1>2 DEF Quiet, ElementsOf
<1>10. OnlyOwn
  BY <1>3, <1>5 DEF OnlyOwn
<1> QED BY <1>1, <1>2, <1>8, <1>9, <1>10 DEF Healthy

LEMMA RunStartHealth ==
  ASSUME TypeInv, Buildable, Quiet, HealthNow, RunStart
  PROVE  Healthy' /\ OnlyOwn
<1>1. PICK p \in Pkg : p = PkgOf(Top)
  BY TopFits DEF RunStart, Running
<1>2. pc = "loop" /\ stack # <<>> /\ Top.phase = "start" /\ UNCHANGED faults
  BY Zenon DEF RunStart, Running
<1>3. /\ Top \in FitItem /\ Top.req \in Known /\ Soles[Top.req] = p
      /\ Sound(Top, graph.nodes, Mirror, ElementsOf(buildOrder), faults # {})
      /\ Top.type # "toplevel" => Top.parent \in graph.nodes
      /\ Top.type = "toplevel" => p \in graph.nodes
      /\ SeenKey(Top, "wheel") = <<Top.req.name, Top.req.extras, Top.ver, "wheel">>
      /\ p = <<Top.req.name, Top.ver>> /\ Top.req.extras \in BOOLEAN
  BY <1>1, <1>2, TopIsSound DEF Sound, SeenKey, PkgOf, FitItem, Item, Req
<1>4. PICK g : g = AddToGraph(Top)
  OBVIOUS
<1>5. PICK edge : edge = [parent |-> Top.parent, type |-> Top.type, child |-> p]
  OBVIOUS
<1>6. /\ graph.nodes \subseteq g.nodes /\ p \in g.nodes
      /\ g.edges \ graph.edges \subseteq {edge}
      /\ Top.type # "toplevel" => ParentExists(g, Top.parent)
  <2>1. CASE Top.type = "toplevel"
    BY <1>3, <1>4, <2>1 DEF AddToGraph
  <2>2. CASE Top.type # "toplevel"
    <3>1. g = AddDependency(graph, Top.parent, Top.type, p)
      BY <1>1, <1>4, <2>2 DEF AddToGraph
    <3>2. PICK parent \in Pkg \cup {ROOT}, type \in ReqType : parent = Top.parent /\ type = Top.type
      BY <1>3, ItemFields
    <3>3. graph \in Graph /\ WellFormed(graph)
      BY GraphIsThere
    <3>4. /\ g.nodes = graph.nodes \cup {p}
          /\ g.edges = graph.edges \cup
               IF parent \in g.nodes THEN {[parent |-> parent, type |-> type, child |-> p]} ELSE {}
      BY <3>1, <3>2, <3>3, AddDependencyFits
    <3> QED BY <1>3, <1>5, <2>2, <3>2, <3>4 DEF ParentExists
  <2> QED BY <2>1, <2>2
<1>7. /\ graph' = g
      /\ IF HasBeenSeen(Top)
           THEN stack' = Push(<<>>) /\ UNCHANGED seen
           ELSE /\ seen' = seen \cup SeenMarks(Top)
                /\ stack' = Push(<<[Top EXCEPT !.phase = "prepare-source", !.future = "pending",
                                              !.sdistOnly = OnlySdist(Top)]>>)
      /\ UNCHANGED <<u, pc, todo, buildOrder, failures, failedVersions, dirs, exitCode>>
  BY <1>4, <1>6 DEF RunStart
<1>8. UNCHANGED <<u, pc, todo, buildOrder, failures, failedVersions,
                  wheelsBuild, downloads, prebuiltDir, raw, faults>>
  BY <1>2, <1>7 DEF dirs
<1>9. Mirror' = Mirror /\ ElementsOf(buildOrder)' = ElementsOf(buildOrder)
  BY <1>8 DEF Mirror, ElementsOf
<1>10. Quiet'
  BY <1>8 DEF Quiet, ElementsOf
<1>11. seen \subseteq seen' /\ (~OnlySdist(Top) => SeenKey(Top, "wheel") \in seen')
  BY <1>7 DEF HasBeenSeen, SeenMarks
<1>12. ~OnlySdist(Top) => Answered(Top.req, seen')
  BY <1>3, <1>11 DEF Answered
<1>13. \A e \in graph'.edges \ graph.edges : EdgeMarked(e, seen')
  <2>1. Top.type \in BuildType => ~OnlySdist(Top)
    BY DEF OnlySdist, BuildContext
  <2>2. p \in Everything
    BY <1>3, SoleCandidate
  <2>3. PICK e : e = edge
    OBVIOUS
  <2>4. e.type = Top.type /\ e.child = p
    BY <1>5, <2>3
  <2>5. p[1] = Top.req.name /\ p[2] = Top.ver
    BY <1>3
  <2>6. ~OnlySdist(Top) => <<p[1], Top.req.extras, p[2], "wheel">> \in seen'
    BY <1>3, <1>11, <2>5
  <2>7. EdgeMarked(e, seen')
    BY <1>3, <2>1, <2>2, <2>4, <2>6 DEF EdgeMarked
  <2> QED BY <1>6, <1>7, <2>3, <2>7
<1>14. CASE HasBeenSeen(Top)
  <2>1. PICK items : items = <<>>
    OBVIOUS
  <2>2. items \in Seq(FitItem) /\ DOMAIN items = {} /\ Jobs(items) = {} /\ stack' = Push(items)
    BY <1>7, <1>14, <2>1, JobsOfShort
  <2>3. seen' = seen
    BY <1>7, <1>14
  <2>4. HealthNow'
    BY <1>2, <1>6, <1>7, <1>8, <1>9, <1>11, <1>12, <1>13, <2>2, <2>3, HealthStep DEF Asking
  <2>5. OnlyOwn
    BY <1>9, <2>2 DEF OnlyOwn
  <2> QED BY <1>2, <1>8, <1>10, <2>4, <2>5 DEF Healthy
<1>15. CASE ~HasBeenSeen(Top)
  <2>1. PICK new : new = [Top EXCEPT !.phase = "prepare-source", !.future = "pending",
                                     !.sdistOnly = OnlySdist(Top)]
    OBVIOUS
  <2>2. stack' = Push(<<new>>) /\ seen' = seen \cup SeenMarks(Top)
    BY <1>7, <1>15, <2>1
  <2>3. /\ new \in FitItem
        /\ new.phase = "prepare-source" /\ new.req = Top.req /\ new.type = Top.type
        /\ new.parent = Top.parent /\ new.ver = Top.ver
    BY <1>2, <2>1, StartedFits, Zenon
  <2>4. new.why = Top.why /\ new.future = "pending" /\ new.cached = Top.cached /\ new.sdistOnly = OnlySdist(Top)
    <3>1. PICK it \in FitItem : it = Top
      BY <1>3
    <3>2. PICK only : only = OnlySdist(Top)
      OBVIOUS
    <3>3. new = [it EXCEPT !.phase = "prepare-source", !.future = "pending", !.sdistOnly = only]
      BY <2>1, <3>1, <3>2
    <3>4. new.why = it.why /\ new.future = "pending" /\ new.cached = it.cached /\ new.sdistOnly = only
      BY ONLY <3>3, it \in FitItem DEF FitItem, Item
    <3> QED BY <3>1, <3>2, <3>4
  <2>5. OnlySdist(new) = OnlySdist(Top)
    BY <2>3, <2>4 DEF OnlySdist, BuildContext
  <2>6. PICK items : items = <<new>>
    OBVIOUS
  <2>7. /\ items \in Seq(FitItem) /\ DOMAIN items = {1} /\ items[1] = new
        /\ Jobs(items) = {Job(new)} /\ Above(items, 1) = {}
    BY <2>3, <2>6, JobsOfShort
  <2>8. Sound(new, graph'.nodes, Mirror', ElementsOf(buildOrder)', faults' # {})
    BY <1>1, <1>3, <1>6, <1>7, <1>9, <2>3, <2>4, <2>5 DEF Sound, Asking, Waiting, Built, PkgOf
  <2>9. Placed(Job(new), {}, seen')
    BY <2>3, JobFields DEF Placed, WaitsFor
  <2>10. \A k \in seen' \ seen : k[4] = "wheel" => InWork(k, Jobs(items))
    <3> SUFFICES ASSUME NEW k \in seen' \ seen, k[4] = "wheel" PROVE InWork(k, Jobs(items))
      OBVIOUS
    <3>1. k = SeenKey(Top, "wheel") /\ ~OnlySdist(Top)
      BY <2>2 DEF SeenMarks, SeenKey
    <3>2. Soles[Top.req] = <<k[1], k[3]>> /\ k[2] = Top.req.extras
      BY <1>3, <3>1
    <3> QED BY <2>3, <2>5, <2>7, <3>1, <3>2, JobFields DEF InWork, Asking
  <2>11. \A i \in DOMAIN items :
           /\ Sound(items[i], graph'.nodes, Mirror', ElementsOf(buildOrder)', faults' # {})
           /\ Placed(Job(items[i]), Above(items, i), seen')
    BY <2>7, <2>8, <2>9
  <2>12. stack' = Push(items) /\ \A t \in Jobs(items) : t.req = Top.req
    BY <2>2, <2>3, <2>6, <2>7, JobFields
  <2>13. HealthNow'
    BY <1>2, <1>6, <1>7, <1>8, <1>9, <1>11, <1>12, <1>13, <2>7, <2>10, <2>11, <2>12, HealthStep DEF Asking
  <2>14. OnlyOwn
    <3>1. LeadsTo(Top, new)
      BY <2>3, <2>4 DEF LeadsTo, Fetched, Waiting
    <3> QED BY <1>9, <2>7, <2>12, <3>1 DEF OnlyOwn
  <2> QED BY <1>2, <1>8, <1>10, <2>13, <2>14 DEF Healthy
<1> QED BY <1>14, <1>15

LEMMA CalmCandidates ==
  ASSUME TypeInv, Buildable, Quiet, NEW r \in Known
  PROVE  /\ Usable(r) = {Soles[r][2]} /\ Soles[r][2] \in Version
         /\ \A missed : Chosen(r, missed) = {Soles[r][2]}
<1>1. PICK v \in Version : v = Soles[r][2] /\ Candidates(r) = {v}
  BY SoleCandidate
<1>2. Usable(r) = {v}
  BY <1>1 DEF Usable, Quiet
<1>3. Highest({v}) = v
  <2>1. {v} \subseteq Version /\ {v} # {}
    OBVIOUS
  <2> QED BY <2>1, HighestVersion
<1>4. \A missed : Uncached(r, missed) \subseteq {v}
  BY <1>2 DEF Uncached
<1>5. \A missed : Chosen(r, missed) = {v}
  BY <1>2, <1>3, <1>4 DEF Chosen
<1> QED BY <1>1, <1>2, <1>5

LEMMA MirrorGrows ==
  ASSUME NEW saved, NEW savedPrebuilt, UpdateMirror(saved, savedPrebuilt)
  PROVE  Mirror \subseteq Mirror' /\ saved \subseteq Mirror' /\ savedPrebuilt \subseteq Mirror'
  BY DEF UpdateMirror, Mirror

LEMMA RunResolveHealth ==
  ASSUME TypeInv, Buildable, Quiet, HealthNow, CalmBy(faults'), RunResolve
  PROVE  Healthy' /\ OnlyOwn
<1>1. PICK r : r = Top.req
  OBVIOUS
<1>2. pc = "loop" /\ stack # <<>> /\ Top.phase = "resolve"
  BY Zenon DEF RunResolve, Running
<1>3. /\ Top \in FitItem /\ r \in Known /\ r \in Req
      /\ Sound(Top, graph.nodes, Mirror, ElementsOf(buildOrder), faults # {})
  BY <1>1, <1>2, TopIsSound, SoleCandidate
<1>4. PICK v \in Version : v = Soles[r][2] /\ Soles[r] = <<r.name, v>>
  BY <1>3, SoleCandidate
<1>5. Usable(r) = {v} /\ \A missed : Chosen(r, missed) = {v}
  BY <1>3, <1>4, CalmCandidates
<1>6. UNCHANGED <<u, todo, seen, graph, buildOrder, raw, exitCode>>
  BY Zenon DEF RunResolve
<1>7. CASE Top.future = "failed"
  <2>1. faults # {}
    BY <1>3, <1>7 DEF Sound
  <2>2. ResolveFailed(r) /\ UNCHANGED faults
    BY <1>1, <1>7 DEF RunResolve
  <2> QED BY <2>1, <2>2 DEF ResolveFailed, CalmBy, Healthy, OnlyOwn
<1>8. CASE Top.future # "failed"
  <2>1. PICK missed \in SUBSET Remote(r) :
          /\ IF missed = {} THEN UNCHANGED faults ELSE Fault(Top)
          /\ \E versions \in ByVersion(Chosen(r, missed)) :
               stack' = Push(Resolved(Top, versions))
          /\ IF missed # Remote(r)
               THEN UpdateMirror({r.name} \X (Remote(r) \ missed), {})
               ELSE UNCHANGED <<wheelsBuild, downloads, prebuiltDir>>
          /\ UNCHANGED <<pc, failures, failedVersions>>
    BY <1>1, <1>5, <1>8 DEF RunResolve
  <2>2. UNCHANGED faults
    <3>1. missed # {} => MultipleVersions
      BY DEF Remote
    <3> QED BY <2>1, <3>1, FaultHappens DEF CalmBy
  <2>3. /\ Mirror \subseteq Mirror' /\ wheelsBuild' = {} /\ prebuiltDir' = prebuiltDir
        /\ Mirror' \subseteq Mirror \cup {Soles[r]}
    <3>1. CASE missed # Remote(r)
      <4>1. UpdateMirror({r.name} \X (Remote(r) \ missed), {})
        BY <2>1, <3>1
      <4>2. {r.name} \X (Remote(r) \ missed) \subseteq {Soles[r]}
        BY <1>4, <1>5 DEF Remote
      <4> QED BY <4>1, <4>2, MirrorGrows DEF UpdateMirror, Mirror, Quiet
    <3>2. CASE missed = Remote(r)
      BY <2>1, <3>2 DEF Mirror, Quiet
    <3> QED BY <3>1, <3>2
  <2>4. Quiet'
    BY <1>6, <2>1, <2>3 DEF Quiet, ElementsOf
  <2>5. PICK versions \in ByVersion({v}) : stack' = Push(Resolved(Top, versions))
    BY <1>5, <2>1
  <2>6. PICK items : items = Resolved(Top, versions)
    OBVIOUS
  <2>7. /\ items \in Seq(FitItem) /\ ElementsOf(versions) = {v}
        /\ \A i \in DOMAIN items : items[i].phase = "start"
    <3>1. {v} \in SUBSET Version
      OBVIOUS
    <3> QED BY <1>3, <2>6, <3>1, ResolvedFits
  <2>8. /\ DOMAIN items # {}
        /\ \A i \in DOMAIN items : items[i] = [Top EXCEPT !.phase = "start", !.ver = v, !.future = "none"]
    <3>1. \A i \in DOMAIN versions : versions[i] = v
      BY <2>7 DEF ElementsOf
    <3>2. DOMAIN versions # {}
      BY <2>7 DEF ElementsOf
    <3> QED BY <2>6, <3>1, <3>2 DEF Resolved
  <2>9. PICK new : new = [Top EXCEPT !.phase = "start", !.ver = v, !.future = "none"]
    OBVIOUS
  <2>10. /\ new.phase = "start" /\ new.req = r /\ new.type = Top.type /\ new.why = Top.why
         /\ new.parent = Top.parent /\ new.ver = v /\ new.future = "none" /\ new.cached = Top.cached
    <3>1. PICK it \in FitItem : it = Top
      BY <1>3
    <3>2. new = [it EXCEPT !.phase = "start", !.ver = v, !.future = "none"]
      BY <2>9, <3>1
    <3>3. /\ new.phase = "start" /\ new.req = it.req /\ new.type = it.type /\ new.why = it.why
          /\ new.parent = it.parent /\ new.ver = v /\ new.future = "none" /\ new.cached = it.cached
      BY ONLY <3>2, it \in FitItem DEF FitItem, Item
    <3> QED BY <1>1, <3>1, <3>3
  <2>11. OnlySdist(new) = OnlySdist(Top) /\ PkgOf(new) = Soles[r]
    BY <1>4, <2>10 DEF OnlySdist, BuildContext, PkgOf
  <2>12. Mirror \subseteq Mirror' /\ ElementsOf(buildOrder)' = ElementsOf(buildOrder) /\ graph' = graph
    BY <1>6, <2>3 DEF ElementsOf
  <2>13. Sound(new, graph'.nodes, Mirror', ElementsOf(buildOrder)', faults' # {})
    BY <1>1, <1>3, <2>10, <2>11, <2>12 DEF Sound, Asking, Waiting, Built
  <2>14. \A t \in Jobs(items) : t = Job(new)
    BY <2>8, <2>9 DEF Jobs
  <2>15. Job(new) \in Jobs(items)
    BY <2>8, <2>9 DEF Jobs
  <2>16. \A i \in DOMAIN items :
           /\ Sound(items[i], graph'.nodes, Mirror', ElementsOf(buildOrder)', faults' # {})
           /\ Placed(Job(items[i]), Above(items, i), seen')
    <3> SUFFICES ASSUME NEW i \in DOMAIN items
                 PROVE  /\ Sound(new, graph'.nodes, Mirror', ElementsOf(buildOrder)', faults' # {})
                        /\ Placed(Job(new), Above(items, i), seen')
      BY <2>8, <2>9
    <3>1. ASSUME NEW t \in Above(items, i) PROVE t = Job(new)
      <4>1. PICK j \in 1..(i - 1) : t = Job(items[j])
        BY <3>1 DEF Above
      <4>2. j \in DOMAIN items
        BY <2>7, <4>1
      <4> QED BY <2>8, <2>9, <4>1, <4>2
    <3>2. Soles[r] \in Under(Job(new))
      BY <1>3, <2>10, JobFields, NeedsFollow, SoleCandidate DEF Under, Waiting
    <3>3. WaitsFor(Job(new)) = {}
      BY <2>10, JobFields DEF WaitsFor
    <3>4. Placed(Job(new), Above(items, i), seen')
      BY <2>10, <3>1, <3>2, <3>3, JobFields DEF Placed
    <3> QED BY <2>13, <3>4
  <2>17. /\ \A t \in Jobs(items) : t.req = Top.req
         /\ ~OnlySdist(Top) => \E t \in Jobs(items) : Asks(t, Top.req)
    BY <1>1, <2>10, <2>11, <2>14, <2>15, JobFields DEF Asks, Asking
  <2>18. stack' = Push(items)
    BY <2>5, <2>6
  <2>19. HealthNow'
    BY <1>2, <1>6, <2>2, <2>7, <2>12, <2>16, <2>17, <2>18, HealthStep DEF Asking
  <2>20. OnlyOwn
    <3>1. \A i \in DOMAIN items : LeadsTo(Top, items[i])
      BY <2>7 DEF LeadsTo, Fetched, Waiting
    <3> QED BY <1>1, <2>3, <2>7, <2>18, <3>1 DEF OnlyOwn
  <2> QED BY <1>2, <2>1, <2>4, <2>19, <2>20 DEF Healthy
<1> QED BY <1>7, <1>8

LEMMA RequestsFor ==
  ASSUME TypeInv, Buildable, HealthNow, stack # <<>>, Top.phase \notin Asking,
         NEW S \in SUBSET Req, NEW type \in ReqType \ {"toplevel"}, NEW order \in ByName(S)
  PROVE  /\ Resolves(order, type, Top) \in Seq(FitItem)
         /\ \A i \in DOMAIN Resolves(order, type, Top) : \E r \in S :
              Resolves(order, type, Top)[i] = RequestOf(Top, r, type)
         /\ type \in BuildType \/ ~OnlySdist(Top) =>
              \A r \in S : \E t \in Jobs(Resolves(order, type, Top)) : Asks(t, r)
<1>1. Top \in FitItem /\ Top.phase # "resolve"
  BY TopIsSound DEF Asking
<1>2. PICK items : items = Resolves(order, type, Top)
  OBVIOUS
<1>3. items \in Seq(FitItem) /\ AsksFor(Top, items, S, type)
  BY <1>1, <1>2, ResolvesAskFor
<1>4. ASSUME type \in BuildType \/ ~OnlySdist(Top), NEW r \in S
      PROVE  \E t \in Jobs(items) : Asks(t, r)
  <2>1. PICK i \in DOMAIN items : items[i] = RequestOf(Top, r, type)
    BY <1>3 DEF AsksFor
  <2>2. IsRequestOf(items[i], Top, r, type)
    BY <1>1, <2>1, RequestOfFields
  <2>3. Asks(Job(items[i]), r)
    BY <1>4, <2>2, JobFields DEF Asks, Asking, IsRequestOf
  <2> QED BY <2>3 DEF Jobs
<1> QED BY <1>2, <1>3, <1>4 DEF AsksFor

LEMMA RunPrepareSourceHealth ==
  ASSUME TypeInv, Buildable, Quiet, HealthNow, CalmBy(faults'), RunPrepareSource
  PROVE  Healthy' /\ OnlyOwn
<1>1. pc = "loop" /\ stack # <<>> /\ Top.phase = "prepare-source"
  BY Zenon DEF RunPrepareSource, Running
<1>2. PICK p : p = PkgOf(Top)
  OBVIOUS
<1>3. /\ Top \in FitItem /\ Top.req \in Known /\ Soles[Top.req] = p /\ p \in Pkg /\ p[1] = Top.req.name
      /\ Sound(Top, graph.nodes, Mirror, ElementsOf(buildOrder), faults # {})
      /\ Top.phase \notin Asking
  BY <1>1, <1>2, TopIsSound, SoleCandidate DEF Sound, Asking, PkgOf
<1>4. CASE \/ Top.future = "failed" /\ PhaseFailed(Top, graph, {}) /\ UNCHANGED faults
           \/ Fault(Top) /\ PhaseFailed(Top, graph, {})
  <2>1. faults' # {}
    BY <1>3, <1>4, FaultHappens DEF Sound
  <2> QED BY <1>4, <2>1, FaultAborts
<1> DEFINE On(phase, result, system) ==
             [Top EXCEPT !.phase = phase, !.future = "none", !.result = result, !.system = system]
<1>5. ASSUME NEW phase, NEW result, NEW system \in SUBSET Req, NEW own, own = On(phase, result, system),
             \/ phase = "prepare-build" /\ result = Top.result
             \/ phase = "process-install-deps" /\ result = Top.ver /\ system = Top.system
      PROVE  /\ own \in FitItem /\ own.phase = phase /\ own.req = Top.req /\ own.type = Top.type
             /\ own.why = Top.why /\ own.parent = Top.parent /\ own.ver = Top.ver /\ own.future = "none"
             /\ own.cached = Top.cached /\ own.sdistOnly = Top.sdistOnly /\ own.result = result
             /\ own.system = system /\ PkgOf(own) = p /\ OnlySdist(own) = OnlySdist(Top)
  <2>1. PICK it \in FitItem : it = Top
    BY <1>3
  <2>2. own = [it EXCEPT !.phase = phase, !.future = "none", !.result = result, !.system = system]
    BY <1>5, <2>1
  <2>3. /\ own.phase = phase /\ own.req = it.req /\ own.type = it.type
        /\ own.why = it.why /\ own.parent = it.parent /\ own.ver = it.ver /\ own.future = "none"
        /\ own.cached = it.cached /\ own.sdistOnly = it.sdistOnly /\ own.result = result
        /\ own.system = system
    BY ONLY <2>2, it \in FitItem DEF FitItem, Item
  <2>4. it.phase = "prepare-source" /\ it.ver # NoVersion
    BY <1>1, <2>1 DEF FitItem
  <2>5. phase \in Phase /\ result \in Version \cup {NoVersion}
    BY <1>5, <2>1 DEF Phase, FitItem, Item
  <2>6. own \in Item
    BY ONLY ZenonT(60), <1>5, <2>2, <2>5, it \in FitItem DEF FitItem, Item
  <2>7. phase \in Built => result = it.ver
    BY <1>5, <2>1 DEF Built
  <2>8. own \in FitItem
    BY <2>3, <2>4, <2>6, <2>7 DEF FitItem
  <2> QED BY <1>2, <2>1, <2>3, <2>8 DEF PkgOf, OnlySdist, BuildContext
<1> HIDE DEF On
<1>6. CASE /\ Top.future = "done"
           /\ LET it == [Top EXCEPT !.future = "none"]
              IN IF Top.req.name \in u.prebuilt
                   THEN stack' = Push(<<[it EXCEPT !.phase = "process-install-deps", !.result = Top.ver]>>)
                   ELSE \E order \in ByName(u.system[PkgOf(Top)]) :
                          stack' = Push(Resolves(order, "build-system", Top)
                                         \o <<[it EXCEPT !.phase = "prepare-build",
                                                         !.system = u.system[PkgOf(Top)]]>>)
           /\ UNCHANGED <<u, pc, todo, records, dirs, exitCode, faults>>
  <2>1. UNCHANGED <<u, pc, todo, seen, graph, buildOrder, failures, failedVersions,
                    wheelsBuild, downloads, prebuiltDir, raw, faults>>
    BY <1>6 DEF records, dirs
  <2>2. Mirror' = Mirror /\ ElementsOf(buildOrder)' = ElementsOf(buildOrder) /\ Quiet'
    BY <2>1 DEF Mirror, ElementsOf, Quiet
  <2>3. Top.system \in SUBSET Req /\ u.system[p] \in SUBSET Req /\ u.system[p] \subseteq BuildRequires(p)
    BY <1>3, RequirementTypes DEF FitItem, Item, BuildRequires
  <2>4. \E own \in FitItem, a \in Seq(FitItem) :
          /\ stack' = Push(a \o <<own>>)
          /\ own.req = Top.req /\ own.type = Top.type /\ own.why = Top.why /\ own.phase \notin Asking
          /\ \A i \in DOMAIN a : \E r \in Requirements(p) : \E type \in ReqType \ {"toplevel"} :
               a[i] = RequestOf(Top, r, type) /\ (own.phase \in Waiting => r \in BuildRequires(p))
          /\ \A r \in WaitsFor(Job(own)) : Answered(r, seen) \/ \E t \in Jobs(a) : Asks(t, r)
          /\ Sound(own, graph.nodes, Mirror, ElementsOf(buildOrder), faults # {})
          /\ LeadsTo(Top, own)
    <3>1. CASE Top.req.name \in u.prebuilt
      <4>1. PICK own : own = On("process-install-deps", Top.ver, Top.system)
        OBVIOUS
      <4>2. /\ own \in FitItem /\ own.phase = "process-install-deps" /\ own.req = Top.req /\ own.type = Top.type
            /\ own.why = Top.why /\ own.parent = Top.parent /\ own.ver = Top.ver /\ own.future = "none"
            /\ own.cached = Top.cached /\ own.sdistOnly = Top.sdistOnly /\ own.result = Top.ver
            /\ PkgOf(own) = p /\ OnlySdist(own) = OnlySdist(Top)
        BY <1>5, <2>3, <4>1
      <4>3. own = [[Top EXCEPT !.future = "none"] EXCEPT !.phase = "process-install-deps", !.result = Top.ver]
        <5>1. PICK it \in FitItem : it = Top
          BY <1>3
        <5>2. [it EXCEPT !.phase = "process-install-deps", !.future = "none",
                         !.result = it.ver, !.system = it.system]
                = [[it EXCEPT !.future = "none"] EXCEPT !.phase = "process-install-deps", !.result = it.ver]
          BY ONLY it \in FitItem DEF FitItem, Item
        <5> QED BY <4>1, <5>1, <5>2 DEF On
      <4>4. stack' = Push(<<own>>)
        BY <1>6, <3>1, <4>3
      <4>5. PICK a : a = <<>>
        OBVIOUS
      <4>6. a \in Seq(FitItem) /\ DOMAIN a = {} /\ a \o <<own>> = <<own>>
        BY <4>5
      <4>7. Sound(own, graph.nodes, Mirror, ElementsOf(buildOrder), faults # {})
        BY <1>1, <1>3, <1>6, <3>1, <4>2 DEF Sound, Asking, Waiting, Built
      <4>8. WaitsFor(Job(own)) = {}
        BY <1>3, <3>1, <4>2, JobFields DEF WaitsFor
      <4>9. LeadsTo(Top, own)
        BY <4>2 DEF LeadsTo, Fetched, Waiting
      <4> QED BY <4>2, <4>4, <4>6, <4>7, <4>8, <4>9 DEF Asking
    <3>2. CASE Top.req.name \notin u.prebuilt
      <4>1. PICK own : own = On("prepare-build", Top.result, u.system[p])
        OBVIOUS
      <4>2. /\ own \in FitItem /\ own.phase = "prepare-build" /\ own.req = Top.req /\ own.type = Top.type
            /\ own.why = Top.why /\ own.parent = Top.parent /\ own.ver = Top.ver /\ own.future = "none"
            /\ own.cached = Top.cached /\ own.sdistOnly = Top.sdistOnly /\ own.system = u.system[p]
            /\ PkgOf(own) = p /\ OnlySdist(own) = OnlySdist(Top)
        BY <1>5, <2>3, <4>1
      <4>3. own = [[Top EXCEPT !.future = "none"] EXCEPT !.phase = "prepare-build", !.system = u.system[p]]
        <5>1. PICK it \in FitItem : it = Top
          BY <1>3
        <5>2. PICK system : system = u.system[p]
          OBVIOUS
        <5>3. [it EXCEPT !.phase = "prepare-build", !.future = "none",
                         !.result = it.result, !.system = system]
                = [[it EXCEPT !.future = "none"] EXCEPT !.phase = "prepare-build", !.system = system]
          BY ONLY it \in FitItem DEF FitItem, Item
        <5> QED BY <4>1, <5>1, <5>2, <5>3 DEF On
      <4>4. PICK order \in ByName(u.system[p]) :
              stack' = Push(Resolves(order, "build-system", Top) \o <<own>>)
        BY <1>2, <1>6, <3>2, <4>3
      <4>5. PICK a : a = Resolves(order, "build-system", Top)
        OBVIOUS
      <4>6. "build-system" \in ReqType \ {"toplevel"} /\ "build-system" \in BuildType
        BY DEF ReqType, BuildType
      <4>7. /\ a \in Seq(FitItem)
            /\ \A i \in DOMAIN a : \E r \in u.system[p] : a[i] = RequestOf(Top, r, "build-system")
            /\ \A r \in u.system[p] : \E t \in Jobs(a) : Asks(t, r)
        BY <1>1, <1>3, <2>3, <4>5, <4>6, RequestsFor
      <4>8. \A i \in DOMAIN a : \E r \in Requirements(p) : \E type \in ReqType \ {"toplevel"} :
               a[i] = RequestOf(Top, r, type) /\ (own.phase \in Waiting => r \in BuildRequires(p))
        BY <1>3, <2>3, <4>6, <4>7, KnownRequirements
      <4>9. WaitsFor(Job(own)) = u.system[p]
        BY <1>3, <4>2, JobFields DEF WaitsFor
      <4>10. Sound(own, graph.nodes, Mirror, ElementsOf(buildOrder), faults # {})
        BY <1>1, <1>3, <1>6, <3>2, <4>2 DEF Sound, Asking, Waiting, Built
      <4>11. /\ stack' = Push(a \o <<own>>) /\ own.phase \notin Asking
             /\ \A r \in WaitsFor(Job(own)) : Answered(r, seen) \/ \E t \in Jobs(a) : Asks(t, r)
        BY <4>2, <4>4, <4>5, <4>7, <4>9 DEF Asking
      <4>12. LeadsTo(Top, own)
        BY <1>1, <1>6, <2>2, <3>2, <4>2 DEF LeadsTo, Fetched, Waiting
      <4> QED BY <4>2, <4>7, <4>8, <4>10, <4>11, <4>12
    <3> QED BY <3>1, <3>2
  <2>5. HealthNow' /\ OnlyOwn
    <3>1. PICK own \in FitItem, a \in Seq(FitItem) :
          /\ stack' = Push(a \o <<own>>)
          /\ own.req = Top.req /\ own.type = Top.type /\ own.why = Top.why /\ own.phase \notin Asking
          /\ \A i \in DOMAIN a : \E r \in Requirements(p) : \E type \in ReqType \ {"toplevel"} :
               a[i] = RequestOf(Top, r, type) /\ (own.phase \in Waiting => r \in BuildRequires(p))
          /\ \A r \in WaitsFor(Job(own)) : Answered(r, seen) \/ \E t \in Jobs(a) : Asks(t, r)
          /\ Sound(own, graph.nodes, Mirror, ElementsOf(buildOrder), faults # {})
          /\ LeadsTo(Top, own)
      BY <2>4
    <3> QED BY <1>1, <1>2, <1>3, <2>1, <2>2, <3>1, WorkStep
  <2> QED BY <1>1, <2>1, <2>2, <2>5 DEF Healthy
<1> QED BY <1>4, <1>6, Zenon DEF RunPrepareSource

EachFrom(both, a, b) ==
  \A i \in DOMAIN both : \/ \E j \in DOMAIN a : both[i] = a[j]
                         \/ \E j \in DOMAIN b : both[i] = b[j]

LEMMA JobsOfBoth ==
  ASSUME NEW a \in Seq(FitItem), NEW b \in Seq(FitItem), NEW both, both = a \o b
  PROVE  /\ both \in Seq(FitItem) /\ Jobs(a) \subseteq Jobs(both) /\ Jobs(b) \subseteq Jobs(both)
         /\ EachFrom(both, a, b)
<1>1. \A i \in DOMAIN a : i \in DOMAIN both /\ both[i] = a[i]
  OBVIOUS
<1>2. \A i \in DOMAIN b : i + Len(a) \in DOMAIN both /\ both[i + Len(a)] = b[i]
  OBVIOUS
<1>3. \A i \in DOMAIN both : \/ i \in DOMAIN a
                             \/ i - Len(a) \in DOMAIN b /\ both[i] = b[i - Len(a)]
  <2>1. DOMAIN both = 1..(Len(a) + Len(b)) /\ DOMAIN a = 1..Len(a) /\ DOMAIN b = 1..Len(b)
    OBVIOUS
  <2>2. Len(a) \in Nat /\ Len(b) \in Nat
    OBVIOUS
  <2> SUFFICES ASSUME NEW i \in DOMAIN both, i \notin DOMAIN a
               PROVE  i - Len(a) \in DOMAIN b /\ both[i] = b[i - Len(a)]
    OBVIOUS
  <2>3. i - Len(a) \in DOMAIN b
    BY <2>1, <2>2
  <2>4. both[(i - Len(a)) + Len(a)] = b[i - Len(a)] /\ (i - Len(a)) + Len(a) = i
    BY <1>2, <2>1, <2>2, <2>3
  <2> QED BY <2>3, <2>4
<1>4. both \in Seq(FitItem)
  OBVIOUS
<1> QED BY <1>1, <1>2, <1>3, <1>4 DEF Jobs, EachFrom

(* A requirement that a build system satisfies has been visited.               *)
LEMMA SatisfiedIsAnswered ==
  ASSUME TypeInv, Buildable, HealthNow, NEW p \in Pkg, NEW f \in BuildSystems(p),
         NEW deps \in SUBSET BuildRequires(p), NEW r \in Satisfied(deps, f)
  PROVE  /\ Answered(r, seen) /\ Soles[r] = <<r.name, f[r.name]>>
         /\ \A e : e.child = Soles[r] => EdgeMarked(e, seen)
<1>1. r \in deps /\ ~r.extras /\ r.name \in DOMAIN f /\ f[r.name] \in r.spec /\ r \in Known
  BY KnownRequirements DEF Satisfied
<1>2. <<r.name, f[r.name]>> \in Children(graph, p, {"build-system"})
  BY <1>1 DEF BuildSystems
<1>3. PICK e \in graph.edges : e.type = "build-system" /\ e.child = <<r.name, f[r.name]>>
  BY <1>2 DEF Children
<1>4. EdgeMarked(e, seen) /\ e.type \in BuildType
  BY <1>3 DEF HealthNow, Health, BuildType
<1>5. PICK q : q = <<r.name, f[r.name]>>
  OBVIOUS
<1>6. q \in Everything /\ \E x \in BOOLEAN : <<q[1], x, q[2], "wheel">> \in seen
  BY <1>3, <1>4, <1>5 DEF EdgeMarked
<1>7. q[1] = r.name /\ q[2] \in r.spec
  BY <1>1, <1>5
<1>8. q = Soles[r]
  BY <1>1, <1>6, <1>7, SoleCandidate
<1>9. Answered(r, seen)
  BY <1>1, <1>6, <1>7, <1>8 DEF Answered
<1>10. \A d : d.child = q => EdgeMarked(d, seen)
  BY <1>6 DEF EdgeMarked
<1> QED BY <1>5, <1>8, <1>9, <1>10

LEMMA RunPrepareBuildHealth ==
  ASSUME TypeInv, Buildable, Quiet, HealthNow, CalmBy(faults'), RunPrepareBuild
  PROVE  Healthy' /\ OnlyOwn
<1>1. pc = "loop" /\ stack # <<>> /\ Top.phase = "prepare-build"
  BY Zenon DEF RunPrepareBuild, Running
<1>2. PICK p : p = PkgOf(Top)
  OBVIOUS
<1>3. /\ Top \in FitItem /\ Top.req \in Known /\ Soles[Top.req] = p /\ p \in Pkg /\ p[1] = Top.req.name
      /\ Sound(Top, graph.nodes, Mirror, ElementsOf(buildOrder), faults # {})
      /\ Top.phase \notin Asking /\ Top.phase \in Waiting /\ Top.system = u.system[p]
  BY <1>1, <1>2, TopIsSound, SoleCandidate DEF Sound, Asking, Waiting, PkgOf
<1>4. \A r \in u.system[p] : Answered(r, seen)
  BY <1>1, <1>3, TopIsSound, JobFields DEF WaitsFor
<1>5. CanInstall(Top.system)
  <2>1. InstallsFrom(u.system[p], Everything)
    BY <1>3 DEF Buildable
  <2>2. u.system[p] \in SUBSET BuildRequires(p)
    BY DEF BuildRequires
  <2> QED BY <1>1, <1>2, <1>3, <1>4, <2>1, <2>2, NeededIsInstalled
<1>6. CASE Fault(Top) /\ PhaseFailed(Top, graph, {})
  <2>1. faults' # {}
    BY <1>6, FaultHappens
  <2> QED BY <1>6, <2>1, FaultAborts
<1> DEFINE On(backend, sdist) == [Top EXCEPT !.phase = "build", !.backend = backend, !.sdist = sdist]
<1>7. ASSUME NEW backend \in SUBSET Req, NEW sdist \in SUBSET Req, NEW own, own = On(backend, sdist)
      PROVE  /\ own \in FitItem /\ own.phase = "build" /\ own.req = Top.req /\ own.type = Top.type
             /\ own.why = Top.why /\ own.parent = Top.parent /\ own.ver = Top.ver /\ own.future = Top.future
             /\ own.cached = Top.cached /\ own.sdistOnly = Top.sdistOnly
             /\ own.backend = backend /\ own.sdist = sdist
             /\ PkgOf(own) = p /\ OnlySdist(own) = OnlySdist(Top)
  <2>1. PICK it \in FitItem : it = Top
    BY <1>3
  <2>2. own = [it EXCEPT !.phase = "build", !.backend = backend, !.sdist = sdist]
    BY <1>7, <2>1
  <2>3. /\ own.phase = "build" /\ own.req = it.req /\ own.type = it.type
        /\ own.why = it.why /\ own.parent = it.parent /\ own.ver = it.ver /\ own.future = it.future
        /\ own.cached = it.cached /\ own.sdistOnly = it.sdistOnly
        /\ own.backend = backend /\ own.sdist = sdist
    BY ONLY <2>2, it \in FitItem DEF FitItem, Item
  <2>4. it.phase = "prepare-build" /\ it.ver # NoVersion
    BY <1>1, <2>1 DEF FitItem
  <2>5. own \in Item
    BY ONLY <2>2, it \in FitItem, backend \in SUBSET Req, sdist \in SUBSET Req DEF FitItem, Item, Phase
  <2>6. own \in FitItem
    BY <2>3, <2>4, <2>5 DEF FitItem, Built
  <2> QED BY <1>2, <2>1, <2>3, <2>6 DEF PkgOf, OnlySdist, BuildContext
<1> HIDE DEF On
<1>8. CASE /\ \E f \in BuildSystems(p) :
                LET it == [Top EXCEPT !.phase = "build",
                                      !.backend = u.backend[p] \ Satisfied(u.backend[p], f),
                                      !.sdist = u.sdist[p] \ Satisfied(u.sdist[p], f)]
                IN  /\ \E b \in ByName(it.backend), d \in ByName(it.sdist) :
                         stack' = Push(Resolves(d, "build-sdist", Top)
                                        \o Resolves(b, "build-backend", Top) \o <<it>>)
                    /\ graph' = [graph EXCEPT !.edges =
                         @ \cup SatisfiedEdges(p, u.backend[p], "build-backend", f)
                           \cup SatisfiedEdges(p, u.sdist[p], "build-sdist", f)]
           /\ UNCHANGED <<u, pc, todo, seen, buildOrder, failures, failedVersions, dirs,
                          exitCode, faults>>
  <2>1. UNCHANGED <<u, pc, todo, seen, buildOrder, failures, failedVersions,
                    wheelsBuild, downloads, prebuiltDir, raw, faults>>
    BY <1>8 DEF dirs
  <2>2. Mirror' = Mirror /\ ElementsOf(buildOrder)' = ElementsOf(buildOrder) /\ Quiet'
    BY <2>1 DEF Mirror, ElementsOf, Quiet
  <2>3. PICK f \in BuildSystems(p) :
                LET it == [Top EXCEPT !.phase = "build",
                                      !.backend = u.backend[p] \ Satisfied(u.backend[p], f),
                                      !.sdist = u.sdist[p] \ Satisfied(u.sdist[p], f)]
                IN  /\ \E b \in ByName(it.backend), d \in ByName(it.sdist) :
                         stack' = Push(Resolves(d, "build-sdist", Top)
                                        \o Resolves(b, "build-backend", Top) \o <<it>>)
                    /\ graph' = [graph EXCEPT !.edges =
                         @ \cup SatisfiedEdges(p, u.backend[p], "build-backend", f)
                           \cup SatisfiedEdges(p, u.sdist[p], "build-sdist", f)]
    BY <1>8, Zenon
  <2>4. PICK backend, sdist : /\ backend = u.backend[p] \ Satisfied(u.backend[p], f)
                              /\ sdist = u.sdist[p] \ Satisfied(u.sdist[p], f)
    OBVIOUS
  <2>5. PICK own : own = On(backend, sdist)
    OBVIOUS
  <2>6. PICK more : more = SatisfiedEdges(p, u.backend[p], "build-backend", f)
                             \cup SatisfiedEdges(p, u.sdist[p], "build-sdist", f)
    OBVIOUS
  <2>7. /\ \E b \in ByName(own.backend), d \in ByName(own.sdist) :
             stack' = Push(Resolves(d, "build-sdist", Top) \o Resolves(b, "build-backend", Top) \o <<own>>)
        /\ graph' = [graph EXCEPT !.edges = @ \cup more]
    BY <2>3, <2>4, <2>5, <2>6 DEF On
  <2>8. /\ u.backend[p] \in SUBSET Req /\ u.sdist[p] \in SUBSET Req
        /\ backend \in SUBSET Req /\ sdist \in SUBSET Req
        /\ u.backend[p] \in SUBSET BuildRequires(p) /\ u.sdist[p] \in SUBSET BuildRequires(p)
        /\ backend \subseteq u.backend[p] /\ sdist \subseteq u.sdist[p]
    BY <1>3, <2>4, RequirementTypes DEF BuildRequires
  <2>9. /\ own \in FitItem /\ own.phase = "build" /\ own.req = Top.req /\ own.type = Top.type
        /\ own.why = Top.why /\ own.parent = Top.parent /\ own.ver = Top.ver /\ own.future = Top.future
        /\ own.cached = Top.cached /\ own.sdistOnly = Top.sdistOnly
        /\ own.backend = backend /\ own.sdist = sdist
        /\ PkgOf(own) = p /\ OnlySdist(own) = OnlySdist(Top)
    BY <1>7, <2>5, <2>8
  <2>10. PICK b \in ByName(backend), d \in ByName(sdist) :
           stack' = Push(Resolves(d, "build-sdist", Top) \o Resolves(b, "build-backend", Top) \o <<own>>)
    BY <2>7, <2>9
  <2>11. PICK ad, ab : ad = Resolves(d, "build-sdist", Top) /\ ab = Resolves(b, "build-backend", Top)
    OBVIOUS
  <2>12. /\ {"build-sdist", "build-backend"} \subseteq ReqType \ {"toplevel"}
         /\ {"build-sdist", "build-backend"} \subseteq BuildType
    BY DEF ReqType, BuildType
  <2>13. /\ ad \in Seq(FitItem)
         /\ \A i \in DOMAIN ad : \E r \in sdist : ad[i] = RequestOf(Top, r, "build-sdist")
         /\ \A r \in sdist : \E t \in Jobs(ad) : Asks(t, r)
    BY <1>1, <1>3, <2>8, <2>11, <2>12, RequestsFor
  <2>14. /\ ab \in Seq(FitItem)
         /\ \A i \in DOMAIN ab : \E r \in backend : ab[i] = RequestOf(Top, r, "build-backend")
         /\ \A r \in backend : \E t \in Jobs(ab) : Asks(t, r)
    BY <1>1, <1>3, <2>8, <2>11, <2>12, RequestsFor
  <2>15. PICK a : a = ad \o ab
    OBVIOUS
  <2>16. /\ a \in Seq(FitItem) /\ Jobs(ad) \subseteq Jobs(a) /\ Jobs(ab) \subseteq Jobs(a)
         /\ EachFrom(a, ad, ab)
    BY <2>13, <2>14, <2>15, JobsOfBoth
  <2>17. stack' = Push(a \o <<own>>)
    BY <2>10, <2>11, <2>15
  <2>18. \A i \in DOMAIN a : \E r \in Requirements(p) : \E type \in ReqType \ {"toplevel"} :
           a[i] = RequestOf(Top, r, type) /\ (own.phase \in Waiting => r \in BuildRequires(p))
    <3>1. BuildRequires(p) \subseteq Requirements(p)
      BY <1>3, KnownRequirements
    <3> QED BY <2>8, <2>12, <2>13, <2>14, <2>16, <3>1 DEF EachFrom
  <2>19. ASSUME NEW r \in WaitsFor(Job(own)) PROVE Answered(r, seen) \/ \E t \in Jobs(a) : Asks(t, r)
    <3>1. r \in BuildRequires(p)
      BY <1>3, <2>9, <2>19, JobFields DEF WaitsFor
    <3>2. CASE r \in u.system[p]
      BY <1>4, <3>2
    <3>3. CASE r \in backend \/ r \in sdist
      BY <2>13, <2>14, <2>16, <3>3
    <3>4. CASE r \in Satisfied(u.backend[p], f) \/ r \in Satisfied(u.sdist[p], f)
      BY <1>3, <2>8, <3>4, SatisfiedIsAnswered
    <3> QED BY <2>4, <3>1, <3>2, <3>3, <3>4 DEF BuildRequires
  <2>20. Sound(own, graph'.nodes, Mirror', ElementsOf(buildOrder)', faults' # {})
    <3>1. graph'.nodes = graph.nodes
      BY <2>7, GraphIsThere DEF Graph
    <3>2. Sound(own, graph.nodes, Mirror, ElementsOf(buildOrder), faults # {})
      BY <1>1, <1>3, <2>8, <2>9 DEF Sound, Asking, Waiting, Built
    <3> QED BY <2>1, <2>2, <3>1, <3>2 DEF Sound
  <2>21. graph'.nodes = graph.nodes /\ graph'.edges = graph.edges \cup more
    BY <2>7, GraphIsThere DEF Graph
  <2>22. \A e \in graph'.edges \ graph.edges : EdgeMarked(e, seen)
    <3>1. \A e \in more : \E r \in Satisfied(u.backend[p], f) \cup Satisfied(u.sdist[p], f) :
                            e.child = <<r.name, f[r.name]>>
      BY <2>6 DEF SatisfiedEdges
    <3> QED BY <1>3, <2>8, <2>21, <3>1, SatisfiedIsAnswered
  <2>23. HealthNow' /\ OnlyOwn
    <3>1. own.phase \notin Asking
      BY <2>9 DEF Asking
    <3>2. LeadsTo(Top, own)
      BY <1>3, <2>2, <2>9 DEF LeadsTo, Fetched, Waiting
    <3> QED BY <1>1, <1>2, <1>3, <2>1, <2>2, <2>9, <2>16, <2>17, <2>18, <2>19, <2>20, <2>21, <2>22,
               <3>1, <3>2, WorkStep
  <2> QED BY <1>1, <2>1, <2>2, <2>23 DEF Healthy
<1> QED BY <1>2, <1>5, <1>6, <1>8, Zenon DEF RunPrepareBuild

LEMMA RunBuildHealth ==
  ASSUME TypeInv, Buildable, Quiet, HealthNow, CalmBy(faults'), RunBuild
  PROVE  Healthy' /\ OnlyOwn
<1>1. pc = "loop" /\ stack # <<>> /\ Top.phase = "build"
  BY Zenon DEF RunBuild, Running
<1>2. PICK p : p = PkgOf(Top)
  OBVIOUS
<1>3. /\ Top \in FitItem /\ Top.req \in Known /\ Soles[Top.req] = p /\ p \in Pkg /\ p[1] = Top.req.name
      /\ Sound(Top, graph.nodes, Mirror, ElementsOf(buildOrder), faults # {})
      /\ Top.phase \notin Asking /\ Top.phase \in Waiting
      /\ Top.backend \subseteq u.backend[p] /\ Top.sdist \subseteq u.sdist[p] /\ p[1] \notin u.prebuilt
  BY <1>1, <1>2, TopIsSound, SoleCandidate DEF Sound, Asking, Waiting, PkgOf
<1>4. \A r \in BuildRequires(p) : Answered(r, seen)
  BY <1>1, <1>3, TopIsSound, JobFields DEF WaitsFor
<1>5. CanInstall(Remaining(Top))
  <2>1. Remaining(Top) \subseteq u.backend[p] \cup u.sdist[p]
    BY <1>3 DEF Remaining
  <2>2. InstallsFrom(u.backend[p] \cup u.sdist[p], Everything)
    BY <1>3 DEF Buildable
  <2>3. InstallsFrom(Remaining(Top), Everything)
    BY <2>1, <2>2, InstallsFewer
  <2>4. Remaining(Top) \in SUBSET BuildRequires(p)
    BY <2>1 DEF BuildRequires
  <2> QED BY <1>1, <1>2, <1>3, <1>4, <2>3, <2>4, NeededIsInstalled
<1>6. CASE Fault(Top) /\ \E left : PhaseFailed(Top, graph, left)
  <2>1. faults' # {}
    BY <1>6, FaultHappens
  <2> QED BY <1>6, <2>1, FaultAborts
<1>7. PICK own : own = [Top EXCEPT !.phase = "process-install-deps", !.result = Top.ver]
  OBVIOUS
<1>8. /\ own \in FitItem /\ own.phase = "process-install-deps" /\ own.req = Top.req /\ own.type = Top.type
      /\ own.why = Top.why /\ own.parent = Top.parent /\ own.ver = Top.ver /\ own.future = Top.future
      /\ own.cached = Top.cached /\ own.sdistOnly = Top.sdistOnly /\ own.result = Top.ver
      /\ PkgOf(own) = p /\ OnlySdist(own) = OnlySdist(Top)
  <2>1. PICK it \in FitItem : it = Top
    BY <1>3
  <2>2. own = [it EXCEPT !.phase = "process-install-deps", !.result = it.ver]
    BY <1>7, <2>1
  <2>3. /\ own.phase = "process-install-deps" /\ own.req = it.req /\ own.type = it.type
        /\ own.why = it.why /\ own.parent = it.parent /\ own.ver = it.ver /\ own.future = it.future
        /\ own.cached = it.cached /\ own.sdistOnly = it.sdistOnly /\ own.result = it.ver
    BY ONLY <2>2, it \in FitItem DEF FitItem, Item
  <2>4. it.phase = "build" /\ it.ver # NoVersion
    BY <1>1, <2>1 DEF FitItem
  <2>5. own \in Item
    BY ONLY <2>2, it \in FitItem DEF FitItem, Item, Phase
  <2>6. own \in FitItem
    BY <2>3, <2>4, <2>5 DEF FitItem, Built
  <2> QED BY <1>2, <2>1, <2>3, <2>6 DEF PkgOf, OnlySdist, BuildContext
<1>9. CASE /\ stack' = Push(<<own>>)
           /\ \/ ~BuildsWheel(Top) /\ UNCHANGED <<u, pc, todo, records, dirs, exitCode>>
              \/ /\ UpdateMirror({p}, {}) /\ raw' = raw \ {p}
                 /\ UNCHANGED <<u, pc, todo, records, exitCode>>
           /\ UNCHANGED faults
  <2>1. UNCHANGED <<u, pc, todo, seen, graph, buildOrder, failures, failedVersions, faults>>
    BY <1>9 DEF records
  <2>2. /\ Mirror \subseteq Mirror' /\ wheelsBuild' = {} /\ prebuiltDir' = prebuiltDir /\ raw' = {}
        /\ Top.cached \/ Top.sdistOnly \/ p \in Mirror'
        /\ Mirror' \subseteq Mirror \cup {p}
    <3>1. CASE ~BuildsWheel(Top) /\ UNCHANGED <<u, pc, todo, records, dirs, exitCode>>
      BY <3>1 DEF dirs, Mirror, Quiet, BuildsWheel
    <3>2. CASE UpdateMirror({p}, {}) /\ raw' = raw \ {p}
      <4>1. Mirror' \subseteq Mirror \cup {p}
        BY <3>2 DEF UpdateMirror, Quiet, Mirror
      <4> QED BY <3>2, <4>1, MirrorGrows DEF UpdateMirror, Quiet
    <3> QED BY <1>9, <3>1, <3>2
  <2>3. ElementsOf(buildOrder)' = ElementsOf(buildOrder) /\ Quiet'
    BY <2>1, <2>2 DEF ElementsOf, Quiet
  <2>4. PICK a : a = <<>>
    OBVIOUS
  <2>5. a \in Seq(FitItem) /\ DOMAIN a = {} /\ a \o <<own>> = <<own>>
    BY <2>4
  <2>6. stack' = Push(a \o <<own>>)
    BY <1>9, <2>5
  <2>7. \A r \in WaitsFor(Job(own)) : Answered(r, seen)
    BY <1>3, <1>4, <1>8, JobFields DEF WaitsFor
  <2>8. Sound(own, graph'.nodes, Mirror', ElementsOf(buildOrder)', faults' # {})
    BY <1>1, <1>3, <1>8, <2>1, <2>2, <2>3 DEF Sound, Asking, Waiting, Built
  <2>9. HealthNow' /\ OnlyOwn
    <3>1. own.phase \notin Asking
      BY <1>8 DEF Asking
    <3>2. LeadsTo(Top, own)
      BY <1>8 DEF LeadsTo, Fetched, Waiting
    <3> QED BY <1>1, <1>2, <1>3, <1>8, <2>1, <2>2, <2>3, <2>5, <2>6, <2>7, <2>8, <3>1,
               <3>2, WorkStep
  <2> QED BY <1>1, <2>1, <2>3, <2>9 DEF Healthy
<1>10. \/ Fault(Top) /\ \E left : PhaseFailed(Top, graph, left)
       \/ /\ IF ~BuildsWheel(Top)
               THEN /\ stack' = Push(<<own>>)
                    /\ UNCHANGED <<u, pc, todo, records, dirs, exitCode>>
               ELSE IF wheelsBuild \subseteq {p}
               THEN /\ stack' = Push(<<own>>)
                    /\ UpdateMirror({p}, {})
                    /\ raw' = raw \ {p}
                    /\ UNCHANGED <<u, pc, todo, records, exitCode>>
               ELSE PhaseFailed(Top, graph, {p})
          /\ UNCHANGED faults
  BY <1>2, <1>5, <1>7, Zenon DEF RunBuild, Build
<1>11. wheelsBuild \subseteq {p}
  BY DEF Quiet
<1> QED BY <1>6, <1>9, <1>10, <1>11

LEMMA AddToBuildOrderElements ==
  ASSUME NEW p \in Pkg, NEW order \in Seq(Pkg)
  PROVE  ElementsOf(AddToBuildOrder(order, p)) = ElementsOf(order) \cup {p}
<1>1. CASE \E i \in DOMAIN order : order[i] = p
  BY <1>1 DEF AddToBuildOrder, ElementsOf
<1>2. CASE ~\E i \in DOMAIN order : order[i] = p
  <2>1. AddToBuildOrder(order, p) = Append(order, p)
    BY <1>2 DEF AddToBuildOrder
  <2>2. /\ DOMAIN Append(order, p) = 1..(Len(order) + 1) /\ DOMAIN order = 1..Len(order)
        /\ \A i \in DOMAIN order : Append(order, p)[i] = order[i]
        /\ Append(order, p)[Len(order) + 1] = p /\ Len(order) \in Nat
    OBVIOUS
  <2> QED BY <2>1, <2>2 DEF ElementsOf
<1> QED BY <1>1, <1>2

LEMMA RunProcessInstallDepsHealth ==
  ASSUME TypeInv, Buildable, Quiet, HealthNow, CalmBy(faults'), RunProcessInstallDeps
  PROVE  Healthy' /\ OnlyOwn
<1>1. pc = "loop" /\ stack # <<>> /\ Top.phase = "process-install-deps"
  BY Zenon DEF RunProcessInstallDeps, Running
<1>2. PICK p : p = PkgOf(Top)
  OBVIOUS
<1>3. /\ Top \in FitItem /\ Top.req \in Known /\ Soles[Top.req] = p /\ p \in Pkg
      /\ Sound(Top, graph.nodes, Mirror, ElementsOf(buildOrder), faults # {})
      /\ Top.phase \notin Asking /\ <<Top.req.name, Top.result>> = p
  BY <1>1, <1>2, TopIsSound, SoleCandidate DEF Sound, Asking, Built, PkgOf
<1>4. InstallRequirements(Top) = Installs(p, Top.req.extras)
  BY <1>3 DEF InstallRequirements, Installs
<1>5. PICK own : own = [Top EXCEPT !.phase = "complete"]
  OBVIOUS
<1>6. /\ own \in FitItem /\ own.phase = "complete" /\ own.req = Top.req /\ own.type = Top.type
      /\ own.why = Top.why /\ own.parent = Top.parent /\ own.ver = Top.ver /\ own.future = Top.future
      /\ own.cached = Top.cached /\ own.sdistOnly = Top.sdistOnly /\ own.result = Top.result
      /\ PkgOf(own) = p /\ OnlySdist(own) = OnlySdist(Top)
  <2>1. PICK it \in FitItem : it = Top
    BY <1>3
  <2>2. own = [it EXCEPT !.phase = "complete"]
    BY <1>5, <2>1
  <2>3. /\ own.phase = "complete" /\ own.req = it.req /\ own.type = it.type
        /\ own.why = it.why /\ own.parent = it.parent /\ own.ver = it.ver /\ own.future = it.future
        /\ own.cached = it.cached /\ own.sdistOnly = it.sdistOnly /\ own.result = it.result
    BY ONLY <2>2, it \in FitItem DEF FitItem, Item
  <2>4. it.phase \in Built /\ it.phase # "resolve"
    BY <1>1, <2>1 DEF Built
  <2>5. own \in Item
    BY ONLY <2>2, it \in FitItem DEF FitItem, Item, Phase
  <2>6. own \in FitItem
    BY <2>3, <2>4, <2>5 DEF FitItem
  <2> QED BY <1>2, <2>1, <2>3, <2>6 DEF PkgOf, OnlySdist, BuildContext
<1>7. CASE Fault(Top) /\ PhaseFailed(Top, graph, {})
  <2>1. faults' # {}
    BY <1>7, FaultHappens
  <2> QED BY <1>7, <2>1, FaultAborts
<1>8. CASE /\ \E order \in ByName(InstallRequirements(Top)) :
                stack' = Push(Resolves(order, "install", Top) \o <<own>>)
           /\ UNCHANGED <<failures, faults>>
           /\ buildOrder' = AddToBuildOrder(buildOrder, PkgOf(Top))
           /\ UNCHANGED <<u, pc, todo, seen, graph, failedVersions, dirs, exitCode>>
  <2>1. UNCHANGED <<u, pc, todo, seen, graph, failures, failedVersions, faults,
                    wheelsBuild, downloads, prebuiltDir, raw>>
    BY <1>8 DEF dirs
  <2>2. Mirror' = Mirror /\ Quiet'
    BY <2>1 DEF Mirror, ElementsOf, Quiet
  <2>3. ElementsOf(buildOrder)' = ElementsOf(buildOrder) \cup {p}
    <3>1. buildOrder \in Seq(Pkg) /\ buildOrder' = AddToBuildOrder(buildOrder, p)
      BY <1>2, <1>8 DEF TypeInv, RecordsTypeOK
    <3> QED BY <1>3, <3>1, AddToBuildOrderElements
  <2>4. PICK S : S = Installs(p, Top.req.extras)
    OBVIOUS
  <2>5. S \in SUBSET Req /\ S \subseteq Requirements(p)
    BY <1>3, <2>4, RequirementTypes, KnownRequirements DEF Installs
  <2>6. PICK order \in ByName(S) : stack' = Push(Resolves(order, "install", Top) \o <<own>>)
    BY <1>4, <1>8, <2>4
  <2>7. PICK a : a = Resolves(order, "install", Top)
    OBVIOUS
  <2>8. "install" \in ReqType \ {"toplevel"}
    BY DEF ReqType, InstallType
  <2>9. /\ a \in Seq(FitItem)
        /\ \A i \in DOMAIN a : \E r \in S : a[i] = RequestOf(Top, r, "install")
        /\ ~OnlySdist(Top) => \A r \in S : \E t \in Jobs(a) : Asks(t, r)
    BY <1>1, <1>3, <2>5, <2>7, <2>8, RequestsFor
  <2>10. \A i \in DOMAIN a : \E r \in Requirements(p) : \E type \in ReqType \ {"toplevel"} :
           a[i] = RequestOf(Top, r, type) /\ (own.phase \in Waiting => r \in BuildRequires(p))
    BY <1>6, <2>5, <2>8, <2>9 DEF Waiting
  <2>11. \A r \in WaitsFor(Job(own)) : Answered(r, seen) \/ \E t \in Jobs(a) : Asks(t, r)
    BY <1>3, <1>6, <2>4, <2>9, JobFields DEF WaitsFor
  <2>12. Sound(own, graph'.nodes, Mirror', ElementsOf(buildOrder)', faults' # {})
    BY <1>1, <1>3, <1>6, <2>1, <2>2, <2>3 DEF Sound, Asking, Waiting, Built
  <2>13. HealthNow' /\ OnlyOwn
    <3>1. own.phase \notin Asking
      BY <1>6 DEF Asking
    <3>2. stack' = Push(a \o <<own>>) /\ a \in Seq(FitItem)
      BY <2>6, <2>7, <2>9
    <3>3. own \in FitItem /\ own.req = Top.req /\ own.type = Top.type /\ own.why = Top.why
      BY <1>6
    <3>4. /\ UNCHANGED u /\ seen' = seen /\ graph'.nodes = graph.nodes /\ graph'.edges = graph.edges
          /\ Mirror \subseteq Mirror' /\ ElementsOf(buildOrder) \subseteq ElementsOf(buildOrder)'
          /\ faults \subseteq faults' /\ Mirror' \subseteq Mirror \cup {p}
      BY <2>1, <2>2, <2>3
    <3>5. LeadsTo(Top, own)
      BY <1>6 DEF LeadsTo, Fetched, Waiting
    <3> QED BY <1>1, <1>2, <1>3, <2>10, <2>11, <2>12, <3>1, <3>2, <3>3, <3>4, <3>5, WorkStep
  <2> QED BY <1>1, <2>1, <2>2, <2>13 DEF Healthy
<1>9. CASE TestMode /\ Fault(Top)
  BY <1>9, FaultHappens DEF CalmBy
<1> QED BY <1>5, <1>7, <1>8, <1>9 DEF RunProcessInstallDeps

(* The pool threads and the top-level requirements change no job of an item.   *)
LEMMA SameJobs ==
  ASSUME TypeInv, Buildable, HealthNow, NEW s, DOMAIN s = DOMAIN stack,
         \A i \in DOMAIN stack : Job(s[i]) = Job(stack[i]),
         stack' = s, UNCHANGED <<u, seen, graph, buildOrder>>, Mirror \subseteq Mirror',
         \A i \in DOMAIN s : Sound(s[i], graph.nodes, Mirror', ElementsOf(buildOrder), faults' # {})
  PROVE  HealthNow'
<1>1. Jobs(s) = Jobs(stack)
  BY DEF Jobs
<1>2. ASSUME NEW i \in DOMAIN stack PROVE Above(s, i) = Above(stack, i)
  <2>1. \A j \in 1..(i - 1) : j \in DOMAIN stack
    BY DEF TypeInv, LoopTypeOK
  <2> QED BY <2>1 DEF Above
<1>3. PICK wheels, order : wheels = Mirror' /\ order = ElementsOf(buildOrder)
  OBVIOUS
<1>4. MarksSettle(Jobs(s), wheels, order, seen)
  <2>1. MarksSettle(Jobs(s), Mirror, order, seen)
    BY <1>1, <1>3 DEF HealthNow, Health
  <2> QED BY <1>3, <2>1 DEF MarksSettle, Settled
<1>5. \A i \in DOMAIN s : Placed(Job(s[i]), Above(s, i), seen)
  BY <1>2 DEF HealthNow, Health
<1>6. Health(s, seen, graph, wheels, order, faults' # {})
  BY <1>3, <1>4, <1>5 DEF HealthNow, Health
<1>7. Health(stack', seen', graph', Mirror', ElementsOf(buildOrder'), faults' # {})
  BY <1>3, <1>6 DEF ElementsOf
<1> QED BY <1>7, HealthStays

Ended(it, future, cached) == [it EXCEPT !.future = future, !.cached = cached]

LEMMA ThreadSound ==
  ASSUME TypeInv, Buildable, HealthNow, NEW i \in DOMAIN stack, NEW future, NEW cached,
         stack' = [stack EXCEPT ![i] = Ended(stack[i], future, cached)],
         UNCHANGED <<u, seen, graph, buildOrder>>, Mirror \subseteq Mirror', faults \subseteq faults',
         future = "failed" => faults' # {},
         cached => Soles[stack[i].req] \in Mirror',
         stack[i].phase = "prepare-source" /\ future = "done" /\ stack[i].req.name \in u.prebuilt =>
           Soles[stack[i].req] \in Mirror'
  PROVE  HealthNow'
<1>1. PICK it \in FitItem : it = stack[i]
  BY DEF TypeInv, LoopTypeOK
<1>2. PICK new : new = Ended(it, future, cached)
  OBVIOUS
<1>3. /\ new.phase = it.phase /\ new.req = it.req /\ new.type = it.type
      /\ new.why = it.why /\ new.parent = it.parent /\ new.ver = it.ver /\ new.future = future
      /\ new.cached = cached /\ new.sdistOnly = it.sdistOnly /\ new.result = it.result
      /\ new.system = it.system /\ new.backend = it.backend /\ new.sdist = it.sdist
  BY ONLY <1>2, it \in FitItem DEF FitItem, Item, Ended
<1>4. Job(new) = Job(it) /\ OnlySdist(new) = OnlySdist(it) /\ PkgOf(new) = PkgOf(it)
  BY <1>3 DEF Job, OnlySdist, BuildContext, PkgOf
<1>5. PICK s : s = stack'
  OBVIOUS
<1>6. /\ DOMAIN s = DOMAIN stack /\ s[i] = new
      /\ \A j \in DOMAIN stack : j # i => s[j] = stack[j]
  BY <1>1, <1>2, <1>5 DEF TypeInv, LoopTypeOK
<1>7. \A j \in DOMAIN stack : Job(s[j]) = Job(stack[j])
  BY <1>1, <1>4, <1>6
<1>8. PICK wheels, order : wheels = Mirror' /\ order = ElementsOf(buildOrder)
  OBVIOUS
<1>9. PICK faulty \in BOOLEAN, faulty2 \in BOOLEAN :
        faulty = (faults # {}) /\ faulty2 = (faults' # {}) /\ (faulty => faulty2)
  OBVIOUS
<1>10. \A j \in DOMAIN stack : Sound(stack[j], graph.nodes, Mirror, order, faulty)
  BY <1>8, <1>9 DEF HealthNow, Health, Sound
<1>11. \A j \in DOMAIN stack : Sound(stack[j], graph.nodes, wheels, order, faulty2)
  BY <1>8, <1>9, <1>10 DEF Sound
<1>12. Sound(new, graph.nodes, wheels, order, faulty2)
  <2>1. Sound(it, graph.nodes, wheels, order, faulty2)
    BY <1>1, <1>11
  <2>2. Soles[it.req][1] = it.req.name
    BY <2>1, SoleCandidate DEF Sound
  <2>3. /\ future = "failed" => faulty2
        /\ cached => Soles[it.req] \in wheels
        /\ it.phase = "prepare-source" /\ future = "done" /\ it.req.name \in u.prebuilt =>
             Soles[it.req] \in wheels
    BY <1>1, <1>8, <1>9
  <2> QED BY <1>3, <1>4, <2>1, <2>2, <2>3 DEF Sound
<1>13. \A j \in DOMAIN s : Sound(s[j], graph.nodes, wheels, order, faulty2)
  BY <1>6, <1>11, <1>12
<1>14. \A j \in DOMAIN s : Sound(s[j], graph.nodes, Mirror', ElementsOf(buildOrder), faults' # {})
  BY <1>8, <1>9, <1>13 DEF Sound
<1> QED BY <1>5, <1>6, <1>7, <1>14, SameJobs

(* A thread ends the work on an item: a source that it fetched, and not a wheel, *)
(* is of a package that the mirror has no wheel of.                           *)
OneEnds(i) ==
  \E future, cached :
    /\ stack' = [stack EXCEPT ![i] = Ended(stack[i], future, cached)]
    /\ stack[i].phase \notin Waiting
    /\ \/ Mirror' = Mirror
       \/ stack[i].phase = "prepare-source" /\ Mirror' \subseteq Mirror \cup {Soles[stack[i].req]}
    /\ /\ stack[i].phase = "prepare-source" /\ future = "done"
       /\ stack[i].req.name \notin u.prebuilt /\ ~cached
       => Soles[stack[i].req] \notin Mirror'

LEMMA ThreadHealth ==
  ASSUME TypeInv, Buildable, Quiet, HealthNow, NEW i \in DOMAIN stack, FinishResolution(i) \/ FetchSource(i)
  PROVE  Healthy' /\ OneEnds(i)
<1>1. PICK it \in FitItem : it = stack[i]
  BY DEF TypeInv, LoopTypeOK
<1>2. \A future : /\ [it EXCEPT !.future = future] = Ended(it, future, it.cached)
                  /\ \A cached : [it EXCEPT !.future = future, !.cached = cached] = Ended(it, future, cached)
  BY DEF FitItem, Item, Ended
<1>3. /\ pc = "loop" /\ UNCHANGED <<u, pc, todo, seen, graph, buildOrder, failures, failedVersions, raw>>
  BY DEF FinishResolution, FetchSource, records, dirs
<1>4. Sound(it, graph.nodes, Mirror, ElementsOf(buildOrder), faults # {})
  BY <1>1 DEF HealthNow, Health
<1>5. PICK p : p = PkgOf(it)
  OBVIOUS
<1> DEFINE Ends(future, cached) ==
             /\ faults \subseteq faults' /\ (future = "failed" => faults' # {})
             /\ stack' = [stack EXCEPT ![i] = Ended(it, future, cached)]
             /\ Mirror \subseteq Mirror' /\ wheelsBuild' = {} /\ \A q \in prebuiltDir' : q[1] \in u.prebuilt
             /\ cached => Soles[it.req] \in Mirror'
             /\ it.phase = "prepare-source" /\ future = "done" /\ it.req.name \in u.prebuilt =>
                  Soles[it.req] \in Mirror'
             /\ it.phase \notin Waiting
             /\ Mirror' = Mirror \/ (it.phase = "prepare-source" /\ Mirror' \subseteq Mirror \cup {Soles[it.req]})
             /\ it.phase = "prepare-source" /\ future = "done" /\ it.req.name \notin u.prebuilt /\ ~cached =>
                  Soles[it.req] \notin Mirror'
<1>6. ASSUME NEW future, NEW cached, Ends(future, cached) PROVE Healthy' /\ OneEnds(i)
  <2>1. Quiet'
    BY <1>3, <1>6 DEF Quiet, ElementsOf
  <2>2. HealthNow'
    BY <1>1, <1>3, <1>6, ThreadSound
  <2>3. OneEnds(i)
    BY <1>1, <1>6 DEF OneEnds
  <2> QED BY <1>3, <2>1, <2>2, <2>3 DEF Healthy
<1> HIDE DEF Ends
<1>7. CASE FinishResolution(i)
  <2>1. PICK future \in {"done", "failed"} :
          /\ stack' = [stack EXCEPT ![i].future = future]
          /\ future = "failed" => Fault(it)
          /\ future = "done" => UNCHANGED faults
    BY <1>1, <1>7, Zenon DEF FinishResolution
  <2>2. UNCHANGED <<wheelsBuild, downloads, prebuiltDir>> /\ it.phase = "resolve"
    BY <1>1, <1>7 DEF FinishResolution, dirs
  <2>3. Mirror' = Mirror
    BY <2>2 DEF Mirror
  <2>4. stack' = [stack EXCEPT ![i] = Ended(it, future, it.cached)]
    BY <1>1, <1>2, <2>1
  <2>5. faults \subseteq faults' /\ (future = "failed" => faults' # {})
    BY <2>1, FaultHappens
  <2>6. it.cached => Soles[it.req] \in Mirror'
    BY <1>4, <2>3 DEF Sound
  <2>7. Ends(future, it.cached)
    BY <2>2, <2>3, <2>4, <2>5, <2>6 DEF Quiet, Ends, Waiting
  <2> QED BY <1>6, <2>7
<1>8. CASE FetchSource(i)
  <2>1. it.phase = "prepare-source" /\ p = Soles[it.req] /\ p[1] = it.req.name
    BY <1>1, <1>4, <1>5, <1>8, SoleCandidate DEF FetchSource, Sound, PkgOf
  <2>2. CASE /\ it.req.name \in u.prebuilt
             /\ stack' = [stack EXCEPT ![i].future = "done", ![i].cached = FALSE]
             /\ UpdateMirror({}, {p}) /\ UNCHANGED faults
    <3>0. PICK cached : cached = FALSE
      OBVIOUS
    <3>1. stack' = [stack EXCEPT ![i] = Ended(it, "done", cached)]
      <4>1. stack' = [stack EXCEPT ![i] = [stack[i] EXCEPT !.future = "done", !.cached = cached]]
        BY <2>2, <3>0
      <4> QED BY <1>1, <4>1 DEF Ended
    <3>2. /\ Mirror \subseteq Mirror' /\ p \in Mirror' /\ wheelsBuild' = {}
          /\ \A q \in prebuiltDir' : q[1] \in u.prebuilt
          /\ Mirror' \subseteq Mirror \cup {p}
      <4>1. UpdateMirror({}, {p})
        BY <2>2
      <4>2. Mirror' \subseteq Mirror \cup {p}
        BY <4>1 DEF UpdateMirror, Quiet, Mirror
      <4> QED BY <2>1, <2>2, <4>1, <4>2, MirrorGrows DEF UpdateMirror, Quiet
    <3>3. Ends("done", cached)
      BY <2>1, <2>2, <3>0, <3>1, <3>2 DEF Ends, Waiting
    <3> QED BY <1>6, <3>3
  <2>3. CASE /\ it.req.name \notin u.prebuilt
             /\ stack' = [stack EXCEPT ![i].future = "done", ![i].cached = TRUE]
             /\ UpdateMirror({p}, {}) /\ UNCHANGED faults
    <3>0. PICK cached : cached = TRUE
      OBVIOUS
    <3>1. stack' = [stack EXCEPT ![i] = Ended(it, "done", cached)]
      <4>1. stack' = [stack EXCEPT ![i] = [stack[i] EXCEPT !.future = "done", !.cached = cached]]
        BY <2>3, <3>0
      <4> QED BY <1>1, <4>1 DEF Ended
    <3>2. /\ Mirror \subseteq Mirror' /\ p \in Mirror' /\ wheelsBuild' = {}
          /\ \A q \in prebuiltDir' : q[1] \in u.prebuilt
          /\ Mirror' \subseteq Mirror \cup {p}
      <4>1. UpdateMirror({p}, {})
        BY <2>3
      <4>2. Mirror' \subseteq Mirror \cup {p}
        BY <4>1 DEF UpdateMirror, Quiet, Mirror
      <4> QED BY <4>1, <4>2, MirrorGrows DEF UpdateMirror, Quiet
    <3>3. Ends("done", cached)
      BY <2>1, <2>3, <3>0, <3>1, <3>2 DEF Ends, Waiting
    <3> QED BY <1>6, <3>3
  <2>4. CASE /\ it.req.name \notin u.prebuilt
             /\ stack' = [stack EXCEPT ![i].future = "done", ![i].cached = (p \in Local \ raw)]
             /\ faults \subseteq faults'
             /\ UNCHANGED <<wheelsBuild, downloads, prebuiltDir>>
    <3>1. PICK cached : cached = (p \in Local \ raw)
      OBVIOUS
    <3>2. stack' = [stack EXCEPT ![i] = Ended(it, "done", cached)]
      <4>1. stack' = [stack EXCEPT ![i] = [stack[i] EXCEPT !.future = "done", !.cached = cached]]
        BY <2>4, <3>1
      <4> QED BY <1>1, <4>1 DEF Ended
    <3>3. /\ Mirror = Mirror' /\ wheelsBuild' = {} /\ (cached <=> p \in Mirror')
          /\ \A q \in prebuiltDir' : q[1] \in u.prebuilt
      BY <2>1, <2>4, <3>1 DEF Quiet, Mirror, Local
    <3>4. Ends("done", cached)
      BY <2>1, <2>4, <3>2, <3>3 DEF Ends, Waiting
    <3> QED BY <1>6, <3>4
  <2>5. CASE /\ stack' = [stack EXCEPT ![i].future = "failed"]
             /\ Fault(it)
             /\ UNCHANGED <<wheelsBuild, downloads, prebuiltDir>>
    <3>1. stack' = [stack EXCEPT ![i] = Ended(it, "failed", it.cached)]
      BY <1>1, <1>2, <2>5
    <3>2. /\ Mirror = Mirror' /\ wheelsBuild' = {} /\ (it.cached => p \in Mirror')
          /\ \A q \in prebuiltDir' : q[1] \in u.prebuilt
          /\ faults \subseteq faults' /\ faults' # {}
      BY <1>4, <2>1, <2>5, FaultHappens DEF Quiet, Mirror, Sound
    <3>3. Ends("failed", it.cached)
      BY <2>1, <3>1, <3>2 DEF Ends, Waiting
    <3> QED BY <1>6, <3>3
  <2> QED BY <1>1, <1>5, <1>8, <2>2, <2>3, <2>4, <2>5, FaultHappens DEF FetchSource
<1> QED BY <1>7, <1>8

LEMMA ResolveTopLevelHealth ==
  ASSUME TypeInv, Buildable, Quiet, HealthNow, ResolveTopLevel,
         \A i \in DOMAIN stack : stack[i].phase = "resolve"
  PROVE  Healthy'
<1>1. PICK r : r = Head(todo)
  OBVIOUS
<1>2. PICK found : found = {<<r.name, v>> :
                              v \in IF MultipleVersions THEN Candidates(r) ELSE {Highest(Candidates(r))}}
  OBVIOUS
<1>3. /\ pc = "top-level" /\ todo' = Tail(todo) /\ pc' = IF todo' = <<>> THEN "loop" ELSE "top-level"
      /\ graph'.nodes = graph.nodes \cup found
      /\ graph'.edges = graph.edges \cup
           {[parent |-> ROOT, type |-> "toplevel", child |-> q] : q \in found}
      /\ UNCHANGED <<u, seen, buildOrder, failures, failedVersions>>
  BY <1>1, <1>2, TopLevelTasks
<1>4. UNCHANGED <<wheelsBuild, downloads, prebuiltDir, raw, faults>>
  BY DEF ResolveTopLevel, dirs
<1>5. Mirror' = Mirror /\ ElementsOf(buildOrder)' = ElementsOf(buildOrder)
  BY <1>3, <1>4 DEF Mirror, ElementsOf
<1>6. /\ todo \in Seq(Req) /\ todo # <<>> /\ r \in ElementsOf(todo)
      /\ ElementsOf(todo') \subseteq ElementsOf(todo)
  <2>1. todo \in Seq(Req) /\ todo # <<>>
    BY <1>3 DEF TypeInv, LoopTypeOK
  <2>2. /\ 1 \in DOMAIN todo /\ r = todo[1]
        /\ \A i \in DOMAIN todo' : i + 1 \in DOMAIN todo /\ todo'[i] = todo[i + 1]
    BY <1>1, <1>3, <2>1
  <2> QED BY <2>1, <2>2 DEF ElementsOf
<1>7. r \in Known /\ r \in Req
  BY <1>6, KnownRequirements DEF Quiet
<1>8. Quiet'
  <2>1. \A i \in DOMAIN u.top : u'.top[i] = u.top[i]
    BY <1>3
  <2> QED BY <1>3, <1>4, <1>6 DEF Quiet, ElementsOf
<1>9. found = {Soles[r]}
  <2>1. Candidates(r) = {Soles[r][2]} /\ Soles[r] = <<r.name, Highest(Candidates(r))>>
    BY <1>7, SoleCandidate
  <2>2. Soles[r][2] = Highest(Candidates(r))
    BY <2>1
  <2> QED BY <1>2, <2>1, <2>2
<1>10. PICK new : new = NewItem(r, "toplevel", <<>>, ROOT)
  OBVIOUS
<1>11. PICK s : s = stack'
  OBVIOUS
<1>12. s = <<new>> \o stack
  BY <1>1, <1>10, <1>11, Zenon DEF ResolveTopLevel
<1>13. /\ DOMAIN s = 1..(Len(stack) + 1) /\ DOMAIN stack = 1..Len(stack) /\ Len(stack) \in Nat
       /\ s[1] = new /\ \A i \in DOMAIN stack : s[i + 1] = stack[i]
  <2>1. stack \in Seq(FitItem)
    BY DEF TypeInv, LoopTypeOK
  <2> QED BY <1>12, <2>1
<1>14. /\ new.phase = "resolve" /\ new.req = r /\ new.type = "toplevel" /\ new.future = "pending"
       /\ new.cached = FALSE
  BY <1>10 DEF NewItem
<1>15. ASSUME NEW i \in DOMAIN s
       PROVE  s[i] = new \/ (i - 1 \in DOMAIN stack /\ s[i] = stack[i - 1])
  <2>1. CASE i = 1
    BY <1>13, <2>1
  <2>2. CASE i # 1
    <3>1. i - 1 \in DOMAIN stack /\ (i - 1) + 1 = i
      BY <1>13, <2>2
    <3> QED BY <1>13, <3>1
  <2> QED BY <2>1, <2>2
<1>16. \A i \in DOMAIN s : s[i].phase = "resolve"
  BY <1>14, <1>15
<1>17. Jobs(stack) \subseteq Jobs(s)
  <2>1. \A i \in DOMAIN stack : i + 1 \in DOMAIN s
    BY <1>13
  <2> QED BY <1>13, <2>1 DEF Jobs
<1>18. MarksSettle(Jobs(s), Mirror, ElementsOf(buildOrder), seen)
  BY <1>17 DEF HealthNow, Health, MarksSettle, InWork
<1>19. ASSUME NEW e \in graph'.edges PROVE EdgeMarked(e, seen)
  <2>1. e \in graph.edges \/ e.type = "toplevel"
    BY <1>3
  <2>2. CASE e \in graph.edges
    BY <2>2 DEF HealthNow, Health
  <2>3. CASE e.type = "toplevel"
    BY <2>3 DEF EdgeMarked, BuildType
  <2> QED BY <2>1, <2>2, <2>3
<1>20. PICK faulty \in BOOLEAN : faulty = (faults # {})
  OBVIOUS
<1>21. PICK nodes, order :
         nodes = graph'.nodes /\ order = ElementsOf(buildOrder) /\ faulty = (faults # {})
  BY <1>20
<1>22. \A i \in DOMAIN s : Sound(s[i], nodes, Mirror, order, faulty)
  <2>1. ASSUME NEW i \in DOMAIN stack PROVE Sound(stack[i], nodes, Mirror, order, faulty)
    BY <1>3, <1>21 DEF HealthNow, Health, Sound
  <2>2. Sound(new, nodes, Mirror, order, faulty)
    BY <1>3, <1>7, <1>9, <1>14, <1>21 DEF Sound, Asking, Waiting, Built
  <2> QED BY <1>15, <2>1, <2>2
<1>23. \A i \in DOMAIN s : Placed(Job(s[i]), Above(s, i), seen)
  BY <1>16, JobFields DEF Placed, WaitsFor
<1>24. Health(stack', seen', graph', Mirror', ElementsOf(buildOrder'), faults' # {})
  <2>1. ElementsOf(buildOrder') = order /\ seen' = seen /\ Mirror' = Mirror /\ (faults' # {}) = faulty
    BY <1>3, <1>4, <1>5, <1>21
  <2>2. Health(s, seen, graph', Mirror, order, faulty)
    BY <1>18, <1>19, <1>21, <1>22, <1>23 DEF Health
  <2> QED BY <1>11, <2>1, <2>2, Zenon
<1>25. HealthNow'
  BY <1>3, <1>24, HealthStays
<1> QED BY <1>3, <1>8, <1>25 DEF Healthy

LEMMA FailTopLevelHealth ==
  ASSUME TypeInv, Buildable, Quiet, HealthNow, CalmBy(faults'), FailTopLevel
  PROVE  Healthy'
<1>1. pc = "top-level"
  BY Zenon DEF FailTopLevel
<1>2. pc' = IF TestMode \/ MultipleVersions THEN AfterTopLevel ELSE "aborted"
  BY Zenon DEF FailTopLevel
<1>3. Candidates(Head(todo)) = {} \/ \E it : Fault(it)
  BY Zenon DEF FailTopLevel
<1>4. Head(todo) \in Known
  <2>1. todo \in Seq(Req) /\ todo # <<>>
    BY <1>1 DEF TypeInv, LoopTypeOK
  <2>2. 1 \in DOMAIN todo /\ Head(todo) = todo[1]
    BY <2>1
  <2> QED BY <2>2, KnownRequirements DEF Quiet, ElementsOf
<1>5. Candidates(Head(todo)) # {}
  BY <1>4, SoleCandidate
<1>6. faults' # {}
  BY <1>3, <1>5, FaultHappens
<1>7. pc' = "aborted"
  BY <1>2, <1>6 DEF CalmBy
<1> QED BY <1>6, <1>7 DEF Healthy

LEMMA NothingMoves ==
  ASSUME TypeInv, Buildable, Quiet, HealthNow, pc' # "aborted",
         UNCHANGED <<u, todo, stack, seen, graph, buildOrder, failures, failedVersions,
                     wheelsBuild, downloads, prebuiltDir, raw, faults>>
  PROVE  Healthy'
<1>1. Mirror' = Mirror /\ ElementsOf(buildOrder') = ElementsOf(buildOrder)
  BY DEF Mirror
<1>2. Health(stack', seen', graph', Mirror', ElementsOf(buildOrder'), faults' # {})
  BY <1>1 DEF HealthNow, Health, Sound
<1>3. HealthNow'
  BY <1>2, HealthStays
<1>4. Quiet'
  BY DEF Quiet, ElementsOf
<1> QED BY <1>3, <1>4 DEF Healthy

-----------------------------------------------------------------------------
(* The invariant of a calm run.                                              *)
LEMMA CalmIsCalmBy == ASSUME UNCHANGED u PROVE Calm' <=> CalmBy(faults')
  BY UniverseStays DEF Calm, CalmBy

LEMMA HealthInit == Init => HealthInv
<1> SUFFICES ASSUME Init PROVE HealthInv
  OBVIOUS
<1>1. /\ pc = "top-level" /\ stack = <<>> /\ seen = {} /\ graph.edges = {} /\ todo = u.top
      /\ failures = {} /\ failedVersions = {} /\ raw = {} /\ wheelsBuild = {} /\ prebuiltDir = {}
  BY DEF Init, EmptyGraph
<1>2. Quiet
  BY <1>1 DEF Quiet
<1>3. DOMAIN stack = {}
  BY <1>1
<1>4. HealthNow
  BY <1>1, <1>3 DEF HealthNow, Health, MarksSettle
<1> QED BY <1>1, <1>2, <1>4 DEF HealthInv

(* No step takes a fault back, and none changes the universe.                  *)
LEMMA FaultsStay == ASSUME TypeInv, [Next]_vars PROVE UNCHANGED u /\ faults \subseteq faults'
<1>1. \A it : Fault(it) => faults \subseteq faults'
  BY FaultHappens
<1>2. CASE ResolveTopLevel
  BY <1>2 DEF ResolveTopLevel
<1>3. CASE FailTopLevel
  <2>1. UNCHANGED u /\ (UNCHANGED faults \/ \E it : Fault(it))
    BY <1>3, Zenon DEF FailTopLevel
  <2> QED BY <1>1, <2>1
<1>4. CASE \E i \in DOMAIN stack : FinishResolution(i) \/ FetchSource(i)
  <2>1. PICK i \in DOMAIN stack : FinishResolution(i) \/ FetchSource(i)
    BY <1>4
  <2>2. UNCHANGED faults \/ \E it : Fault(it)
    BY <2>1, Zenon DEF FinishResolution, FetchSource
  <2> QED BY <1>1, <2>1, <2>2, ThreadTasks
<1>5. CASE RunItem
  <2>1. UNCHANGED faults \/ \E it : Fault(it)
    <3>1. CASE RunResolve
      BY <3>1, Zenon DEF RunResolve
    <3>2. CASE RunStart
      BY <3>2, Zenon DEF RunStart
    <3>3. CASE RunPrepareSource
      BY <3>3, Zenon DEF RunPrepareSource
    <3>4. CASE RunPrepareBuild
      BY <3>4, Zenon DEF RunPrepareBuild
    <3>5. CASE RunBuild
      BY <3>5, Zenon DEF RunBuild, Build
    <3>6. CASE RunProcessInstallDeps
      BY <3>6, Zenon DEF RunProcessInstallDeps
    <3>7. CASE RunComplete
      BY <3>7, Zenon DEF RunComplete
    <3> QED BY <1>5, <3>1, <3>2, <3>3, <3>4, <3>5, <3>6, <3>7 DEF RunItem
  <2> QED BY <1>1, <1>5, <2>1, RunItemPuts
<1>6. CASE Finalize
  BY <1>6 DEF Finalize
<1>7. CASE UNCHANGED vars
  BY <1>7 DEF vars
<1> QED BY <1>2, <1>3, <1>4, <1>5, <1>6, <1>7, Zenon DEF Next

LEMMA HealthInductive == TypeInv /\ FetchInv /\ HealthInv /\ [Next]_vars => HealthInv'
<1> SUFFICES ASSUME TypeInv, FetchInv, HealthInv, [Next]_vars, Calm' PROVE Healthy'
  BY Zenon DEF HealthInv, Healthy
<1>1. UNCHANGED u /\ faults \subseteq faults'
  BY FaultsStay
<1>2. Buildable /\ CalmBy(faults') /\ Calm
  BY <1>1, CalmIsCalmBy DEF CalmBy, Calm
<1>3. CASE pc = "aborted"
  <2>1. faults # {}
    BY <1>2, <1>3 DEF HealthInv
  <2>2. ~Next
    BY <1>3, ThreadTasks, RunItemPuts, Zenon DEF Next, ResolveTopLevel, FailTopLevel, Finalize
  <2>3. pc' = "aborted" /\ faults' = faults
    BY <1>3, <2>2 DEF vars
  <2> QED BY <2>1, <2>3 DEF Healthy
<1>4. CASE pc # "aborted"
  <2>1. Quiet /\ HealthNow
    BY <1>2, <1>4 DEF HealthInv
  <2>2. CASE ResolveTopLevel
    <3>1. \A i \in DOMAIN stack : stack[i].phase = "resolve"
      BY <2>2, TopLevelTasks DEF FetchInv
    <3> QED BY <1>2, <2>1, <2>2, <3>1, ResolveTopLevelHealth
  <2>3. CASE FailTopLevel
    BY <1>2, <2>1, <2>3, FailTopLevelHealth
  <2>4. CASE \E i \in DOMAIN stack : FinishResolution(i) \/ FetchSource(i)
    BY <1>2, <2>1, <2>4, ThreadHealth
  <2>5. CASE RunItem
    BY <1>2, <2>1, <2>5, RunResolveHealth, RunStartHealth, RunPrepareSourceHealth,
       RunPrepareBuildHealth, RunBuildHealth, RunProcessInstallDepsHealth, RunCompleteHealth
       DEF RunItem
  <2>6. CASE Finalize
    BY <1>2, <2>1, <2>6, NothingMoves DEF Finalize, records, dirs
  <2>7. CASE UNCHANGED vars
    BY <1>2, <1>4, <2>1, <2>7, NothingMoves DEF vars, records, dirs
  <2> QED BY <2>2, <2>3, <2>4, <2>5, <2>6, <2>7 DEF Next
<1> QED BY <1>3, <1>4

LEMMA HealthIsInvariant == Spec => []HealthInv
  BY HealthInit, TypeIsInvariant, FetchIsInvariant, HealthInductive, PTL DEF Spec

(* In a universe that asks for nothing impossible the loop fails only by a      *)
(* fault from outside: whatever the requirements are, every wheel that a build  *)
(* environment needs is in the local wheel server before uv is asked to install *)
(* it, and every requirement resolves (Bootstrapper.run and the phases).       *)
THEOREM OrderOfVisitsIsEnough == Spec => []NoFailureWithoutFault
<1>1. HealthInv => NoFailureWithoutFault
  BY DEF HealthInv, Calm, Quiet, NoFailureWithoutFault
<1> QED BY <1>1, HealthIsInvariant, PTL

-----------------------------------------------------------------------------
(* The build order.                                                          *)
OneEnvironment == \A p \in Pkg : InstallsFrom(BuildRequires(p), Everything)

(* What an entry of a build order needs is before it.                         *)
Follows(order) ==
  \A i \in DOMAIN order :
    order[i][1] \notin u.prebuilt =>
      InstallsFrom(BuildRequires(order[i]), {order[j] : j \in 1..(i - 1)})

LEMMA AppendFollows ==
  ASSUME NEW order \in Seq(Pkg), NEW p \in Pkg, Follows(order),
         p[1] \notin u.prebuilt => InstallsFrom(BuildRequires(p), ElementsOf(order))
  PROVE  Follows(AddToBuildOrder(order, p))
<1>1. CASE \E i \in DOMAIN order : order[i] = p
  BY <1>1 DEF AddToBuildOrder
<1>2. CASE ~\E i \in DOMAIN order : order[i] = p
  <2>1. PICK n \in Nat : n = Len(order)
    OBVIOUS
  <2>2. PICK longer : longer = Append(order, p)
    OBVIOUS
  <2>3. /\ DOMAIN order = 1..n /\ DOMAIN longer = 1..(n + 1)
        /\ \A i \in 1..n : longer[i] = order[i]
        /\ longer[n + 1] = p
    BY <2>1, <2>2
  <2>4. ASSUME NEW i \in 1..(n + 1)
        PROVE  {longer[j] : j \in 1..(i - 1)} = {order[j] : j \in 1..(i - 1)}
    <3>1. \A j \in 1..(i - 1) : j \in 1..n
      OBVIOUS
    <3> QED BY <2>3, <3>1
  <2>5. ASSUME NEW i \in 1..(n + 1), longer[i][1] \notin u.prebuilt
        PROVE  InstallsFrom(BuildRequires(longer[i]), {longer[j] : j \in 1..(i - 1)})
    <3>1. CASE i \in 1..n
      BY <2>3, <2>4, <2>5, <3>1 DEF Follows
    <3>2. CASE i = n + 1
      <4>1. (n + 1) - 1 = n
        OBVIOUS
      <4>2. {order[j] : j \in 1..(i - 1)} = ElementsOf(order)
        BY <2>3, <3>2, <4>1 DEF ElementsOf
      <4>3. InstallsFrom(BuildRequires(p), ElementsOf(order))
        BY <2>3, <2>5, <3>2
      <4> QED BY <2>3, <2>4, <3>2, <4>2, <4>3
    <3>3. i \in 1..n \/ i = n + 1
      OBVIOUS
    <3> QED BY <3>1, <3>2, <3>3
  <2>6. AddToBuildOrder(order, p) = longer
    BY <1>2, <2>2 DEF AddToBuildOrder
  <2> QED BY <2>3, <2>5, <2>6 DEF Follows
<1> QED BY <1>1, <1>2

(* Whatever is built can be built from the build order before it.              *)
LEMMA NeededIsInOrder ==
  ASSUME TypeInv, Buildable, OneEnvironment, HealthNow, stack # <<>>,
         Top.phase = "process-install-deps", Top.req.name \notin u.prebuilt
  PROVE  InstallsFrom(BuildRequires(PkgOf(Top)), ElementsOf(buildOrder))
<1>1. PICK p \in Pkg : p = PkgOf(Top)
  BY TopIsSound, SoleCandidate DEF Sound
<1>2. Top.phase \notin Asking /\ p = Soles[Top.req] /\ p[1] = Top.req.name
  BY <1>1, TopIsSound DEF Sound, Asking, PkgOf
<1>3. \A r \in BuildRequires(p) : Answered(r, seen)
  BY <1>2, TopIsSound, JobFields DEF WaitsFor
<1>4. \A q \in NeedsOf[p] : \A x \in BOOLEAN : <<q[1], x, q[2], "wheel">> \in seen =>
        q \in ElementsOf(buildOrder) /\ \A r \in Installs(q, x) : Answered(r, seen)
  BY <1>1, <1>2, NothingNeededIsInWork
<1>5. InstallsFrom(BuildRequires(p), Everything)
  BY DEF OneEnvironment
<1>6. InstallsFrom(BuildRequires(p), ElementsOf(buildOrder))
  BY <1>3, <1>4, <1>5, EnvironmentFrom
<1> QED BY <1>1, <1>6

LEMMA OrderGrows ==
  ASSUME TypeInv, [Next]_vars
  PROVE  \/ buildOrder' = buildOrder
         \/ RunProcessInstallDeps /\ buildOrder' = AddToBuildOrder(buildOrder, PkgOf(Top))
<1>1. \A it, g, left : PhaseFailed(it, g, left) => buildOrder' = buildOrder
  BY Zenon DEF PhaseFailed
<1>2. CASE ResolveTopLevel
  BY <1>2, TopLevelTasks
<1>3. CASE FailTopLevel
  BY <1>3, Zenon DEF FailTopLevel
<1>4. CASE \E i \in DOMAIN stack : FinishResolution(i) \/ FetchSource(i)
  BY <1>4, ThreadTasks DEF records
<1>5. CASE RunItem
  <2>1. CASE RunResolve
    BY <2>1, Zenon DEF RunResolve
  <2>2. CASE RunStart
    BY <1>1, <2>2, Zenon DEF RunStart
  <2>3. CASE RunPrepareSource
    BY <1>1, <2>3 DEF RunPrepareSource, records
  <2>4. CASE RunPrepareBuild
    BY <1>1, <2>4, Zenon DEF RunPrepareBuild
  <2>5. CASE RunBuild
    BY <1>1, <2>5 DEF RunBuild, Build, records
  <2>6. CASE RunProcessInstallDeps
    BY <1>1, <2>6, Zenon DEF RunProcessInstallDeps
  <2>7. CASE RunComplete
    BY <2>7 DEF RunComplete, records
  <2> QED BY <1>5, <2>1, <2>2, <2>3, <2>4, <2>5, <2>6, <2>7 DEF RunItem
<1>6. CASE Finalize
  BY <1>6 DEF Finalize, records
<1>7. CASE UNCHANGED vars
  BY <1>7 DEF vars, records
<1> QED BY <1>2, <1>3, <1>4, <1>5, <1>6, <1>7, Zenon DEF Next

OrderInv == Calm /\ OneEnvironment => Follows(buildOrder)

LEMMA InstallsStays ==
  ASSUME UNCHANGED u, NEW asked, NEW wheels, InstallsFrom(asked, wheels)
  PROVE  InstallsFrom(asked, wheels)'
<1>1. PICK env \in SUBSET wheels, extended \in SUBSET Name :
        LET reqs == UNION ({asked} \cup {u.install[p] : p \in env}
                             \cup {u.extra[p] : p \in {q \in env : q[1] \in extended}})
        IN  /\ \A p, q \in env : p[1] = q[1] => p = q
            /\ \A r \in reqs : /\ \E p \in env : p[1] = r.name /\ p[2] \in r.spec
                               /\ r.extras => r.name \in extended
  BY DEF InstallsFrom
<1>2. PICK reqs : reqs = UNION ({asked} \cup {u.install[p] : p \in env}
                                  \cup {u.extra[p] : p \in {q \in env : q[1] \in extended}})
  OBVIOUS
<1>3. reqs = UNION ({asked} \cup {u'.install[p] : p \in env}
                      \cup {u'.extra[p] : p \in {q \in env : q[1] \in extended}})
  BY <1>2
<1>4. /\ \A p, q \in env : p[1] = q[1] => p = q
      /\ \A r \in reqs : /\ \E p \in env : p[1] = r.name /\ p[2] \in r.spec
                         /\ r.extras => r.name \in extended
  BY <1>1, <1>2
<1> QED BY <1>3, <1>4 DEF InstallsFrom

LEMMA OrderStays ==
  ASSUME UNCHANGED u
  PROVE  /\ OneEnvironment' <=> OneEnvironment
         /\ \A order : Follows(order) => Follows(order)'
<1>1. PICK all : all = Everything
  OBVIOUS
<1>2. all = Everything'
  BY <1>1, UniverseStays
<1>3. (\A p \in Pkg : InstallsFrom(BuildRequires(p), all))'
        <=> \A p \in Pkg : InstallsFrom(BuildRequires(p), all)
  BY DEF InstallsFrom, BuildRequires
<1>4. OneEnvironment' <=> OneEnvironment
  BY <1>1, <1>2, <1>3 DEF OneEnvironment
<1>5. ASSUME NEW order, Follows(order) PROVE Follows(order)'
  <2> SUFFICES ASSUME NEW i \in DOMAIN order, order[i][1] \notin u'.prebuilt
               PROVE  InstallsFrom(BuildRequires(order[i]), {order[j] : j \in 1..(i - 1)})'
    BY DEF Follows
  <2>1. PICK asked, wheels : asked = BuildRequires(order[i]) /\ wheels = {order[j] : j \in 1..(i - 1)}
    OBVIOUS
  <2>2. InstallsFrom(asked, wheels)
    BY <1>5, <2>1 DEF Follows
  <2>3. InstallsFrom(asked, wheels)'
    BY <2>2, InstallsStays
  <2>4. asked = BuildRequires(order[i])'
    BY <2>1 DEF BuildRequires
  <2> QED BY <2>1, <2>3, <2>4
<1> QED BY <1>4, <1>5

LEMMA OrderStep == TypeInv /\ HealthInv /\ OrderInv /\ [Next]_vars => OrderInv'
<1> SUFFICES ASSUME TypeInv, HealthInv, OrderInv, [Next]_vars, Calm', OneEnvironment'
             PROVE  Follows(buildOrder)'
  BY DEF OrderInv
<1>1. UNCHANGED u /\ faults \subseteq faults'
  BY FaultsStay
<1>2. Buildable /\ CalmBy(faults') /\ Calm /\ OneEnvironment
  BY <1>1, CalmIsCalmBy, OrderStays DEF CalmBy, Calm
<1>3. Follows(buildOrder)
  BY <1>2 DEF OrderInv
<1>4. PICK order : order = buildOrder'
  OBVIOUS
<1>5. Follows(order)
  <2>1. CASE buildOrder' = buildOrder
    BY <1>3, <1>4, <2>1
  <2>2. CASE RunProcessInstallDeps /\ buildOrder' = AddToBuildOrder(buildOrder, PkgOf(Top))
    <3>1. pc = "loop" /\ stack # <<>> /\ Top.phase = "process-install-deps"
      BY <2>2, Zenon DEF RunProcessInstallDeps, Running
    <3>2. HealthNow
      BY <1>2, <3>1 DEF HealthInv
    <3>3. PkgOf(Top) \in Pkg /\ PkgOf(Top)[1] = Top.req.name
      BY <1>2, <3>1, <3>2, TopIsSound, SoleCandidate DEF Sound, PkgOf
    <3>4. buildOrder \in Seq(Pkg)
      BY DEF TypeInv, RecordsTypeOK
    <3>5. PkgOf(Top)[1] \notin u.prebuilt =>
            InstallsFrom(BuildRequires(PkgOf(Top)), ElementsOf(buildOrder))
      BY <1>2, <3>1, <3>2, <3>3, NeededIsInOrder
    <3>6. Follows(AddToBuildOrder(buildOrder, PkgOf(Top)))
      BY <1>3, <3>3, <3>4, <3>5, AppendFollows
    <3> QED BY <1>4, <2>2, <3>6
  <2> QED BY <2>1, <2>2, OrderGrows
<1>6. Follows(order)'
  BY <1>1, <1>5, OrderStays
<1> QED BY <1>4, <1>6

(* In a calm run over a universe in which, for every package, one environment   *)
(* can hold all its build requirements, build-order.json can be followed from  *)
(* its start: the build requirements of each entry that is built can be         *)
(* installed from the entries before it (Bootstrapper.add_to_build_order).      *)
THEOREM BuildOrderCanBeFollowed ==
  Spec => [](Calm /\ OneEnvironment => BuildableInOrder)
<1>1. Init => OrderInv
  <2> SUFFICES ASSUME Init PROVE Follows(buildOrder)
    BY DEF OrderInv
  <2>1. DOMAIN buildOrder = {}
    BY DEF Init
  <2> QED BY <2>1 DEF Follows
<1>2. OrderInv => (Calm /\ OneEnvironment => BuildableInOrder)
  BY DEF OrderInv, Follows, BuildableInOrder
<1> QED BY <1>1, <1>2, TypeIsInvariant, HealthIsInvariant, OrderStep, PTL DEF Spec

-----------------------------------------------------------------------------
(* What is to be built has no wheel yet.                                     *)
Fresh(it, wheels) == Fetched(it) /\ ~it.cached => Soles[it.req] \notin wheels

AllFresh(s, wheels) == \A i \in DOMAIN s : Fresh(s[i], wheels)

FreshInv == Calm /\ pc # "aborted" => AllFresh(stack, Mirror)

(* The top of the stack is needed by whatever waits below it, and so another.   *)
LEMMA BelowIsFresh ==
  ASSUME TypeInv, FetchInv, Buildable, HealthNow, AllFresh(stack, Mirror), stack # <<>>,
         NEW wheels, wheels \subseteq Mirror \cup {Soles[Top.req]},
         NEW i \in DOMAIN stack, Job(Top) \in Above(stack, i)
  PROVE  Fresh(stack[i], wheels)
<1> SUFFICES ASSUME Fetched(stack[i]), ~stack[i].cached PROVE Soles[stack[i].req] \notin wheels
  BY DEF Fresh
<1>1. i # 1 /\ i > 1
  <2>1. 1..(1 - 1) = {}
    OBVIOUS
  <2>2. Above(stack, 1) = {}
    BY <2>1, Zenon DEF Above
  <2> QED BY <2>2 DEF TypeInv, LoopTypeOK
<1>2. stack[i].phase \in Waiting /\ stack[i].phase # "resolve"
  BY <1>1 DEF FetchInv, NoFetch, Fetched, Waiting
<1>3. stack[i].req \in Known
  BY DEF HealthNow, Health, Sound
<1>4. Placed(Job(stack[i]), Above(stack, i), seen)
  BY DEF HealthNow, Health
<1>5. Soles[Top.req] \in NeedsOf[Soles[stack[i].req]]
  BY <1>2, <1>4, JobFields DEF Placed, Under
<1>6. Soles[stack[i].req] # Soles[Top.req]
  BY <1>3, <1>5, SoleCandidate, NeedsFollow
<1>7. Soles[stack[i].req] \notin Mirror
  BY DEF AllFresh, Fresh
<1> QED BY <1>6, <1>7

LEMMA RunItemFresh ==
  ASSUME TypeInv, FetchInv, Buildable, HealthNow, AllFresh(stack, Mirror), stack # <<>>,
         OnlyOwn, pc' # "aborted"
  PROVE  AllFresh(stack', Mirror')
<1>1. PICK items \in Seq(FitItem) :
        stack' = Push(items) /\ \A i \in DOMAIN items : LeadsTo(Top, items[i])
  BY DEF OnlyOwn
<1>2. PICK wheels : wheels = Mirror'
  OBVIOUS
<1>3. wheels \subseteq Mirror \cup {Soles[Top.req]}
  BY <1>2 DEF OnlyOwn
<1>4. PICK new : new = Push(items)
  OBVIOUS
<1>5. ASSUME NEW k \in DOMAIN new PROVE Fresh(new[k], wheels)
  <2>1. CASE \E i \in DOMAIN items : new[k] = items[i]
    <3>1. PICK it : it = new[k] /\ LeadsTo(Top, it)
      BY <1>1, <2>1
    <3>2. Fresh(Top, Mirror)
      BY DEF AllFresh, Top, TypeInv, LoopTypeOK
    <3> QED BY <1>2, <3>1, <3>2 DEF Fresh, LeadsTo
  <2>2. CASE \E i \in DOMAIN stack : new[k] = stack[i] /\ Job(Top) \in Above(stack, i)
    BY <1>3, <2>2, BelowIsFresh
  <2>3. \/ \E i \in DOMAIN items : Push(items)[k] = items[i] /\ Above(Push(items), k) = Above(items, i)
        \/ \E i \in DOMAIN stack : \E A :
             /\ Push(items)[k] = stack[i] /\ Above(stack, i) = {Job(Top)} \cup A
             /\ Above(Push(items), k) = Jobs(items) \cup A
    BY <1>4, AbovePush
  <2> QED BY <1>4, <2>1, <2>2, <2>3
<1> QED BY <1>1, <1>2, <1>4, <1>5 DEF AllFresh

LEMMA ThreadFresh ==
  ASSUME TypeInv, FetchInv, Buildable, HealthNow, AllFresh(stack, Mirror),
         NEW i \in DOMAIN stack, OneEnds(i)
  PROVE  AllFresh(stack', Mirror')
<1>1. PICK future, cached :
        /\ stack' = [stack EXCEPT ![i] = Ended(stack[i], future, cached)]
        /\ stack[i].phase \notin Waiting
        /\ \/ Mirror' = Mirror
           \/ stack[i].phase = "prepare-source" /\ Mirror' \subseteq Mirror \cup {Soles[stack[i].req]}
        /\ /\ stack[i].phase = "prepare-source" /\ future = "done"
           /\ stack[i].req.name \notin u.prebuilt /\ ~cached
           => Soles[stack[i].req] \notin Mirror'
  BY DEF OneEnds
<1>2. PICK wheels : wheels = Mirror'
  OBVIOUS
<1>3. PICK it \in FitItem : it = stack[i]
  BY DEF TypeInv, LoopTypeOK
<1>4. PICK new : new = Ended(it, future, cached)
  OBVIOUS
<1>5. new.phase = it.phase /\ new.req = it.req /\ new.future = future /\ new.cached = cached
  BY ONLY <1>4, it \in FitItem DEF FitItem, Item, Ended
<1>6. PICK s : s = stack'
  OBVIOUS
<1>7. DOMAIN s = DOMAIN stack /\ s[i] = new /\ \A j \in DOMAIN stack : j # i => s[j] = stack[j]
  BY <1>1, <1>3, <1>4, <1>6 DEF TypeInv, LoopTypeOK
<1>8. Fresh(new, wheels)
  BY <1>1, <1>2, <1>3, <1>5 DEF Fresh, Fetched
<1>9. ASSUME NEW j \in DOMAIN stack, j # i PROVE Fresh(stack[j], wheels)
  <2>1. CASE Mirror' = Mirror
    BY <1>2, <2>1 DEF AllFresh
  <2>2. CASE stack[i].phase = "prepare-source" /\ Mirror' \subseteq Mirror \cup {Soles[stack[i].req]}
    <3>1. i = 1 /\ j > 1 /\ stack # <<>> /\ stack[1] = Top
      BY <1>9, <2>2 DEF FetchInv, NoFetch, TypeInv, LoopTypeOK, Top
    <3>2. 1 \in 1..(j - 1)
      BY <3>1 DEF TypeInv, LoopTypeOK
    <3>3. Job(Top) \in Above(stack, j)
      BY <3>1, <3>2 DEF Above
    <3>4. wheels \subseteq Mirror \cup {Soles[Top.req]}
      BY <1>2, <2>2, <3>1
    <3> QED BY <3>1, <3>3, <3>4, BelowIsFresh
  <2> QED BY <1>1, <2>1, <2>2
<1> QED BY <1>2, <1>6, <1>7, <1>8, <1>9 DEF AllFresh

LEMMA FreshStays == ASSUME UNCHANGED u PROVE AllFresh(stack', Mirror') => AllFresh(stack, Mirror)'
<1>1. PICK s, wheels : s = stack' /\ wheels = Mirror'
  OBVIOUS
<1>2. AllFresh(s, wheels) => AllFresh(s, wheels)'
  BY UniverseStays DEF AllFresh, Fresh, Fetched
<1> QED BY <1>1, <1>2 DEF AllFresh

LEMMA FreshStep == TypeInv /\ FetchInv /\ HealthInv /\ FreshInv /\ [Next]_vars => FreshInv'
<1> SUFFICES ASSUME TypeInv, FetchInv, HealthInv, FreshInv, [Next]_vars, Calm', pc' # "aborted"
             PROVE  AllFresh(stack', Mirror')
  BY FaultsStay, FreshStays DEF FreshInv
<1>1. UNCHANGED u /\ faults \subseteq faults'
  BY FaultsStay
<1>2. Buildable /\ CalmBy(faults') /\ Calm
  BY <1>1, CalmIsCalmBy DEF CalmBy, Calm
<1>3. pc # "aborted"
  <2>1. pc = "aborted" => ~Next
    BY ThreadTasks, RunItemPuts, Zenon DEF Next, ResolveTopLevel, FailTopLevel, Finalize
  <2> QED BY <2>1 DEF vars
<1>4. Quiet /\ HealthNow /\ AllFresh(stack, Mirror)
  BY <1>2, <1>3 DEF HealthInv, FreshInv
<1>5. CASE stack' = stack /\ UNCHANGED dirs
  <2>1. Mirror' = Mirror
    BY <1>5 DEF Mirror, dirs
  <2> QED BY <1>4, <1>5, <2>1
<1>6. CASE ResolveTopLevel
  <2>1. \A i \in DOMAIN stack' : stack'[i].phase = "resolve"
    BY <1>6, TopLevelTasks DEF FetchInv
  <2> QED BY <2>1 DEF AllFresh, Fresh, Fetched, Waiting
<1>7. CASE FailTopLevel
  BY <1>5, <1>7, Zenon DEF FailTopLevel
<1>8. CASE \E i \in DOMAIN stack : FinishResolution(i) \/ FetchSource(i)
  BY <1>2, <1>4, <1>8, ThreadHealth, ThreadFresh
<1>9. CASE RunItem
  <2>1. OnlyOwn
    BY <1>2, <1>4, <1>9, RunResolveHealth, RunStartHealth, RunPrepareSourceHealth,
       RunPrepareBuildHealth, RunBuildHealth, RunProcessInstallDepsHealth, RunCompleteHealth
       DEF RunItem
  <2>2. stack # <<>>
    BY <1>9, RunItemPuts
  <2> QED BY <1>2, <1>4, <2>1, <2>2, RunItemFresh
<1>10. CASE Finalize
  BY <1>5, <1>10 DEF Finalize
<1>11. CASE UNCHANGED vars
  BY <1>5, <1>11 DEF vars
<1> QED BY <1>6, <1>7, <1>8, <1>9, <1>10, <1>11 DEF Next

(* In a calm run no wheel that the local wheel server has is built once more,    *)
(* whatever extras the package is asked for with (Bootstrapper.has_been_seen,   *)
(* find_cached_wheel).                                                       *)
THEOREM NothingIsBuiltTwice == Spec /\ []Calm => NoRebuild
<1>1. Init => FreshInv
  <2> SUFFICES ASSUME Init PROVE AllFresh(stack, Mirror)
    BY DEF FreshInv
  <2>1. DOMAIN stack = {}
    BY DEF Init
  <2> QED BY <2>1 DEF AllFresh
<1>2. ASSUME TypeInv, HealthInv, FreshInv, Calm, RunBuild, ~Top.cached, ~Top.sdistOnly
      PROVE  PkgOf(Top) \notin Mirror
  <2>1. pc = "loop" /\ stack # <<>> /\ Top.phase = "build"
    BY <1>2, Zenon DEF RunBuild, Running
  <2>2. HealthNow /\ AllFresh(stack, Mirror)
    BY <1>2, <2>1 DEF HealthInv, FreshInv
  <2>3. Fresh(Top, Mirror)
    BY <1>2, <2>1, <2>2 DEF AllFresh, Top, TypeInv, LoopTypeOK
  <2>4. PkgOf(Top) = Soles[Top.req]
    BY <1>2, <2>1, <2>2, TopIsSound DEF Sound
  <2> QED BY <1>2, <2>1, <2>3, <2>4 DEF Fresh, Fetched, Waiting
<1>3. TypeInv /\ HealthInv /\ FreshInv /\ Calm =>
        [RunBuild /\ ~Top.cached /\ ~Top.sdistOnly => PkgOf(Top) \notin Mirror]_vars
  BY <1>2
<1> QED BY <1>1, <1>3, TypeIsInvariant, FetchIsInvariant, HealthIsInvariant, FreshStep, PTL
        DEF Spec, NoRebuild

-----------------------------------------------------------------------------
(* The wheels of --sdist-only.  What some build needs, as the graph tells.      *)
NeedsIn(g) == UNION {BuildRequirements(g, n) : n \in g.nodes}

LEMMA NeedsOfEdges ==
  ASSUME NEW g, WellFormed(g)
  PROVE  /\ NeedsIn(g) \subseteq g.nodes /\ ClosedUnder(g, NeedsIn(g), InstallType)
         /\ \A e \in g.edges : e.type \in BuildType => e.child \in NeedsIn(g)
         /\ \A C \in SUBSET g.nodes :
              ClosedUnder(g, C, InstallType) /\ (\A e \in g.edges : e.type \in BuildType => e.child \in C)
              => NeedsIn(g) \subseteq C
<1>1. \A e \in g.edges : e.parent \in g.nodes /\ e.child \in g.nodes
  BY DEF WellFormed
<1>2. ASSUME NEW n \in g.nodes
      PROVE  LET needs == BuildRequirements(g, n)
             IN  /\ Children(g, n, BuildType) \subseteq needs /\ needs \subseteq g.nodes
                 /\ ClosedUnder(g, needs, InstallType)
                 /\ \A C \in SUBSET g.nodes :
                      Children(g, n, BuildType) \subseteq C /\ ClosedUnder(g, C, InstallType)
                      => needs \subseteq C
  <2>1. Children(g, n, BuildType) \in SUBSET g.nodes
    BY <1>1 DEF Children
  <2> QED BY <1>1, <2>1, ClosureIsLeast DEF BuildRequirements
<1>3. NeedsIn(g) \subseteq g.nodes /\ ClosedUnder(g, NeedsIn(g), InstallType)
  BY <1>2 DEF NeedsIn, ClosedUnder
<1>4. \A e \in g.edges : e.type \in BuildType => e.child \in NeedsIn(g)
  <2> SUFFICES ASSUME NEW e \in g.edges, e.type \in BuildType PROVE e.child \in NeedsIn(g)
    OBVIOUS
  <2>1. e.parent \in g.nodes /\ e.child \in Children(g, e.parent, BuildType)
    BY <1>1 DEF Children
  <2> QED BY <1>2, <2>1 DEF NeedsIn
<1>5. ASSUME NEW C \in SUBSET g.nodes, ClosedUnder(g, C, InstallType),
             \A e \in g.edges : e.type \in BuildType => e.child \in C
      PROVE  NeedsIn(g) \subseteq C
  <2>1. \A n \in g.nodes : Children(g, n, BuildType) \subseteq C
    BY <1>5 DEF Children
  <2> QED BY <1>2, <1>5, <2>1 DEF NeedsIn
<1> QED BY <1>3, <1>4, <1>5

LEMMA NeedsGrow ==
  ASSUME NEW g, NEW h, WellFormed(g), WellFormed(h), g.nodes \subseteq h.nodes, g.edges \subseteq h.edges
  PROVE  NeedsIn(g) \subseteq NeedsIn(h)
<1>1. PICK C : C = NeedsIn(h) \cap g.nodes
  OBVIOUS
<1>2. ClosedUnder(g, C, InstallType) /\ \A e \in g.edges : e.type \in BuildType => e.child \in C
  BY <1>1, NeedsOfEdges DEF ClosedUnder, WellFormed
<1> QED BY <1>1, <1>2, NeedsOfEdges

(* What an item asks for in the context of a build is asked for by a package    *)
(* that some build needs, is needed itself once its edge is recorded, and only  *)
(* then gets a wheel.                                                        *)
InPlace(it, needed) ==
  /\ it.phase \notin Asking => it.sdistOnly = OnlySdist(it)
  /\ BuildContext(it) =>
       /\ it.type # "toplevel"
       /\ it.type \in InstallType => it.parent \in needed
       /\ it.phase \notin Asking => PkgOf(it) \in needed

AllInPlace(s, needed) == \A i \in DOMAIN s : InPlace(s[i], needed)

WheelsInv ==
  failedVersions = {} =>
    /\ AllInPlace(stack, NeedsIn(graph))
    /\ wheelsBuild \cup downloads \subseteq u.cache \cup NeedsIn(graph)

SameAsk(new, it) ==
  new.req = it.req /\ new.type = it.type /\ new.why = it.why /\ new.parent = it.parent

(* The top in a later phase, the top when its edge is recorded, or what it asks. *)
Continues(new) ==
  /\ SameAsk(new, Top)
  /\ new.phase \notin Asking =>
       Top.phase \notin Asking /\ new.ver = Top.ver /\ new.sdistOnly = Top.sdistOnly

IsStarted(new) ==
  /\ SameAsk(new, Top) /\ new.ver = Top.ver /\ new.sdistOnly = OnlySdist(Top)
  /\ Top.type # "toplevel" =>
       [parent |-> Top.parent, type |-> Top.type, child |-> PkgOf(Top)] \in graph'.edges

IsAsked(new) ==
  Top.phase \notin Asking /\ \E r \in Req : \E type \in ReqType \ {"toplevel"} : new = RequestOf(Top, r, type)

OfTop(new) == Continues(new) \/ IsStarted(new) \/ IsAsked(new)

LEMMA SameContext ==
  ASSUME NEW new, NEW it, SameAsk(new, it)
  PROVE  BuildContext(new) = BuildContext(it) /\ OnlySdist(new) = OnlySdist(it)
  BY DEF SameAsk, BuildContext, OnlySdist

LEMMA RequestContext ==
  ASSUME NEW it \in FitItem, NEW r, NEW type \in ReqType, BuildContext(RequestOf(it, r, type))
  PROVE  type \in BuildType \/ BuildContext(it)
<1>1. PICK new : new = RequestOf(it, r, type)
  OBVIOUS
<1>2. new.type = type /\ new.why = Append(it.why, LinkOf(it))
  BY <1>1 DEF RequestOf, NewItem
<1>3. it.why \in Seq(Link) /\ LinkOf(it).type = it.type
  BY ItemFields DEF LinkOf
<1>4. CASE \E i \in DOMAIN new.why : new.why[i].type \in BuildType
  <2>1. PICK i \in DOMAIN new.why : new.why[i].type \in BuildType
    BY <1>4
  <2>2. (i \in DOMAIN it.why /\ new.why[i] = it.why[i]) \/ new.why[i] = LinkOf(it)
    BY <1>2, <1>3, <2>1
  <2>3. it.type \in ReqType
    BY ItemFields
  <2> QED BY <1>3, <2>1, <2>2, <2>3 DEF BuildContext, ReqType
<1> QED BY <1>1, <1>2, <1>4 DEF BuildContext

LEMMA OfTopInPlace ==
  ASSUME TypeInv, stack # <<>>, WellFormed(graph'), NEW needed, needed \subseteq NeedsIn(graph'),
         InPlace(Top, needed), NEW new, OfTop(new)
  PROVE  InPlace(new, NeedsIn(graph'))
<1>1. Top \in FitItem /\ Top.type \in ReqType
  BY TopFits, ItemFields
<1>2. CASE Continues(new)
  <2>1. SameAsk(new, Top) /\ BuildContext(new) = BuildContext(Top) /\ OnlySdist(new) = OnlySdist(Top)
    BY <1>2, SameContext DEF Continues
  <2>2. new.phase \notin Asking => PkgOf(new) = PkgOf(Top)
    BY <1>2, <2>1 DEF Continues, PkgOf, SameAsk
  <2> QED BY <1>2, <2>1, <2>2 DEF InPlace, Continues, SameAsk
<1>3. CASE IsStarted(new)
  <2>1. SameAsk(new, Top) /\ BuildContext(new) = BuildContext(Top) /\ OnlySdist(new) = OnlySdist(Top)
    BY <1>3, SameContext DEF IsStarted
  <2>2. PkgOf(new) = PkgOf(Top)
    BY <1>3, <2>1 DEF IsStarted, PkgOf, SameAsk
  <2>3. ASSUME BuildContext(Top) PROVE PkgOf(Top) \in NeedsIn(graph')
    <3>1. PICK e : e = [parent |-> Top.parent, type |-> Top.type, child |-> PkgOf(Top)]
      OBVIOUS
    <3>2. e \in graph'.edges
      BY <1>3, <2>3, <3>1 DEF InPlace, IsStarted
    <3>3. e.type \in BuildType \/ (e.type \in InstallType /\ e.parent \in NeedsIn(graph'))
      BY <1>1, <2>3, <3>1 DEF InPlace, ReqType
    <3>4. e.child \in NeedsIn(graph')
      BY <3>2, <3>3, NeedsOfEdges DEF ClosedUnder
    <3> QED BY <3>1, <3>4
  <2> QED BY <1>3, <2>1, <2>2, <2>3 DEF InPlace, IsStarted, SameAsk
<1>4. CASE IsAsked(new)
  <2>1. PICK r \in Req, type \in ReqType \ {"toplevel"} : new = RequestOf(Top, r, type)
    BY <1>4 DEF IsAsked
  <2>2. new.phase = "resolve" /\ new.type = type /\ new.parent = PkgOf(Top) /\ Top.phase \notin Asking
    BY <1>4, <2>1 DEF RequestOf, NewItem, IsAsked
  <2>3. BuildContext(new) /\ type \in InstallType => BuildContext(Top)
    BY <1>1, <2>1, RequestContext DEF BuildType, InstallType
  <2> QED BY <2>2, <2>3 DEF InPlace, Asking
<1> QED BY <1>2, <1>3, <1>4 DEF OfTop

(* A step of the loop.                                                       *)
Building(it) == IF it.phase = "build" /\ ~it.sdistOnly THEN {PkgOf(it)} ELSE {}

LoopStep ==
  failedVersions' = {} =>
    /\ failedVersions = {} /\ UNCHANGED u
    /\ graph.nodes \subseteq graph'.nodes /\ graph.edges \subseteq graph'.edges
    /\ \E items \in Seq(FitItem) : stack' = Push(items) /\ \A i \in DOMAIN items : OfTop(items[i])
    /\ wheelsBuild' \cup downloads' \subseteq wheelsBuild \cup downloads \cup u.cache \cup Building(Top)

LEMMA NoItems == \E items \in Seq(FitItem) : items = <<>> /\ \A i \in DOMAIN items : OfTop(items[i])
<1>1. PICK items : items = <<>>
  OBVIOUS
<1>2. items \in Seq(FitItem) /\ DOMAIN items = {}
  BY <1>1
<1> QED BY <1>1, <1>2

LEMMA InPlaceStays ==
  ASSUME NEW it, NEW needed, NEW more, needed \subseteq more, InPlace(it, needed)
  PROVE  InPlace(it, more)
  BY DEF InPlace

LEMMA LoopKeepsWheels ==
  ASSUME TypeInv, TypeInv', SdistOnly, WheelsInv, stack # <<>>, LoopStep
  PROVE  WheelsInv'
<1> SUFFICES ASSUME failedVersions' = {}
             PROVE  /\ AllInPlace(stack', NeedsIn(graph'))
                    /\ wheelsBuild' \cup downloads' \subseteq u'.cache \cup NeedsIn(graph')
  BY DEF WheelsInv, AllInPlace, InPlace, BuildContext, OnlySdist, NeedsIn
<1>1. /\ failedVersions = {} /\ UNCHANGED u
      /\ graph.nodes \subseteq graph'.nodes /\ graph.edges \subseteq graph'.edges
      /\ wheelsBuild' \cup downloads' \subseteq wheelsBuild \cup downloads \cup u.cache \cup Building(Top)
  BY DEF LoopStep
<1>2. AllInPlace(stack, NeedsIn(graph)) /\ wheelsBuild \cup downloads \subseteq u.cache \cup NeedsIn(graph)
  BY <1>1 DEF WheelsInv
<1>3. WellFormed(graph) /\ WellFormed(graph')
  BY DEF TypeInv, RecordsTypeOK
<1>4. NeedsIn(graph) \subseteq NeedsIn(graph')
  BY <1>1, <1>3, NeedsGrow
<1>5. InPlace(Top, NeedsIn(graph))
  BY <1>2 DEF AllInPlace, Top, TypeInv, LoopTypeOK
<1>6. AllInPlace(stack', NeedsIn(graph'))
  <2>1. PICK items \in Seq(FitItem) : stack' = Push(items) /\ \A i \in DOMAIN items : OfTop(items[i])
    BY DEF LoopStep
  <2>2. \A i \in DOMAIN items : InPlace(items[i], NeedsIn(graph'))
    BY <1>3, <1>4, <1>5, <2>1, OfTopInPlace
  <2>3. \A i \in DOMAIN Tail(stack) : InPlace(Tail(stack)[i], NeedsIn(graph'))
    <3>1. \A i \in DOMAIN Tail(stack) : i + 1 \in DOMAIN stack /\ Tail(stack)[i] = stack[i + 1]
      BY DEF TypeInv, LoopTypeOK
    <3> QED BY <1>2, <1>4, <3>1, InPlaceStays DEF AllInPlace
  <2>4. Tail(stack) \in Seq(FitItem)
    BY DEF TypeInv, LoopTypeOK
  <2>5. PICK rest \in Seq(FitItem) : rest = Tail(stack)
    BY <2>4
  <2>6. PICK all : all = items \o rest
    OBVIOUS
  <2>7. ASSUME NEW i \in DOMAIN all PROVE InPlace(all[i], NeedsIn(graph'))
    <3>1. \/ i \in DOMAIN items /\ all[i] = items[i]
          \/ i - Len(items) \in DOMAIN rest /\ all[i] = rest[i - Len(items)]
      BY <2>6, <2>7
    <3> QED BY <2>2, <2>3, <2>5, <3>1
  <2> QED BY <2>1, <2>5, <2>6, <2>7 DEF AllInPlace, Push
<1>7. Building(Top) \subseteq NeedsIn(graph)
  BY <1>5 DEF Building, InPlace, OnlySdist, Asking
<1> QED BY <1>1, <1>2, <1>4, <1>6, <1>7

(* Outside test mode a failure ends the run or drops a version.               *)
LEMMA FailureIsNoWheel ==
  ASSUME TypeInv, ~TestMode, stack # <<>>, NEW g, NEW left, PhaseFailed(Top, g, left),
         graph.nodes \subseteq g.nodes, graph.edges \subseteq g.edges, left \subseteq Building(Top)
  PROVE  LoopStep
<1> SUFFICES ASSUME failedVersions' = {}
             PROVE  /\ failedVersions = {} /\ UNCHANGED u
                    /\ graph.nodes \subseteq graph'.nodes /\ graph.edges \subseteq graph'.edges
                    /\ stack' = Push(<<>>)
                    /\ wheelsBuild' \cup downloads'
                         \subseteq wheelsBuild \cup downloads \cup u.cache \cup Building(Top)
  BY NoItems DEF LoopStep
<1>1. Abort(g, left) /\ UNCHANGED u
  BY Zenon DEF PhaseFailed, FallBack, RecordFailure, DropVersion
<1> QED BY <1>1 DEF Abort

LEMMA RunResolveWheels == ASSUME TypeInv, RunResolve PROVE LoopStep
<1>1. stack # <<>> /\ Top.phase = "resolve" /\ UNCHANGED <<u, graph>>
  BY DEF RunResolve, Running
<1>2. Top \in FitItem
  BY <1>1, TopFits
<1>3. CASE /\ Usable(Top.req) # {}
           /\ \E missed \in SUBSET Remote(Top.req) :
                /\ \E versions \in ByVersion(Chosen(Top.req, missed)) : stack' = Push(Resolved(Top, versions))
                /\ IF missed # Remote(Top.req)
                     THEN UpdateMirror({Top.req.name} \X (Remote(Top.req) \ missed), {})
                     ELSE UNCHANGED <<wheelsBuild, downloads, prebuiltDir>>
           /\ UNCHANGED failedVersions
  <2>1. PICK missed \in SUBSET Remote(Top.req) :
                /\ \E versions \in ByVersion(Chosen(Top.req, missed)) : stack' = Push(Resolved(Top, versions))
                /\ IF missed # Remote(Top.req)
                     THEN UpdateMirror({Top.req.name} \X (Remote(Top.req) \ missed), {})
                     ELSE UNCHANGED <<wheelsBuild, downloads, prebuiltDir>>
    BY <1>3
  <2>2. PICK versions \in ByVersion(Chosen(Top.req, missed)) : stack' = Push(Resolved(Top, versions))
    BY <2>1
  <2>3. Chosen(Top.req, missed) \subseteq Version
    BY <1>2, <1>3, ItemFields, CandidateVersions
  <2>4. Resolved(Top, versions) \in Seq(FitItem)
    BY <1>2, <2>3, ResolvedFits
  <2>5. \A i \in DOMAIN Resolved(Top, versions) : OfTop(Resolved(Top, versions)[i])
    <3>1. PICK it \in FitItem : it = Top
      BY <1>2
    <3>2. ASSUME NEW v, NEW new, new = [it EXCEPT !.phase = "start", !.ver = v, !.future = "none"]
          PROVE  /\ new.phase = "start" /\ new.req = it.req /\ new.type = it.type
                 /\ new.why = it.why /\ new.parent = it.parent
      BY ONLY <3>2, it \in FitItem DEF FitItem, Item
    <3>3. \A v : OfTop([it EXCEPT !.phase = "start", !.ver = v, !.future = "none"])
      BY <3>1, <3>2 DEF OfTop, Continues, SameAsk, Asking
    <3> QED BY <3>1, <3>3 DEF Resolved
  <2>6. {Top.req.name} \X (Remote(Top.req) \ missed) \subseteq u.cache
    BY DEF Remote
  <2>7. wheelsBuild' \cup downloads' \subseteq wheelsBuild \cup downloads \cup u.cache
    BY <2>1, <2>6 DEF UpdateMirror
  <2> QED BY <1>1, <1>3, <2>2, <2>4, <2>5, <2>7 DEF LoopStep
<1>4. CASE ResolveFailed(Top.req) /\ UNCHANGED <<wheelsBuild, downloads, prebuiltDir>>
  <2>1. failedVersions' = {} => failedVersions = {}
    BY <1>4 DEF ResolveFailed, RecordUnresolved
  <2>2. stack' = Push(<<>>)
    BY <1>4 DEF ResolveFailed
  <2> QED BY <1>1, <1>4, <2>1, <2>2, NoItems DEF LoopStep
<1> QED BY <1>3, <1>4, Zenon DEF RunResolve

LEMMA RunStartWheels == ASSUME TypeInv, ~TestMode, RunStart PROVE LoopStep
<1>1. pc = "loop" /\ stack # <<>> /\ Top.phase = "start"
  BY DEF RunStart, Running
<1>2. Top \in FitItem /\ Top.type \in ReqType /\ Top.parent \in Pkg \cup {ROOT} /\ PkgOf(Top) \in Pkg
  BY <1>1, TopFits, ItemFields
<1>3. PICK g : g = AddToGraph(Top)
  OBVIOUS
<1>4. /\ graph.nodes \subseteq g.nodes /\ graph.edges \subseteq g.edges
      /\ Top.type # "toplevel" /\ Top.parent \in g.nodes =>
           [parent |-> Top.parent, type |-> Top.type, child |-> PkgOf(Top)] \in g.edges
  <2>1. CASE Top.type = "toplevel"
    BY <1>3, <2>1 DEF AddToGraph
  <2>2. CASE Top.type # "toplevel"
    <3>1. g = AddDependency(graph, Top.parent, Top.type, PkgOf(Top))
      BY <1>3, <2>2 DEF AddToGraph
    <3>2. graph \in Graph /\ WellFormed(graph)
      BY DEF TypeInv, RecordsTypeOK
    <3>3. PICK e : e = [parent |-> Top.parent, type |-> Top.type, child |-> PkgOf(Top)]
      OBVIOUS
    <3>4. /\ g.nodes = graph.nodes \cup {PkgOf(Top)}
          /\ g.edges = graph.edges \cup IF Top.parent \in g.nodes THEN {e} ELSE {}
      BY <1>2, <3>1, <3>2, <3>3, AddDependencyFits
    <3> QED BY <3>3, <3>4
  <2> QED BY <2>1, <2>2
<1>5. CASE PhaseFailed(Top, g, {})
  BY <1>1, <1>4, <1>5, FailureIsNoWheel
<1>6. CASE /\ Top.type = "toplevel" \/ Top.parent \in g.nodes
           /\ graph' = g
           /\ \/ stack' = Push(<<>>)
              \/ stack' = Push(<<[Top EXCEPT !.phase = "prepare-source", !.future = "pending",
                                             !.sdistOnly = OnlySdist(Top)]>>)
           /\ UNCHANGED <<u, failedVersions, dirs>>
  <2>1. PICK new : new = [Top EXCEPT !.phase = "prepare-source", !.future = "pending",
                                     !.sdistOnly = OnlySdist(Top)]
    OBVIOUS
  <2>2. new \in FitItem
    BY <1>1, <2>1, StartedFits
  <2>3. PICK it \in FitItem : it = Top
    BY <1>2
  <2>4. PICK only : only = OnlySdist(Top)
    OBVIOUS
  <2>5. new = [it EXCEPT !.phase = "prepare-source", !.future = "pending", !.sdistOnly = only]
    BY <2>1, <2>3, <2>4
  <2>6. /\ new.req = it.req /\ new.type = it.type /\ new.why = it.why /\ new.parent = it.parent
        /\ new.ver = it.ver /\ new.sdistOnly = only
    BY ONLY <2>5, it \in FitItem DEF FitItem, Item
  <2>7. IsStarted(new)
    BY <1>4, <1>6, <2>3, <2>4, <2>6 DEF IsStarted, SameAsk
  <2>8. wheelsBuild' = wheelsBuild /\ downloads' = downloads
    BY <1>6 DEF dirs
  <2>9. CASE stack' = Push(<<>>)
    BY <1>4, <1>6, <2>8, <2>9, NoItems DEF LoopStep
  <2>10. CASE stack' = Push(<<new>>)
    <3>1. PICK items : items = <<new>>
      OBVIOUS
    <3>2. items \in Seq(FitItem) /\ \A i \in DOMAIN items : OfTop(items[i])
      BY <2>2, <2>7, <3>1 DEF OfTop
    <3> QED BY <1>4, <1>6, <2>8, <2>10, <3>1, <3>2 DEF LoopStep
  <2> QED BY <1>6, <2>1, <2>9, <2>10
<1>7. \/ PhaseFailed(Top, g, {})
      \/ /\ Top.type = "toplevel" \/ Top.parent \in g.nodes
         /\ graph' = g
         /\ \/ stack' = Push(<<>>)
            \/ stack' = Push(<<[Top EXCEPT !.phase = "prepare-source", !.future = "pending",
                                           !.sdistOnly = OnlySdist(Top)]>>)
         /\ UNCHANGED <<u, failedVersions, dirs>>
  BY <1>3, Zenon DEF RunStart, ParentExists
<1> QED BY <1>5, <1>6, <1>7

(* An item in its next phase, below what it asks for.                         *)
LEMMA WorkWheels ==
  ASSUME TypeInv, stack # <<>>, Top.phase \notin Asking, NEW a \in Seq(FitItem), NEW own \in FitItem,
         \A i \in DOMAIN a : IsAsked(a[i]), Continues(own), stack' = Push(a \o <<own>>),
         UNCHANGED <<u, failedVersions>>,
         graph.nodes \subseteq graph'.nodes, graph.edges \subseteq graph'.edges,
         wheelsBuild' \cup downloads' \subseteq wheelsBuild \cup downloads \cup u.cache \cup Building(Top)
  PROVE  LoopStep
<1>1. PICK items : items = a \o <<own>>
  OBVIOUS
<1>2. items \in Seq(FitItem)
  BY <1>1
<1>3. ASSUME NEW i \in DOMAIN items PROVE items[i] = own \/ \E j \in DOMAIN a : items[i] = a[j]
  BY <1>1, <1>3
<1>4. \A i \in DOMAIN items : OfTop(items[i])
  BY <1>3 DEF OfTop
<1> QED BY <1>1, <1>2, <1>4 DEF LoopStep

LEMMA ResolvesAreAsked ==
  ASSUME TypeInv, stack # <<>>, Top.phase \notin Asking, NEW S \in SUBSET Req, NEW order \in ByName(S),
         NEW type \in ReqType \ {"toplevel"}
  PROVE  /\ Resolves(order, type, Top) \in Seq(FitItem)
         /\ \A i \in DOMAIN Resolves(order, type, Top) : IsAsked(Resolves(order, type, Top)[i])
<1>1. Top \in FitItem /\ Top.phase # "resolve"
  BY TopFits DEF Asking
<1>2. Resolves(order, type, Top) \in Seq(FitItem) /\ AsksFor(Top, Resolves(order, type, Top), S, type)
  BY <1>1, ResolvesAskFor
<1> QED BY <1>2 DEF AsksFor, IsAsked

LEMMA ContinuesAs ==
  ASSUME TypeInv, stack # <<>>, Top.phase \notin Asking, NEW own, SameAsk(own, Top),
         own.ver = Top.ver, own.sdistOnly = Top.sdistOnly
  PROVE  Continues(own)
  BY DEF Continues

LEMMA RunPrepareSourceWheels == ASSUME TypeInv, ~TestMode, RunPrepareSource PROVE LoopStep
<1>1. pc = "loop" /\ stack # <<>> /\ Top.phase = "prepare-source" /\ Top.phase \notin Asking
  BY DEF RunPrepareSource, Running, Asking
<1>2. PICK it \in FitItem : it = Top
  BY <1>1, TopFits
<1>3. PICK system : system = u.system[PkgOf(Top)]
  OBVIOUS
<1>4. system \in SUBSET Req /\ "build-system" \in ReqType \ {"toplevel"}
  BY <1>1, <1>3, TopFits, RequirementTypes DEF ReqType, BuildType
<1> DEFINE itDone == [it EXCEPT !.future = "none", !.phase = "process-install-deps", !.result = it.ver]
           itNext == [it EXCEPT !.future = "none", !.phase = "prepare-build", !.system = system]
<1>5. /\ itDone \in FitItem /\ itDone.req = it.req /\ itDone.type = it.type /\ itDone.why = it.why
      /\ itDone.parent = it.parent /\ itDone.ver = it.ver /\ itDone.sdistOnly = it.sdistOnly
  BY ONLY <1>1, <1>2, it \in FitItem DEF FitItem, Item, Built, Phase
<1>6. /\ itNext \in FitItem /\ itNext.req = it.req /\ itNext.type = it.type /\ itNext.why = it.why
      /\ itNext.parent = it.parent /\ itNext.ver = it.ver /\ itNext.sdistOnly = it.sdistOnly
  BY ONLY <1>1, <1>2, <1>4, it \in FitItem DEF FitItem, Item, Built, Phase
<1>7. \/ PhaseFailed(Top, graph, {})
      \/ /\ \/ stack' = Push(<<itDone>>)
            \/ \E order \in ByName(system) : stack' = Push(Resolves(order, "build-system", Top) \o <<itNext>>)
         /\ UNCHANGED <<u, records, dirs>>
  BY <1>2, <1>3, Zenon DEF RunPrepareSource
<1> HIDE DEF itDone, itNext
<1>8. Continues(itDone) /\ Continues(itNext)
  BY <1>1, <1>2, <1>5, <1>6, ContinuesAs DEF SameAsk
<1>9. CASE PhaseFailed(Top, graph, {})
  BY <1>1, <1>9, FailureIsNoWheel
<1>10. ASSUME UNCHANGED <<u, records, dirs>>
       PROVE  /\ UNCHANGED <<u, failedVersions>> /\ graph' = graph
              /\ wheelsBuild' = wheelsBuild /\ downloads' = downloads
  BY <1>10 DEF records, dirs
<1>11. CASE stack' = Push(<<itDone>>) /\ UNCHANGED <<u, records, dirs>>
  <2>1. PICK items : items = <<itDone>>
    OBVIOUS
  <2>2. items \in Seq(FitItem) /\ \A i \in DOMAIN items : OfTop(items[i])
    BY <1>5, <1>8, <2>1 DEF OfTop
  <2> QED BY <1>10, <1>11, <2>1, <2>2 DEF LoopStep
<1>12. CASE /\ \E order \in ByName(system) :
                 stack' = Push(Resolves(order, "build-system", Top) \o <<itNext>>)
            /\ UNCHANGED <<u, records, dirs>>
  <2>1. PICK order \in ByName(system) : stack' = Push(Resolves(order, "build-system", Top) \o <<itNext>>)
    BY <1>12
  <2>2. PICK a : a = Resolves(order, "build-system", Top)
    OBVIOUS
  <2>3. a \in Seq(FitItem) /\ \A i \in DOMAIN a : IsAsked(a[i])
    BY <1>1, <1>4, <2>2, ResolvesAreAsked
  <2> QED BY <1>1, <1>6, <1>8, <1>10, <1>12, <2>1, <2>2, <2>3, WorkWheels
<1> QED BY <1>7, <1>9, <1>11, <1>12

LEMMA RunPrepareBuildWheels == ASSUME TypeInv, ~TestMode, RunPrepareBuild PROVE LoopStep
<1>1. pc = "loop" /\ stack # <<>> /\ Top.phase = "prepare-build" /\ Top.phase \notin Asking
  BY DEF RunPrepareBuild, Running, Asking
<1>2. PICK it \in FitItem : it = Top
  BY <1>1, TopFits
<1>3. PICK p \in Pkg : p = PkgOf(Top)
  BY <1>1, TopFits
<1>4. u.backend[p] \subseteq Req /\ u.sdist[p] \subseteq Req
  BY RequirementTypes
<1>5. CASE PhaseFailed(Top, graph, {})
  BY <1>1, <1>5, FailureIsNoWheel
<1>6. ASSUME NEW f, NEW own,
             own = [Top EXCEPT !.phase = "build",
                               !.backend = u.backend[PkgOf(Top)] \ Satisfied(u.backend[PkgOf(Top)], f),
                               !.sdist = u.sdist[PkgOf(Top)] \ Satisfied(u.sdist[PkgOf(Top)], f)],
             \E b \in ByName(own.backend), d \in ByName(own.sdist) :
               stack' = Push(Resolves(d, "build-sdist", Top)
                              \o Resolves(b, "build-backend", Top) \o <<own>>),
             graph' = [graph EXCEPT !.edges =
                         @ \cup SatisfiedEdges(PkgOf(Top), u.backend[PkgOf(Top)], "build-backend", f)
                           \cup SatisfiedEdges(PkgOf(Top), u.sdist[PkgOf(Top)], "build-sdist", f)],
             UNCHANGED <<u, failedVersions, dirs>>
      PROVE  LoopStep
  <2> PICK backend, sdist : /\ backend = u.backend[p] \ Satisfied(u.backend[p], f)
                            /\ sdist = u.sdist[p] \ Satisfied(u.sdist[p], f)
    OBVIOUS
  <2>0. own = [it EXCEPT !.phase = "build", !.backend = backend, !.sdist = sdist]
    BY <1>2, <1>3, <1>6
  <2>1. backend \in SUBSET Req /\ sdist \in SUBSET Req
    BY <1>4
  <2>2. /\ own \in FitItem /\ own.req = it.req /\ own.type = it.type /\ own.why = it.why
        /\ own.parent = it.parent /\ own.ver = it.ver /\ own.sdistOnly = it.sdistOnly
        /\ own.backend = backend /\ own.sdist = sdist
    BY ONLY <1>1, <1>2, <2>0, <2>1, it \in FitItem DEF FitItem, Item, Built, Phase
  <2>3. Continues(own)
    BY <1>1, <1>2, <2>2, ContinuesAs DEF SameAsk
  <2>4. PICK b \in ByName(backend), d \in ByName(sdist) :
          stack' = Push(Resolves(d, "build-sdist", Top) \o Resolves(b, "build-backend", Top) \o <<own>>)
    BY <1>6, <2>2
  <2>5. {"build-sdist", "build-backend"} \subseteq ReqType \ {"toplevel"}
    BY DEF ReqType, BuildType
  <2>6. PICK x, y : x = Resolves(d, "build-sdist", Top) /\ y = Resolves(b, "build-backend", Top)
    OBVIOUS
  <2>7. /\ x \in Seq(FitItem) /\ \A i \in DOMAIN x : IsAsked(x[i])
        /\ y \in Seq(FitItem) /\ \A i \in DOMAIN y : IsAsked(y[i])
    BY <1>1, <2>1, <2>4, <2>5, <2>6, ResolvesAreAsked
  <2>8. PICK a : a = x \o y
    OBVIOUS
  <2>9. a \in Seq(FitItem) /\ EachFrom(a, x, y)
    BY <2>7, <2>8, JobsOfBoth
  <2>10. \A i \in DOMAIN a : IsAsked(a[i])
    BY <2>7, <2>9 DEF EachFrom
  <2>11. graph \in Graph
    BY DEF TypeInv, RecordsTypeOK
  <2>12. graph.nodes \subseteq graph'.nodes /\ graph.edges \subseteq graph'.edges
    BY <1>6, <2>11 DEF Graph
  <2>13. wheelsBuild' = wheelsBuild /\ downloads' = downloads
    BY <1>6 DEF dirs
  <2> QED BY <1>1, <1>6, <2>2, <2>3, <2>4, <2>6, <2>8, <2>9, <2>10, <2>12, <2>13, WorkWheels
<1>7. \/ PhaseFailed(Top, graph, {})
      \/ \E f : \E own :
             /\ own = [Top EXCEPT !.phase = "build",
                              !.backend = u.backend[PkgOf(Top)] \ Satisfied(u.backend[PkgOf(Top)], f),
                              !.sdist = u.sdist[PkgOf(Top)] \ Satisfied(u.sdist[PkgOf(Top)], f)]
             /\ \E b \in ByName(own.backend), d \in ByName(own.sdist) :
                  stack' = Push(Resolves(d, "build-sdist", Top)
                              \o Resolves(b, "build-backend", Top) \o <<own>>)
             /\ graph' = [graph EXCEPT !.edges =
                         @ \cup SatisfiedEdges(PkgOf(Top), u.backend[PkgOf(Top)], "build-backend", f)
                           \cup SatisfiedEdges(PkgOf(Top), u.sdist[PkgOf(Top)], "build-sdist", f)]
             /\ UNCHANGED <<u, failedVersions, dirs>>
  BY Zenon DEF RunPrepareBuild
<1> QED BY <1>5, <1>6, <1>7

LEMMA RunBuildWheels == ASSUME TypeInv, ~TestMode, RunBuild PROVE LoopStep
<1>1. pc = "loop" /\ stack # <<>> /\ Top.phase = "build" /\ Top.phase \notin Asking
  BY DEF RunBuild, Running, Asking
<1>2. PICK it \in FitItem : it = Top
  BY <1>1, TopFits
<1>3. BuildsWheel(Top) => Building(Top) = {PkgOf(Top)}
  BY <1>1 DEF BuildsWheel, Building
<1>4. ASSUME NEW left, PhaseFailed(Top, graph, left), left = {} \/ (BuildsWheel(Top) /\ left = {PkgOf(Top)})
      PROVE  LoopStep
  BY <1>1, <1>3, <1>4, FailureIsNoWheel
<1> DEFINE own == [it EXCEPT !.phase = "process-install-deps", !.result = it.ver]
<1>5. /\ own \in FitItem /\ own.req = it.req /\ own.type = it.type /\ own.why = it.why
      /\ own.parent = it.parent /\ own.ver = it.ver /\ own.sdistOnly = it.sdistOnly
  BY ONLY <1>1, <1>2, it \in FitItem DEF FitItem, Item, Built, Phase
<1>6. \/ \E left : PhaseFailed(Top, graph, left) /\ (left = {} \/ (BuildsWheel(Top) /\ left = {PkgOf(Top)}))
      \/ /\ stack' = Push(<<own>>)
         /\ UNCHANGED <<u, records>>
         /\ UNCHANGED dirs \/ (BuildsWheel(Top) /\ UpdateMirror({PkgOf(Top)}, {}))
  BY <1>2 DEF RunBuild, Build
<1> HIDE DEF own
<1>7. CASE /\ stack' = Push(<<own>>)
           /\ UNCHANGED <<u, records>>
           /\ UNCHANGED dirs \/ (BuildsWheel(Top) /\ UpdateMirror({PkgOf(Top)}, {}))
  <2>1. Continues(own)
    BY <1>1, <1>2, <1>5, ContinuesAs DEF SameAsk
  <2>2. PICK items : items = <<own>>
    OBVIOUS
  <2>3. items \in Seq(FitItem) /\ \A i \in DOMAIN items : OfTop(items[i])
    BY <1>5, <2>1, <2>2 DEF OfTop
  <2>4. graph' = graph /\ failedVersions' = failedVersions
    BY <1>7 DEF records
  <2>5. wheelsBuild' \cup downloads' \subseteq wheelsBuild \cup downloads \cup Building(Top)
    BY <1>3, <1>7 DEF dirs, UpdateMirror
  <2> QED BY <1>7, <2>2, <2>3, <2>4, <2>5 DEF LoopStep
<1> QED BY <1>4, <1>6, <1>7

LEMMA RunProcessInstallDepsWheels == ASSUME TypeInv, ~TestMode, RunProcessInstallDeps PROVE LoopStep
<1>1. /\ pc = "loop" /\ stack # <<>> /\ Top.phase = "process-install-deps" /\ Top.phase \notin Asking
      /\ Top.phase \in Built
  BY DEF RunProcessInstallDeps, Running, Asking, Built
<1>2. PICK it \in FitItem : it = Top
  BY <1>1, TopFits
<1>3. PICK reqs : reqs = InstallRequirements(Top)
  OBVIOUS
<1>4. reqs \in SUBSET Req
  <2>1. <<Top.req.name, Top.result>> \in Pkg
    BY <1>1, TopFits DEF Pkg
  <2> QED BY <1>3, <2>1, RequirementTypes DEF InstallRequirements
<1> DEFINE own == [it EXCEPT !.phase = "complete"]
<1>5. /\ own \in FitItem /\ own.req = it.req /\ own.type = it.type /\ own.why = it.why
      /\ own.parent = it.parent /\ own.ver = it.ver /\ own.sdistOnly = it.sdistOnly
  BY ONLY <1>1, <1>2, it \in FitItem DEF FitItem, Item, Built, Phase
<1>6. \/ PhaseFailed(Top, graph, {})
      \/ /\ \E order \in ByName(reqs) : stack' = Push(Resolves(order, "install", Top) \o <<own>>)
         /\ UNCHANGED <<u, graph, failedVersions, dirs>>
  BY <1>2, <1>3, Zenon DEF RunProcessInstallDeps
<1> HIDE DEF own
<1>7. CASE PhaseFailed(Top, graph, {})
  BY <1>1, <1>7, FailureIsNoWheel
<1>8. CASE /\ \E order \in ByName(reqs) : stack' = Push(Resolves(order, "install", Top) \o <<own>>)
           /\ UNCHANGED <<u, graph, failedVersions, dirs>>
  <2>1. PICK order \in ByName(reqs) : stack' = Push(Resolves(order, "install", Top) \o <<own>>)
    BY <1>8
  <2>2. PICK a : a = Resolves(order, "install", Top)
    OBVIOUS
  <2>3. "install" \in ReqType \ {"toplevel"}
    BY DEF ReqType, InstallType
  <2>4. a \in Seq(FitItem) /\ \A i \in DOMAIN a : IsAsked(a[i])
    BY <1>1, <1>4, <2>2, <2>3, ResolvesAreAsked
  <2>5. Continues(own)
    BY <1>1, <1>2, <1>5, ContinuesAs DEF SameAsk
  <2>6. wheelsBuild' = wheelsBuild /\ downloads' = downloads
    BY <1>8 DEF dirs
  <2> QED BY <1>1, <1>5, <1>8, <2>1, <2>2, <2>4, <2>5, <2>6, WorkWheels
<1> QED BY <1>6, <1>7, <1>8

LEMMA RunCompleteWheels == ASSUME RunComplete PROVE LoopStep
<1>1. stack' = Push(<<>>) /\ UNCHANGED <<u, records, dirs>>
  BY DEF RunComplete
<1>2. /\ graph' = graph /\ failedVersions' = failedVersions
      /\ wheelsBuild' = wheelsBuild /\ downloads' = downloads
  BY <1>1 DEF records, dirs
<1> QED BY <1>1, <1>2, NoItems DEF LoopStep

(* The other steps: those of the threads and of the top-level requirements.     *)
LEMMA OthersKeepWheels ==
  ASSUME TypeInv, TypeInv', WheelsInv, failedVersions' = {} => failedVersions = {}, UNCHANGED u,
         graph.nodes \subseteq graph'.nodes, graph.edges \subseteq graph'.edges,
         wheelsBuild' \cup downloads' \subseteq wheelsBuild \cup downloads \cup u.cache,
         \A i \in DOMAIN stack' :
           \/ ~BuildContext(stack'[i]) /\ stack'[i].phase \in Asking
           \/ \E j \in DOMAIN stack : /\ SameAsk(stack'[i], stack[j]) /\ stack'[i].phase = stack[j].phase
                                      /\ stack'[i].ver = stack[j].ver
                                      /\ stack'[i].sdistOnly = stack[j].sdistOnly
  PROVE  WheelsInv'
<1> SUFFICES ASSUME failedVersions' = {}
             PROVE  /\ AllInPlace(stack', NeedsIn(graph'))
                    /\ wheelsBuild' \cup downloads' \subseteq u'.cache \cup NeedsIn(graph')
  BY DEF WheelsInv, AllInPlace, InPlace, BuildContext, OnlySdist, NeedsIn
<1>1. AllInPlace(stack, NeedsIn(graph)) /\ wheelsBuild \cup downloads \subseteq u.cache \cup NeedsIn(graph)
  BY DEF WheelsInv
<1>2. WellFormed(graph) /\ WellFormed(graph')
  BY DEF TypeInv, RecordsTypeOK
<1>3. NeedsIn(graph) \subseteq NeedsIn(graph')
  BY <1>2, NeedsGrow
<1>4. ASSUME NEW i \in DOMAIN stack' PROVE InPlace(stack'[i], NeedsIn(graph'))
  <2>1. PICK new : new = stack'[i]
    OBVIOUS
  <2>2. CASE ~BuildContext(new) /\ new.phase \in Asking
    BY <2>1, <2>2 DEF InPlace
  <2>3. CASE \E j \in DOMAIN stack : /\ SameAsk(new, stack[j]) /\ new.phase = stack[j].phase
                                     /\ new.ver = stack[j].ver /\ new.sdistOnly = stack[j].sdistOnly
    <3>1. PICK it : /\ SameAsk(new, it) /\ new.phase = it.phase /\ new.ver = it.ver
                    /\ new.sdistOnly = it.sdistOnly /\ InPlace(it, NeedsIn(graph))
      BY <1>1, <2>3 DEF AllInPlace
    <3>2. BuildContext(new) = BuildContext(it) /\ OnlySdist(new) = OnlySdist(it) /\ PkgOf(new) = PkgOf(it)
      BY <3>1, SameContext DEF SameAsk, PkgOf
    <3>3. InPlace(new, NeedsIn(graph))
      BY <3>1, <3>2 DEF InPlace, SameAsk
    <3> QED BY <1>3, <2>1, <3>3, InPlaceStays
  <2> QED BY <2>1, <2>2, <2>3
<1> QED BY <1>1, <1>3, <1>4 DEF AllInPlace

LEMMA ThreadKeepsWheels ==
  ASSUME TypeInv, TypeInv', WheelsInv, NEW i \in DOMAIN stack, FinishResolution(i) \/ FetchSource(i)
  PROVE  WheelsInv'
<1>1. UNCHANGED <<u, graph, failedVersions>>
  BY ThreadTasks DEF records
<1>2. PICK f, c : \/ stack' = [stack EXCEPT ![i].future = f]
                  \/ stack' = [stack EXCEPT ![i].future = f, ![i].cached = c]
  BY DEF FinishResolution, FetchSource
<1>3. ASSUME NEW j \in DOMAIN stack'
      PROVE  \E k \in DOMAIN stack : /\ SameAsk(stack'[j], stack[k]) /\ stack'[j].phase = stack[k].phase
                                     /\ stack'[j].ver = stack[k].ver
                                     /\ stack'[j].sdistOnly = stack[k].sdistOnly
  <2>1. DOMAIN stack' = DOMAIN stack /\ \A k \in DOMAIN stack : k # i => stack'[k] = stack[k]
    BY <1>2
  <2>2. PICK it \in FitItem : it = stack[i]
    BY DEF TypeInv, LoopTypeOK
  <2>3. PICK new : new = stack'[i]
    OBVIOUS
  <2>4. new = [it EXCEPT !.future = f] \/ new = [it EXCEPT !.future = f, !.cached = c]
    BY <1>2, <2>2, <2>3
  <2>5. /\ new.req = it.req /\ new.type = it.type /\ new.why = it.why /\ new.parent = it.parent
        /\ new.phase = it.phase /\ new.ver = it.ver /\ new.sdistOnly = it.sdistOnly
    BY ONLY <2>4, it \in FitItem DEF FitItem, Item
  <2> QED BY <2>1, <2>2, <2>3, <2>5 DEF SameAsk
<1>4. wheelsBuild' \cup downloads' \subseteq wheelsBuild \cup downloads \cup u.cache
  <2>1. CASE FinishResolution(i)
    BY <2>1 DEF FinishResolution, dirs
  <2>2. CASE FetchSource(i)
    BY <2>2 DEF FetchSource, UpdateMirror
  <2> QED BY <2>1, <2>2
<1> QED BY <1>1, <1>3, <1>4, OthersKeepWheels

LEMMA TopLevelKeepsWheels ==
  ASSUME TypeInv, TypeInv', WheelsInv, ResolveTopLevel
  PROVE  WheelsInv'
<1>1. PICK it : it = NewItem(Head(todo), "toplevel", <<>>, ROOT)
  OBVIOUS
<1>2. stack' = <<it>> \o stack /\ UNCHANGED <<u, failedVersions, dirs>>
  BY <1>1 DEF ResolveTopLevel
<1>3. ~BuildContext(it) /\ it.phase \in Asking
  <2>1. it.type = "toplevel" /\ it.why = <<>> /\ it.phase = "resolve"
    BY <1>1 DEF NewItem
  <2> QED BY <2>1 DEF BuildContext, BuildType, Asking
<1>4. stack \in Seq(FitItem)
  BY DEF TypeInv, LoopTypeOK
<1>5. PICK own : own = <<it>>
  OBVIOUS
<1>6. ASSUME NEW i \in DOMAIN stack'
      PROVE  stack'[i] = it \/ \E j \in DOMAIN stack : stack'[i] = stack[j]
  BY <1>2, <1>4, <1>6
<1>7. graph.nodes \subseteq graph'.nodes /\ graph.edges \subseteq graph'.edges
  BY TopLevelTasks, Zenon
<1>8. wheelsBuild' = wheelsBuild /\ downloads' = downloads
  BY <1>2 DEF dirs
<1>9. \A i \in DOMAIN stack' :
        \/ ~BuildContext(stack'[i]) /\ stack'[i].phase \in Asking
        \/ \E j \in DOMAIN stack : /\ SameAsk(stack'[i], stack[j]) /\ stack'[i].phase = stack[j].phase
                                   /\ stack'[i].ver = stack[j].ver
                                   /\ stack'[i].sdistOnly = stack[j].sdistOnly
  BY <1>3, <1>6 DEF SameAsk
<1> QED BY <1>2, <1>7, <1>8, <1>9, OthersKeepWheels

LEMMA WheelsStep == ASSUME SdistOnly PROVE TypeInv /\ TypeInv' /\ WheelsInv /\ [Next]_vars => WheelsInv'
<1> SUFFICES ASSUME TypeInv, TypeInv', WheelsInv, [Next]_vars PROVE WheelsInv'
  OBVIOUS
<1>1. ~TestMode
  BY BootstrapperAssumption
<1>2. CASE ResolveTopLevel
  BY <1>2, TopLevelKeepsWheels
<1>3. CASE \E i \in DOMAIN stack : FinishResolution(i) \/ FetchSource(i)
  BY <1>3, ThreadKeepsWheels
<1>4. CASE RunItem
  <2>1. LoopStep
    BY <1>1, <1>4, RunResolveWheels, RunStartWheels, RunPrepareSourceWheels, RunPrepareBuildWheels,
       RunBuildWheels, RunProcessInstallDepsWheels, RunCompleteWheels DEF RunItem
  <2> QED BY <1>4, <2>1, RunItemPuts, LoopKeepsWheels
<1>5. ASSUME UNCHANGED <<u, stack, graph, dirs>>, failedVersions' = {} => failedVersions = {}
      PROVE  WheelsInv'
  BY <1>5, OthersKeepWheels DEF dirs, SameAsk
<1>6. CASE FailTopLevel
  <2>1. failedVersions' = {} => failedVersions = {}
    BY <1>6 DEF FailTopLevel, RecordUnresolved
  <2>2. UNCHANGED <<u, stack, graph, dirs>>
    BY <1>6, Zenon DEF FailTopLevel
  <2> QED BY <1>5, <2>1, <2>2
<1>7. CASE Finalize
  BY <1>5, <1>7 DEF Finalize, records
<1>8. CASE UNCHANGED vars
  BY <1>5, <1>8 DEF vars, records
<1> QED BY <1>2, <1>3, <1>4, <1>6, <1>7, <1>8, Zenon DEF Next

(* With --sdist-only, as long as no version is dropped, the wheels that are     *)
(* built are those of packages that some build needs, whatever the universe is  *)
(* and whatever fails (WorkItem.is_build_requirement_context, Start.run,       *)
(* Build.run).                                                               *)
THEOREM OnlyNeededWheelsAreBuilt == ASSUME SdistOnly PROVE Spec => []WheelsAreForBuilds
<1>1. Init => WheelsInv
  <2> SUFFICES ASSUME Init PROVE WheelsInv
    OBVIOUS
  <2>1. stack = <<>> /\ wheelsBuild = {} /\ downloads = {}
    BY DEF Init
  <2> QED BY <2>1 DEF WheelsInv, AllInPlace
<1>2. WheelsInv => WheelsAreForBuilds
  BY DEF WheelsInv, WheelsAreForBuilds, NeededForBuilds, NeedsIn
<1>3. TypeInv /\ TypeInv' /\ WheelsInv /\ [Next]_vars => WheelsInv'
  BY WheelsStep
<1> QED BY <1>1, <1>2, <1>3, TypeIsInvariant, PTL DEF Spec

-----------------------------------------------------------------------------
(* Where install edges come from: each tells a requirement that its parent       *)
(* installs with the extras of some requirement for the parent, and packages are *)
(* visited with the extras of some requirement.                              *)
AskedWith(p, extras) == \E r \in Known : r.name = p[1] /\ r.extras = extras

TaskTraced(t) ==
  t.type = "install" =>
    \E x \in BOOLEAN : AskedWith(t.parent, x) /\ t.req \in Installs(t.parent, x)

EdgeTraced(e) ==
  /\ e.type = "toplevel" => e.parent = ROOT
  /\ e.type = "install" =>
       \E x \in BOOLEAN : AskedWith(e.parent, x) /\ \E r \in Installs(e.parent, x) : e.child = Soles[r]

Traced(tasks, edges, marks) ==
  /\ \A t \in tasks : TaskTraced(t)
  /\ \A e \in edges : EdgeTraced(e)
  /\ \A k \in marks : AskedWith(<<k[1], k[3]>>, k[2])

TraceInv ==
  /\ pc = "finalized" => Tasks = {}
  /\ Calm /\ pc # "aborted" => Traced(Tasks, graph.edges, seen)

LEMMA TracedStays ==
  ASSUME UNCHANGED u, Traced(Tasks', graph'.edges, seen')
  PROVE  Traced(Tasks, graph.edges, seen)'
<1>1. PICK tasks, edges, marks : tasks = Tasks' /\ edges = graph'.edges /\ marks = seen'
  OBVIOUS
<1>2. Known' = Known /\ Soles' = Soles
  BY UniverseStays
<1>3. Traced(tasks, edges, marks)'
  BY <1>1, <1>2 DEF Traced, TaskTraced, EdgeTraced, AskedWith, Installs
<1> QED BY <1>1, <1>3 DEF Traced

(* A step of the loop: what it asks, the edges it records and what it marks.    *)
FromTop(t) ==
  \/ t.req = Top.req /\ t.type = Top.type /\ t.parent = Top.parent
  \/ t.type # "install"
  \/ t.parent = PkgOf(Top) /\ t.req \in Installs(PkgOf(Top), Top.req.extras)

TopEdge(e) ==
  \/ e.type \in BuildType
  \/ /\ Top.phase = "start" /\ e.parent = Top.parent /\ e.type = Top.type /\ Top.type # "toplevel"
     /\ e.child = PkgOf(Top)

TraceStep ==
  /\ UNCHANGED u
  /\ \E tasks : Puts(tasks) /\ \A t \in tasks : FromTop(t)
  /\ \A e \in graph'.edges \ graph.edges : TopEdge(e)
  /\ \A k \in seen' \ seen : k[1] = Top.req.name /\ k[2] = Top.req.extras

LEMMA LoopKeepsTraces ==
  ASSUME TypeInv, Buildable, HealthNow, stack # <<>>, Traced(Tasks, graph.edges, seen), TraceStep
  PROVE  Traced(Tasks', graph'.edges, seen')
<1>1. PICK tasks : Puts(tasks) /\ \A t \in tasks : FromTop(t)
  BY DEF TraceStep
<1>2. Tasks = {Task(Top)} \cup Rest /\ Tasks' = tasks \cup Rest
  BY <1>1, PutsTasks
<1>3. /\ Top.req \in Known /\ Top.req \in Req
      /\ Top.phase # "resolve" => PkgOf(Top) = Soles[Top.req]
  BY TopIsSound, KnownRequirements DEF Sound
<1>4. TaskTraced(Top)
  BY <1>2, TaskFields DEF Traced, TaskTraced
<1>5. AskedWith(PkgOf(Top), Top.req.extras) /\ Top.req.extras \in BOOLEAN
  BY <1>3 DEF AskedWith, PkgOf, Req
<1>6. \A t \in tasks : TaskTraced(t)
  BY <1>1, <1>4, <1>5 DEF FromTop, TaskTraced
<1>7. \A t \in Rest : TaskTraced(t)
  BY <1>2 DEF Traced
<1>8. ASSUME NEW e \in graph'.edges PROVE EdgeTraced(e)
  <2>1. CASE e \in graph.edges
    BY <2>1 DEF Traced
  <2>2. CASE e.type \in BuildType
    BY <2>2 DEF EdgeTraced, BuildType
  <2>3. CASE /\ Top.phase = "start" /\ e.parent = Top.parent /\ e.type = Top.type
             /\ Top.type # "toplevel" /\ e.child = PkgOf(Top)
    <3>1. e.child = Soles[Top.req]
      BY <1>3, <2>3
    <3> QED BY <1>4, <2>3, <3>1 DEF EdgeTraced, TaskTraced
  <2> QED BY <1>8, <2>1, <2>2, <2>3 DEF TraceStep, TopEdge
<1>9. ASSUME NEW k \in seen' PROVE AskedWith(<<k[1], k[3]>>, k[2])
  <2>1. CASE k \in seen
    BY <2>1 DEF Traced
  <2>2. CASE k \notin seen
    <3>1. k[1] = Top.req.name /\ k[2] = Top.req.extras
      BY <1>9, <2>2 DEF TraceStep
    <3> QED BY <1>3, <3>1 DEF AskedWith
  <2> QED BY <2>1, <2>2
<1> QED BY <1>2, <1>6, <1>7, <1>8, <1>9 DEF Traced

LEMMA FailsTraced ==
  ASSUME NEW g, Fails(g), \A e \in g.edges \ graph.edges : TopEdge(e)
  PROVE  TraceStep
<1>1. FromTop(TopIn("process-install-deps"))
  BY DEF FromTop, TopIn, Becomes
<1>2. \E tasks : Puts(tasks) /\ \A t \in tasks : FromTop(t)
  BY <1>1 DEF Fails
<1>3. graph' = g \/ graph' = RemoveDependency(g, PkgOf(Top))
  BY DEF Fails
<1>4. graph'.edges \subseteq g.edges
  BY <1>3 DEF RemoveDependency
<1>5. seen' \subseteq seen /\ UNCHANGED u
  BY DEF Fails
<1> QED BY <1>2, <1>4, <1>5 DEF TraceStep

LEMMA RunItemTraces == ASSUME TypeInv, RunItem, HealthNow PROVE TraceStep
<1>1. ASSUME NEW phase, NEW v PROVE FromTop(Becomes(phase, v))
  BY DEF FromTop, Becomes
<1>2. ASSUME NEW reqs, NEW type, NEW q, type # "install" PROVE \A t \in Requests(reqs, type, q) : FromTop(t)
  BY <1>2 DEF FromTop, Requests
<1>3. ASSUME Fails(graph) PROVE TraceStep
  BY <1>3, FailsTraced
<1>4. ASSUME UNCHANGED <<u, records>>, NEW tasks, Puts(tasks), \A t \in tasks : FromTop(t) PROVE TraceStep
  BY <1>4 DEF TraceStep, records
<1>5. CASE RunResolve
  <2>1. /\ UNCHANGED <<u, seen, graph>>
        /\ \/ \E versions : Puts({Becomes("start", v) : v \in versions})
           \/ Puts({})
    BY <1>5, ResolveTasks, Zenon
  <2>2. \A versions : \A t \in {Becomes("start", v) : v \in versions} : FromTop(t)
    BY <1>1
  <2>3. ASSUME NEW tasks, Puts(tasks), \A t \in tasks : FromTop(t) PROVE TraceStep
    BY <2>1, <2>3 DEF TraceStep
  <2>4. CASE \E versions : Puts({Becomes("start", v) : v \in versions})
    BY <2>2, <2>3, <2>4, Zenon
  <2>5. CASE Puts({})
    BY <2>3, <2>5
  <2> QED BY <2>1, <2>4, <2>5
<1>6. CASE RunStart
  <2>1. PICK g : g = AddToGraph(Top)
    OBVIOUS
  <2>2. stack # <<>> /\ Top.phase = "start"
    BY <1>6, StartTasks
  <2>3. \A e \in g.edges \ graph.edges : TopEdge(e)
    <3>1. CASE Top.type = "toplevel"
      BY <2>1, <3>1 DEF AddToGraph
    <3>2. CASE Top.type # "toplevel"
      <4>1. g = AddDependency(graph, Top.parent, Top.type, PkgOf(Top))
        BY <2>1, <3>2 DEF AddToGraph
      <4>2. graph \in Graph /\ WellFormed(graph)
        BY DEF TypeInv, RecordsTypeOK
      <4>3. Top.parent \in Pkg \cup {ROOT} /\ Top.type \in ReqType /\ PkgOf(Top) \in Pkg
        BY <2>2, TopFits, ItemFields
      <4>4. PICK e : e = [parent |-> Top.parent, type |-> Top.type, child |-> PkgOf(Top)]
        OBVIOUS
      <4>5. g.edges \subseteq graph.edges \cup {e}
        BY <4>1, <4>2, <4>3, <4>4, AddDependencyFits
      <4> QED BY <2>2, <3>2, <4>4, <4>5 DEF TopEdge
    <3> QED BY <3>1, <3>2
  <2>4. CASE Fails(g)
    BY <2>3, <2>4, FailsTraced
  <2>5. CASE /\ UNCHANGED u /\ graph' = g
             /\ \/ Puts({}) /\ seen' = seen
                \/ Puts({TopIn("prepare-source")}) /\ seen' = seen \cup SeenMarks(Top)
    <3>1. \A k \in SeenMarks(Top) : k[1] = Top.req.name /\ k[2] = Top.req.extras
      BY DEF SeenMarks, SeenKey
    <3>2. FromTop(TopIn("prepare-source"))
      BY <1>1 DEF TopIn
    <3> QED BY <2>3, <2>5, <3>1, <3>2 DEF TraceStep
  <2> QED BY <1>6, <2>1, <2>4, <2>5, StartTasks
<1>7. CASE RunPrepareSource
  <2>1. FromTop(TopIn("prepare-build")) /\ FromTop(TopIn("process-install-deps"))
    BY <1>1 DEF TopIn
  <2> QED BY <1>2, <1>3, <1>4, <1>7, <2>1, PrepareSourceTasks
<1>8. CASE RunPrepareBuild
  <2> DEFINE q == PkgOf(Top)
             sdists(f)   == Requests(u.sdist[q] \ Satisfied(u.sdist[q], f), "build-sdist", q)
             backends(f) == Requests(u.backend[q] \ Satisfied(u.backend[q], f), "build-backend", q)
  <2>1. Fails(graph) \/ (UNCHANGED <<u, seen>> /\ \E f : Puts(sdists(f) \cup backends(f) \cup {TopIn("build")})
                           /\ graph' = [nodes |-> graph.nodes, edges |-> graph.edges
                                          \cup SatisfiedEdges(q, u.backend[q], "build-backend", f)
                                          \cup SatisfiedEdges(q, u.sdist[q], "build-sdist", f)])
    BY <1>8, PrepareBuildTasks, Zenon
  <2>2. ASSUME NEW f PROVE \A t \in sdists(f) \cup backends(f) \cup {TopIn("build")} : FromTop(t)
    BY <1>1, <1>2 DEF TopIn
  <2>3. ASSUME NEW f, NEW e \in SatisfiedEdges(q, u.backend[q], "build-backend", f)
                               \cup SatisfiedEdges(q, u.sdist[q], "build-sdist", f)
        PROVE  TopEdge(e)
    BY <2>3 DEF SatisfiedEdges, TopEdge, BuildType
  <2>4. CASE Fails(graph)
    BY <1>3, <2>4
  <2>5. ASSUME UNCHANGED <<u, seen>>, NEW f, Puts(sdists(f) \cup backends(f) \cup {TopIn("build")}),
               graph' = [nodes |-> graph.nodes, edges |-> graph.edges
                                          \cup SatisfiedEdges(q, u.backend[q], "build-backend", f)
                                          \cup SatisfiedEdges(q, u.sdist[q], "build-sdist", f)]
        PROVE  TraceStep
    <3>1. \A e \in graph'.edges \ graph.edges : TopEdge(e)
      BY <2>3, <2>5
    <3> HIDE DEF sdists, backends
    <3> QED BY <2>2, <2>5, <3>1 DEF TraceStep
  <2> HIDE DEF sdists, backends, q
  <2> QED BY <2>1, <2>4, <2>5, Zenon
<1>9. CASE RunBuild
  <2>1. Fails(graph) \/ (Puts({TopIn("process-install-deps")}) /\ UNCHANGED <<u, records>>)
    BY <1>9, BuildTasks DEF records
  <2>2. FromTop(TopIn("process-install-deps"))
    BY <1>1 DEF TopIn
  <2> QED BY <1>3, <1>4, <2>1, <2>2
<1>10. CASE RunProcessInstallDeps
  <2>1. CASE Fails(graph)
    BY <1>3, <2>1
  <2>2. stack # <<>> /\ Top.phase = "process-install-deps"
    BY <1>10, InstallDepsTasks
  <2>3. InstallRequirements(Top) = Installs(PkgOf(Top), Top.req.extras)
    BY <2>2, TopIsSound DEF Sound, Built, InstallRequirements, Installs, PkgOf
  <2>4. ASSUME NEW reqs \in SUBSET InstallRequirements(Top)
        PROVE  \A t \in Requests(reqs, "install", PkgOf(Top)) \cup {TopIn("complete")} : FromTop(t)
    <3>1. \A t \in Requests(reqs, "install", PkgOf(Top)) : FromTop(t)
      BY <2>3 DEF FromTop, Requests
    <3> QED BY <1>1, <3>1 DEF TopIn
  <2>5. CASE /\ \E reqs \in SUBSET InstallRequirements(Top) :
                  Puts(Requests(reqs, "install", PkgOf(Top)) \cup {TopIn("complete")})
             /\ UNCHANGED <<u, seen, graph>>
    BY <2>4, <2>5 DEF TraceStep
  <2> QED BY <1>10, <2>1, <2>5, InstallDepsTasks
<1>11. CASE RunComplete
  BY <1>4, <1>11, CompleteTasks
<1> QED BY <1>5, <1>6, <1>7, <1>8, <1>9, <1>10, <1>11 DEF RunItem

LEMMA TopLevelTraces ==
  ASSUME TypeInv, ResolveTopLevel, Traced(Tasks, graph.edges, seen)
  PROVE  Traced(Tasks', graph'.edges, seen')
<1>1. PICK r : r = Head(todo)
  OBVIOUS
<1>2. Tasks' = {TopRequest(r)} \cup Tasks /\ seen' = seen
  BY <1>1, TopLevelTasks, Zenon
<1>3. \A e \in graph'.edges : e \in graph.edges \/ (e.type = "toplevel" /\ e.parent = ROOT)
  BY TopLevelTasks
<1>4. TaskTraced(TopRequest(r))
  BY DEF TaskTraced, TopRequest
<1>5. \A t \in Tasks' : TaskTraced(t)
  BY <1>2, <1>4 DEF Traced
<1>6. \A e \in graph'.edges : EdgeTraced(e)
  BY <1>3 DEF Traced, EdgeTraced
<1> QED BY <1>2, <1>5, <1>6 DEF Traced

LEMMA TraceInductive == TypeInv /\ HealthInv /\ TraceInv /\ [Next]_vars => TraceInv'
<1> SUFFICES ASSUME TypeInv, HealthInv, TraceInv, [Next]_vars PROVE TraceInv'
  OBVIOUS
<1>1. UNCHANGED u /\ faults \subseteq faults'
  BY FaultsStay
<1>2. CASE ResolveTopLevel
  <2>1. pc' # "finalized" /\ pc # "aborted"
    BY <1>2, TopLevelTasks, Zenon
  <2>2. ASSUME Calm' PROVE Traced(Tasks', graph'.edges, seen')
    BY <1>1, <1>2, <2>1, <2>2, CalmIsCalmBy, TopLevelTraces DEF TraceInv, Calm, CalmBy
  <2> QED BY <1>1, <2>1, <2>2, TracedStays DEF TraceInv
<1>3. CASE RunItem
  <2>1. pc = "loop" /\ stack # <<>> /\ pc' # "finalized"
    BY <1>3, RunItemPuts
  <2>2. ASSUME Calm' PROVE Traced(Tasks', graph'.edges, seen')
    <3>1. Calm
      BY <1>1, <2>2, CalmIsCalmBy DEF Calm, CalmBy
    <3>2. HealthNow /\ Buildable /\ Traced(Tasks, graph.edges, seen)
      BY <2>1, <3>1 DEF HealthInv, TraceInv, Calm
    <3> QED BY <1>3, <2>1, <3>2, RunItemTraces, LoopKeepsTraces
  <2> QED BY <1>1, <2>1, <2>2, TracedStays DEF TraceInv
<1>4. ASSUME Tasks' = Tasks, UNCHANGED <<graph, seen>>,
             pc' = "finalized" => Tasks = {}, pc = "aborted" => pc' = "aborted"
      PROVE  TraceInv'
  <2>1. ASSUME Calm', pc' # "aborted" PROVE Traced(Tasks', graph'.edges, seen')
    BY <1>1, <1>4, <2>1, CalmIsCalmBy DEF TraceInv, Calm, CalmBy
  <2> QED BY <1>1, <1>4, <2>1, TracedStays DEF TraceInv
<1>5. CASE \E i \in DOMAIN stack : FinishResolution(i) \/ FetchSource(i)
  <2>1. pc = "loop" /\ pc' = pc /\ Tasks' = Tasks /\ UNCHANGED records
    BY <1>5, ThreadTasks
  <2> QED BY <1>4, <2>1 DEF records
<1>6. CASE FailTopLevel
  <2>1. UNCHANGED <<stack, graph, seen>> /\ pc = "top-level"
    BY <1>6, Zenon DEF FailTopLevel
  <2>2. pc' # "finalized"
    BY <1>6 DEF FailTopLevel, AfterTopLevel
  <2> QED BY <1>4, <2>1, <2>2 DEF Tasks
<1>7. CASE Finalize
  <2>1. Tasks = {} /\ Tasks' = Tasks
    BY <1>7, TasksOfShort DEF Finalize, Tasks
  <2> QED BY <1>4, <1>7, <2>1 DEF Finalize, records
<1>8. CASE UNCHANGED vars
  BY <1>4, <1>8 DEF vars, records, TraceInv, Tasks
<1> QED BY <1>2, <1>3, <1>5, <1>6, <1>7, <1>8, Zenon DEF Next

LEMMA TraceIsInvariant == Spec => []TraceInv
<1>1. Init => TraceInv
  <2> SUFFICES ASSUME Init PROVE TraceInv
    OBVIOUS
  <2>1. pc = "top-level" /\ Tasks = {} /\ graph.edges = {} /\ seen = {}
    BY TasksOfShort DEF Init, Tasks, EmptyGraph
  <2> QED BY <2>1 DEF TraceInv, Traced
<1> QED BY <1>1, TypeIsInvariant, HealthIsInvariant, TraceInductive, PTL DEF Spec

(* What was visited, not for its sdist only.                                  *)
WheelMarked(p) == \E x \in BOOLEAN : <<p[1], x, p[2], "wheel">> \in seen

(* When a calm run has ended, nothing is in work: every mark is settled.       *)
LEMMA MarkedHasWheel ==
  ASSUME TypeInv, HealthNow, Tasks = {}, NEW k \in seen, k[4] = "wheel"
  PROVE  Settled(k, Mirror, ElementsOf(buildOrder), seen)
<1>1. DOMAIN stack = {}
  BY DEF Tasks, TasksOf
<1>2. Jobs(stack) = {}
  BY <1>1 DEF Jobs
<1> QED BY <1>2 DEF HealthNow, Health, MarksSettle, InWork

LEMMA MarkedAreClosed ==
  ASSUME TypeInv, Buildable, HealthNow, Tasks = {}, Traced(Tasks, graph.edges, seen), SameExtras,
         NEW e \in graph.edges, e.type \in InstallType, e.parent \in Pkg, WheelMarked(e.parent)
  PROVE  WheelMarked(e.child)
<1>1. PICK p \in Pkg : p = e.parent
  OBVIOUS
<1>2. p = <<p[1], p[2]>>
  BY DEF Pkg
<1>3. PICK x \in BOOLEAN : <<p[1], x, p[2], "wheel">> \in seen
  BY <1>1 DEF WheelMarked
<1>4. p # ROOT
  BY BootstrapperAssumption
<1>5. EdgeTraced(e)
  BY DEF Traced
<1>6. e.type = "install"
  BY <1>1, <1>4, <1>5 DEF EdgeTraced, InstallType
<1>7. PICK y \in BOOLEAN : AskedWith(p, y) /\ \E r \in Installs(p, y) : e.child = Soles[r]
  BY <1>1, <1>5, <1>6 DEF EdgeTraced
<1>8. PICK r \in Installs(p, y) : e.child = Soles[r]
  BY <1>7
<1>9. PICK k : k = <<p[1], x, p[2], "wheel">>
  OBVIOUS
<1>10. k \in seen /\ k[1] = p[1] /\ k[2] = x /\ k[4] = "wheel" /\ <<k[1], k[3]>> = p
  BY <1>2, <1>3, <1>9
<1>11. AskedWith(p, x)
  BY <1>10 DEF Traced
<1>12. x = y
  <2>1. PICK q \in Known, s \in Known : q.name = p[1] /\ q.extras = x /\ s.name = p[1] /\ s.extras = y
    BY <1>7, <1>11 DEF AskedWith
  <2> QED BY <2>1 DEF SameExtras
<1>13. Answered(r, seen)
  BY <1>8, <1>10, <1>12, MarkedHasWheel DEF Settled
<1>14. Soles[r] = <<r.name, Soles[r][2]>>
  <2>1. r \in Known
    BY <1>8, KnownRequirements
  <2>2. PICK v : Soles[r] = <<r.name, v>>
    BY <2>1, SoleCandidate
  <2> QED BY <2>2
<1>15. PICK c : c = Soles[r]
  OBVIOUS
<1>16. c[1] = r.name
  BY <1>14, <1>15
<1> QED BY <1>8, <1>13, <1>15, <1>16 DEF Answered, WheelMarked

(* A run over a buildable universe in which nothing outside the loop fails, and *)
(* in which packages are not asked for both with and without their extras,      *)
(* ends with a wheel of every package that some build needs, though its sdist   *)
(* alone may have been asked for first, or in a later step by another of its    *)
(* parents (Bootstrapper.has_been_seen, mark_as_seen,                          *)
(* WorkItem.is_build_requirement_context).                                     *)
THEOREM EveryNeededWheelIsBuilt == Spec => [](Buildable => NeededWheelsAreBuilt)
<1>1. ASSUME TypeInv, HealthInv, TraceInv, Buildable, pc = "finalized", faults = {}, SameExtras
      PROVE  NeededForBuilds \subseteq Mirror
  <2>1. Calm
    BY <1>1 DEF Calm
  <2>2. HealthNow /\ Tasks = {} /\ Traced(Tasks, graph.edges, seen)
    BY <1>1, <2>1 DEF HealthInv, TraceInv
  <2>3. PICK W : W = {p \in graph.nodes : p \in Pkg /\ WheelMarked(p)}
    OBVIOUS
  <2>4. graph \in Graph /\ WellFormed(graph)
    BY <1>1 DEF TypeInv, RecordsTypeOK
  <2>5. ASSUME NEW p \in W PROVE p \in Mirror
    <3>1. PICK x \in BOOLEAN : <<p[1], x, p[2], "wheel">> \in seen
      BY <2>3 DEF WheelMarked
    <3>2. PICK k : k = <<p[1], x, p[2], "wheel">>
      OBVIOUS
    <3>3. k \in seen /\ k[4] = "wheel" /\ <<k[1], k[3]>> = p
      BY <2>3, <3>1, <3>2 DEF Pkg
    <3> QED BY <1>1, <2>2, <3>3, MarkedHasWheel DEF Settled
  <2>6. \A e \in graph.edges : e.child \in Pkg /\ e.child \in graph.nodes
    BY <2>4 DEF Graph, Edge, WellFormed
  <2>7. \A e \in graph.edges : e.type \in BuildType => e.child \in W
    BY <2>2, <2>3, <2>6 DEF HealthNow, Health, EdgeMarked, WheelMarked
  <2>8. ClosedUnder(graph, W, InstallType)
    BY <1>1, <2>2, <2>3, <2>6, MarkedAreClosed DEF ClosedUnder
  <2>9. NeedsIn(graph) \subseteq W
    BY <2>3, <2>4, <2>7, <2>8, NeedsOfEdges
  <2> QED BY <2>5, <2>9 DEF NeededForBuilds, NeedsIn
<1>2. TypeInv /\ HealthInv /\ TraceInv => (Buildable => NeededWheelsAreBuilt)
  BY <1>1 DEF NeededWheelsAreBuilt
<1> QED BY <1>2, TypeIsInvariant, HealthIsInvariant, TraceIsInvariant, PTL
=============================================================================
