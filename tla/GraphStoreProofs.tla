-------------------------- MODULE GraphStoreProofs --------------------------
(***************************************************************************)
(* What the walks of the dependency graph visit, and what removal leaves of  *)
(* it, for every graph of finitely many packages.                           *)
(***************************************************************************)
EXTENDS GraphStore, FiniteSetTheorems, WellFoundedInduction, TLAPS

(* Of some subsets of a finite set, one has none of the others below it.       *)
LEMMA MinimalSubset ==
  ASSUME NEW S, IsFiniteSet(S), NEW T, T \subseteq SUBSET S, T # {}
  PROVE  \E x \in T : \A y \in T : y \subseteq x => y = x
<1>1. T \subseteq FiniteSubsetsOf(S)
  BY FS_Subset DEF FiniteSubsetsOf
<1>2. \E x \in T : \A y \in T : ~(<<y, x>> \in StrictSubsetOrdering(S))
  BY <1>1, WFMin, FS_StrictSubsetOrderingWellFounded
<1> QED BY <1>2 DEF StrictSubsetOrdering

-----------------------------------------------------------------------------
(* A walk ends with the least set that holds its start and is closed.          *)
Vertex == Package \cup {ROOT}

Arrows(edges)    == \A e \in edges : e.parent \in Vertex /\ e.child \in Vertex
Closed(edges, C) == \A e \in edges : e.parent \in C => e.child \in C
Further(edges, R) == R \cup {e.child : e \in {e \in edges : e.parent \in R}}

Reach(edges, S) ==
  {m \in Vertex : \A C \in SUBSET Vertex : S \subseteq C /\ Closed(edges, C) => m \in C}

LEMMA ReachIsLeast ==
  ASSUME NEW edges, Arrows(edges), NEW S \in SUBSET Vertex
  PROVE  /\ Reach(edges, S) \in SUBSET Vertex /\ S \subseteq Reach(edges, S)
         /\ Closed(edges, Reach(edges, S))
         /\ \A C \in SUBSET Vertex : S \subseteq C /\ Closed(edges, C) => Reach(edges, S) \subseteq C
<1>1. Closed(edges, Reach(edges, S))
  <2> SUFFICES ASSUME NEW e \in edges, e.parent \in Reach(edges, S),
                      NEW C \in SUBSET Vertex, S \subseteq C, Closed(edges, C)
               PROVE  e.child \in C
    BY DEF Closed, Reach, Arrows
  <2> QED BY DEF Closed, Reach
<1> QED BY <1>1 DEF Reach

LEMMA FurtherReach ==
  ASSUME NEW edges, Arrows(edges), NEW S \in SUBSET Vertex
  PROVE  /\ Further(edges, S) \in SUBSET Vertex
         /\ Reach(edges, Further(edges, S)) = Reach(edges, S)
         /\ Further(edges, S) = S => Reach(edges, S) = S
<1>1. Further(edges, S) \in SUBSET Vertex
  BY DEF Further, Arrows
<1>2. \A C : Closed(edges, C) => (S \subseteq C <=> Further(edges, S) \subseteq C)
  BY DEF Further, Closed
<1>3. Further(edges, S) = S => Closed(edges, S)
  BY DEF Further, Closed
<1>4. Reach(edges, Further(edges, S)) = Reach(edges, S)
  BY <1>2 DEF Reach
<1>5. Closed(edges, S) => Reach(edges, S) = S
  BY DEF Reach
<1> QED BY <1>1, <1>3, <1>4, <1>5

LEMMA WalkReaches ==
  ASSUME NEW edges, Arrows(edges), NEW S \in SUBSET Vertex
  PROVE  Walk(edges, S) = Reach(edges, S)
<1> DEFINE Fits(w) == w = [R \in SUBSET Vertex |->
                             IF Further(edges, R) = R THEN R ELSE w[Further(edges, R)]]
           walk == CHOOSE w : Fits(w)
<1>1. Walk(edges, S) = walk[S]
  BY DEF Walk, Further, Vertex
<1>2. Fits([R \in SUBSET Vertex |-> Reach(edges, R)])
  BY FurtherReach
<1>3. Fits(walk)
  BY <1>2
<1>4. \A R \in SUBSET Vertex :
        walk[R] = IF Further(edges, R) = R THEN R ELSE walk[Further(edges, R)]
  BY <1>3
<1> HIDE DEF walk, Fits
<1>5. ASSUME NEW R \in SUBSET Vertex, walk[R] # Reach(edges, R) PROVE FALSE
  <2> DEFINE Left == {Vertex \ Q : Q \in {Q \in SUBSET Vertex : walk[Q] # Reach(edges, Q)}}
  <2>1. IsFiniteSet(Vertex)
    BY StoreAssumption, FS_AddElement DEF Vertex
  <2>2. Left \subseteq SUBSET Vertex /\ Left # {}
    BY <1>5
  <2>3. PICK x \in Left : \A y \in Left : y \subseteq x => y = x
    <3> HIDE DEF Left
    <3> QED BY <2>1, <2>2, MinimalSubset
  <2>4. PICK Q \in SUBSET Vertex : x = Vertex \ Q /\ walk[Q] # Reach(edges, Q)
    BY <2>3
  <2>5. PICK next : next = Further(edges, Q)
    OBVIOUS
  <2>6. next \in SUBSET Vertex /\ Q \subseteq next /\ next # Q
    BY <1>4, <2>4, <2>5, FurtherReach DEF Further
  <2>7. walk[next] # Reach(edges, next)
    BY <1>4, <2>4, <2>5, <2>6, FurtherReach
  <2>8. Vertex \ next \in Left /\ Vertex \ next \subseteq x /\ Vertex \ next # x
    BY <2>4, <2>6, <2>7
  <2> QED BY <2>3, <2>8
<1> QED BY <1>1, <1>5

(* The facts about walks that everything below rests on.                       *)
LEMMA WalkIsLeast ==
  ASSUME NEW edges, Arrows(edges), NEW S \in SUBSET Vertex
  PROVE  /\ Walk(edges, S) \in SUBSET Vertex /\ S \subseteq Walk(edges, S)
         /\ Closed(edges, Walk(edges, S))
         /\ \A C \in SUBSET Vertex : S \subseteq C /\ Closed(edges, C) => Walk(edges, S) \subseteq C
  BY WalkReaches, ReachIsLeast

(* Up, a walk goes from the ends of edges to their beginnings.                 *)
LEMMA WalkUpIsLeast ==
  ASSUME NEW edges, Arrows(edges)
  PROVE  /\ \A m \in Vertex : WalkUp(edges, {m}) \in SUBSET Vertex /\ m \in WalkUp(edges, {m})
         /\ \A m \in Vertex, e \in edges :
              e.child \in WalkUp(edges, {m}) => e.parent \in WalkUp(edges, {m})
         /\ \A m \in Vertex, C \in SUBSET Vertex :
              m \in C /\ (\A e \in edges : e.child \in C => e.parent \in C)
                => WalkUp(edges, {m}) \subseteq C
<1> DEFINE back == {[parent |-> e.child, child |-> e.parent] : e \in edges}
<1>1. Arrows(back) /\ \A C : Closed(back, C) <=> \A e \in edges : e.child \in C => e.parent \in C
  <2> DEFINE turned(e) == [parent |-> e.child, child |-> e.parent]
  <2>1. back = {turned(e) : e \in edges} /\ \A e : turned(e).parent = e.child /\ turned(e).child = e.parent
    OBVIOUS
  <2> HIDE DEF turned, back
  <2> QED BY <2>1 DEF Arrows, Closed
<1>2. \A m : WalkUp(edges, {m}) = Walk(back, {m})
  BY DEF WalkUp
<1> HIDE DEF back
<1>3. \A m \in Vertex :
        /\ Walk(back, {m}) \in SUBSET Vertex /\ m \in Walk(back, {m}) /\ Closed(back, Walk(back, {m}))
        /\ \A C \in SUBSET Vertex : m \in C /\ Closed(back, C) => Walk(back, {m}) \subseteq C
  <2> SUFFICES ASSUME NEW m \in Vertex
               PROVE  /\ Walk(back, {m}) \in SUBSET Vertex /\ m \in Walk(back, {m})
                      /\ Closed(back, Walk(back, {m}))
                      /\ \A C \in SUBSET Vertex : m \in C /\ Closed(back, C) => Walk(back, {m}) \subseteq C
    OBVIOUS
  <2>1. Arrows(back) /\ {m} \in SUBSET Vertex
    BY <1>1
  <2>2. /\ Walk(back, {m}) \in SUBSET Vertex /\ {m} \subseteq Walk(back, {m})
        /\ Closed(back, Walk(back, {m}))
        /\ \A C \in SUBSET Vertex : {m} \subseteq C /\ Closed(back, C) => Walk(back, {m}) \subseteq C
    BY <2>1, WalkIsLeast
  <2> QED BY <2>2
<1>4. \A m \in Vertex : WalkUp(edges, {m}) \in SUBSET Vertex /\ m \in WalkUp(edges, {m})
  <2>1. \A m \in Vertex : Walk(back, {m}) \in SUBSET Vertex /\ m \in Walk(back, {m})
    BY <1>3
  <2> QED BY ONLY <1>2, <2>1
<1>5. ASSUME NEW m \in Vertex, NEW e \in edges, e.child \in WalkUp(edges, {m})
      PROVE  e.parent \in WalkUp(edges, {m})
  <2>1. PICK up : up = WalkUp(edges, {m})
    OBVIOUS
  <2>2. Closed(back, up)
    <3>1. up = Walk(back, {m})
      BY <1>2, <2>1
    <3>2. Closed(back, Walk(back, {m}))
      BY <1>3
    <3> QED BY ONLY <3>1, <3>2
  <2>3. \A f \in edges : f.child \in up => f.parent \in up
    BY <1>1, <2>2
  <2> QED BY <1>5, <2>1, <2>3
<1>6. ASSUME NEW m \in Vertex, NEW C \in SUBSET Vertex, m \in C,
             \A e \in edges : e.child \in C => e.parent \in C
      PROVE  WalkUp(edges, {m}) \subseteq C
  <2>1. Closed(back, C)
    BY <1>1, <1>6
  <2>2. Walk(back, {m}) \subseteq C
    BY <1>3, <1>6, <2>1
  <2> QED BY <1>2, <2>2
<1> QED BY <1>4, <1>5, <1>6

(* A walk down finds a package exactly if the walk up from it finds the start. *)
LEMMA WalksMeet ==
  ASSUME NEW edges, Arrows(edges), NEW m \in Vertex, NEW n \in Vertex
  PROVE  n \in Walk(edges, {m}) <=> m \in WalkUp(edges, {n})
<1> DEFINE up   == WalkUp(edges, {n})
           down == Walk(edges, {m})
<1>1. /\ up \in SUBSET Vertex /\ n \in up /\ \A e \in edges : e.child \in up => e.parent \in up
      /\ \A C \in SUBSET Vertex :
           n \in C /\ (\A e \in edges : e.child \in C => e.parent \in C) => up \subseteq C
  BY WalkUpIsLeast
<1>2. /\ down \in SUBSET Vertex /\ m \in down /\ Closed(edges, down)
      /\ \A C \in SUBSET Vertex : m \in C /\ Closed(edges, C) => down \subseteq C
  BY WalkIsLeast
<1> HIDE DEF up, down
<1>3. ASSUME n \in down, m \notin up PROVE FALSE
  <2>1. Closed(edges, Vertex \ up)
    BY <1>1 DEF Closed, Arrows
  <2> QED BY <1>1, <1>2, <1>3, <2>1
<1>4. ASSUME m \in up, n \notin down PROVE FALSE
  <2>1. \A e \in edges : e.child \in Vertex \ down => e.parent \in Vertex \ down
    BY <1>2 DEF Closed, Arrows
  <2> QED BY <1>1, <1>2, <1>4, <2>1
<1> QED BY <1>3, <1>4 DEF up, down

(* Where no vertex leads back to itself, some member of a set has no edge from  *)
(* another member: one that a walk up finds least from.                       *)
LEMMA FirstOfSet ==
  ASSUME NEW edges, Arrows(edges), Acyclic(edges), NEW S \in SUBSET Vertex, S # {}
  PROVE  \E m \in S : \A e \in edges : e.child = m => e.parent \notin S
<1> DEFINE Ups == {WalkUp(edges, {m}) : m \in S}
<1>1. /\ \A m \in Vertex : WalkUp(edges, {m}) \in SUBSET Vertex /\ m \in WalkUp(edges, {m})
      /\ \A m \in Vertex, e \in edges : e.child \in WalkUp(edges, {m}) => e.parent \in WalkUp(edges, {m})
      /\ \A m \in Vertex, C \in SUBSET Vertex :
           m \in C /\ (\A e \in edges : e.child \in C => e.parent \in C) => WalkUp(edges, {m}) \subseteq C
  BY WalkUpIsLeast
<1>2. IsFiniteSet(Vertex)
  BY StoreAssumption, FS_AddElement DEF Vertex
<1>3. Ups \subseteq SUBSET Vertex /\ Ups # {}
  <2>1. \A m \in S : WalkUp(edges, {m}) \in SUBSET Vertex
    BY <1>1
  <2>2. PICK m \in S : TRUE
    OBVIOUS
  <2> QED BY <2>1, <2>2, Zenon
<1>4. PICK x \in Ups : \A y \in Ups : y \subseteq x => y = x
  <2> HIDE DEF Ups
  <2> QED BY <1>2, <1>3, MinimalSubset
<1>5. PICK m \in S : x = WalkUp(edges, {m})
  BY <1>4
<1>6. ASSUME NEW e \in edges, e.child = m, e.parent \in S PROVE FALSE
  <2>1. e.parent \in WalkUp(edges, {m})
    BY <1>1, <1>6
  <2>2. WalkUp(edges, {e.parent}) \subseteq x /\ WalkUp(edges, {e.parent}) \in Ups
    BY <1>1, <1>5, <1>6, <2>1
  <2>3. m \in WalkUp(edges, {e.parent})
    BY <1>1, <1>4, <1>5, <2>2
  <2>4. e.parent \in Walk(edges, {m})
    BY <1>6, <2>3, WalksMeet
  <2> QED BY <1>6, <2>4 DEF Acyclic
<1> QED BY <1>6
-----------------------------------------------------------------------------
LEMMA EdgesFinite == IsFiniteSet(Edge)
<1> DEFINE Triple == (Vertex \X ReqType) \X Package
           f == [t \in Triple |-> [parent |-> t[1][1], type |-> t[1][2], child |-> t[2]]]
<1>1. IsFiniteSet(Vertex)
  BY StoreAssumption, FS_AddElement DEF Vertex
<1>2. IsFiniteSet(ReqType)
  <2>1. IsFiniteSet({"build-system"})
    BY FS_Singleton
  <2>2. IsFiniteSet({"build-system"} \cup {"build-backend"})
    BY <2>1, FS_AddElement
  <2>3. IsFiniteSet({"build-system"} \cup {"build-backend"} \cup {"build-sdist"})
    BY <2>2, FS_AddElement
  <2>4. IsFiniteSet({"build-system"} \cup {"build-backend"} \cup {"build-sdist"} \cup {"install"})
    BY <2>3, FS_AddElement
  <2>5. IsFiniteSet({"build-system"} \cup {"build-backend"} \cup {"build-sdist"} \cup {"install"} \cup {"toplevel"})
    BY <2>4, FS_AddElement
  <2>6. ReqType = {"build-system"} \cup {"build-backend"} \cup {"build-sdist"} \cup {"install"} \cup {"toplevel"}
    BY DEF ReqType, BuildType, InstallType
  <2> QED BY <2>5, <2>6
<1>3. IsFiniteSet(Triple)
  <2>1. IsFiniteSet(Vertex \X ReqType)
    BY <1>1, <1>2, FS_Product
  <2> QED BY <2>1, StoreAssumption, FS_Product
<1>4. f \in Surjection(Triple, Edge)
  <2>1. f \in [Triple -> Edge]
    BY DEF Edge, Vertex
  <2>2. ASSUME NEW e \in Edge PROVE \E t \in Triple : f[t] = e
    <3>1. <<<<e.parent, e.type>>, e.child>> \in Triple
      BY DEF Edge, Vertex
    <3>2. f[<<<<e.parent, e.type>>, e.child>>] = e
      BY <3>1 DEF Edge
    <3> QED BY <3>1, <3>2
  <2> QED BY <2>1, <2>2 DEF Surjection
<1> QED BY <1>3, <1>4, FS_Surjection

(* The sequence made of a finite set has its elements and no others.          *)
Elements(s) == {s[i] : i \in DOMAIN s}

LEMMA SequenceOfSet ==
  ASSUME NEW S, IsFiniteSet(S)
  PROVE  /\ Cardinality(S) \in Nat /\ SetToSeq(S) \in [1..Cardinality(S) -> S]
         /\ \A x \in S : \E i \in 1..Cardinality(S) : SetToSeq(S)[i] = x
<1>1. Cardinality(S) \in Nat
  BY FS_CardinalityType
<1>2. PICK f \in [1..Cardinality(S) -> S] : IsInjective(f)
  <2>1. ExistsBijection(1..Cardinality(S), S)
    BY FS_CardinalityType
  <2> QED BY <2>1 DEF ExistsBijection, Bijection, Injection
<1>3. SetToSeq(S) \in [1..Cardinality(S) -> S] /\ IsInjective(SetToSeq(S))
  BY <1>2 DEF SetToSeq
<1>4. Cardinality(1..Cardinality(S)) = Cardinality(S)
  BY <1>1, FS_Interval
<1>5. SetToSeq(S) \in Injection(1..Cardinality(S), S)
  BY <1>3 DEF Injection
<1>6. SetToSeq(S) \in Surjection(1..Cardinality(S), S)
  BY <1>4, <1>5, FS_Injection
<1> QED BY <1>1, <1>3, <1>6 DEF Surjection

Lost(kids, ps) == {e \in kids : e.child \in nodes /\ \A f \in ps : f.child # e.child}

LEMMA OrphansAreLost ==
  ASSUME NEW kids, kids \subseteq Edge, NEW ps
  PROVE  /\ Orphans(kids, ps) \in Seq(Package)
         /\ Elements(Orphans(kids, ps)) = {e.child : e \in Lost(kids, ps)}
<1> DEFINE lost == Lost(kids, ps)
           card == Cardinality(lost)
           seq  == SetToSeq(lost)
<1>1. lost \in SUBSET Edge
  BY DEF Lost
<1>2. IsFiniteSet(lost)
  BY <1>1, EdgesFinite, FS_Subset
<1>3. Orphans(kids, ps) = [i \in 1..card |-> seq[i].child]
  BY DEF Orphans, Lost
<1> HIDE DEF lost
<1>4. card \in Nat /\ seq \in [1..card -> lost] /\ \A x \in lost : \E i \in 1..card : seq[i] = x
  BY <1>2, SequenceOfSet
<1> HIDE DEF card, seq
<1>5. \A i \in 1..card : seq[i] \in lost /\ seq[i].child \in Package
  BY <1>1, <1>4 DEF Edge
<1>6. Orphans(kids, ps) \in Seq(Package)
  BY <1>3, <1>4, <1>5
<1>7. Elements(Orphans(kids, ps)) = {e.child : e \in lost}
  BY <1>3, <1>4, <1>5 DEF Elements
<1> QED BY <1>6, <1>7 DEF lost
LEMMA QueueElements ==
  ASSUME NEW T, NEW q \in Seq(T), q # <<>>, NEW r \in Seq(T)
  PROVE  /\ Head(q) \in T /\ Tail(q) \in Seq(T) /\ Tail(q) \o r \in Seq(T)
         /\ Elements(q) = {Head(q)} \cup Elements(Tail(q))
         /\ Elements(Tail(q) \o r) = Elements(Tail(q)) \cup Elements(r)
<1>1. Head(q) \in T /\ Tail(q) \in Seq(T) /\ Tail(q) \o r \in Seq(T) /\ Len(q) \in Nat \ {0}
  OBVIOUS
<1>2. \A s \in Seq(T) : DOMAIN s = 1..Len(s)
  OBVIOUS
<1>3. Elements(q) = {Head(q)} \cup Elements(Tail(q))
  <2>1. \A i \in 1..Len(q) : q[i] \in {Head(q)} \cup Elements(Tail(q))
    <3> SUFFICES ASSUME NEW i \in 1..Len(q), i # 1 PROVE q[i] \in Elements(Tail(q))
      BY DEF Elements
    <3>1. i - 1 \in 1..Len(Tail(q)) /\ q[i] = Tail(q)[i - 1]
      BY <1>1
    <3>2. i - 1 \in DOMAIN Tail(q)
      BY <1>1, <1>2, <3>1
    <3> QED BY <3>1, <3>2, Zenon DEF Elements
  <2>2. Head(q) \in Elements(q)
    BY <1>1 DEF Elements
  <2>3. \A i \in 1..Len(Tail(q)) : Tail(q)[i] = q[i + 1] /\ i + 1 \in 1..Len(q)
    BY <1>1
  <2> QED BY <1>1, <2>1, <2>2, <2>3 DEF Elements
<1>4. Elements(Tail(q) \o r) = Elements(Tail(q)) \cup Elements(r)
  <2> DEFINE t == Tail(q)
  <2>1. t \in Seq(T)
    BY <1>1
  <2> HIDE DEF t
  <2>2. /\ Len(t \o r) = Len(t) + Len(r) /\ Len(t) \in Nat /\ Len(r) \in Nat /\ t \o r \in Seq(T)
        /\ \A i \in 1..(Len(t) + Len(r)) : (t \o r)[i] = IF i <= Len(t) THEN t[i] ELSE r[i - Len(t)]
    BY <2>1
  <2>3. ASSUME NEW x \in Elements(t \o r) PROVE x \in Elements(t) \cup Elements(r)
    <3>1. PICK i \in 1..(Len(t) + Len(r)) : x = (t \o r)[i]
      BY <2>2 DEF Elements
    <3>2. CASE i <= Len(t)
      BY <2>1, <2>2, <3>1, <3>2 DEF Elements
    <3>3. CASE i > Len(t)
      <4>1. i - Len(t) \in 1..Len(r) /\ x = r[i - Len(t)]
        BY <2>2, <3>1, <3>3
      <4> QED BY <4>1 DEF Elements
    <3> QED BY <2>2, <3>2, <3>3
  <2>4. ASSUME NEW i \in 1..Len(t) PROVE t[i] \in Elements(t \o r)
    <3>1. i \in 1..(Len(t) + Len(r)) /\ t[i] = (t \o r)[i]
      BY <2>2
    <3>2. DOMAIN (t \o r) = 1..(Len(t) + Len(r))
      BY <2>2
    <3> QED BY <3>1, <3>2, Zenon DEF Elements
  <2>5. ASSUME NEW i \in 1..Len(r) PROVE r[i] \in Elements(t \o r)
    <3>1. /\ i + Len(t) \in 1..(Len(t) + Len(r)) /\ ~(i + Len(t) <= Len(t))
          /\ i + Len(t) - Len(t) = i
      BY <2>2
    <3>2. r[i] = (t \o r)[i + Len(t)]
      BY <2>2, <3>1
    <3>3. DOMAIN (t \o r) = 1..(Len(t) + Len(r))
      BY <2>2
    <3> QED BY <3>1, <3>2, <3>3, Zenon DEF Elements
  <2>6. Elements(t) \subseteq Elements(t \o r) /\ Elements(r) \subseteq Elements(t \o r)
    <3>1. DOMAIN t = 1..Len(t) /\ DOMAIN r = 1..Len(r)
      BY <1>2, <2>1
    <3> QED BY <2>4, <2>5, <3>1, Zenon DEF Elements
  <2>7. Elements(t \o r) = Elements(t) \cup Elements(r)
    BY <2>3, <2>6
  <2> QED BY <2>7 DEF t
<1> QED BY <1>1, <1>3, <1>4

-----------------------------------------------------------------------------
(* What holds while a package is removed, one orphan after another.  The two   *)
(* records of the edges agree and are those of the graph before between what is *)
(* left; what is gone or in the queue must go, and all that must go follows     *)
(* from what is gone; nothing that is not queued is without a parent.         *)
Gone   == before.graph.nodes \ nodes
Queued == Elements(queue)

GoodCut(S) == before.node \in S /\ ClosedUnderOrphans(before.graph, S)

BeforeTypeOK == before.graph \in Graph /\ WellFormed(before.graph)

EdgesAgree ==
  /\ nodes \subseteq before.graph.nodes /\ parents = children
  /\ children = {e \in before.graph.edges : e.parent \in nodes /\ e.child \in nodes}

CutIsLeast ==
  \A S \in SUBSET before.graph.nodes : GoodCut(S) => Gone \cup Queued \subseteq S

CutIsClosed ==
  /\ before.node \in Gone \cup Queued
  /\ \A m \in before.graph.nodes \ {ROOT} :
       Parents(before.graph, m) # {} /\ Parents(before.graph, m) \subseteq Gone => m \in Gone \cup Queued

OrphansAreQueued ==
  \A m \in nodes \ {ROOT} : m \in Queued \/ \E e \in children : e.child = m

StoreInv ==
  /\ StoreTypeOK /\ BeforeTypeOK /\ EdgesAgree
  /\ Queued \subseteq before.graph.nodes
  /\ removals > 0 => CutIsLeast /\ CutIsClosed
  /\ Removing => removals > 0
  /\ OrphansAreQueued

LEMMA RemovePackageKeeps ==
  ASSUME StoreInv, NEW n, RemovePackage(n)
  PROVE  StoreInv'
<1>1. /\ n \in nodes \ {ROOT} /\ queue' = <<n>> /\ removals' = removals + 1 /\ removals < MaxRemovals
      /\ before' = [graph |-> Stored, node |-> n] /\ UNCHANGED <<nodes, children, parents>>
      /\ queue = <<>>
  BY DEF RemovePackage, Removing
<1>2. n \in Package
  BY <1>1 DEF StoreInv, StoreTypeOK
<1>3. before'.graph.nodes = nodes /\ before'.graph.edges = children /\ before'.node = n
  BY <1>1 DEF Stored
<1>4. StoreTypeOK'
  <2>1. queue' \in Seq(Package)
    BY <1>1, <1>2
  <2>2. removals' \in 0..MaxRemovals
    BY <1>1, StoreAssumption DEF StoreInv, StoreTypeOK
  <2> QED BY <1>1, <2>1, <2>2 DEF StoreInv, StoreTypeOK
<1>5. Gone' = {} /\ Queued' = {n} /\ Queued = {}
  <2>1. Gone' = {}
    BY <1>1, <1>3 DEF Gone
  <2>2. Elements(<<n>>) = {n} /\ Elements(<<>>) = {}
    BY DEF Elements
  <2> QED BY <1>1, <2>1, <2>2 DEF Queued
<1>6. BeforeTypeOK'
  <2>1. before'.graph = [nodes |-> nodes, edges |-> children]
    BY <1>1 DEF Stored
  <2>2. before'.graph \in Graph
    BY <2>1 DEF Graph, StoreInv, StoreTypeOK
  <2>3. WellFormed(before'.graph)
    BY <1>3 DEF WellFormed, StoreInv, StoreTypeOK, EdgesAgree
  <2> QED BY <2>2, <2>3 DEF BeforeTypeOK
<1>7. EdgesAgree'
  BY <1>1, <1>3 DEF EdgesAgree, StoreInv
<1>8. CutIsLeast' /\ CutIsClosed'
  <2>1. CutIsLeast'
    BY <1>3, <1>5 DEF CutIsLeast, GoodCut
  <2>2. CutIsClosed'
    BY <1>3, <1>5 DEF CutIsClosed
  <2> QED BY <2>1, <2>2
<1>9. OrphansAreQueued'
  BY <1>1, <1>5 DEF OrphansAreQueued, StoreInv
<1>10. removals' > 0
  BY <1>1 DEF StoreInv, StoreTypeOK
<1>11. Queued' \subseteq before'.graph.nodes
  BY <1>1, <1>3, <1>5
<1> QED BY <1>4, <1>6, <1>7, <1>8, <1>9, <1>10, <1>11 DEF StoreInv

LEMMA RemoveNextKeeps ==
  ASSUME StoreInv, RemoveNext
  PROVE  StoreInv'
<1> DEFINE n     == Head(queue)
           kids  == {e \in children : e.parent = n}
           ps    == {e \in parents : ~(e.parent = n /\ e.child \in {k.child : k \in kids})}
           folks == {e.parent : e \in {e \in ps : e.child = n}}
           lost  == Lost({k \in kids : k.child # n}, parents')
           g     == before.graph
<1>1. Removing /\ removals > 0 /\ UNCHANGED <<before, removals>>
  BY DEF RemoveNext, StoreInv
<1>2. /\ queue \in Seq(Package) /\ queue # <<>> /\ children \subseteq Edge
      /\ nodes \subseteq Vertex /\ ROOT \in nodes /\ ROOT \notin Package
  BY <1>1, RootAssumption DEF StoreInv, StoreTypeOK, Removing, Vertex
<1>3. n \in Package /\ Tail(queue) \in Seq(Package) /\ Queued = {n} \cup Elements(Tail(queue))
  <2>1. <<>> \in Seq(Package)
    OBVIOUS
  <2> QED BY <1>2, <2>1, QueueElements DEF Queued
<1>4. CASE n \notin nodes
  <2>1. queue' = Tail(queue) /\ UNCHANGED <<nodes, children, parents>>
    BY <1>4, Zenon DEF RemoveNext
  <2>2. n \in Gone /\ Gone' = Gone /\ Queued' = Elements(Tail(queue))
    BY <1>1, <1>3, <1>4, <2>1 DEF Gone, Queued, StoreInv
  <2>3. (Gone \cup Queued)' = Gone \cup Queued
    BY <1>3, <2>2
  <2>4. StoreTypeOK' /\ BeforeTypeOK' /\ EdgesAgree'
    BY <1>1, <1>3, <2>1 DEF StoreInv, StoreTypeOK, BeforeTypeOK, EdgesAgree
  <2>5. CutIsLeast'
    <3>1. CutIsLeast
      BY <1>1 DEF StoreInv
    <3> QED BY <1>1, <2>3, <3>1 DEF CutIsLeast, GoodCut
  <2>6. CutIsClosed'
    <3>1. CutIsClosed
      BY <1>1 DEF StoreInv
    <3> QED BY <1>1, <2>2, <2>3, <3>1 DEF CutIsClosed
  <2>7. OrphansAreQueued'
    <3>1. OrphansAreQueued
      BY DEF StoreInv
    <3> QED BY <1>3, <1>4, <2>1, <2>2, <3>1 DEF OrphansAreQueued
  <2>8. Queued' \subseteq before'.graph.nodes
    BY <1>1, <1>3, <2>2 DEF StoreInv
  <2> QED BY <1>1, <2>4, <2>5, <2>6, <2>7, <2>8 DEF StoreInv
<1>5. CASE n \in nodes
  <2>1. /\ nodes' = nodes \ {n}
        /\ children' = {e \in children : e.parent # n /\ ~(e.parent \in folks /\ e.child = n)}
        /\ parents' = {e \in ps : e.child # n}
        /\ queue' = Tail(queue) \o Orphans({k \in kids : k.child # n}, parents')
    BY <1>5, Zenon DEF RemoveNext
  <2>2. parents = children /\ children = {e \in g.edges : e.parent \in nodes /\ e.child \in nodes}
        /\ nodes \subseteq g.nodes
    BY DEF StoreInv, EdgesAgree
  <2>3. \A e \in children : e \in ps <=> e.parent # n
    BY <2>2
  <2>4. \A e \in children : e.child = n /\ e.parent # n => e.parent \in folks
    BY <2>2, <2>3
  <2>5. children' = {e \in children : e.parent # n /\ e.child # n}
    BY <2>1, <2>4
  <2>6. parents' = {e \in children : e.parent # n /\ e.child # n}
    <3>1. ps \subseteq children
      BY <2>2
    <3> QED BY <2>1, <2>3, <3>1
  <2>7. EdgesAgree'
    BY <1>1, <2>1, <2>2, <2>5, <2>6 DEF EdgesAgree
  <2>8. /\ Orphans({k \in kids : k.child # n}, parents') \in Seq(Package)
        /\ Elements(Orphans({k \in kids : k.child # n}, parents')) = {e.child : e \in lost}
    <3>1. {k \in kids : k.child # n} \subseteq Edge
      BY <1>2
    <3> QED BY <3>1, OrphansAreLost
  <2>9. queue' \in Seq(Package) /\ Queued' = Elements(Tail(queue)) \cup {e.child : e \in lost}
    <3>1. \A r \in Seq(Package) : /\ Tail(queue) \o r \in Seq(Package)
                                 /\ Elements(Tail(queue) \o r) = Elements(Tail(queue)) \cup Elements(r)
      BY <1>2, QueueElements
    <3> QED BY <2>1, <2>8, <3>1 DEF Queued
  <2>10. Gone' = Gone \cup {n}
    BY <1>1, <1>5, <2>1, <2>2 DEF Gone
  <2> DEFINE left == {e.child : e \in lost}
  <2>11. \A c : c \in left <=>
           /\ c \in nodes /\ c # n /\ \E e \in children : e.parent = n /\ e.child = c
           /\ \A f \in parents' : f.child # c
    BY DEF Lost
  <2> HIDE DEF kids, ps, folks, lost, left, n
  <2>12. (Gone \cup Queued)' = Gone \cup Queued \cup left
    BY <1>3, <2>9, <2>10 DEF left
  <2>13. ASSUME NEW c \in left
         PROVE  /\ c \in g.nodes \ {ROOT} /\ Parents(g, c) # {}
                /\ \A S : Gone \cup Queued \subseteq S => Parents(g, c) \subseteq S
    <3>1. c \in nodes /\ c # n /\ \A f \in parents' : f.child # c
      BY <2>11
    <3>2. PICK e \in children : e.parent = n /\ e.child = c
      BY <2>11
    <3>3. c \in Package /\ e \in g.edges
      BY <1>2, <2>2, <3>2 DEF Edge
    <3>4. Parents(g, c) # {}
      BY <3>2, <3>3 DEF Parents
    <3>5. ASSUME NEW d \in g.edges, d.child = c PROVE d.parent \in Gone \cup {n}
      <4>1. d.parent \in g.nodes
        BY DEF StoreInv, BeforeTypeOK, WellFormed
      <4>2. ASSUME d.parent \in nodes, d.parent # n PROVE FALSE
        <5>1. d \in parents'
          BY <2>2, <2>6, <3>1, <3>5, <4>2
        <5> QED BY <3>1, <3>5, <5>1
      <4> QED BY <4>1, <4>2 DEF Gone
    <3> QED BY <1>2, <1>3, <2>2, <3>1, <3>3, <3>4, <3>5 DEF Parents
  <2>14. StoreTypeOK' /\ BeforeTypeOK'
    <3>1. ROOT \in nodes'
      BY <1>2, <1>3, <2>1
    <3>2. children' \subseteq Edge /\ parents' \subseteq Edge /\ nodes' \subseteq Package \cup {ROOT}
      BY <1>2, <2>1, <2>5, <2>6 DEF Vertex
    <3> QED BY <1>1, <2>9, <3>1, <3>2 DEF StoreInv, StoreTypeOK, BeforeTypeOK
  <2>15. CutIsLeast'
    <3> SUFFICES ASSUME NEW S \in SUBSET g.nodes, GoodCut(S) PROVE (Gone \cup Queued)' \subseteq S
      BY <1>1 DEF CutIsLeast, GoodCut
    <3>1. Gone \cup Queued \subseteq S
      BY <1>1 DEF StoreInv, CutIsLeast
    <3>2. left \subseteq S
      BY <2>13, <3>1 DEF GoodCut, ClosedUnderOrphans
    <3> QED BY <2>12, <3>1, <3>2
  <2>16. CutIsClosed'
    <3>1. CutIsClosed
      BY <1>1 DEF StoreInv
    <3>2. before.node \in (Gone \cup Queued)'
      BY <2>12, <3>1 DEF CutIsClosed
    <3>3. ASSUME NEW m \in g.nodes \ {ROOT}, Parents(g, m) # {}, Parents(g, m) \subseteq Gone'
          PROVE  m \in (Gone \cup Queued)'
      <4>1. CASE Parents(g, m) \subseteq Gone
        BY <2>12, <3>1, <3>3, <4>1 DEF CutIsClosed
      <4>2. CASE ~(Parents(g, m) \subseteq Gone)
        <5>1. PICK e \in g.edges : e.child = m /\ e.parent = n
          BY <2>10, <3>3, <4>2 DEF Parents
        <5>2. CASE m \in Gone \cup {n}
          BY <1>3, <2>12, <5>2
        <5>3. CASE m \notin Gone \cup {n}
          <6>1. m \in nodes /\ m # n
            BY <5>3 DEF Gone
          <6>2. e \in children
            BY <1>5, <2>2, <5>1, <6>1
          <6>3. ASSUME NEW f \in parents', f.child = m PROVE FALSE
            <7>1. f \in g.edges /\ f.parent \in nodes /\ f.parent # n
              BY <2>2, <2>6, <6>3
            <7>2. f.parent \in Gone \cup {n}
              BY <2>10, <3>3, <6>3, <7>1 DEF Parents
            <7> QED BY <7>1, <7>2 DEF Gone
          <6>4. m \in left
            BY <2>11, <5>1, <6>1, <6>2, <6>3
          <6> QED BY <2>12, <6>4
        <5> QED BY <5>2, <5>3
      <4> QED BY <4>1, <4>2
    <3> QED BY <1>1, <3>2, <3>3 DEF CutIsClosed
  <2>17. OrphansAreQueued'
    <3> SUFFICES ASSUME NEW m \in nodes' \ {ROOT}, \A e \in children' : e.child # m
                 PROVE  m \in Queued'
      BY DEF OrphansAreQueued
    <3>1. m \in nodes /\ m # n
      BY <2>1
    <3>2. CASE m \in Queued
      BY <1>3, <2>9, <3>1, <3>2
    <3>3. CASE m \notin Queued
      <4>1. PICK e \in children : e.child = m
        BY <3>1, <3>3 DEF StoreInv, OrphansAreQueued
      <4>2. e.parent = n
        BY <2>5, <3>1, <4>1
      <4>3. \A f \in parents' : f.child # m
        BY <2>5, <2>6
      <4>4. m \in left
        BY <2>11, <3>1, <4>1, <4>2, <4>3
      <4> QED BY <2>9, <4>4 DEF left
    <3> QED BY <3>2, <3>3
  <2>18. Queued' \subseteq before'.graph.nodes
    <3>1. left \subseteq g.nodes
      BY <2>13
    <3> QED BY <1>1, <1>3, <2>9, <3>1 DEF StoreInv, left
  <2> QED BY <1>1, <2>7, <2>14, <2>15, <2>16, <2>17, <2>18 DEF StoreInv
<1> QED BY <1>4, <1>5
-----------------------------------------------------------------------------
(* What graph.json keeps of a graph is a graph, and all of it is kept again.   *)
LEMMA LoadedIsRooted ==
  ASSUME NEW g \in Graph, WellFormed(g)
  PROVE  Rooted(Loaded(g))
<1> DEFINE kept  == Walk(g.edges, {ROOT})
           edges == {e \in g.edges : e.parent \in kept}
           again == Walk(edges, {ROOT})
<1>1. g.nodes \subseteq Vertex /\ ROOT \in g.nodes /\ g.edges \subseteq Edge
  BY DEF Graph, WellFormed, Vertex
<1>2. Arrows(g.edges) /\ Arrows(edges)
  BY <1>1 DEF Arrows, Edge, Vertex
<1>3. Closed(g.edges, g.nodes)
  BY DEF Closed, WellFormed
<1>4. Loaded(g) = [nodes |-> kept, edges |-> edges]
  BY DEF Loaded
<1>5. /\ kept \subseteq Vertex /\ ROOT \in kept /\ Closed(g.edges, kept)
      /\ \A C \in SUBSET Vertex : ROOT \in C /\ Closed(g.edges, C) => kept \subseteq C
  <2>1. {ROOT} \in SUBSET Vertex
    BY DEF Vertex
  <2> QED BY <1>2, <2>1, WalkIsLeast
<1> HIDE DEF kept
<1>6. /\ again \subseteq Vertex /\ ROOT \in again /\ Closed(edges, again)
      /\ \A C \in SUBSET Vertex : ROOT \in C /\ Closed(edges, C) => again \subseteq C
  <2>1. {ROOT} \in SUBSET Vertex
    BY DEF Vertex
  <2> HIDE DEF edges
  <2> QED BY <1>2, <2>1, WalkIsLeast
<1> HIDE DEF again
<1>7. again = kept
  <2>1. Closed(edges, kept)
    BY <1>5 DEF Closed
  <2>2. Closed(g.edges, again \cap kept)
    BY <1>5, <1>6 DEF Closed
  <2>3. kept \subseteq again \cap kept
    BY <1>5, <1>6, <2>2
  <2> QED BY <1>5, <1>6, <2>1, <2>3
<1>8. Loaded(Loaded(g)) = [nodes |-> again, edges |-> {e \in edges : e.parent \in again}]
  BY <1>4 DEF Loaded, again
<1>9. Loaded(Loaded(g)) = Loaded(g)
  BY <1>4, <1>7, <1>8
<1>10. Loaded(g) \in Graph
  BY <1>1, <1>4, <1>5 DEF Graph, Vertex
<1>11. WellFormed(Loaded(g))
  BY <1>4, <1>5 DEF WellFormed, Closed
<1> QED BY <1>9, <1>10, <1>11 DEF Rooted

(* A run that begins with a graph that add_dependency made, and with none.     *)
LEMMA StoreStarts ==
  ASSUME NEW g, Rooted(g), nodes = g.nodes, children = g.edges, parents = g.edges,
         queue = <<>>, removals = 0, before = [graph |-> g, node |-> ROOT]
  PROVE  StoreInv
<1>1. g \in Graph /\ WellFormed(g) /\ g.nodes = Walk(g.edges, {ROOT})
  <2>1. Loaded(g).nodes = Walk(g.edges, {ROOT})
    BY DEF Loaded
  <2> QED BY <2>1 DEF Rooted
<1>2. StoreTypeOK
  <2>1. <<>> \in Seq(Package) /\ 0 \in 0..MaxRemovals
    BY StoreAssumption
  <2> QED BY <1>1, <2>1 DEF StoreTypeOK, Graph, WellFormed
<1>3. BeforeTypeOK /\ EdgesAgree
  BY <1>1 DEF BeforeTypeOK, EdgesAgree, WellFormed
<1>4. Queued = {}
  BY DEF Queued, Elements
<1>5. OrphansAreQueued
  <2> SUFFICES ASSUME NEW m \in nodes \ {ROOT}, \A e \in children : e.child # m PROVE FALSE
    BY DEF OrphansAreQueued
  <2>1. Arrows(g.edges) /\ {ROOT} \in SUBSET Vertex /\ m \in Vertex
    BY <1>1 DEF Arrows, Graph, Edge, Vertex
  <2>2. Closed(g.edges, Vertex \ {m}) /\ {ROOT} \subseteq Vertex \ {m}
    BY <2>1 DEF Closed, Arrows
  <2>3. Walk(g.edges, {ROOT}) \subseteq Vertex \ {m}
    BY <2>1, <2>2, WalkIsLeast
  <2> QED BY <1>1, <2>3
<1> QED BY <1>2, <1>3, <1>4, <1>5 DEF StoreInv, Removing

LEMMA EmptyIsRooted == Rooted(EmptyGraph)
<1>1. EmptyGraph \in Graph /\ WellFormed(EmptyGraph) /\ EmptyGraph.edges = {} /\ EmptyGraph.nodes = {ROOT}
  BY DEF EmptyGraph, Graph, WellFormed
<1>2. Arrows({}) /\ {ROOT} \in SUBSET Vertex /\ Closed({}, {ROOT})
  BY DEF Arrows, Closed, Vertex
<1>3. Walk({}, {ROOT}) = {ROOT}
  BY <1>2, WalkIsLeast
<1>4. Loaded(EmptyGraph) = EmptyGraph
  BY <1>1, <1>3 DEF Loaded, EmptyGraph
<1> QED BY <1>1, <1>4 DEF Rooted

LEMMA StoreStutters == StoreInv /\ UNCHANGED storeVars => StoreInv'
  BY DEF StoreInv, storeVars, StoreTypeOK, BeforeTypeOK, EdgesAgree, CutIsLeast, CutIsClosed,
         OrphansAreQueued, Gone, Queued, GoodCut, Removing

-----------------------------------------------------------------------------
LEMMA InvCascades == StoreInv => RemovalCascades
<1> SUFFICES ASSUME StoreInv, ~Removing, removals > 0
             PROVE  LET g       == before.graph
                        gone    == g.nodes \ nodes
                        Good(S) == before.node \in S /\ ClosedUnderOrphans(g, S)
                    IN  /\ Good(gone) /\ \A S \in SUBSET gone : Good(S) => S = gone
                        /\ children = {e \in g.edges : e.parent \notin gone /\ e.child \notin gone}
  BY DEF RemovalCascades
<1>1. Queued = {}
  BY DEF Queued, Elements, Removing
<1>2. GoodCut(Gone)
  BY <1>1 DEF StoreInv, CutIsClosed, GoodCut, ClosedUnderOrphans
<1>3. \A S \in SUBSET Gone : GoodCut(S) => S = Gone
  BY <1>1 DEF StoreInv, CutIsLeast, Gone
<1>4. children = {e \in before.graph.edges : e.parent \notin Gone /\ e.child \notin Gone}
  BY DEF StoreInv, EdgesAgree, BeforeTypeOK, WellFormed, Gone
<1> QED BY <1>2, <1>3, <1>4 DEF GoodCut, Gone

LEMMA StoredIsGraph == StoreInv => Stored \in Graph /\ WellFormed(Stored)
  BY DEF StoreInv, StoreTypeOK, EdgesAgree, Stored, Graph, WellFormed

LEMMA InvExplains == StoreInv => KeptIsExplained
<1> SUFFICES ASSUME StoreInv, ~Removing
             PROVE  /\ \A n \in nodes : n \in Loaded(Stored).nodes <=> ROOT \in Why(n)
                    /\ Acyclic(children) => Loaded(Stored) = Stored
  BY DEF KeptIsExplained
<1> DEFINE kept == Walk(children, {ROOT})
<1>1. /\ parents = children /\ nodes \subseteq Vertex /\ ROOT \in nodes
      /\ \A e \in children : e.parent \in nodes /\ e.child \in nodes
  BY DEF StoreInv, StoreTypeOK, EdgesAgree, Vertex
<1>2. Arrows(children) /\ {ROOT} \in SUBSET Vertex /\ ROOT \in Vertex
  BY <1>1 DEF Arrows, Vertex
<1>3. /\ kept \subseteq Vertex /\ ROOT \in kept /\ Closed(children, kept)
      /\ \A C \in SUBSET Vertex : ROOT \in C /\ Closed(children, C) => kept \subseteq C
  BY <1>2, WalkIsLeast
<1>4. Loaded(Stored) = [nodes |-> kept, edges |-> {e \in children : e.parent \in kept}]
  BY DEF Loaded, Stored
<1>5. \A n \in nodes : n \in kept <=> ROOT \in Why(n)
  <2>1. \A n \in Vertex : n \in kept <=> ROOT \in WalkUp(children, {n})
    BY <1>2, WalksMeet
  <2> QED BY <1>1, <2>1 DEF Why
<1> HIDE DEF kept
<1>6. ASSUME Acyclic(children) PROVE kept = nodes
  <2>1. kept \subseteq nodes
    BY <1>1, <1>3 DEF Closed
  <2>2. ASSUME nodes \ kept # {} PROVE FALSE
    <3>1. PICK m \in nodes \ kept : \A e \in children : e.child = m => e.parent \notin nodes \ kept
      <4>1. nodes \ kept \in SUBSET Vertex
        BY <1>1
      <4> QED BY <1>2, <1>6, <2>2, <4>1, FirstOfSet
    <3>2. PICK e \in children : e.child = m
      <4>1. Queued = {}
        BY DEF Queued, Elements, Removing
      <4> QED BY <1>3, <4>1 DEF StoreInv, OrphansAreQueued
    <3> QED BY <1>1, <1>3, <3>1, <3>2 DEF Closed
  <2> QED BY <2>1, <2>2
<1>7. Acyclic(children) => Loaded(Stored) = Stored
  BY <1>1, <1>4, <1>6 DEF Stored
<1> QED BY <1>4, <1>5, <1>7
=============================================================================
