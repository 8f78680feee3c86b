-------------------------- MODULE BootstrapperProofs --------------------------
(***************************************************************************)
(* What holds of the bootstrap loop for every index, every settings and any   *)
(* number of faults.                                                         *)
(***************************************************************************)
EXTENDS Bootstrapper, FiniteSetTheorems, WellFoundedInduction, TLAPS

(* Of finitely many sets one has none of the others below it.                 *)
LEMMA MinimalSet ==
  ASSUME NEW S, IsFiniteSet(S), S # {}, NEW Above \in [S -> SUBSET S]
  PROVE  \E v \in S : \A w \in S : Above[w] \subseteq Above[v] => Above[w] = Above[v]
<1>1. PICK T : T = {Above[v] : v \in S}
  OBVIOUS
<1>2. T \subseteq FiniteSubsetsOf(S) /\ T # {}
  BY <1>1, FS_Subset DEF FiniteSubsetsOf
<1>3. PICK x \in T : \A y \in T : ~(<<y, x>> \in StrictSubsetOrdering(S))
  BY <1>2, WFMin, FS_StrictSubsetOrderingWellFounded
<1>4. PICK v \in S : x = Above[v]
  BY <1>1
<1>5. ASSUME NEW w \in S, Above[w] \subseteq Above[v] PROVE Above[w] = Above[v]
  BY <1>1, <1>3, <1>4, <1>5 DEF StrictSubsetOrdering
<1> QED BY <1>5

(* The highest of some versions is one of them.                              *)
LEMMA HighestIsIn ==
  ASSUME NEW S, IsFiniteSet(S), S # {}
  PROVE  S \subseteq Nat => Highest(S) \in S /\ \A w \in S : w <= Highest(S)
<1>1. PICK Above : Above = [v \in S |-> {w \in S : w >= v}]
  OBVIOUS
<1>2. PICK v \in S : \A w \in S : Above[w] \subseteq Above[v] => Above[w] = Above[v]
  <2>1. Above \in [S -> SUBSET S]
    BY <1>1
  <2> QED BY <2>1, MinimalSet
<1>3. ASSUME S \subseteq Nat, NEW w \in S PROVE w <= v
  <2> SUFFICES ASSUME w > v PROVE FALSE
    BY <1>3
  <2>1. Above[w] \subseteq Above[v]
    <3>1. \A y \in S : y >= w => y >= v
      BY <1>3
    <3> QED BY <1>1, <3>1
  <2>2. v \in Above[v] /\ v \notin Above[w]
    BY <1>1, <1>3
  <2> QED BY <1>2, <2>1, <2>2
<1> QED BY <1>3 DEF Highest

LEMMA ReqsAreFinite == IsFiniteSet(Req)
<1> DEFINE Triple == (Name \X BOOLEAN) \X SUBSET Version
           f == [t \in Triple |-> [name |-> t[1][1], extras |-> t[1][2], spec |-> t[2]]]
<1>1. IsFiniteSet(Triple)
  <2>1. IsFiniteSet(BOOLEAN)
    <3>1. IsFiniteSet({TRUE} \cup {FALSE})
      BY FS_Singleton, FS_AddElement
    <3>2. \A x : x \in BOOLEAN <=> x \in {TRUE} \cup {FALSE}
      BY Zenon
    <3>3. BOOLEAN = {TRUE} \cup {FALSE}
      BY <3>2, Zenon
    <3> QED BY <3>1, <3>3, Zenon
  <2>2. IsFiniteSet(Name \X BOOLEAN)
    BY <2>1, FS_Product, BootstrapperAssumption
  <2>3. IsFiniteSet(SUBSET Version)
    BY FS_SUBSET, BootstrapperAssumption
  <2> QED BY <2>2, <2>3, FS_Product
<1>2. f \in Surjection(Triple, Req)
  <2>1. f \in [Triple -> Req]
    BY DEF Req
  <2>2. ASSUME NEW r \in Req PROVE \E t \in Triple : f[t] = r
    <3>1. <<<<r.name, r.extras>>, r.spec>> \in Triple
      BY DEF Req
    <3>2. f[<<<<r.name, r.extras>>, r.spec>>] = r
      BY <3>1 DEF Req
    <3> QED BY <3>1, <3>2
  <2> QED BY <2>1, <2>2 DEF Surjection
<1> QED BY <1>1, <1>2, FS_Surjection

(* The orders of a set are sequences of all its elements.                     *)
ElementsOf(s) == {s[i] : i \in DOMAIN s}

LEMMA OrdersAreSequences ==
  ASSUME NEW S, IsFiniteSet(S), NEW rank, NEW s \in Descending(S, rank)
  PROVE  s \in Seq(S) /\ ElementsOf(s) = S
<1>1. Cardinality(S) \in Nat
  BY FS_CardinalityType
<1>2. s \in [1..Cardinality(S) -> S]
  BY DEF Descending
<1>3. s \in Seq(S)
  BY <1>1, <1>2
<1>4. s \in Injection(1..Cardinality(S), S)
  <2>1. ASSUME NEW i \in 1..Cardinality(S), NEW j \in 1..Cardinality(S), s[i] = s[j] PROVE i = j
    <3>1. ~(i < j) /\ ~(j < i)
      BY <2>1 DEF Descending
    <3> QED BY <1>1, <3>1
  <2> QED BY <1>2, <2>1 DEF Injection, IsInjective
<1>5. s \in Surjection(1..Cardinality(S), S)
  <2>1. Cardinality(1..Cardinality(S)) = Cardinality(S)
    BY <1>1, FS_Interval
  <2> QED BY <1>4, <2>1, FS_Injection
<1>6. ElementsOf(s) = S
  BY <1>2, <1>5 DEF Surjection, ElementsOf
<1> QED BY <1>3, <1>6

-----------------------------------------------------------------------------
(* TypeOK, and what it rests on: an item has a version when it is resolved and *)
(* a result when it is built, the same unless test mode fell back on another,  *)
(* and requirements are left to resolve as long as the loop has not begun.     *)
Built == {"process-install-deps", "complete"}

FitItem ==
  {it \in Item : /\ it.phase # "resolve" => it.ver # NoVersion
                 /\ it.phase \in Built =>
                      it.result # NoVersion /\ (TestMode \/ it.result = it.ver)}

LoopTypeOK ==
  /\ u \in Universe
  /\ pc \in {"top-level", "loop", "finalized", "aborted"}
  /\ todo \in Seq(Req) /\ (pc = "top-level" => todo # <<>>)
  /\ stack \in Seq(FitItem)
  /\ exitCode \in {0, 1}

RecordsTypeOK ==
  /\ seen \subseteq Name \X BOOLEAN \X Version \X {"sdist", "wheel"}
  /\ graph \in Graph /\ WellFormed(graph)
  /\ buildOrder \in Seq(Pkg)
  /\ failures \subseteq FailureKeys /\ failedVersions \subseteq FailureKeys

DirsTypeOK ==
  /\ wheelsBuild \subseteq Pkg /\ downloads \subseteq Pkg
  /\ prebuiltDir \subseteq Pkg /\ raw \subseteq Pkg

TypeInv == LoopTypeOK /\ RecordsTypeOK /\ DirsTypeOK

LEMMA TypeInvTypes == TypeInv => TypeOK
  BY DEF TypeInv, TypeOK, LoopTypeOK, RecordsTypeOK, DirsTypeOK, FitItem, Graph

-----------------------------------------------------------------------------
(* What the operators on versions, items and graphs return.                   *)
LEMMA HighestVersion ==
  ASSUME NEW S, S \subseteq Version, S # {}
  PROVE  Highest(S) \in S /\ \A w \in S : w <= Highest(S)
<1>1. IsFiniteSet(S)
  BY FS_Subset, BootstrapperAssumption
<1>2. S \subseteq Nat
  BY BootstrapperAssumption
<1> QED BY <1>1, <1>2, HighestIsIn

LEMMA CandidateVersions ==
  ASSUME NEW r \in Req
  PROVE  /\ Candidates(r) \subseteq r.spec /\ r.spec \subseteq Version
         /\ Usable(r) \subseteq Candidates(r)
         /\ Candidates(r) # {} => Highest(Candidates(r)) \in Candidates(r)
         /\ Usable(r) # {} => \A missed : Chosen(r, missed) \subseteq Usable(r)
<1>1. Candidates(r) \subseteq r.spec /\ r.spec \subseteq Version
  BY DEF Candidates, Matching, Req
<1>2. Usable(r) \subseteq Candidates(r)
  BY DEF Usable
<1>3. Candidates(r) # {} => Highest(Candidates(r)) \in Candidates(r)
  BY <1>1, HighestVersion
<1>4. Usable(r) # {} => Highest(Usable(r)) \in Usable(r)
  BY <1>1, <1>2, HighestVersion
<1>5. ASSUME Usable(r) # {}, NEW missed PROVE Chosen(r, missed) \subseteq Usable(r)
  BY <1>4, <1>5 DEF Chosen, Uncached
<1> QED BY <1>1, <1>2, <1>3, <1>5

Link == [type : ReqType, req : Req, ver : Version]

LEMMA NewItemFits ==
  ASSUME NEW r \in Req, NEW type \in ReqType, NEW why \in Seq(Link), NEW parent \in Pkg \cup {ROOT}
  PROVE  /\ NewItem(r, type, why, parent) \in FitItem
         /\ NewItem(r, type, why, parent).phase = "resolve"
  BY DEF NewItem, FitItem, Item, Built, Phase, Link, NoVersion

LEMMA ItemFields ==
  ASSUME NEW it \in FitItem
  PROVE  /\ it \in Item /\ it.req \in Req /\ it.req.name \in Name /\ it.type \in ReqType
         /\ it.parent \in Pkg \cup {ROOT} /\ it.why \in Seq(Link)
         /\ it.phase # "resolve" => it.ver \in Version /\ PkgOf(it) \in Pkg
         /\ it.phase \in Built => it.result \in Version
  BY DEF FitItem, Item, Req, Pkg, PkgOf, Link

LEMMA ResolvesFit ==
  ASSUME NEW S \in SUBSET Req, NEW order \in ByName(S), NEW type \in ReqType,
         NEW it \in FitItem, it.phase # "resolve"
  PROVE  /\ Resolves(order, type, it) \in Seq(FitItem)
         /\ \A i \in DOMAIN Resolves(order, type, it) :
              Resolves(order, type, it)[i].phase = "resolve"
<1>1. order \in Seq(Req)
  <2>1. IsFiniteSet(S)
    BY ReqsAreFinite, FS_Subset
  <2>2. order \in Seq(S)
    BY <2>1, OrdersAreSequences DEF ByName
  <2> QED BY <2>2
<1>2. Append(it.why, LinkOf(it)) \in Seq(Link) /\ PkgOf(it) \in Pkg
  <2>1. LinkOf(it) \in Link
    BY ItemFields DEF LinkOf, Link
  <2>2. it.why \in Seq(Link) /\ PkgOf(it) \in Pkg
    BY ItemFields
  <2> QED BY <2>1, <2>2
<1>3. \A i \in DOMAIN order :
        /\ NewItem(order[i], type, Append(it.why, LinkOf(it)), PkgOf(it)) \in FitItem
        /\ NewItem(order[i], type, Append(it.why, LinkOf(it)), PkgOf(it)).phase = "resolve"
  <2>1. \A i \in DOMAIN order : order[i] \in Req
    BY <1>1
  <2>2. PkgOf(it) \in Pkg \cup {ROOT}
    BY <1>2
  <2> QED BY <1>2, <2>1, <2>2, NewItemFits
<1> QED BY <1>1, <1>3 DEF Resolves

LEMMA AddDependencyFits ==
  ASSUME NEW g \in Graph, WellFormed(g), NEW parent \in Pkg \cup {ROOT}, NEW type \in ReqType,
         NEW child \in Pkg
  PROVE  LET added == AddDependency(g, parent, type, child)
             edge  == [parent |-> parent, type |-> type, child |-> child]
         IN  /\ added \in Graph /\ WellFormed(added)
             /\ added.nodes = g.nodes \cup {child}
             /\ added.edges = g.edges \cup IF parent \in added.nodes THEN {edge} ELSE {}
<1> DEFINE edge == [parent |-> parent, type |-> type, child |-> child]
           added == AddDependency(g, parent, type, child)
<1>1. g = [nodes |-> g.nodes, edges |-> g.edges] /\ g.nodes \subseteq Pkg \cup {ROOT} /\ g.edges \subseteq Edge
  BY DEF Graph
<1>2. edge \in Edge
  BY DEF Edge
<1>3. AddNode(g, child) = [nodes |-> g.nodes \cup {child}, edges |-> g.edges]
  BY <1>1 DEF AddNode
<1>4. CASE parent \in g.nodes \cup {child}
  <2>1. added = [nodes |-> g.nodes \cup {child}, edges |-> g.edges \cup {edge}]
    BY <1>3, <1>4 DEF AddDependency, ParentExists
  <2> HIDE DEF added
  <2>2. added.nodes = g.nodes \cup {child} /\ added.edges = g.edges \cup {edge}
    BY <2>1
  <2>3. added \in Graph
    BY <1>1, <1>2, <2>1 DEF Graph
  <2>4. WellFormed(added)
    BY <1>4, <2>2 DEF WellFormed
  <2> QED BY <1>4, <2>2, <2>3, <2>4 DEF added
<1>5. CASE parent \notin g.nodes \cup {child}
  <2>1. added = [nodes |-> g.nodes \cup {child}, edges |-> g.edges]
    BY <1>3, <1>5 DEF AddDependency, ParentExists
  <2> QED BY <1>1, <1>5, <2>1 DEF Graph, WellFormed
<1> QED BY <1>4, <1>5

LEMMA RemoveDependencyFits ==
  ASSUME NEW g \in Graph, WellFormed(g), NEW n \in Pkg
  PROVE  RemoveDependency(g, n) \in Graph /\ WellFormed(RemoveDependency(g, n))
<1>1. CASE n \notin g.nodes
  BY <1>1 DEF RemoveDependency
<1>2. CASE n \in g.nodes
  <2>1. ROOT \notin Orphaned(g, n)
    <3>1. /\ g.nodes \ {ROOT} \in SUBSET g.nodes /\ n \in g.nodes \ {ROOT}
          /\ ClosedUnderOrphans(g, g.nodes \ {ROOT})
      BY <1>2, BootstrapperAssumption DEF ClosedUnderOrphans
    <3> QED BY <3>1 DEF Orphaned
  <2>2. RemoveDependency(g, n) =
          [nodes |-> g.nodes \ Orphaned(g, n),
           edges |-> {e \in g.edges : e.parent \notin Orphaned(g, n) /\ e.child \notin Orphaned(g, n)}]
    BY <1>2 DEF RemoveDependency
  <2> QED BY <2>1, <2>2 DEF Graph, WellFormed
<1> QED BY <1>1, <1>2

LEMMA PushFits ==
  ASSUME stack \in Seq(FitItem), stack # <<>>, NEW items \in Seq(FitItem)
  PROVE  Push(items) \in Seq(FitItem) /\ Top \in FitItem
  BY DEF Push, Top

LEMMA StartFits ==
  ASSUME TypeInv, stack # <<>>, Top.phase # "resolve"
  PROVE  /\ Top \in FitItem
         /\ AddToGraph(Top) \in Graph /\ WellFormed(AddToGraph(Top))
<1>1. Top \in FitItem
  BY DEF TypeInv, LoopTypeOK, Top
<1>2. Top.parent \in Pkg \cup {ROOT} /\ Top.type \in ReqType /\ PkgOf(Top) \in Pkg
  BY <1>1, ItemFields
<1> QED BY <1>1, <1>2, AddDependencyFits DEF AddToGraph, TypeInv, RecordsTypeOK

LEMMA PhaseFailedType ==
  ASSUME TypeInv, pc = "loop", stack # <<>>, Top.phase # "resolve",
         NEW g \in Graph, WellFormed(g), NEW left \in SUBSET Pkg, PhaseFailed(Top, g, left)
  PROVE  TypeInv'
<1>1. Top \in FitItem /\ PkgOf(Top) \in Pkg /\ Top.req \in Req /\ Top.req.name \in Name /\ Top.ver \in Version
  <2>1. Top \in FitItem
    BY DEF TypeInv, LoopTypeOK, Top
  <2> QED BY <2>1, ItemFields
<1>2. u' = u /\ todo' = todo /\ buildOrder' = buildOrder /\ exitCode' = exitCode /\ raw' = raw \cup left
  BY Zenon DEF PhaseFailed
<1>3. \A items \in Seq(FitItem) : Push(items) \in Seq(FitItem)
  BY PushFits DEF TypeInv, LoopTypeOK
<1>4. Push(<<>>) \in Seq(FitItem)
  <2>1. <<>> \in Seq(FitItem)
    OBVIOUS
  <2> QED BY <1>3, <2>1
<1>5. PkgOf(Top) \in FailureKeys
  BY <1>1 DEF PkgOf, FailureKeys
<1>6. CASE FallBack(Top, g, left)
  <2> DEFINE v  == Highest(Fallbacks(Top))
             it == [Top EXCEPT !.phase = "process-install-deps", !.result = v]
  <2>1. v \in Version
    <3>1. Fallbacks(Top) \subseteq Version /\ Fallbacks(Top) # {}
      BY <1>1, <1>6 DEF FallBack, Fallbacks, Matching, Req
    <3> QED BY <3>1, HighestVersion
  <2>0. TestMode
    BY <1>6, Zenon DEF FallBack
  <2>2. it \in FitItem
    BY <1>1, <2>0, <2>1, BootstrapperAssumption DEF FitItem, Item, Built, Phase, NoVersion
  <2>3. <<Top.req.name, v>> \in Pkg
    BY <1>1, <2>1 DEF Pkg
  <2>4. stack' = Push(<<it>>)
    BY <1>6, Zenon DEF FallBack
  <2>5. LoopTypeOK'
    <3>1. pc' = pc
      BY <1>6, Zenon DEF FallBack
    <3>2. <<it>> \in Seq(FitItem)
      BY <2>2
    <3> QED BY <1>2, <1>3, <2>4, <3>1, <3>2 DEF TypeInv, LoopTypeOK
  <2>6. RecordsTypeOK'
    BY <1>2, <1>6 DEF FallBack, TypeInv, RecordsTypeOK
  <2>7. DirsTypeOK'
    BY <1>2, <1>6, <2>3 DEF FallBack, TypeInv, DirsTypeOK
  <2> QED BY <2>5, <2>6, <2>7 DEF TypeInv
<1>7. CASE RecordFailure(Top, g, left)
  BY <1>2, <1>4, <1>5, <1>7 DEF RecordFailure, TypeInv, LoopTypeOK, RecordsTypeOK, DirsTypeOK
<1>8. CASE DropVersion(Top, g, left)
  <2>1. RemoveDependency(g, PkgOf(Top)) \in Graph /\ WellFormed(RemoveDependency(g, PkgOf(Top)))
    BY <1>1, RemoveDependencyFits
  <2> QED BY <1>2, <1>4, <1>5, <1>8, <2>1 DEF DropVersion, TypeInv, LoopTypeOK, RecordsTypeOK, DirsTypeOK
<1>9. CASE Abort(g, left)
  BY <1>2, <1>4, <1>9 DEF Abort, TypeInv, LoopTypeOK, RecordsTypeOK, DirsTypeOK
<1> QED BY <1>6, <1>7, <1>8, <1>9 DEF PhaseFailed

-----------------------------------------------------------------------------
(* Each action keeps the types.                                              *)
LEMMA RecordUnresolvedType ==
  ASSUME RecordsTypeOK, NEW r \in Req, RecordUnresolved(r)
  PROVE  failures' \subseteq FailureKeys /\ failedVersions' \subseteq FailureKeys
  BY DEF RecordsTypeOK, RecordUnresolved, FailureKeys, Req

LEMMA UpdateMirrorType ==
  ASSUME DirsTypeOK, raw' \subseteq Pkg, NEW saved \in SUBSET Pkg, NEW prebuilt \in SUBSET Pkg,
         UpdateMirror(saved, prebuilt)
  PROVE  DirsTypeOK'
  BY DEF DirsTypeOK, UpdateMirror

LEMMA InitType == Init => TypeInv
<1> SUFFICES ASSUME Init PROVE TypeInv
  OBVIOUS
<1>1. u \in Universe
  BY BootstrapperAssumption DEF Init
<1>2. u.top \in Seq(Req) /\ u.top # <<>>
  BY <1>1 DEF Universe
<1> QED BY <1>1, <1>2 DEF Init, TypeInv, LoopTypeOK, RecordsTypeOK, DirsTypeOK, EmptyGraph, Graph, WellFormed

LEMMA ResolveTopLevelType ==
  ASSUME TypeInv, ResolveTopLevel
  PROVE  TypeInv'
<1> DEFINE r     == Head(todo)
           found == {<<r.name, v>> :
                       v \in IF MultipleVersions THEN Candidates(r) ELSE {Highest(Candidates(r))}}
<1>1. r \in Req /\ Tail(todo) \in Seq(Req)
  BY DEF ResolveTopLevel, TypeInv, LoopTypeOK
<1>2. found \subseteq Pkg
  <2>1. Candidates(r) \subseteq Version /\ Highest(Candidates(r)) \in Version /\ r.name \in Name
    BY <1>1, CandidateVersions DEF ResolveTopLevel, Req
  <2> QED BY <2>1 DEF Pkg
<1>3. graph' = [nodes |-> graph.nodes \cup found,
                edges |-> graph.edges \cup
                  {[parent |-> ROOT, type |-> "toplevel", child |-> p] : p \in found}]
  BY Zenon DEF ResolveTopLevel
<1>4. graph' \in Graph /\ WellFormed(graph)'
  <2>1. {[parent |-> ROOT, type |-> "toplevel", child |-> p] : p \in found} \subseteq Edge
    BY <1>2 DEF Edge, ReqType, InstallType
  <2> HIDE DEF found
  <2> QED BY <1>2, <1>3, <2>1 DEF TypeInv, RecordsTypeOK, Graph, WellFormed
<1>5. stack' \in Seq(FitItem)
  <2>1. NewItem(r, "toplevel", <<>>, ROOT) \in FitItem
    <3>1. <<>> \in Seq(Link) /\ "toplevel" \in ReqType /\ ROOT \in Pkg \cup {ROOT}
      BY DEF ReqType, InstallType
    <3> QED BY <1>1, <3>1, NewItemFits
  <2>2. stack' = <<NewItem(r, "toplevel", <<>>, ROOT)>> \o stack
    BY Zenon DEF ResolveTopLevel
  <2> QED BY <2>1, <2>2 DEF TypeInv, LoopTypeOK
<1>6. LoopTypeOK'
  BY <1>1, <1>5 DEF ResolveTopLevel, AfterTopLevel, TypeInv, LoopTypeOK
<1>7. RecordsTypeOK'
  BY <1>4 DEF ResolveTopLevel, TypeInv, RecordsTypeOK
<1>8. DirsTypeOK'
  BY DEF ResolveTopLevel, TypeInv, DirsTypeOK, dirs
<1> QED BY <1>6, <1>7, <1>8 DEF TypeInv

LEMMA FailTopLevelType ==
  ASSUME TypeInv, FailTopLevel
  PROVE  TypeInv'
<1>1. Head(todo) \in Req /\ Tail(todo) \in Seq(Req)
  BY DEF FailTopLevel, TypeInv, LoopTypeOK
<1>2. todo' = Tail(todo) /\ RecordUnresolved(Head(todo))
  BY Zenon DEF FailTopLevel
<1>3. LoopTypeOK'
  BY <1>1, <1>2 DEF FailTopLevel, AfterTopLevel, TypeInv, LoopTypeOK
<1>4. RecordsTypeOK'
  BY <1>1, <1>2, RecordUnresolvedType DEF FailTopLevel, TypeInv, RecordsTypeOK
<1>5. DirsTypeOK'
  BY DEF FailTopLevel, TypeInv, DirsTypeOK, dirs
<1> QED BY <1>3, <1>4, <1>5 DEF TypeInv

LEMMA FutureFits ==
  ASSUME NEW it \in FitItem, NEW future \in {"none", "pending", "done", "failed"}, NEW cached \in BOOLEAN
  PROVE  /\ [it EXCEPT !.future = future] \in FitItem
         /\ [it EXCEPT !.future = future, !.cached = cached] \in FitItem
<1> DEFINE once  == [it EXCEPT !.future = future]
           twice == [it EXCEPT !.future = future, !.cached = cached]
<1>1. once \in Item
  BY DEF FitItem, Item
<1>2. once.phase = it.phase /\ once.ver = it.ver /\ once.result = it.result
  BY DEF FitItem, Item
<1>3. twice \in Item
  BY DEF FitItem, Item
<1>4. twice.phase = it.phase /\ twice.ver = it.ver /\ twice.result = it.result
  BY DEF FitItem, Item
<1> HIDE DEF once, twice
<1>5. once \in FitItem
  BY <1>1, <1>2 DEF FitItem
<1>6. twice \in FitItem
  BY <1>3, <1>4 DEF FitItem
<1> QED BY <1>5, <1>6 DEF once, twice

LEMMA FinishResolutionType ==
  ASSUME TypeInv, NEW i \in DOMAIN stack, FinishResolution(i)
  PROVE  TypeInv'
<1>1. PICK future \in {"done", "failed"} : stack' = [stack EXCEPT ![i].future = future]
  BY Zenon DEF FinishResolution
<1>2. stack[i] \in FitItem
  BY DEF TypeInv, LoopTypeOK
<1>3. stack' = [stack EXCEPT ![i] = [stack[i] EXCEPT !.future = future]]
  BY <1>1
<1>4. [stack[i] EXCEPT !.future = future] \in FitItem
  BY <1>2, FutureFits
<1>5. stack' \in Seq(FitItem)
  BY <1>3, <1>4 DEF TypeInv, LoopTypeOK
<1> QED BY <1>5 DEF FinishResolution, records, dirs, TypeInv, LoopTypeOK, RecordsTypeOK, DirsTypeOK

LEMMA FetchSourceType ==
  ASSUME TypeInv, NEW i \in DOMAIN stack, FetchSource(i)
  PROVE  TypeInv'
<1>1. PICK future \in {"done", "failed"}, cached \in BOOLEAN :
        \/ stack' = [stack EXCEPT ![i].future = future]
        \/ stack' = [stack EXCEPT ![i].future = future, ![i].cached = cached]
  <2>1. (PkgOf(stack[i]) \in Local \ raw) \in BOOLEAN
    OBVIOUS
  <2> QED BY <2>1 DEF FetchSource
<1>2. stack[i] \in FitItem
  BY DEF TypeInv, LoopTypeOK
<1>3. \/ stack' = [stack EXCEPT ![i] = [stack[i] EXCEPT !.future = future]]
      \/ stack' = [stack EXCEPT ![i] = [stack[i] EXCEPT !.future = future, !.cached = cached]]
  BY <1>1
<1>4. /\ [stack[i] EXCEPT !.future = future] \in FitItem
      /\ [stack[i] EXCEPT !.future = future, !.cached = cached] \in FitItem
  BY <1>2, FutureFits
<1>5. stack' \in Seq(FitItem)
  <2>1. PICK it \in FitItem : stack' = [stack EXCEPT ![i] = it]
    BY <1>3, <1>4
  <2> QED BY <2>1 DEF TypeInv, LoopTypeOK
<1>6. {PkgOf(stack[i])} \subseteq Pkg
  BY <1>2, ItemFields DEF FetchSource
<1>7. DirsTypeOK'
  BY <1>6, UpdateMirrorType DEF FetchSource, TypeInv, DirsTypeOK
<1> QED BY <1>5, <1>7 DEF FetchSource, records, TypeInv, LoopTypeOK, RecordsTypeOK

LEMMA TopFits ==
  ASSUME TypeInv, stack # <<>>
  PROVE  /\ Top \in FitItem /\ Top.req \in Req /\ Top.req.name \in Name
         /\ Top.phase # "resolve" => Top.ver \in Version /\ PkgOf(Top) \in Pkg
         /\ Top.phase \in Built => Top.result \in Version
         /\ \A items \in Seq(FitItem) : Push(items) \in Seq(FitItem)
         /\ Push(<<>>) \in Seq(FitItem)
         /\ \A it \in FitItem : Push(<<it>>) \in Seq(FitItem)
         /\ \A items \in Seq(FitItem), it \in FitItem : Push(items \o <<it>>) \in Seq(FitItem)
<1>1. Top \in FitItem /\ \A items \in Seq(FitItem) : Push(items) \in Seq(FitItem)
  BY PushFits DEF TypeInv, LoopTypeOK
<1>2. /\ <<>> \in Seq(FitItem) /\ \A it \in FitItem : <<it>> \in Seq(FitItem)
      /\ \A items \in Seq(FitItem), it \in FitItem : items \o <<it>> \in Seq(FitItem)
  OBVIOUS
<1> QED BY <1>1, <1>2, ItemFields

(* The top of the stack goes on from start to prepare-source.                   *)
LEMMA StartedFits ==
  ASSUME TypeInv, stack # <<>>, Top.phase = "start", NEW new,
         new = [Top EXCEPT !.phase = "prepare-source", !.future = "pending", !.sdistOnly = OnlySdist(Top)]
  PROVE  /\ new \in FitItem
         /\ new.phase = "prepare-source" /\ new.req = Top.req /\ new.type = Top.type
         /\ new.parent = Top.parent /\ new.ver = Top.ver
<1>1. PICK it : it = Top
  OBVIOUS
<1>2. PICK only : only = OnlySdist(Top)
  OBVIOUS
<1>3. it \in FitItem /\ it.phase = "start"
  BY <1>1, TopFits
<1>4. only \in BOOLEAN
  BY <1>2, BootstrapperAssumption DEF OnlySdist, BuildContext
<1>5. new = [it EXCEPT !.phase = "prepare-source", !.future = "pending", !.sdistOnly = only]
  BY <1>1, <1>2
<1>6. /\ new.phase = "prepare-source" /\ new.req = it.req /\ new.type = it.type
      /\ new.parent = it.parent /\ new.ver = it.ver
  BY ONLY <1>3, <1>5 DEF FitItem, Item
<1>7. new \in Item
  BY ONLY <1>3, <1>4, <1>5 DEF FitItem, Item, Phase
<1>8. it.ver # NoVersion
  BY <1>3 DEF FitItem
<1>9. new \in FitItem
  BY ONLY <1>6, <1>7, <1>8 DEF FitItem, Built
<1> QED BY <1>1, <1>6, <1>9

LEMMA ResolvedFits ==
  ASSUME NEW it \in FitItem, NEW S \in SUBSET Version, NEW versions \in ByVersion(S)
  PROVE  /\ Resolved(it, versions) \in Seq(FitItem) /\ ElementsOf(versions) = S
         /\ \A i \in DOMAIN Resolved(it, versions) : Resolved(it, versions)[i].phase = "start"
<1> DEFINE Of(v) == [it EXCEPT !.phase = "start", !.ver = v, !.future = "none"]
<1>1. versions \in Seq(S) /\ ElementsOf(versions) = S
  BY FS_Subset, BootstrapperAssumption, OrdersAreSequences DEF ByVersion
<1>2. ASSUME NEW v \in Version PROVE Of(v) \in FitItem /\ Of(v).phase = "start"
  <2>1. v # NoVersion
    BY BootstrapperAssumption
  <2> QED BY <2>1 DEF FitItem, Item, Built, Phase
<1>3. Resolved(it, versions) = [i \in DOMAIN versions |-> Of(versions[i])]
  BY DEF Resolved
<1>4. \A i \in DOMAIN versions : versions[i] \in Version
  BY <1>1
<1> HIDE DEF Of
<1>5. [i \in DOMAIN versions |-> Of(versions[i])] \in Seq(FitItem)
  BY <1>1, <1>2, <1>4
<1> QED BY <1>1, <1>2, <1>3, <1>4, <1>5

LEMMA RunResolveType ==
  ASSUME TypeInv, RunResolve
  PROVE  TypeInv'
<1> DEFINE r == Top.req
<1>1. pc = "loop" /\ stack # <<>> /\ UNCHANGED <<u, todo, seen, graph, buildOrder, raw, exitCode>>
  BY DEF RunResolve, Running
<1>2. CASE /\ Usable(r) # {}
           /\ \E missed \in SUBSET Remote(r) :
                /\ \E versions \in ByVersion(Chosen(r, missed)) :
                     stack' = Push(Resolved(Top, versions))
                /\ IF missed # Remote(r)
                     THEN UpdateMirror({r.name} \X (Remote(r) \ missed), {})
                     ELSE UNCHANGED <<wheelsBuild, downloads, prebuiltDir>>
           /\ UNCHANGED <<pc, failures, failedVersions>>
  <2>1. PICK missed \in SUBSET Remote(r) :
          /\ \E versions \in ByVersion(Chosen(r, missed)) : stack' = Push(Resolved(Top, versions))
          /\ IF missed # Remote(r)
               THEN UpdateMirror({r.name} \X (Remote(r) \ missed), {})
               ELSE UNCHANGED <<wheelsBuild, downloads, prebuiltDir>>
    BY <1>2
  <2>2. Usable(r) \subseteq Version /\ Chosen(r, missed) \subseteq Version
    BY <1>1, <1>2, TopFits, CandidateVersions
  <2>3. stack' \in Seq(FitItem)
    BY <1>1, <2>1, <2>2, TopFits, ResolvedFits
  <2>4. {r.name} \X (Remote(r) \ missed) \subseteq Pkg
    BY <1>1, <2>2, TopFits DEF Remote, Pkg
  <2>5. DirsTypeOK'
    BY <1>1, <2>1, <2>4, UpdateMirrorType DEF TypeInv, DirsTypeOK
  <2> QED BY <1>1, <1>2, <2>3, <2>5 DEF TypeInv, LoopTypeOK, RecordsTypeOK
<1>3. CASE ResolveFailed(r) /\ UNCHANGED <<wheelsBuild, downloads, prebuiltDir>>
  <2>1. stack' \in Seq(FitItem)
    BY <1>1, <1>3, TopFits DEF ResolveFailed
  <2>2. RecordsTypeOK'
    BY <1>1, <1>3, TopFits, RecordUnresolvedType DEF ResolveFailed, TypeInv, RecordsTypeOK
  <2>3. pc' \in {"loop", "aborted"}
    BY <1>3 DEF ResolveFailed
  <2> QED BY <1>1, <1>3, <2>1, <2>2, <2>3 DEF TypeInv, LoopTypeOK, DirsTypeOK
<1> QED BY <1>2, <1>3 DEF RunResolve

LEMMA RunStartType ==
  ASSUME TypeInv, RunStart
  PROVE  TypeInv'
<1>1. pc = "loop" /\ stack # <<>> /\ Top.phase = "start"
  BY DEF RunStart, Running
<1>2. AddToGraph(Top) \in Graph /\ WellFormed(AddToGraph(Top)) /\ {} \in SUBSET Pkg
  BY <1>1, StartFits
<1>3. CASE PhaseFailed(Top, AddToGraph(Top), {})
  BY <1>1, <1>2, <1>3, PhaseFailedType
<1>4. CASE /\ graph' = AddToGraph(Top)
           /\ IF HasBeenSeen(Top)
                THEN stack' = Push(<<>>) /\ UNCHANGED seen
                ELSE /\ seen' = seen \cup SeenMarks(Top)
                     /\ stack' = Push(<<[Top EXCEPT !.phase = "prepare-source", !.future = "pending",
                                                   !.sdistOnly = OnlySdist(Top)]>>)
           /\ UNCHANGED <<u, pc, todo, buildOrder, failures, failedVersions, dirs, exitCode>>
  <2>1. [Top EXCEPT !.phase = "prepare-source", !.future = "pending", !.sdistOnly = OnlySdist(Top)]
          \in FitItem
    BY <1>1, StartedFits
  <2>2. stack' \in Seq(FitItem)
    BY <1>1, <1>4, <2>1, TopFits
  <2>3. SeenMarks(Top) \subseteq Name \X BOOLEAN \X Version \X {"sdist", "wheel"}
    BY <1>1, TopFits DEF SeenMarks, SeenKey, Req
  <2>4. RecordsTypeOK'
    BY <1>2, <1>4, <2>3 DEF TypeInv, RecordsTypeOK
  <2> QED BY <1>4, <2>2, <2>4 DEF TypeInv, LoopTypeOK, DirsTypeOK, dirs
<1> QED BY <1>3, <1>4 DEF RunStart

LEMMA RequirementTypes ==
  ASSUME TypeInv, NEW p \in Pkg
  PROVE  /\ u.system[p] \subseteq Req /\ u.backend[p] \subseteq Req /\ u.sdist[p] \subseteq Req
         /\ u.install[p] \subseteq Req /\ u.extra[p] \subseteq Req
  BY DEF TypeInv, LoopTypeOK, Universe

LEMMA GraphIsThere == TypeInv => graph \in Graph /\ WellFormed(graph) /\ {} \in SUBSET Pkg
  BY DEF TypeInv, RecordsTypeOK

(* The items that a requirement hook of an item adds, and the item after it.   *)
LEMMA ItemsAndTopFit ==
  ASSUME TypeInv, stack # <<>>, Top.phase # "resolve",
         NEW S \in SUBSET Req, NEW order \in ByName(S), NEW type \in ReqType, NEW it \in FitItem
  PROVE  Push(Resolves(order, type, Top) \o <<it>>) \in Seq(FitItem)
  BY TopFits, ResolvesFit

LEMMA RunPrepareSourceType ==
  ASSUME TypeInv, RunPrepareSource
  PROVE  TypeInv'
<1>1. pc = "loop" /\ stack # <<>> /\ Top.phase = "prepare-source"
  BY DEF RunPrepareSource, Running
<1>2. CASE PhaseFailed(Top, graph, {})
  BY <1>1, <1>2, GraphIsThere, PhaseFailedType
<1> DEFINE it == [Top EXCEPT !.future = "none"]
           itDone == [it EXCEPT !.phase = "process-install-deps", !.result = Top.ver]
           itNext == [it EXCEPT !.phase = "prepare-build", !.system = u.system[PkgOf(Top)]]
<1>3. CASE /\ IF Top.req.name \in u.prebuilt
                THEN stack' = Push(<<itDone>>)
                ELSE \E order \in ByName(u.system[PkgOf(Top)]) :
                       stack' = Push(Resolves(order, "build-system", Top) \o <<itNext>>)
           /\ UNCHANGED <<u, pc, todo, records, dirs, exitCode, faults>>
  <2>1. itDone \in FitItem
    BY <1>1, TopFits DEF FitItem, Item, Built, Phase
  <2>2. itNext \in FitItem
    <3>1. u.system[PkgOf(Top)] \subseteq Req
      BY <1>1, TopFits, RequirementTypes
    <3> QED BY <1>1, <3>1, TopFits DEF FitItem, Item, Built, Phase
  <2> HIDE DEF itDone, itNext
  <2>3. stack' \in Seq(FitItem)
    <3>1. CASE stack' = Push(<<itDone>>)
      BY <1>1, <2>1, <3>1, TopFits
    <3>2. CASE \E order \in ByName(u.system[PkgOf(Top)]) :
                 stack' = Push(Resolves(order, "build-system", Top) \o <<itNext>>)
      <4>1. u.system[PkgOf(Top)] \subseteq Req /\ "build-system" \in ReqType
        BY <1>1, TopFits, RequirementTypes DEF ReqType, BuildType
      <4> QED BY <1>1, <2>2, <3>2, <4>1, ItemsAndTopFit
    <3> QED BY <1>3, <3>1, <3>2
  <2> QED BY <1>3, <2>3 DEF TypeInv, LoopTypeOK, RecordsTypeOK, DirsTypeOK, records, dirs
<1>4. \/ PhaseFailed(Top, graph, {})
      \/ /\ IF Top.req.name \in u.prebuilt
              THEN stack' = Push(<<itDone>>)
              ELSE \E order \in ByName(u.system[PkgOf(Top)]) :
                     stack' = Push(Resolves(order, "build-system", Top) \o <<itNext>>)
         /\ UNCHANGED <<u, pc, todo, records, dirs, exitCode, faults>>
  BY Zenon DEF RunPrepareSource
<1> QED BY <1>2, <1>3, <1>4

LEMMA SatisfiedEdgesFit ==
  ASSUME TypeInv, NEW p \in Pkg, NEW deps \in SUBSET Req, NEW type \in BuildType,
         NEW f \in BuildSystems(p)
  PROVE  /\ SatisfiedEdges(p, deps, type, f) \subseteq Edge
         /\ \A e \in SatisfiedEdges(p, deps, type, f) :
              e.parent = p /\ e.type = type /\ p \in graph.nodes /\ e.child \in graph.nodes
<1> DEFINE children == IF p \in graph.nodes THEN Children(graph, p, {"build-system"}) ELSE {}
<1>1. graph.edges \subseteq Edge /\ \A e \in graph.edges : e.child \in graph.nodes
  BY DEF TypeInv, RecordsTypeOK, Graph, WellFormed
<1>2. \A c \in children : c \in Pkg /\ c \in graph.nodes /\ p \in graph.nodes
  BY <1>1 DEF Children, Edge
<1>3. ASSUME NEW r \in Satisfied(deps, f)
      PROVE  <<r.name, f[r.name]>> \in children
  BY DEF Satisfied, BuildSystems
<1> HIDE DEF children
<1>4. ASSUME NEW e \in SatisfiedEdges(p, deps, type, f)
      PROVE  e \in Edge /\ e.parent = p /\ e.type = type /\ p \in graph.nodes /\ e.child \in graph.nodes
  <2>1. PICK r \in Satisfied(deps, f) :
          e = [parent |-> p, type |-> type, child |-> <<r.name, f[r.name]>>]
    BY DEF SatisfiedEdges
  <2> QED BY <1>2, <1>3, <2>1 DEF Edge, ReqType
<1> QED BY <1>4

LEMMA RunPrepareBuildType ==
  ASSUME TypeInv, RunPrepareBuild
  PROVE  TypeInv'
<1> DEFINE p == PkgOf(Top)
<1>1. pc = "loop" /\ stack # <<>> /\ Top.phase = "prepare-build"
  BY DEF RunPrepareBuild, Running
<1>2. CASE PhaseFailed(Top, graph, {})
  BY <1>1, <1>2, GraphIsThere, PhaseFailedType
<1>3. ASSUME NEW f \in BuildSystems(p), NEW it,
             it = [Top EXCEPT !.phase = "build",
                              !.backend = u.backend[p] \ Satisfied(u.backend[p], f),
                              !.sdist = u.sdist[p] \ Satisfied(u.sdist[p], f)],
             \E b \in ByName(it.backend), d \in ByName(it.sdist) :
               stack' = Push(Resolves(d, "build-sdist", Top)
                              \o Resolves(b, "build-backend", Top) \o <<it>>),
             graph' = [graph EXCEPT !.edges =
                         @ \cup SatisfiedEdges(p, u.backend[p], "build-backend", f)
                           \cup SatisfiedEdges(p, u.sdist[p], "build-sdist", f)],
             UNCHANGED <<u, pc, todo, seen, buildOrder, failures, failedVersions, dirs, exitCode, faults>>
      PROVE  TypeInv'
  <2>1. p \in Pkg /\ u.backend[p] \subseteq Req /\ u.sdist[p] \subseteq Req
    BY <1>1, TopFits, RequirementTypes
  <2>2. it \in FitItem
    <3>1. /\ u.backend[p] \ Satisfied(u.backend[p], f) \subseteq Req
          /\ u.sdist[p] \ Satisfied(u.sdist[p], f) \subseteq Req
      BY <2>1
    <3> HIDE DEF p
    <3> QED BY <1>1, <1>3, <3>1, TopFits DEF FitItem, Item, Built, Phase
  <2>3. it.backend \subseteq Req /\ it.sdist \subseteq Req
    BY <2>2 DEF FitItem, Item
  <2>4. stack' \in Seq(FitItem)
    <3>1. PICK b \in ByName(it.backend), d \in ByName(it.sdist) :
            stack' = Push(Resolves(d, "build-sdist", Top) \o Resolves(b, "build-backend", Top) \o <<it>>)
      BY <1>3
    <3>2. /\ Resolves(d, "build-sdist", Top) \in Seq(FitItem)
          /\ Resolves(b, "build-backend", Top) \in Seq(FitItem)
      BY <1>1, <2>3, TopFits, ResolvesFit DEF ReqType, BuildType
    <3>3. Resolves(d, "build-sdist", Top) \o Resolves(b, "build-backend", Top) \in Seq(FitItem)
      BY <3>2
    <3> QED BY <1>1, <2>2, <3>1, <3>3, TopFits
  <2>5. graph' \in Graph /\ WellFormed(graph)'
    <3>1. "build-backend" \in BuildType /\ "build-sdist" \in BuildType
      BY DEF BuildType
    <3>2. PICK added : added = SatisfiedEdges(p, u.backend[p], "build-backend", f)
                                 \cup SatisfiedEdges(p, u.sdist[p], "build-sdist", f)
      OBVIOUS
    <3>3. added \subseteq Edge /\ \A e \in added : e.parent \in graph.nodes /\ e.child \in graph.nodes
      BY <2>1, <3>1, <3>2, SatisfiedEdgesFit
    <3>4. graph' = [graph EXCEPT !.edges = @ \cup added]
      BY <1>3, <3>2
    <3> QED BY <3>3, <3>4 DEF TypeInv, RecordsTypeOK, Graph, WellFormed
  <2> QED BY <1>3, <2>4, <2>5 DEF TypeInv, LoopTypeOK, RecordsTypeOK, DirsTypeOK, dirs
<1> QED BY <1>2, <1>3 DEF RunPrepareBuild

LEMMA RunBuildType ==
  ASSUME TypeInv, RunBuild
  PROVE  TypeInv'
<1> DEFINE it == [Top EXCEPT !.phase = "process-install-deps", !.result = Top.ver]
<1>1. pc = "loop" /\ stack # <<>> /\ Top.phase = "build"
  BY DEF RunBuild, Running
<1>2. ASSUME NEW left \in SUBSET Pkg, PhaseFailed(Top, graph, left) PROVE TypeInv'
  BY <1>1, <1>2, GraphIsThere, PhaseFailedType
<1>3. {} \in SUBSET Pkg /\ {PkgOf(Top)} \in SUBSET Pkg
  BY <1>1, TopFits
<1>4. CASE /\ stack' = Push(<<it>>)
           /\ \/ UNCHANGED <<u, pc, todo, records, dirs, exitCode>>
              \/ /\ UpdateMirror({PkgOf(Top)}, {}) /\ raw' = raw \ {PkgOf(Top)}
                 /\ UNCHANGED <<u, pc, todo, records, exitCode>>
  <2>1. it \in FitItem
    BY <1>1, TopFits DEF FitItem, Item, Built, Phase
  <2> HIDE DEF it
  <2>2. stack' \in Seq(FitItem)
    BY <1>1, <1>4, <2>1, TopFits
  <2>3. DirsTypeOK'
    <3>1. CASE UNCHANGED dirs
      BY <3>1 DEF TypeInv, DirsTypeOK, dirs
    <3>2. CASE UpdateMirror({PkgOf(Top)}, {}) /\ raw' = raw \ {PkgOf(Top)}
      BY <1>3, <3>2, UpdateMirrorType DEF TypeInv, DirsTypeOK
    <3> QED BY <1>4, <3>1, <3>2
  <2> QED BY <1>4, <2>2, <2>3 DEF TypeInv, LoopTypeOK, RecordsTypeOK, records
<1>5. \/ \E left \in {{}, {PkgOf(Top)}} : PhaseFailed(Top, graph, left)
      \/ /\ stack' = Push(<<it>>)
         /\ \/ UNCHANGED <<u, pc, todo, records, dirs, exitCode>>
            \/ /\ UpdateMirror({PkgOf(Top)}, {}) /\ raw' = raw \ {PkgOf(Top)}
               /\ UNCHANGED <<u, pc, todo, records, exitCode>>
  BY DEF RunBuild, Build
<1> QED BY <1>2, <1>3, <1>4, <1>5

LEMMA AddToBuildOrderType ==
  ASSUME NEW p \in Pkg, NEW order \in Seq(Pkg)
  PROVE  AddToBuildOrder(order, p) \in Seq(Pkg)
  BY DEF AddToBuildOrder

LEMMA RunProcessInstallDepsType ==
  ASSUME TypeInv, RunProcessInstallDeps
  PROVE  TypeInv'
<1> DEFINE it == [Top EXCEPT !.phase = "complete"]
<1>1. pc = "loop" /\ stack # <<>> /\ Top.phase = "process-install-deps"
  BY DEF RunProcessInstallDeps, Running
<1>2. CASE PhaseFailed(Top, graph, {})
  BY <1>1, <1>2, GraphIsThere, PhaseFailedType
<1>3. ASSUME NEW reqs \in {InstallRequirements(Top)} \cup {{}},
             NEW order \in ByName(reqs),
             stack' = Push(Resolves(order, "install", Top) \o <<it>>),
             failures' = failures \/ failures' = failures \cup {PkgOf(Top)},
             buildOrder' = AddToBuildOrder(buildOrder, PkgOf(Top)),
             UNCHANGED <<u, pc, todo, seen, graph, failedVersions, dirs, exitCode>>
      PROVE  TypeInv'
  <2>1. it \in FitItem
    BY <1>1, TopFits DEF FitItem, Item, Built, Phase
  <2>2. reqs \in SUBSET Req /\ "install" \in ReqType
    <3>1. <<Top.req.name, Top.result>> \in Pkg
      BY <1>1, TopFits DEF Built, Pkg
    <3> QED BY <3>1, RequirementTypes DEF InstallRequirements, ReqType, InstallType
  <2>3. stack' \in Seq(FitItem)
    BY <1>1, <1>3, <2>1, <2>2, ItemsAndTopFit
  <2>4. buildOrder' \in Seq(Pkg) /\ PkgOf(Top) \in FailureKeys
    <3>1. PkgOf(Top) \in Pkg
      BY <1>1, TopFits
    <3> QED BY <1>3, <3>1, AddToBuildOrderType DEF TypeInv, RecordsTypeOK, FailureKeys, Pkg
  <2> QED BY <1>3, <2>3, <2>4 DEF TypeInv, LoopTypeOK, RecordsTypeOK, DirsTypeOK, dirs
<1> QED BY <1>2, <1>3 DEF RunProcessInstallDeps

LEMMA RunCompleteType ==
  ASSUME TypeInv, RunComplete
  PROVE  TypeInv'
  BY TopFits DEF RunComplete, Running, TypeInv, LoopTypeOK, RecordsTypeOK, DirsTypeOK, records, dirs

LEMMA FinalizeType ==
  ASSUME TypeInv, Finalize
  PROVE  TypeInv'
  BY DEF Finalize, TypeInv, LoopTypeOK, RecordsTypeOK, DirsTypeOK, records, dirs

LEMMA TypeStep == TypeInv /\ [Next]_vars => TypeInv'
<1> SUFFICES ASSUME TypeInv, [Next]_vars PROVE TypeInv'
  OBVIOUS
<1>1. CASE ResolveTopLevel
  BY <1>1, ResolveTopLevelType
<1>2. CASE FailTopLevel
  BY <1>2, FailTopLevelType
<1>3. CASE \E i \in DOMAIN stack : FinishResolution(i) \/ FetchSource(i)
  BY <1>3, FinishResolutionType, FetchSourceType
<1>4. CASE RunItem
  BY <1>4, RunResolveType, RunStartType, RunPrepareSourceType, RunPrepareBuildType, RunBuildType,
     RunProcessInstallDepsType, RunCompleteType DEF RunItem
<1>5. CASE Finalize
  BY <1>5, FinalizeType
<1>6. CASE UNCHANGED vars
  BY <1>6 DEF vars, records, dirs, TypeInv, LoopTypeOK, RecordsTypeOK, DirsTypeOK
<1> QED BY <1>1, <1>2, <1>3, <1>4, <1>5, <1>6 DEF Next

LEMMA TypeIsInvariant == Spec => []TypeInv
<1>1. Init => TypeInv
  BY InitType
<1> QED BY <1>1, TypeStep, PTL DEF Spec

(* Whatever the index holds, whatever fails, and in every mode, the variables  *)
(* of the loop keep their types and the graph it records is closed: an edge    *)
(* joins nodes of the graph (Bootstrapper.run and the phases).                *)
THEOREM BootstrapperTypeCorrect == Spec => []TypeOK
  BY TypeIsInvariant, TypeInvTypes, PTL

-----------------------------------------------------------------------------
(* What the stack asks for, apart from the place of an item and from what the  *)
(* threads have done; and what a step of the loop puts in place of its top.    *)
Task(it) == [phase |-> it.phase, req |-> it.req, type |-> it.type, parent |-> it.parent,
             ver |-> it.ver]

TasksOf(s) == {Task(s[i]) : i \in DOMAIN s}
Tasks      == TasksOf(stack)
Rest       == TasksOf(Tail(stack))

Becomes(phase, ver) ==
  [phase |-> phase, req |-> Top.req, type |-> Top.type, parent |-> Top.parent, ver |-> ver]

TopIn(phase) == Becomes(phase, Top.ver)

Requests(reqs, type, parent) ==
  {[phase |-> "resolve", req |-> r, type |-> type, parent |-> parent, ver |-> NoVersion] : r \in reqs}

(* Only the first of some items may have its sources fetched.                 *)
NoFetch(s) == \A i \in DOMAIN s : i > 1 => s[i].phase # "prepare-source"

(* What waits for its build requirements comes after them.                    *)
Ordered(s) == NoFetch(s) /\ \A i \in DOMAIN s : s[i].phase = "prepare-build" => i = Len(s)

Puts(tasks) ==
  \E items \in Seq(FitItem) :
    stack' = Push(items) /\ Ordered(items) /\ TasksOf(items) = tasks

LEMMA TaskFields ==
  \A it : LET t == Task(it)
          IN  /\ t.phase = it.phase /\ t.req = it.req /\ t.type = it.type
              /\ t.parent = it.parent /\ t.ver = it.ver /\ PkgOf(t) = PkgOf(it)
  BY DEF Task, PkgOf

LEMMA TasksOfShort == TasksOf(<<>>) = {} /\ \A it : TasksOf(<<it>>) = {Task(it)}
<1>1. TasksOf(<<>>) = {}
  BY DEF TasksOf
<1>2. ASSUME NEW it PROVE TasksOf(<<it>>) = {Task(it)}
  <2>1. DOMAIN <<it>> = {1} /\ <<it>>[1] = it
    OBVIOUS
  <2> QED BY <2>1, Zenon DEF TasksOf
<1> QED BY <1>1, <1>2

LEMMA TasksOfBoth ==
  ASSUME NEW a \in Seq(FitItem), NEW b \in Seq(FitItem)
  PROVE  TasksOf(a \o b) = TasksOf(a) \cup TasksOf(b)
<1>1. \A t : t \in TasksOf(a \o b) => t \in TasksOf(a) \cup TasksOf(b)
  <2> SUFFICES ASSUME NEW i \in DOMAIN (a \o b)
               PROVE  Task((a \o b)[i]) \in TasksOf(a) \cup TasksOf(b)
    BY DEF TasksOf
  <2>1. CASE i \in DOMAIN a
    <3>1. (a \o b)[i] = a[i]
      BY <2>1
    <3> QED BY <2>1, <3>1 DEF TasksOf
  <2>2. CASE i \notin DOMAIN a
    <3>1. i - Len(a) \in DOMAIN b /\ (a \o b)[i] = b[i - Len(a)]
      BY <2>2
    <3> QED BY <3>1 DEF TasksOf
  <2> QED BY <2>1, <2>2
<1>2. TasksOf(a) \subseteq TasksOf(a \o b)
  <2> SUFFICES ASSUME NEW i \in DOMAIN a PROVE Task(a[i]) \in TasksOf(a \o b)
    BY DEF TasksOf
  <2>1. i \in DOMAIN (a \o b) /\ (a \o b)[i] = a[i]
    OBVIOUS
  <2> QED BY <2>1 DEF TasksOf
<1>3. TasksOf(b) \subseteq TasksOf(a \o b)
  <2> SUFFICES ASSUME NEW i \in DOMAIN b PROVE Task(b[i]) \in TasksOf(a \o b)
    BY DEF TasksOf
  <2>1. i + Len(a) \in DOMAIN (a \o b) /\ (a \o b)[i + Len(a)] = b[i]
    OBVIOUS
  <2> QED BY <2>1 DEF TasksOf
<1> QED BY <1>1, <1>2, <1>3

LEMMA TasksBelow ==
  ASSUME TypeInv, stack # <<>>
  PROVE  /\ Tasks = {Task(Top)} \cup Rest
         /\ Tail(stack) \in Seq(FitItem)
         /\ \A items \in Seq(FitItem) : TasksOf(Push(items)) = TasksOf(items) \cup Rest
<1>1. Tail(stack) \in Seq(FitItem) /\ Top \in FitItem /\ stack = <<Top>> \o Tail(stack)
  BY DEF TypeInv, LoopTypeOK, Top
<1>2. <<Top>> \in Seq(FitItem)
  BY <1>1
<1>3. Tasks = TasksOf(<<Top>>) \cup Rest
  BY <1>1, <1>2, TasksOfBoth DEF Tasks, Rest
<1>4. \A items \in Seq(FitItem) : TasksOf(Push(items)) = TasksOf(items) \cup Rest
  BY <1>1, TasksOfBoth DEF Push, Rest
<1> QED BY <1>1, <1>3, <1>4, TasksOfShort

LEMMA PutsTasks ==
  ASSUME TypeInv, stack # <<>>, NEW tasks, Puts(tasks)
  PROVE  Tasks = {Task(Top)} \cup Rest /\ Tasks' = tasks \cup Rest
  BY TasksBelow DEF Puts, Tasks

LEMMA PutsNothing ==
  ASSUME stack' = Push(<<>>)
  PROVE  Puts({})
<1>1. <<>> \in Seq(FitItem) /\ Ordered(<<>>)
  BY DEF Ordered, NoFetch
<1> QED BY <1>1, TasksOfShort DEF Puts

LEMMA PutsOne ==
  ASSUME NEW it \in FitItem, stack' = Push(<<it>>)
  PROVE  Puts({Task(it)})
<1>1. <<it>> \in Seq(FitItem) /\ Ordered(<<it>>)
  BY DEF Ordered, NoFetch
<1> QED BY <1>1, TasksOfShort DEF Puts

LEMMA TasksOfResolves ==
  ASSUME NEW reqs \in SUBSET Req, NEW order \in ByName(reqs), NEW type, NEW it
  PROVE  TasksOf(Resolves(order, type, it)) = Requests(reqs, type, PkgOf(it))
<1>1. IsFiniteSet(reqs)
  BY ReqsAreFinite, FS_Subset
<1>2. order \in Seq(reqs) /\ ElementsOf(order) = reqs
  BY <1>1, OrdersAreSequences DEF ByName
<1>3. \A r \in reqs : \E i \in DOMAIN order : order[i] = r
  BY <1>2 DEF ElementsOf
<1>4. \A i \in DOMAIN order : order[i] \in reqs
  BY <1>2
<1> DEFINE request(r) == [phase |-> "resolve", req |-> r, type |-> type, parent |-> PkgOf(it),
                          ver |-> NoVersion]
<1>5. /\ DOMAIN Resolves(order, type, it) = DOMAIN order
      /\ \A i \in DOMAIN order : Task(Resolves(order, type, it)[i]) = request(order[i])
  BY DEF Resolves, NewItem, Task
<1> HIDE DEF request
<1>6. TasksOf(Resolves(order, type, it)) = {request(r) : r \in reqs}
  BY <1>3, <1>4, <1>5 DEF TasksOf
<1> QED BY <1>6 DEF Requests, request

LEMMA PutsRequests ==
  ASSUME NEW reqs \in SUBSET Req, NEW order \in ByName(reqs), NEW type \in ReqType, NEW it \in FitItem,
         it.phase # "prepare-source", Top \in FitItem, Top.phase # "resolve",
         stack' = Push(Resolves(order, type, Top) \o <<it>>)
  PROVE  Puts(Requests(reqs, type, PkgOf(Top)) \cup {Task(it)})
<1>1. /\ Resolves(order, type, Top) \in Seq(FitItem)
      /\ \A i \in DOMAIN Resolves(order, type, Top) : Resolves(order, type, Top)[i].phase = "resolve"
  BY ResolvesFit
<1>2. PICK items : items = Resolves(order, type, Top)
  OBVIOUS
<1>3. items \o <<it>> \in Seq(FitItem) /\ Ordered(items \o <<it>>)
  BY <1>1, <1>2 DEF Ordered, NoFetch
<1>4. TasksOf(items \o <<it>>) = Requests(reqs, type, PkgOf(Top)) \cup {Task(it)}
  <2>1. <<it>> \in Seq(FitItem) /\ items \in Seq(FitItem)
    BY <1>1, <1>2
  <2>2. TasksOf(items \o <<it>>) = TasksOf(items) \cup TasksOf(<<it>>)
    BY <2>1, TasksOfBoth
  <2>3. TasksOf(items) = Requests(reqs, type, PkgOf(Top))
    BY <1>2, TasksOfResolves
  <2> QED BY <2>2, <2>3, TasksOfShort
<1> QED BY <1>2, <1>3, <1>4 DEF Puts

-----------------------------------------------------------------------------
(* The steps of the loop in terms of tasks.                                   *)
Fails(g) ==
  /\ UNCHANGED <<u, todo, buildOrder, exitCode>>
  /\ \/ /\ TestMode /\ graph' = g /\ Puts({TopIn("process-install-deps")})
        /\ UNCHANGED <<pc, seen, failures, failedVersions>>
     \/ /\ TestMode /\ graph' = g /\ Puts({})
        /\ failures' = failures \cup {PkgOf(Top)}
        /\ UNCHANGED <<pc, seen, failedVersions>>
     \/ /\ ~TestMode /\ MultipleVersions /\ Puts({})
        /\ graph' = RemoveDependency(g, PkgOf(Top))
        /\ failedVersions' = failedVersions \cup {PkgOf(Top)}
        /\ seen' = seen \ {SeenKey(Top, "sdist"), SeenKey(Top, "wheel")}
        /\ UNCHANGED <<pc, failures>>
     \/ /\ ~TestMode /\ ~MultipleVersions /\ pc' = "aborted" /\ graph' = g /\ Puts({})
        /\ UNCHANGED <<seen, failures, failedVersions>>

LEMMA TopTask ==
  ASSUME TypeInv, stack # <<>>, NEW phase, NEW it, it.phase = phase,
         it.req = Top.req, it.type = Top.type, it.parent = Top.parent, it.ver = Top.ver
  PROVE  Task(it) = TopIn(phase)
  BY DEF Task, TopIn, Becomes

LEMMA PhaseFailedFails ==
  ASSUME TypeInv, pc = "loop", stack # <<>>, Top.phase # "resolve",
         NEW g, NEW left, PhaseFailed(Top, g, left)
  PROVE  Fails(g)
<1>1. UNCHANGED <<u, todo, buildOrder, exitCode>>
  BY Zenon DEF PhaseFailed
<1>2. CASE FallBack(Top, g, left)
  <2>1. PICK v : v = Highest(Fallbacks(Top))
    OBVIOUS
  <2>2. PICK it : it = [Top EXCEPT !.phase = "process-install-deps", !.result = v]
    OBVIOUS
  <2>3. /\ TestMode /\ graph' = g /\ stack' = Push(<<it>>)
        /\ UNCHANGED <<pc, seen, failures, failedVersions>>
    BY <1>2, <2>1, <2>2, Zenon DEF FallBack
  <2>4. v \in Version
    <3>1. Fallbacks(Top) \subseteq Version /\ Fallbacks(Top) # {}
      BY <1>2, TopFits DEF FallBack, Fallbacks, Matching, Req
    <3> QED BY <2>1, <3>1, HighestVersion
  <2>5. it \in FitItem
    BY <2>2, <2>3, <2>4, TopFits, BootstrapperAssumption DEF FitItem, Item, Built, Phase, NoVersion
  <2>6. /\ it.phase = "process-install-deps" /\ it.req = Top.req /\ it.type = Top.type
        /\ it.parent = Top.parent /\ it.ver = Top.ver
    BY <2>2, TopFits DEF FitItem, Item
  <2>7. Puts({TopIn("process-install-deps")})
    BY <2>3, <2>5, <2>6, TopTask, PutsOne
  <2> QED BY <1>1, <2>3, <2>7 DEF Fails
<1>3. CASE RecordFailure(Top, g, left)
  BY <1>1, <1>3, PutsNothing DEF RecordFailure, Fails
<1>4. CASE DropVersion(Top, g, left)
  BY <1>1, <1>4, PutsNothing DEF DropVersion, Fails
<1>5. CASE Abort(g, left)
  BY <1>1, <1>5, PutsNothing DEF Abort, Fails
<1> QED BY <1>2, <1>3, <1>4, <1>5, Zenon DEF PhaseFailed

LEMMA ResolveTasks ==
  ASSUME TypeInv, RunResolve
  PROVE  /\ pc = "loop" /\ stack # <<>> /\ Top.phase = "resolve"
         /\ UNCHANGED <<u, todo, seen, graph, buildOrder, exitCode>>
         /\ \/ /\ \E versions \in SUBSET Usable(Top.req) :
                    /\ ~MultipleVersions => versions = {Highest(Usable(Top.req))}
                    /\ Puts({Becomes("start", v) : v \in versions})
               /\ Top.future = "done" /\ Usable(Top.req) # {}
               /\ UNCHANGED <<pc, failures, failedVersions>>
            \/ /\ Top.future = "failed" \/ Usable(Top.req) = {}
               /\ Puts({}) /\ RecordUnresolved(Top.req)
               /\ pc' = IF TestMode \/ MultipleVersions THEN "loop" ELSE "aborted"
<1>1. pc = "loop" /\ stack # <<>> /\ Top.phase = "resolve" /\ UNCHANGED <<u, todo, seen, graph, buildOrder, exitCode>>
  BY DEF RunResolve, Running
<1> DEFINE r == Top.req
<1>2. CASE /\ Top.future = "done" /\ Usable(r) # {} /\ UNCHANGED <<pc, failures, failedVersions>>
           /\ \E missed \in SUBSET Remote(r) :
                \E versions \in ByVersion(Chosen(r, missed)) : stack' = Push(Resolved(Top, versions))
  <2>1. PICK missed \in SUBSET Remote(r) :
          \E versions \in ByVersion(Chosen(r, missed)) : stack' = Push(Resolved(Top, versions))
    BY <1>2
  <2>2. PICK versions \in ByVersion(Chosen(r, missed)) : stack' = Push(Resolved(Top, versions))
    BY <2>1
  <2>3. /\ Top \in FitItem /\ Chosen(r, missed) \subseteq Usable(r) /\ Usable(r) \subseteq Version
        /\ ~MultipleVersions => Chosen(r, missed) = {Highest(Usable(r))}
    BY <1>1, <1>2, TopFits, CandidateVersions DEF Chosen
  <2>4. /\ Resolved(Top, versions) \in Seq(FitItem) /\ Ordered(Resolved(Top, versions))
        /\ ElementsOf(versions) = Chosen(r, missed)
    BY <2>3, ResolvedFits DEF Ordered, NoFetch
  <2>5. TasksOf(Resolved(Top, versions)) = {Becomes("start", v) : v \in Chosen(r, missed)}
    <3>1. /\ DOMAIN Resolved(Top, versions) = DOMAIN versions
          /\ \A i \in DOMAIN versions : Task(Resolved(Top, versions)[i]) = Becomes("start", versions[i])
      <4>1. DOMAIN Resolved(Top, versions) = DOMAIN versions
        BY DEF Resolved
      <4>2. ASSUME NEW i \in DOMAIN versions PROVE Task(Resolved(Top, versions)[i]) = Becomes("start", versions[i])
        <5>1. PICK w : w = versions[i]
          OBVIOUS
        <5>2. Resolved(Top, versions)[i] = [Top EXCEPT !.phase = "start", !.ver = w, !.future = "none"]
          BY <5>1 DEF Resolved
        <5>3. Top \in Item
          BY <2>3 DEF FitItem
        <5>4. Task(Resolved(Top, versions)[i]) = Becomes("start", w)
          BY <5>2, <5>3 DEF Task, Item, Becomes
        <5> QED BY <5>1, <5>4
      <4> QED BY <4>1, <4>2
    <3>2. TasksOf(Resolved(Top, versions)) = {Becomes("start", v) : v \in Chosen(r, missed)}
      BY <2>4, <3>1 DEF TasksOf, ElementsOf
    <3> QED BY <3>2
  <2>6. Puts({Becomes("start", v) : v \in Chosen(r, missed)})
    BY <2>2, <2>4, <2>5 DEF Puts
  <2> QED BY <1>1, <1>2, <2>3, <2>6
<1>3. CASE (Top.future = "failed" \/ Usable(r) = {}) /\ ResolveFailed(r)
  BY <1>1, <1>3, PutsNothing DEF ResolveFailed
<1> QED BY <1>2, <1>3 DEF RunResolve

LEMMA StartTasks ==
  ASSUME TypeInv, RunStart
  PROVE  /\ pc = "loop" /\ stack # <<>> /\ Top.phase = "start"
         /\ UNCHANGED <<u, todo, buildOrder, exitCode>>
         /\ \/ /\ Top.type # "toplevel" /\ Top.parent \notin AddToGraph(Top).nodes
               /\ Fails(AddToGraph(Top))
            \/ /\ Top.type = "toplevel" \/ Top.parent \in AddToGraph(Top).nodes
               /\ graph' = AddToGraph(Top)
               /\ \/ HasBeenSeen(Top) /\ Puts({}) /\ seen' = seen
                  \/ ~HasBeenSeen(Top) /\ Puts({TopIn("prepare-source")}) /\ seen' = seen \cup SeenMarks(Top)
               /\ UNCHANGED <<pc, failures, failedVersions>>
<1>1. pc = "loop" /\ stack # <<>> /\ Top.phase = "start"
  BY DEF RunStart, Running
<1>2. CASE /\ Top.type # "toplevel" /\ ~ParentExists(AddToGraph(Top), Top.parent)
           /\ PhaseFailed(Top, AddToGraph(Top), {})
  <2>1. Fails(AddToGraph(Top))
    BY <1>1, <1>2, PhaseFailedFails
  <2> QED BY <1>1, <1>2, <2>1 DEF ParentExists, Fails
<1>3. CASE /\ Top.type = "toplevel" \/ ParentExists(AddToGraph(Top), Top.parent)
           /\ graph' = AddToGraph(Top)
           /\ IF HasBeenSeen(Top)
                THEN stack' = Push(<<>>) /\ UNCHANGED seen
                ELSE /\ seen' = seen \cup SeenMarks(Top)
                     /\ stack' = Push(<<[Top EXCEPT !.phase = "prepare-source", !.future = "pending",
                                                   !.sdistOnly = OnlySdist(Top)]>>)
           /\ UNCHANGED <<u, pc, todo, buildOrder, failures, failedVersions, dirs, exitCode>>
  <2>1. PICK it : it = [Top EXCEPT !.phase = "prepare-source", !.future = "pending",
                                   !.sdistOnly = OnlySdist(Top)]
    OBVIOUS
  <2>3. /\ it \in FitItem
        /\ it.phase = "prepare-source" /\ it.req = Top.req /\ it.type = Top.type
        /\ it.parent = Top.parent /\ it.ver = Top.ver
    BY <1>1, <2>1, StartedFits
  <2>4. stack' = Push(<<it>>) => Puts({TopIn("prepare-source")})
    BY <1>1, <2>3, TopTask, PutsOne
  <2>5. \/ HasBeenSeen(Top) /\ Puts({}) /\ seen' = seen
        \/ ~HasBeenSeen(Top) /\ Puts({TopIn("prepare-source")}) /\ seen' = seen \cup SeenMarks(Top)
    BY <1>3, <2>1, <2>4, PutsNothing
  <2>6. Top.type = "toplevel" \/ Top.parent \in AddToGraph(Top).nodes
    BY <1>3 DEF ParentExists
  <2>7. graph' = AddToGraph(Top) /\ UNCHANGED <<u, pc, todo, buildOrder, failures, failedVersions, exitCode>>
    BY <1>3
  <2> QED BY <1>1, <2>5, <2>6, <2>7
<1> QED BY <1>2, <1>3 DEF RunStart

LEMMA PrepareSourceTasks ==
  ASSUME TypeInv, RunPrepareSource
  PROVE  /\ pc = "loop" /\ stack # <<>> /\ Top.phase = "prepare-source"
         /\ \/ Fails(graph)
            \/ /\ \/ Top.req.name \in u.prebuilt /\ Puts({TopIn("process-install-deps")})
                  \/ /\ Top.req.name \notin u.prebuilt
                     /\ Puts(Requests(u.system[PkgOf(Top)], "build-system", PkgOf(Top))
                              \cup {TopIn("prepare-build")})
               /\ UNCHANGED <<u, pc, todo, records, exitCode>>
<1>1. pc = "loop" /\ stack # <<>> /\ Top.phase = "prepare-source"
  BY DEF RunPrepareSource, Running
<1>2. CASE PhaseFailed(Top, graph, {})
  BY <1>1, <1>2, PhaseFailedFails
<1> DEFINE it == [Top EXCEPT !.future = "none"]
           itDone == [it EXCEPT !.phase = "process-install-deps", !.result = Top.ver]
           itNext == [it EXCEPT !.phase = "prepare-build", !.system = u.system[PkgOf(Top)]]
<1>3. CASE /\ IF Top.req.name \in u.prebuilt
                THEN stack' = Push(<<itDone>>)
                ELSE \E order \in ByName(u.system[PkgOf(Top)]) :
                       stack' = Push(Resolves(order, "build-system", Top) \o <<itNext>>)
           /\ UNCHANGED <<u, pc, todo, records, dirs, exitCode, faults>>
  <2>0. u.system[PkgOf(Top)] \in SUBSET Req /\ "build-system" \in ReqType /\ Top \in FitItem
    BY <1>1, TopFits, RequirementTypes DEF ReqType, BuildType
  <2>1. itDone \in FitItem /\ itNext \in FitItem
    <3>1. Top.ver \in Version /\ Top.ver # NoVersion
      BY <1>1, <2>0, TopFits DEF FitItem
    <3>2. itDone \in FitItem
      BY <2>0, <3>1 DEF FitItem, Item, Built, Phase
    <3>3. itNext \in FitItem
      BY <1>1, <2>0, <3>1 DEF FitItem, Item, Built, Phase
    <3> QED BY <3>2, <3>3
  <2>2. /\ itDone.phase = "process-install-deps" /\ itDone.req = Top.req /\ itDone.type = Top.type
        /\ itDone.parent = Top.parent /\ itDone.ver = Top.ver
        /\ itNext.phase = "prepare-build" /\ itNext.req = Top.req /\ itNext.type = Top.type
        /\ itNext.parent = Top.parent /\ itNext.ver = Top.ver
    BY <2>0 DEF FitItem, Item
  <2> HIDE DEF itDone, itNext
  <2>3. Task(itDone) = TopIn("process-install-deps") /\ Task(itNext) = TopIn("prepare-build")
    BY <1>1, <2>2, TopTask
  <2>4. CASE Top.req.name \in u.prebuilt /\ stack' = Push(<<itDone>>)
    <3>1. Puts({TopIn("process-install-deps")})
      BY <2>1, <2>3, <2>4, PutsOne
    <3> QED BY <1>1, <1>3, <2>4, <3>1
  <2>5. CASE /\ Top.req.name \notin u.prebuilt
             /\ \E order \in ByName(u.system[PkgOf(Top)]) :
                  stack' = Push(Resolves(order, "build-system", Top) \o <<itNext>>)
    <3>1. Puts(Requests(u.system[PkgOf(Top)], "build-system", PkgOf(Top)) \cup {Task(itNext)})
      BY <1>1, <2>0, <2>1, <2>2, <2>5, PutsRequests
    <3> QED BY <1>1, <1>3, <2>3, <2>5, <3>1
  <2> QED BY <1>3, <2>4, <2>5
<1>4. \/ PhaseFailed(Top, graph, {})
      \/ /\ IF Top.req.name \in u.prebuilt
              THEN stack' = Push(<<itDone>>)
              ELSE \E order \in ByName(u.system[PkgOf(Top)]) :
                     stack' = Push(Resolves(order, "build-system", Top) \o <<itNext>>)
         /\ UNCHANGED <<u, pc, todo, records, dirs, exitCode, faults>>
  BY Zenon DEF RunPrepareSource
<1> QED BY <1>2, <1>3, <1>4

LEMMA PrepareBuildTasks ==
  ASSUME TypeInv, RunPrepareBuild
  PROVE  LET p == PkgOf(Top)
         IN  /\ pc = "loop" /\ stack # <<>> /\ Top.phase = "prepare-build"
             /\ \/ Fails(graph)
                \/ /\ \E f \in BuildSystems(p) :
                        /\ Puts(Requests(u.sdist[p] \ Satisfied(u.sdist[p], f), "build-sdist", p)
                                 \cup Requests(u.backend[p] \ Satisfied(u.backend[p], f), "build-backend", p)
                                 \cup {TopIn("build")})
                        /\ graph' = [nodes |-> graph.nodes,
                                     edges |-> graph.edges
                                                 \cup SatisfiedEdges(p, u.backend[p], "build-backend", f)
                                                 \cup SatisfiedEdges(p, u.sdist[p], "build-sdist", f)]
                   /\ UNCHANGED <<u, pc, todo, seen, buildOrder, failures, failedVersions, exitCode>>
<1> DEFINE p == PkgOf(Top)
<1>1. pc = "loop" /\ stack # <<>> /\ Top.phase = "prepare-build"
  BY DEF RunPrepareBuild, Running
<1>2. CASE PhaseFailed(Top, graph, {})
  BY <1>1, <1>2, PhaseFailedFails
<1>3. ASSUME NEW f \in BuildSystems(p), NEW it,
             it = [Top EXCEPT !.phase = "build",
                              !.backend = u.backend[p] \ Satisfied(u.backend[p], f),
                              !.sdist = u.sdist[p] \ Satisfied(u.sdist[p], f)],
             \E b \in ByName(it.backend), d \in ByName(it.sdist) :
               stack' = Push(Resolves(d, "build-sdist", Top)
                              \o Resolves(b, "build-backend", Top) \o <<it>>),
             graph' = [graph EXCEPT !.edges =
                         @ \cup SatisfiedEdges(p, u.backend[p], "build-backend", f)
                           \cup SatisfiedEdges(p, u.sdist[p], "build-sdist", f)]
      PROVE  /\ Puts(Requests(u.sdist[p] \ Satisfied(u.sdist[p], f), "build-sdist", p)
                       \cup Requests(u.backend[p] \ Satisfied(u.backend[p], f), "build-backend", p)
                       \cup {TopIn("build")})
             /\ graph' = [nodes |-> graph.nodes,
                          edges |-> graph.edges
                                      \cup SatisfiedEdges(p, u.backend[p], "build-backend", f)
                                      \cup SatisfiedEdges(p, u.sdist[p], "build-sdist", f)]
  <2>1. p \in Pkg /\ u.backend[p] \subseteq Req /\ u.sdist[p] \subseteq Req /\ Top \in FitItem
    BY <1>1, TopFits, RequirementTypes
  <2> HIDE DEF p
  <2>2. it \in FitItem
    <3>1. /\ u.backend[p] \ Satisfied(u.backend[p], f) \subseteq Req
          /\ u.sdist[p] \ Satisfied(u.sdist[p], f) \subseteq Req
      BY <2>1
    <3> QED BY <1>1, <1>3, <3>1, TopFits DEF FitItem, Item, Built, Phase
  <2>3. /\ it.backend = u.backend[p] \ Satisfied(u.backend[p], f) /\ it.backend \in SUBSET Req
        /\ it.sdist = u.sdist[p] \ Satisfied(u.sdist[p], f) /\ it.sdist \in SUBSET Req
        /\ it.phase = "build" /\ it.req = Top.req /\ it.type = Top.type
        /\ it.parent = Top.parent /\ it.ver = Top.ver
    BY <1>3, <2>1, <2>2 DEF FitItem, Item
  <2>4. Task(it) = TopIn("build")
    BY <1>1, <2>3, TopTask
  <2>5. PICK b \in ByName(it.backend), d \in ByName(it.sdist) :
          stack' = Push(Resolves(d, "build-sdist", Top) \o Resolves(b, "build-backend", Top) \o <<it>>)
    BY <1>3
  <2>6. PICK ds, bs : ds = Resolves(d, "build-sdist", Top) /\ bs = Resolves(b, "build-backend", Top)
    OBVIOUS
  <2>7. /\ ds \in Seq(FitItem) /\ \A i \in DOMAIN ds : ds[i].phase = "resolve"
        /\ bs \in Seq(FitItem) /\ \A i \in DOMAIN bs : bs[i].phase = "resolve"
    <3>1. "build-sdist" \in ReqType /\ "build-backend" \in ReqType
      BY DEF ReqType, BuildType
    <3> QED BY <1>1, <2>1, <2>3, <2>6, <3>1, ResolvesFit
  <2>8. /\ TasksOf(ds) = Requests(it.sdist, "build-sdist", PkgOf(Top))
        /\ TasksOf(bs) = Requests(it.backend, "build-backend", PkgOf(Top))
    BY <2>3, <2>6, TasksOfResolves
  <2>9. Puts(TasksOf(ds) \cup TasksOf(bs) \cup {Task(it)})
    <3>1. ds \o bs \in Seq(FitItem) /\ \A i \in DOMAIN (ds \o bs) : (ds \o bs)[i].phase = "resolve"
      BY <2>7
    <3>2. PICK both : both = ds \o bs
      OBVIOUS
    <3>3. both \o <<it>> \in Seq(FitItem) /\ Ordered(both \o <<it>>)
      BY <2>2, <2>3, <3>1, <3>2 DEF Ordered, NoFetch
    <3>4. TasksOf(both \o <<it>>) = TasksOf(both) \cup TasksOf(<<it>>)
      <4>1. both \in Seq(FitItem) /\ <<it>> \in Seq(FitItem)
        BY <2>2, <3>1, <3>2
      <4> QED BY <4>1, TasksOfBoth
    <3>5. TasksOf(both) = TasksOf(ds) \cup TasksOf(bs)
      BY <2>7, <3>2, TasksOfBoth
    <3>6. TasksOf(both \o <<it>>) = TasksOf(ds) \cup TasksOf(bs) \cup {Task(it)}
      BY <3>4, <3>5, TasksOfShort
    <3>7. stack' = Push(both \o <<it>>)
      BY <2>5, <2>6, <3>2
    <3> QED BY <3>3, <3>6, <3>7 DEF Puts
  <2>10. graph' = [nodes |-> graph.nodes,
                   edges |-> graph.edges
                               \cup SatisfiedEdges(p, u.backend[p], "build-backend", f)
                               \cup SatisfiedEdges(p, u.sdist[p], "build-sdist", f)]
    <3>1. PICK x, y : /\ x = SatisfiedEdges(p, u.backend[p], "build-backend", f)
                      /\ y = SatisfiedEdges(p, u.sdist[p], "build-sdist", f)
      OBVIOUS
    <3>2. graph = [nodes |-> graph.nodes, edges |-> graph.edges]
      BY DEF TypeInv, RecordsTypeOK, Graph
    <3>3. graph' = [graph EXCEPT !.edges = @ \cup x \cup y]
      BY <1>3, <3>1
    <3>4. graph' = [nodes |-> graph.nodes, edges |-> graph.edges \cup x \cup y]
      BY <3>2, <3>3
    <3> QED BY <3>1, <3>4
  <2> QED BY <2>3, <2>4, <2>8, <2>9, <2>10 DEF p
<1> QED BY <1>1, <1>2, <1>3 DEF RunPrepareBuild

LEMMA BuildTasks ==
  ASSUME TypeInv, RunBuild
  PROVE  /\ pc = "loop" /\ stack # <<>> /\ Top.phase = "build"
         /\ \/ Fails(graph)
            \/ Puts({TopIn("process-install-deps")}) /\ UNCHANGED <<u, pc, todo, records, exitCode>>
<1>1. pc = "loop" /\ stack # <<>> /\ Top.phase = "build"
  BY DEF RunBuild, Running
<1>2. CASE \E left : PhaseFailed(Top, graph, left)
  BY <1>1, <1>2, PhaseFailedFails
<1> DEFINE it == [Top EXCEPT !.phase = "process-install-deps", !.result = Top.ver]
<1>3. CASE stack' = Push(<<it>>) /\ UNCHANGED <<u, pc, todo, records, exitCode>>
  <2>1. it \in FitItem
    BY <1>1, TopFits DEF FitItem, Item, Built, Phase
  <2>2. /\ it.phase = "process-install-deps" /\ it.req = Top.req /\ it.type = Top.type
        /\ it.parent = Top.parent /\ it.ver = Top.ver
    BY <1>1, TopFits DEF FitItem, Item
  <2> HIDE DEF it
  <2>3. Puts({TopIn("process-install-deps")})
    BY <1>1, <1>3, <2>1, <2>2, TopTask, PutsOne
  <2> QED BY <1>1, <1>3, <2>3
<1>4. \/ \E left : PhaseFailed(Top, graph, left)
      \/ stack' = Push(<<it>>) /\ UNCHANGED <<u, pc, todo, records, exitCode>>
  BY DEF RunBuild, Build
<1> QED BY <1>2, <1>3, <1>4

LEMMA InstallDepsTasks ==
  ASSUME TypeInv, RunProcessInstallDeps
  PROVE  /\ pc = "loop" /\ stack # <<>> /\ Top.phase = "process-install-deps"
         /\ \/ ~TestMode /\ Fails(graph)
            \/ /\ \E reqs \in SUBSET InstallRequirements(Top) :
                    /\ ~TestMode => reqs = InstallRequirements(Top)
                    /\ Puts(Requests(reqs, "install", PkgOf(Top)) \cup {TopIn("complete")})
               /\ failures' = failures \/ failures' = failures \cup {PkgOf(Top)}
               /\ buildOrder' = AddToBuildOrder(buildOrder, PkgOf(Top))
               /\ UNCHANGED <<u, pc, todo, seen, graph, failedVersions, exitCode>>
<1>1. pc = "loop" /\ stack # <<>> /\ Top.phase = "process-install-deps"
  BY DEF RunProcessInstallDeps, Running
<1>2. CASE ~TestMode /\ PhaseFailed(Top, graph, {})
  BY <1>1, <1>2, PhaseFailedFails
<1> DEFINE it == [Top EXCEPT !.phase = "complete"]
<1>3. ASSUME NEW reqs \in {InstallRequirements(Top)} \cup IF TestMode THEN {{}} ELSE {},
             NEW order \in ByName(reqs),
             stack' = Push(Resolves(order, "install", Top) \o <<it>>)
      PROVE  /\ reqs \in SUBSET InstallRequirements(Top) /\ (~TestMode => reqs = InstallRequirements(Top))
             /\ Puts(Requests(reqs, "install", PkgOf(Top)) \cup {TopIn("complete")})
  <2>1. it \in FitItem
    BY <1>1, TopFits DEF FitItem, Item, Built, Phase
  <2>2. /\ it.phase = "complete" /\ it.req = Top.req /\ it.type = Top.type
        /\ it.parent = Top.parent /\ it.ver = Top.ver
    BY <1>1, TopFits DEF FitItem, Item
  <2>3. reqs \in SUBSET Req /\ "install" \in ReqType
    <3>1. <<Top.req.name, Top.result>> \in Pkg
      BY <1>1, TopFits DEF Built, Pkg
    <3> QED BY <1>3, <3>1, RequirementTypes DEF InstallRequirements, ReqType, InstallType
  <2> HIDE DEF it
  <2>4. Puts(Requests(reqs, "install", PkgOf(Top)) \cup {Task(it)})
    BY <1>1, <1>3, <2>1, <2>2, <2>3, TopFits, PutsRequests
  <2>5. Task(it) = TopIn("complete")
    BY <1>1, <2>2, TopTask
  <2> QED BY <1>3, <2>4, <2>5
<1>4. ASSUME ~(~TestMode /\ PhaseFailed(Top, graph, {}))
      PROVE  /\ \E reqs \in {InstallRequirements(Top)} \cup IF TestMode THEN {{}} ELSE {} :
                  \E order \in ByName(reqs) : stack' = Push(Resolves(order, "install", Top) \o <<it>>)
             /\ failures' = failures \/ failures' = failures \cup {PkgOf(Top)}
             /\ buildOrder' = AddToBuildOrder(buildOrder, PkgOf(Top))
             /\ UNCHANGED <<u, pc, todo, seen, graph, failedVersions, exitCode>>
  BY <1>4 DEF RunProcessInstallDeps
<1>5. CASE ~(~TestMode /\ PhaseFailed(Top, graph, {}))
  <2>1. PICK reqs \in {InstallRequirements(Top)} \cup IF TestMode THEN {{}} ELSE {} :
          \E order \in ByName(reqs) : stack' = Push(Resolves(order, "install", Top) \o <<it>>)
    BY <1>4, <1>5
  <2> HIDE DEF it
  <2>2. /\ reqs \in SUBSET InstallRequirements(Top) /\ (~TestMode => reqs = InstallRequirements(Top))
        /\ Puts(Requests(reqs, "install", PkgOf(Top)) \cup {TopIn("complete")})
    BY <1>3, <2>1
  <2> QED BY <1>1, <1>4, <1>5, <2>2
<1> QED BY <1>2, <1>5

LEMMA CompleteTasks ==
  ASSUME TypeInv, RunComplete
  PROVE  /\ pc = "loop" /\ stack # <<>> /\ Top.phase = "complete"
         /\ Puts({}) /\ UNCHANGED <<u, pc, todo, records, exitCode>>
  BY PutsNothing DEF RunComplete, Running

LEMMA ThreadTasks ==
  ASSUME TypeInv, NEW i \in DOMAIN stack, FinishResolution(i) \/ FetchSource(i)
  PROVE  /\ pc = "loop" /\ Tasks' = Tasks /\ UNCHANGED <<u, pc, todo, records, exitCode>>
         /\ NoFetch(stack) => NoFetch(stack')
         /\ DOMAIN stack' = DOMAIN stack /\ \A j \in DOMAIN stack : Task(stack'[j]) = Task(stack[j])
<1>1. pc = "loop" /\ UNCHANGED <<u, pc, todo, records, exitCode>>
  BY DEF FinishResolution, FetchSource, records
<1>2. PICK f, c : \/ stack' = [stack EXCEPT ![i].future = f]
                  \/ stack' = [stack EXCEPT ![i].future = f, ![i].cached = c]
  BY DEF FinishResolution, FetchSource
<1>3. \A j \in DOMAIN stack : stack[j] \in Item
  BY DEF TypeInv, LoopTypeOK, FitItem
<1>4. /\ DOMAIN stack' = DOMAIN stack
      /\ \A j \in DOMAIN stack : Task(stack'[j]) = Task(stack[j]) /\ stack'[j].phase = stack[j].phase
  <2>1. DOMAIN stack' = DOMAIN stack /\ \A j \in DOMAIN stack : j # i => stack'[j] = stack[j]
    BY <1>2
  <2>2. \/ stack'[i] = [stack[i] EXCEPT !.future = f]
        \/ stack'[i] = [stack[i] EXCEPT !.future = f, !.cached = c]
    BY <1>2
  <2>3. Task(stack'[i]) = Task(stack[i]) /\ stack'[i].phase = stack[i].phase
    <3>1. PICK it : it = stack[i] /\ it \in Item
      BY <1>3
    <3>2. \/ stack'[i] = [it EXCEPT !.future = f]
          \/ stack'[i] = [it EXCEPT !.future = f, !.cached = c]
      BY <2>2, <3>1
    <3>3. /\ stack'[i].phase = it.phase /\ stack'[i].req = it.req /\ stack'[i].type = it.type
          /\ stack'[i].parent = it.parent /\ stack'[i].ver = it.ver
      BY <3>1, <3>2 DEF Item
    <3> QED BY <3>1, <3>3 DEF Task
  <2> QED BY <2>1, <2>3
<1>5. Tasks' = Tasks
  BY <1>4 DEF Tasks, TasksOf
<1>6. NoFetch(stack) => NoFetch(stack')
  BY <1>4 DEF NoFetch
<1> QED BY <1>1, <1>4, <1>5, <1>6

TopRequest(r) ==
  [phase |-> "resolve", req |-> r, type |-> "toplevel", parent |-> ROOT, ver |-> NoVersion]

LEMMA TopLevelTasks ==
  ASSUME TypeInv, ResolveTopLevel
  PROVE  LET r == Head(todo)
             found == {<<r.name, v>> :
                         v \in IF MultipleVersions THEN Candidates(r) ELSE {Highest(Candidates(r))}}
         IN  /\ pc = "top-level" /\ Candidates(r) # {}
             /\ Tasks' = {TopRequest(r)} \cup Tasks
             /\ todo' = Tail(todo) /\ pc' = IF todo' = <<>> THEN "loop" ELSE "top-level"
             /\ graph'.nodes = graph.nodes \cup found
             /\ graph'.edges = graph.edges \cup
                  {[parent |-> ROOT, type |-> "toplevel", child |-> p] : p \in found}
             /\ UNCHANGED <<u, seen, buildOrder, failures, failedVersions, exitCode>>
             /\ (\A i \in DOMAIN stack : stack[i].phase = "resolve") =>
                  \A i \in DOMAIN stack' : stack'[i].phase = "resolve"
<1>1. PICK it : it = NewItem(Head(todo), "toplevel", <<>>, ROOT)
  OBVIOUS
<1>2. stack' = <<it>> \o stack
  BY <1>1, Zenon DEF ResolveTopLevel
<1>3. Head(todo) \in Req
  BY DEF ResolveTopLevel, TypeInv, LoopTypeOK
<1>4. it \in FitItem /\ it.phase = "resolve"
  <2>1. <<>> \in Seq(Link) /\ "toplevel" \in ReqType /\ ROOT \in Pkg \cup {ROOT}
    BY DEF ReqType, InstallType
  <2> QED BY <1>1, <1>3, <2>1, NewItemFits
<1>5. Task(it) = TopRequest(Head(todo))
  BY <1>1 DEF Task, NewItem, TopRequest
<1>6. stack \in Seq(FitItem) /\ <<it>> \in Seq(FitItem)
  BY <1>4 DEF TypeInv, LoopTypeOK
<1>7. Tasks' = {TopRequest(Head(todo))} \cup Tasks
  <2>1. TasksOf(<<it>> \o stack) = TasksOf(<<it>>) \cup TasksOf(stack)
    BY <1>6, TasksOfBoth
  <2> QED BY <1>2, <1>5, <2>1, TasksOfShort DEF Tasks
<1>8. (\A i \in DOMAIN stack : stack[i].phase = "resolve") =>
        \A i \in DOMAIN stack' : stack'[i].phase = "resolve"
  BY <1>2, <1>4, <1>6
<1>9. /\ pc = "top-level" /\ Candidates(Head(todo)) # {} /\ todo' = Tail(todo)
      /\ pc' = IF todo' = <<>> THEN "loop" ELSE "top-level"
      /\ UNCHANGED <<u, seen, buildOrder, failures, failedVersions, exitCode>>
  BY Zenon DEF ResolveTopLevel, AfterTopLevel
<1> DEFINE r     == Head(todo)
           found == {<<r.name, v>> :
                       v \in IF MultipleVersions THEN Candidates(r) ELSE {Highest(Candidates(r))}}
<1>10. graph' = [nodes |-> graph.nodes \cup found,
                 edges |-> graph.edges \cup
                   {[parent |-> ROOT, type |-> "toplevel", child |-> p] : p \in found}]
  BY Zenon DEF ResolveTopLevel
<1> HIDE DEF found
<1>11. /\ graph'.nodes = graph.nodes \cup found
       /\ graph'.edges = graph.edges \cup
            {[parent |-> ROOT, type |-> "toplevel", child |-> p] : p \in found}
  BY <1>10
<1> QED BY <1>7, <1>8, <1>9, <1>11 DEF found

LEMMA RunItemPuts ==
  ASSUME TypeInv, RunItem
  PROVE  /\ pc = "loop" /\ stack # <<>> /\ pc' \in {"loop", "aborted"} /\ UNCHANGED <<u, todo, exitCode>>
         /\ \E tasks : Puts(tasks)
<1>1. ASSUME NEW g, pc = "loop", Fails(g)
      PROVE  pc' \in {"loop", "aborted"} /\ UNCHANGED <<u, todo, exitCode>> /\ \E tasks : Puts(tasks)
  BY <1>1 DEF Fails
<1>2. CASE RunResolve
  BY <1>2, ResolveTasks
<1>3. CASE RunStart
  BY <1>1, <1>3, StartTasks
<1>4. CASE RunPrepareSource
  BY <1>1, <1>4, PrepareSourceTasks
<1>5. CASE RunPrepareBuild
  BY <1>1, <1>5, PrepareBuildTasks
<1>6. CASE RunBuild
  BY <1>1, <1>6, BuildTasks
<1>7. CASE RunProcessInstallDeps
  BY <1>1, <1>7, InstallDepsTasks
<1>8. CASE RunComplete
  BY <1>8, CompleteTasks
<1> QED BY <1>2, <1>3, <1>4, <1>5, <1>6, <1>7, <1>8 DEF RunItem

-----------------------------------------------------------------------------
(* OneFetchAtATime: no item but the next one is ever in the phase in which     *)
(* sources are fetched, and none before the loop begins.                      *)
FetchInv == NoFetch(stack) /\ (pc = "top-level" => \A i \in DOMAIN stack : stack[i].phase = "resolve")

LEMMA FetchStep == TypeInv /\ FetchInv /\ [Next]_vars => FetchInv'
<1> SUFFICES ASSUME TypeInv, FetchInv, [Next]_vars PROVE FetchInv'
  OBVIOUS
<1>1. CASE ResolveTopLevel
  <2>1. \A i \in DOMAIN stack' : stack'[i].phase = "resolve"
    BY <1>1, TopLevelTasks DEF FetchInv
  <2> QED BY <2>1 DEF FetchInv, NoFetch
<1>2. CASE FailTopLevel
  BY <1>2 DEF FailTopLevel, FetchInv
<1>3. CASE \E i \in DOMAIN stack : FinishResolution(i) \/ FetchSource(i)
  BY <1>3, ThreadTasks DEF FetchInv
<1>4. CASE RunItem
  <2>1. PICK tasks : Puts(tasks)
    BY <1>4, RunItemPuts
  <2>2. PICK items \in Seq(FitItem) : stack' = Push(items) /\ Ordered(items)
    BY <2>1 DEF Puts
  <2>3. NoFetch(stack')
    BY SMTT(30), <1>4, <2>2, RunItemPuts DEF FetchInv, TypeInv, LoopTypeOK, NoFetch, Ordered, Push
  <2> QED BY <1>4, <2>3, RunItemPuts DEF FetchInv
<1>5. CASE Finalize
  BY <1>5 DEF Finalize, FetchInv
<1>6. CASE UNCHANGED vars
  BY <1>6 DEF vars, FetchInv
<1> QED BY <1>1, <1>2, <1>3, <1>4, <1>5, <1>6 DEF Next

LEMMA FetchIsInvariant == Spec => []FetchInv
<1>1. Init => FetchInv
  BY DEF Init, FetchInv, NoFetch
<1> QED BY <1>1, TypeIsInvariant, FetchStep, PTL DEF Spec

(* At no time, whatever the modes and the faults, is the source of an item      *)
(* fetched by a pool thread unless the item is on top of the stack             *)
(* (Bootstrapper._push_items, PrepareSource.background_work).                  *)
THEOREM SourcesOneByOne == Spec => []OneFetchAtATime
<1>1. TypeInv /\ FetchInv => OneFetchAtATime
  BY DEF TypeInv, LoopTypeOK, FetchInv, NoFetch, OneFetchAtATime, Pending
<1> QED BY <1>1, TypeIsInvariant, FetchIsInvariant, PTL

-----------------------------------------------------------------------------
(* ParentsKnown: the node of every item's parent is in the graph and, once the *)
(* item has started, that of its own package; those that a top-level          *)
(* requirement will start are there from the beginning.  With several versions *)
(* outside test mode a version that fails is taken out of the graph, whatever  *)
(* still asks for it.                                                        *)
KeepsNodes == TestMode \/ ~MultipleVersions

(* What the index offers for each requirement, and what a top-level one starts. *)
Offered == [r \in Req |-> Candidates(r)]

Starts(versions) == IF MultipleVersions THEN versions ELSE {Highest(versions)}

HasNodes(t, nodes, offered) ==
  /\ t.parent \in nodes
  /\ t.type = "toplevel" => t.parent = ROOT /\ offered[t.req] # {}
  /\ t.phase \notin {"resolve", "start"} => PkgOf(t) \in nodes
  /\ t.phase = "resolve" /\ t.type = "toplevel" =>
       \A v \in Starts(offered[t.req]) : <<t.req.name, v>> \in nodes
  /\ t.phase = "start" /\ t.type = "toplevel" => PkgOf(t) \in nodes

AllHaveNodes(tasks, nodes, offered) == \A t \in tasks : HasNodes(t, nodes, offered)

NodesInv ==
  /\ ~MultipleVersions => failedVersions = {}
  /\ AllHaveNodes(Tasks, graph.nodes, Offered)

LEMMA OfferedStays == UNCHANGED u => Offered' = Offered
  BY DEF Offered, Candidates, Matching, Offer

LEMMA HasNodesStays ==
  ASSUME NEW nodes, NEW more, nodes \subseteq more, NEW offered
  PROVE  \A t : HasNodes(t, nodes, offered) => HasNodes(t, more, offered)
  BY DEF HasNodes

LEMMA PutsNodes ==
  ASSUME TypeInv, NodesInv, stack # <<>>, NEW tasks, Puts(tasks), UNCHANGED u,
         graph.nodes \subseteq graph'.nodes, ~MultipleVersions => failedVersions' = {},
         AllHaveNodes(tasks, graph'.nodes, Offered)
  PROVE  NodesInv'
<1>1. \A t \in Tasks' : t \in Tasks \/ t \in tasks
  BY PutsTasks
<1>2. \A t \in Tasks : HasNodes(t, graph'.nodes, Offered)
  BY HasNodesStays DEF NodesInv, AllHaveNodes
<1>3. AllHaveNodes(Tasks', graph'.nodes, Offered')
  BY <1>1, <1>2, OfferedStays DEF AllHaveNodes
<1> QED BY <1>3 DEF NodesInv

LEMMA TopHasNodes ==
  ASSUME TypeInv, NodesInv, stack # <<>>
  PROVE  /\ HasNodes(Task(Top), graph.nodes, Offered)
         /\ Top.parent \in graph.nodes
         /\ Top.phase \notin {"resolve", "start"} => PkgOf(Top) \in graph.nodes
         /\ Top.phase = "start" /\ Top.type = "toplevel" => PkgOf(Top) \in graph.nodes
<1>1. Task(Top) \in Tasks
  BY TasksBelow
<1>2. HasNodes(Task(Top), graph.nodes, Offered)
  BY <1>1 DEF NodesInv, AllHaveNodes
<1> QED BY <1>2, TaskFields DEF HasNodes

LEMMA TopInHasNodes ==
  ASSUME TypeInv, NodesInv, stack # <<>>, NEW nodes, graph.nodes \subseteq nodes,
         PkgOf(Top) \in nodes, NEW phase, phase \notin {"resolve", "start"}
  PROVE  AllHaveNodes({TopIn(phase)}, nodes, Offered)
<1>1. HasNodes(Task(Top), nodes, Offered)
  BY TopHasNodes, HasNodesStays
<1>2. PICK t : t = TopIn(phase)
  OBVIOUS
<1>3. /\ t.phase = phase /\ t.req = Top.req /\ t.type = Top.type /\ t.parent = Top.parent
      /\ t.ver = Top.ver
  BY <1>2 DEF TopIn, Becomes
<1>4. HasNodes(t, nodes, Offered)
  BY <1>1, <1>3, TaskFields DEF HasNodes, PkgOf, Task
<1> QED BY <1>2, <1>4 DEF AllHaveNodes

LEMMA RequestsHaveNodes ==
  ASSUME NEW reqs, NEW type, type # "toplevel", NEW p, NEW nodes, p \in nodes, NEW offered
  PROVE  AllHaveNodes(Requests(reqs, type, p), nodes, offered)
<1>1. ASSUME NEW r, NEW t, t = [phase |-> "resolve", req |-> r, type |-> type, parent |-> p, ver |-> NoVersion]
      PROVE  HasNodes(t, nodes, offered)
  BY <1>1 DEF HasNodes
<1> QED BY <1>1 DEF AllHaveNodes, Requests

LEMMA FailsNodes ==
  ASSUME TypeInv, NodesInv, KeepsNodes, stack # <<>>, NEW g, graph.nodes \subseteq g.nodes,
         PkgOf(Top) \in g.nodes, Fails(g)
  PROVE  NodesInv'
<1>1. /\ graph' = g /\ UNCHANGED <<u, failedVersions>>
      /\ Puts({}) \/ Puts({TopIn("process-install-deps")})
  BY DEF Fails, KeepsNodes
<1>2. AllHaveNodes({TopIn("process-install-deps")}, g.nodes, Offered)
  BY TopInHasNodes
<1>3. AllHaveNodes({}, g.nodes, Offered)
  BY DEF AllHaveNodes
<1>4. ~MultipleVersions => failedVersions' = {}
  BY <1>1 DEF NodesInv
<1> QED BY <1>1, <1>2, <1>3, <1>4, PutsNodes

LEMMA AddToGraphNodes ==
  ASSUME TypeInv, NodesInv, stack # <<>>, Top.phase = "start"
  PROVE  graph.nodes \subseteq AddToGraph(Top).nodes /\ PkgOf(Top) \in AddToGraph(Top).nodes
<1>1. CASE Top.type = "toplevel"
  BY <1>1, TopHasNodes DEF AddToGraph
<1>2. CASE Top.type # "toplevel"
  <2>1. /\ Top \in FitItem /\ PkgOf(Top) \in Pkg /\ Top.parent \in Pkg \cup {ROOT} /\ Top.type \in ReqType
        /\ graph \in Graph /\ WellFormed(graph)
    BY TopFits, ItemFields, GraphIsThere
  <2>2. AddToGraph(Top) = AddDependency(graph, Top.parent, Top.type, PkgOf(Top))
    BY <1>2 DEF AddToGraph
  <2> QED BY <2>1, <2>2, AddDependencyFits
<1> QED BY <1>1, <1>2

LEMMA RunResolveNodes ==
  ASSUME TypeInv, NodesInv, RunResolve
  PROVE  NodesInv'
<1>1. /\ stack # <<>> /\ Top.phase = "resolve" /\ graph' = graph /\ UNCHANGED u
      /\ Top.req \in Req
  BY ResolveTasks, TopFits
<1>2. CASE /\ \E versions \in SUBSET Usable(Top.req) :
                /\ ~MultipleVersions => versions = {Highest(Usable(Top.req))}
                /\ Puts({Becomes("start", v) : v \in versions})
           /\ UNCHANGED failedVersions
  <2>1. PICK versions \in SUBSET Usable(Top.req) :
          /\ ~MultipleVersions => versions = {Highest(Usable(Top.req))}
          /\ Puts({Becomes("start", v) : v \in versions})
    BY <1>2
  <2>2. ~MultipleVersions => Usable(Top.req) = Candidates(Top.req)
    BY <1>1, CandidateVersions DEF Usable, NodesInv
  <2>3. versions \subseteq Starts(Offered[Top.req])
    BY <1>1, <2>1, <2>2, CandidateVersions DEF Starts, Offered
  <2>4. ASSUME NEW v \in versions, NEW t, t = Becomes("start", v)
        PROVE  HasNodes(t, graph.nodes, Offered)
    <3>1. /\ t.phase = "start" /\ t.req = Top.req /\ t.type = Top.type /\ t.parent = Top.parent
          /\ t.ver = v
      BY <2>4 DEF Becomes
    <3>2. t.type = "toplevel" => <<Top.req.name, v>> \in graph.nodes
      BY <1>1, <2>3, <3>1, TopHasNodes, TaskFields DEF HasNodes
    <3> QED BY <1>1, <3>1, <3>2, TopHasNodes, TaskFields DEF HasNodes, PkgOf
  <2>5. AllHaveNodes({Becomes("start", v) : v \in versions}, graph.nodes, Offered)
    BY <2>4 DEF AllHaveNodes
  <2>6. ~MultipleVersions => failedVersions' = {}
    BY <1>2 DEF NodesInv
  <2> QED BY <1>1, <2>1, <2>5, <2>6, PutsNodes
<1>3. CASE Puts({}) /\ RecordUnresolved(Top.req)
  <2>1. AllHaveNodes({}, graph.nodes, Offered)
    BY DEF AllHaveNodes
  <2>2. ~MultipleVersions => failedVersions' = {}
    BY <1>3 DEF NodesInv, RecordUnresolved
  <2> QED BY <1>1, <1>3, <2>1, <2>2, PutsNodes
<1> QED BY <1>2, <1>3, ResolveTasks

LEMMA ResolveTopLevelNodes ==
  ASSUME TypeInv, NodesInv, ResolveTopLevel
  PROVE  NodesInv'
<1> DEFINE r     == Head(todo)
           found == {<<r.name, v>> :
                       v \in IF MultipleVersions THEN Candidates(r) ELSE {Highest(Candidates(r))}}
<1>1. /\ Tasks' = {TopRequest(r)} \cup Tasks /\ graph'.nodes = graph.nodes \cup found
      /\ Candidates(r) # {} /\ UNCHANGED <<u, failedVersions>>
  BY TopLevelTasks
<1>2. ROOT \in graph.nodes /\ r \in Req
  BY GraphIsThere DEF WellFormed, TypeInv, LoopTypeOK, ResolveTopLevel
<1>3. \A v \in Starts(Offered[r]) : <<r.name, v>> \in found
  BY <1>2 DEF Starts, Offered
<1>4. ASSUME NEW t, t = TopRequest(r) PROVE HasNodes(t, graph'.nodes, Offered)
  <2>1. t.phase = "resolve" /\ t.req = r /\ t.type = "toplevel" /\ t.parent = ROOT
    BY <1>4 DEF TopRequest
  <2>2. Offered[r] # {}
    BY <1>1, <1>2 DEF Offered
  <2> HIDE DEF found, r
  <2> QED BY <1>1, <1>2, <1>3, <2>1, <2>2 DEF HasNodes
<1>5. \A t \in Tasks : HasNodes(t, graph'.nodes, Offered)
  BY <1>1, HasNodesStays DEF NodesInv, AllHaveNodes
<1>6. AllHaveNodes(Tasks', graph'.nodes, Offered')
  BY <1>1, <1>4, <1>5, OfferedStays DEF AllHaveNodes
<1> QED BY <1>1, <1>6 DEF NodesInv

LEMMA NodesStay ==
  ASSUME NodesInv, Tasks' = Tasks, UNCHANGED <<u, graph>>,
         ~MultipleVersions => failedVersions' = failedVersions
  PROVE  NodesInv'
  BY OfferedStays DEF NodesInv

LEMMA NodesStep == TypeInv /\ NodesInv /\ KeepsNodes /\ [Next]_vars => NodesInv'
<1> SUFFICES ASSUME TypeInv, NodesInv, KeepsNodes, [Next]_vars PROVE NodesInv'
  OBVIOUS
<1>0. ASSUME NEW tasks, Puts(tasks), stack # <<>>, UNCHANGED <<u, failedVersions>>,
             graph.nodes \subseteq graph'.nodes, AllHaveNodes(tasks, graph'.nodes, Offered)
      PROVE  NodesInv'
  BY <1>0, PutsNodes DEF NodesInv
<1>1. CASE ResolveTopLevel
  BY <1>1, ResolveTopLevelNodes
<1>2. CASE FailTopLevel
  <2>1. UNCHANGED <<u, stack, graph>> /\ (~MultipleVersions => failedVersions' = failedVersions)
    BY <1>2 DEF FailTopLevel, RecordUnresolved
  <2> QED BY <2>1, NodesStay DEF Tasks
<1>3. CASE \E i \in DOMAIN stack : FinishResolution(i) \/ FetchSource(i)
  BY <1>3, ThreadTasks, NodesStay DEF records
<1>4. CASE RunResolve
  BY <1>4, RunResolveNodes
<1>5. CASE RunStart
  <2>1. /\ stack # <<>> /\ UNCHANGED u
        /\ graph.nodes \subseteq AddToGraph(Top).nodes /\ PkgOf(Top) \in AddToGraph(Top).nodes
    BY <1>5, StartTasks, AddToGraphNodes
  <2>2. CASE Fails(AddToGraph(Top))
    BY <2>1, <2>2, FailsNodes
  <2>3. CASE graph' = AddToGraph(Top) /\ UNCHANGED failedVersions /\ (Puts({}) \/ Puts({TopIn("prepare-source")}))
    <3>1. AllHaveNodes({TopIn("prepare-source")}, graph'.nodes, Offered) /\ AllHaveNodes({}, graph'.nodes, Offered)
      BY <2>1, <2>3, TopInHasNodes DEF AllHaveNodes
    <3> QED BY <1>0, <2>1, <2>3, <3>1
  <2> QED BY <1>5, <2>2, <2>3, StartTasks
<1>6. CASE RunPrepareSource
  <2>1. stack # <<>> /\ PkgOf(Top) \in graph.nodes
    BY <1>6, PrepareSourceTasks, TopHasNodes
  <2>2. CASE Fails(graph)
    BY <2>1, <2>2, FailsNodes
  <2>3. CASE /\ UNCHANGED <<u, pc, todo, records, exitCode>>
             /\ \/ Puts({TopIn("process-install-deps")})
                \/ Puts(Requests(u.system[PkgOf(Top)], "build-system", PkgOf(Top))
                         \cup {TopIn("prepare-build")})
    <3>1. graph' = graph /\ failedVersions' = failedVersions /\ u' = u
      BY <2>3 DEF records
    <3>2. /\ AllHaveNodes({TopIn("process-install-deps")}, graph.nodes, Offered)
          /\ AllHaveNodes({TopIn("prepare-build")}, graph.nodes, Offered)
      BY <2>1, TopInHasNodes
    <3>3. AllHaveNodes(Requests(u.system[PkgOf(Top)], "build-system", PkgOf(Top)), graph.nodes, Offered)
      BY <2>1, RequestsHaveNodes
    <3>4. AllHaveNodes(Requests(u.system[PkgOf(Top)], "build-system", PkgOf(Top))
                        \cup {TopIn("prepare-build")}, graph.nodes, Offered)
      BY <3>2, <3>3 DEF AllHaveNodes
    <3> QED BY <1>0, <2>1, <2>3, <3>1, <3>2, <3>4
  <2> QED BY <1>6, <2>2, <2>3, PrepareSourceTasks
<1>7. CASE RunPrepareBuild
  <2> DEFINE p == PkgOf(Top)
             sdists(f)   == Requests(u.sdist[p] \ Satisfied(u.sdist[p], f), "build-sdist", p)
             backends(f) == Requests(u.backend[p] \ Satisfied(u.backend[p], f), "build-backend", p)
  <2>1. stack # <<>> /\ p \in graph.nodes
    BY <1>7, PrepareBuildTasks, TopHasNodes
  <2>2. CASE Fails(graph)
    BY <2>1, <2>2, FailsNodes
  <2>3. CASE /\ graph'.nodes = graph.nodes /\ UNCHANGED <<u, failedVersions>>
             /\ \E f : Puts(sdists(f) \cup backends(f) \cup {TopIn("build")})
    <3>1. AllHaveNodes({TopIn("build")}, graph.nodes, Offered)
      BY <2>1, TopInHasNodes
    <3>2. ASSUME NEW f
          PROVE  AllHaveNodes(sdists(f), graph.nodes, Offered) /\ AllHaveNodes(backends(f), graph.nodes, Offered)
      BY <2>1, RequestsHaveNodes
    <3> HIDE DEF sdists, backends
    <3>3. PICK f : Puts(sdists(f) \cup backends(f) \cup {TopIn("build")})
      BY <2>3
    <3>4. AllHaveNodes(sdists(f) \cup backends(f) \cup {TopIn("build")}, graph'.nodes, Offered)
      BY <2>3, <3>1, <3>2 DEF AllHaveNodes
    <3> QED BY <1>0, <2>1, <2>3, <3>3, <3>4
  <2>4. \/ Fails(graph)
        \/ /\ graph'.nodes = graph.nodes /\ UNCHANGED <<u, failedVersions>>
           /\ \E f : Puts(sdists(f) \cup backends(f) \cup {TopIn("build")})
    <3> SUFFICES ASSUME ~Fails(graph)
                 PROVE  /\ graph'.nodes = graph.nodes /\ UNCHANGED <<u, failedVersions>>
                        /\ \E f : Puts(sdists(f) \cup backends(f) \cup {TopIn("build")})
      OBVIOUS
    <3>1. UNCHANGED <<u, failedVersions>>
      BY <1>7, PrepareBuildTasks
    <3>2. \E f, edges : /\ Puts(sdists(f) \cup backends(f) \cup {TopIn("build")})
                        /\ graph' = [nodes |-> graph.nodes, edges |-> edges]
      BY <1>7, PrepareBuildTasks, Zenon
    <3> HIDE DEF sdists, backends
    <3> QED BY <3>1, <3>2
  <2> QED BY <2>2, <2>3, <2>4
<1>8. CASE RunBuild
  <2>1. stack # <<>> /\ PkgOf(Top) \in graph.nodes
    BY <1>8, BuildTasks, TopHasNodes
  <2>2. CASE Fails(graph)
    BY <2>1, <2>2, FailsNodes
  <2>3. CASE Puts({TopIn("process-install-deps")}) /\ UNCHANGED <<u, pc, todo, records, exitCode>>
    <3>1. graph' = graph /\ failedVersions' = failedVersions /\ u' = u
      BY <2>3 DEF records
    <3>2. AllHaveNodes({TopIn("process-install-deps")}, graph.nodes, Offered)
      BY <2>1, TopInHasNodes
    <3> QED BY <1>0, <2>1, <2>3, <3>1, <3>2
  <2> QED BY <1>8, <2>2, <2>3, BuildTasks
<1>9. CASE RunProcessInstallDeps
  <2>1. stack # <<>> /\ PkgOf(Top) \in graph.nodes
    BY <1>9, InstallDepsTasks, TopHasNodes
  <2>2. CASE Fails(graph)
    BY <2>1, <2>2, FailsNodes
  <2>3. CASE /\ graph' = graph /\ UNCHANGED <<u, failedVersions>>
             /\ \E reqs : Puts(Requests(reqs, "install", PkgOf(Top)) \cup {TopIn("complete")})
    <3>1. AllHaveNodes({TopIn("complete")}, graph.nodes, Offered)
      BY <2>1, TopInHasNodes
    <3>2. PICK reqs : Puts(Requests(reqs, "install", PkgOf(Top)) \cup {TopIn("complete")})
      BY <2>3
    <3>3. AllHaveNodes(Requests(reqs, "install", PkgOf(Top)), graph.nodes, Offered)
      BY <2>1, RequestsHaveNodes
    <3>4. AllHaveNodes(Requests(reqs, "install", PkgOf(Top)) \cup {TopIn("complete")}, graph.nodes, Offered)
      BY <3>1, <3>3 DEF AllHaveNodes
    <3> QED BY <1>0, <2>1, <2>3, <3>2, <3>4
  <2> QED BY <1>9, <2>2, <2>3, InstallDepsTasks
<1>10. CASE RunComplete
  <2>1. stack # <<>> /\ Puts({}) /\ graph' = graph /\ UNCHANGED <<u, failedVersions>>
    BY <1>10, CompleteTasks DEF records
  <2>2. AllHaveNodes({}, graph.nodes, Offered)
    BY DEF AllHaveNodes
  <2> QED BY <1>0, <2>1, <2>2
<1>11. CASE Finalize
  BY <1>11, NodesStay DEF Finalize, Tasks, records
<1>12. CASE UNCHANGED vars
  BY <1>12, NodesStay DEF vars, Tasks, records
<1> QED BY <1>1, <1>2, <1>3, <1>4, <1>5, <1>6, <1>7, <1>8, <1>9, <1>10, <1>11, <1>12 DEF Next, RunItem

LEMMA NodesAreInvariant == ASSUME KeepsNodes PROVE Spec => []NodesInv
<1>1. Init => NodesInv
  BY DEF Init, NodesInv, AllHaveNodes, Tasks, TasksOf
<1>2. TypeInv /\ NodesInv /\ [Next]_vars => NodesInv'
  BY NodesStep
<1> QED BY <1>1, <1>2, TypeIsInvariant, PTL DEF Spec

(* In test mode, and with one version of each requirement, the parent of every *)
(* item is in the graph, whatever fails: add_dependency never raises          *)
(* ValueError for an unknown parent (Start.run, DependencyGraph.add_dependency). *)
THEOREM ParentsStayKnown == ASSUME TestMode \/ ~MultipleVersions PROVE Spec => []ParentsKnown
<1>1. KeepsNodes
  BY DEF KeepsNodes
<1>2. NodesInv => ParentsKnown
  BY TaskFields DEF NodesInv, AllHaveNodes, HasNodes, ParentsKnown, Tasks, TasksOf
<1> QED BY <1>1, <1>2, NodesAreInvariant, PTL

-----------------------------------------------------------------------------
(* NothingLost, in test mode with one version of each requirement: what is in  *)
(* the graph, or was seen, is in the build order or among the failures, or is  *)
(* being worked on, or a top-level requirement will start it.                 *)
Working == {"prepare-source", "prepare-build", "build", "process-install-deps"}

WorksOn(p, tasks) == \E t \in tasks : t.phase \in Working /\ PkgOf(t) = p

Expects(p, tasks, offered) ==
  \E t \in tasks :
    /\ t.type = "toplevel"
    /\ \/ t.phase = "start" /\ p = PkgOf(t)
       \/ t.phase = "resolve" /\ p[1] = t.req.name /\ p[2] \in Starts(offered[t.req])

Recorded(p, order, failed) == (\E i \in DOMAIN order : order[i] = p) \/ p \in failed

Handled(p, tasks, order, failed) == Recorded(p, order, failed) \/ WorksOn(p, tasks)

NodesHandled(nodes, tasks, order, failed, offered) ==
  \A p \in nodes \ {ROOT} : Handled(p, tasks, order, failed) \/ Expects(p, tasks, offered)

MarksHandled(marks, tasks, order, failed) ==
  \A k \in marks : Handled(<<k[1], k[3]>>, tasks, order, failed)

TopHandled(r, waiting, nodes, failed) ==
  \/ \E j \in DOMAIN waiting : waiting[j] = r
  \/ \E p \in nodes \ {ROOT} : p[1] = r.name /\ p[2] \in r.spec
  \/ <<r.name, NoVersion>> \in failed

(* The resolution of a top-level requirement is remembered and does not fail.  *)
TopResolves ==
  \A i \in DOMAIN stack :
    stack[i].phase = "resolve" /\ stack[i].type = "toplevel" => stack[i].future # "failed"

LossInv ==
  /\ pc # "aborted" /\ (pc # "top-level" => todo = <<>>)
  /\ pc = "finalized" => Tasks = {} /\ (exitCode = 0 => failures = {})
  /\ NodesHandled(graph.nodes, Tasks, buildOrder, failures, Offered)
  /\ MarksHandled(seen, Tasks, buildOrder, failures)
  /\ \A i \in DOMAIN u.top : TopHandled(u.top[i], todo, graph.nodes, failures)

LEMMA RunItemRequests ==
  ASSUME TypeInv, RunItem
  PROVE  \E tasks : Puts(tasks) /\ \A t \in tasks : t.phase = "resolve" => t.type # "toplevel"
<1> DEFINE Asks(tasks) == \A t \in tasks : t.phase = "resolve" => t.type # "toplevel"
<1>1. ASSUME NEW phase, NEW v, phase # "resolve" PROVE Asks({Becomes(phase, v)})
  BY <1>1 DEF Becomes
<1>2. ASSUME NEW reqs, NEW type, NEW q, type # "toplevel" PROVE Asks(Requests(reqs, type, q))
  BY <1>2 DEF Requests
<1>3. ASSUME NEW a, NEW b, Asks(a), Asks(b) PROVE Asks(a \cup b)
  BY <1>3
<1>4. Asks({})
  OBVIOUS
<1>5. ASSUME NEW versions PROVE Asks({Becomes("start", v) : v \in versions})
  BY DEF Becomes
<1> HIDE DEF Asks
<1> SUFFICES \E tasks : Puts(tasks) /\ Asks(tasks)
  BY DEF Asks
<1>6. ASSUME NEW g, Fails(g) PROVE \E tasks : Puts(tasks) /\ Asks(tasks)
  BY <1>1, <1>4, <1>6 DEF Fails, TopIn
<1>7. CASE RunResolve
  BY <1>4, <1>5, <1>7, ResolveTasks
<1>8. CASE RunStart
  BY <1>1, <1>4, <1>6, <1>8, StartTasks DEF TopIn
<1>9. CASE RunPrepareSource
  <2>1. Asks(Requests(u.system[PkgOf(Top)], "build-system", PkgOf(Top)) \cup {TopIn("prepare-build")})
    BY <1>1, <1>2, <1>3 DEF TopIn
  <2>2. Asks({TopIn("process-install-deps")})
    BY <1>1 DEF TopIn
  <2> QED BY <1>6, <1>9, <2>1, <2>2, PrepareSourceTasks
<1>10. CASE RunPrepareBuild
  <2> DEFINE q == PkgOf(Top)
             sdists(f)   == Requests(u.sdist[q] \ Satisfied(u.sdist[q], f), "build-sdist", q)
             backends(f) == Requests(u.backend[q] \ Satisfied(u.backend[q], f), "build-backend", q)
  <2>1. ASSUME NEW f PROVE Asks(sdists(f) \cup backends(f) \cup {TopIn("build")})
    <3>1. Asks(sdists(f)) /\ Asks(backends(f)) /\ Asks({TopIn("build")})
      BY <1>1, <1>2 DEF TopIn
    <3> HIDE DEF sdists, backends
    <3> QED BY <1>3, <3>1
  <2>2. Fails(graph) \/ \E f : Puts(sdists(f) \cup backends(f) \cup {TopIn("build")})
    BY <1>10, PrepareBuildTasks, Zenon
  <2> HIDE DEF sdists, backends
  <2> QED BY <1>6, <2>1, <2>2
<1>11. CASE RunBuild
  BY <1>1, <1>6, <1>11, BuildTasks DEF TopIn
<1>12. CASE RunProcessInstallDeps
  <2>1. ASSUME NEW reqs PROVE Asks(Requests(reqs, "install", PkgOf(Top)) \cup {TopIn("complete")})
    BY <1>1, <1>2, <1>3 DEF TopIn
  <2> QED BY <1>6, <1>12, <2>1, InstallDepsTasks
<1>13. CASE RunComplete
  BY <1>4, <1>13, CompleteTasks
<1> QED BY <1>7, <1>8, <1>9, <1>10, <1>11, <1>12, <1>13 DEF RunItem

LEMMA TopResolvesStep == TypeInv /\ TopResolves /\ [Next]_vars => TopResolves'
<1> SUFFICES ASSUME TypeInv, TopResolves, [Next]_vars PROVE TopResolves'
  OBVIOUS
<1>1. CASE ResolveTopLevel
  <2>1. PICK it : it = NewItem(Head(todo), "toplevel", <<>>, ROOT)
    OBVIOUS
  <2>2. stack' = <<it>> \o stack /\ it.future = "pending"
    BY <1>1, <2>1 DEF ResolveTopLevel, NewItem
  <2>3. stack \in Seq(FitItem)
    BY DEF TypeInv, LoopTypeOK
  <2> QED BY <2>2, <2>3 DEF TopResolves
<1>2. CASE FailTopLevel \/ Finalize \/ UNCHANGED vars
  BY <1>2 DEF FailTopLevel, Finalize, vars, TopResolves
<1>3. ASSUME NEW i \in DOMAIN stack, FinishResolution(i) \/ FetchSource(i)
      PROVE  TopResolves'
  <2>1. stack \in Seq(FitItem) /\ stack[i] \in Item
    BY DEF TypeInv, LoopTypeOK, FitItem
  <2>2. PICK f, c : /\ \/ stack' = [stack EXCEPT ![i].future = f]
                       \/ stack' = [stack EXCEPT ![i].future = f, ![i].cached = c]
                    /\ f # "failed" \/ stack[i].type # "toplevel" \/ stack[i].phase # "resolve"
    <3>1. CASE FinishResolution(i)
      <4>1. \/ stack' = [stack EXCEPT ![i].future = "done"]
            \/ stack[i].type # "toplevel" /\ stack' = [stack EXCEPT ![i].future = "failed"]
        BY <3>1, Zenon DEF FinishResolution
      <4>2. PICK f : /\ stack' = [stack EXCEPT ![i].future = f]
                     /\ f = "done" \/ stack[i].type # "toplevel"
        BY <4>1, Zenon
      <4>3. f # "failed" \/ stack[i].type # "toplevel" \/ stack[i].phase # "resolve"
        BY <4>2
      <4> QED BY <4>2, <4>3, Zenon
    <3>2. CASE FetchSource(i)
      <4>1. \E f, c : \/ stack' = [stack EXCEPT ![i].future = f]
                      \/ stack' = [stack EXCEPT ![i].future = f, ![i].cached = c]
        BY <3>2 DEF FetchSource
      <4>2. stack[i].phase # "resolve"
        BY <3>2 DEF FetchSource
      <4> QED BY <4>1, <4>2
    <3> QED BY <1>3, <3>1, <3>2
  <2>3. \/ stack' = [stack EXCEPT ![i] = [stack[i] EXCEPT !.future = f]]
        \/ stack' = [stack EXCEPT ![i] = [stack[i] EXCEPT !.future = f, !.cached = c]]
    BY <2>2
  <2>4. /\ DOMAIN stack' = DOMAIN stack
        /\ \A j \in DOMAIN stack : j # i => stack'[j] = stack[j]
    BY <2>1, <2>3
  <2>5. stack'[i].phase = stack[i].phase /\ stack'[i].type = stack[i].type /\ stack'[i].future = f
    <3>1. PICK it : it = stack[i] /\ it \in Item
      BY <2>1
    <3>2. \/ stack'[i] = [it EXCEPT !.future = f]
          \/ stack'[i] = [it EXCEPT !.future = f, !.cached = c]
      BY <2>1, <2>3, <3>1
    <3> QED BY <3>1, <3>2 DEF Item
  <2> QED BY <2>2, <2>4, <2>5 DEF TopResolves
<1>4. CASE RunItem
  <2>1. PICK tasks : Puts(tasks) /\ \A t \in tasks : t.phase = "resolve" => t.type # "toplevel"
    BY <1>4, RunItemRequests
  <2>2. PICK items \in Seq(FitItem) : stack' = Push(items) /\ TasksOf(items) = tasks
    BY <2>1 DEF Puts
  <2>3. \A i \in DOMAIN items : items[i].phase = "resolve" => items[i].type # "toplevel"
    BY <2>1, <2>2, TaskFields DEF TasksOf
  <2>4. stack # <<>> /\ stack \in Seq(FitItem)
    BY <1>4, RunItemPuts DEF TypeInv, LoopTypeOK
  <2> QED BY <2>2, <2>3, <2>4 DEF TopResolves, Push
<1> QED BY <1>1, <1>2, <1>3, <1>4 DEF Next

LEMMA HandledStays ==
  ASSUME NEW p, NEW tasks, NEW more, tasks \subseteq more, NEW order, NEW longer, NEW failed, NEW failing,
         failed \subseteq failing, \A q : Recorded(q, order, {}) => Recorded(q, longer, {}),
         Handled(p, tasks, order, failed)
  PROVE  Handled(p, more, longer, failing)
  BY DEF Handled, Recorded, WorksOn

(* A step of the loop loses nothing if its own package, unless it was neither  *)
(* started nor expected, is handled after it.                                *)
Started == Top.phase \in Working \cup {"start"}

LEMMA TopIsNoRequest == Started => Top.phase # "resolve"
  BY DEF Started, Working

LEMMA PutsLosesNothing ==
  ASSUME TypeInv, LossInv, stack # <<>>, pc = "loop", NEW tasks, Puts(tasks),
         UNCHANGED <<u, todo, pc, exitCode>>,
         failures \subseteq failures',
         \A q : Recorded(q, buildOrder, {}) => Recorded(q, buildOrder', {}),
         Started => Handled(PkgOf(Top), tasks \cup Rest, buildOrder', failures'),
         graph.nodes \subseteq graph'.nodes,
         graph'.nodes \subseteq graph.nodes \cup (IF Started THEN {PkgOf(Top)} ELSE {}),
         seen' \subseteq seen \cup (IF Started THEN SeenMarks(Top) ELSE {}),
         Top.phase = "resolve" /\ Top.type = "toplevel" =>
           \A v \in Starts(Offered[Top.req]) : Becomes("start", v) \in tasks
  PROVE  LossInv'
<1>1. Tasks = {Task(Top)} \cup Rest /\ Tasks' = tasks \cup Rest
  BY PutsTasks
<1>2. ASSUME NEW q, WorksOn(q, Tasks) PROVE WorksOn(q, Rest) \/ (Started /\ q = PkgOf(Top))
  <2>1. PICK t \in Tasks : t.phase \in Working /\ PkgOf(t) = q
    BY <1>2 DEF WorksOn
  <2>2. CASE t \in Rest
    BY <2>1, <2>2, Zenon DEF WorksOn
  <2>3. CASE t = Task(Top)
    BY <2>1, <2>3, TaskFields DEF Started
  <2> QED BY <1>1, <2>1, <2>2, <2>3
<1>3. ASSUME NEW q, Handled(q, Tasks, buildOrder, failures)
      PROVE  Handled(q, Tasks', buildOrder', failures')
  <2>1. CASE Recorded(q, buildOrder, failures) \/ WorksOn(q, Rest)
    <3>1. Handled(q, Rest, buildOrder, failures)
      BY <2>1 DEF Handled
    <3> QED BY <1>1, <3>1, HandledStays
  <2>2. CASE Started /\ q = PkgOf(Top)
    BY <1>1, <2>2
  <2> QED BY <1>2, <1>3, <2>1, <2>2 DEF Handled
<1>4. ASSUME NEW q \in Name \X Version, Expects(q, Tasks, Offered)
      PROVE  Expects(q, Tasks', Offered) \/ Handled(q, Tasks', buildOrder', failures')
  <2>1. PICK t \in Tasks :
          /\ t.type = "toplevel"
          /\ \/ t.phase = "start" /\ q = PkgOf(t)
             \/ t.phase = "resolve" /\ q[1] = t.req.name /\ q[2] \in Starts(Offered[t.req])
    BY <1>4 DEF Expects
  <2>2. CASE t \in Rest
    BY <1>1, <2>1, <2>2 DEF Expects
  <2>3. CASE t = Task(Top) /\ t.phase = "start"
    BY <1>1, <2>1, <2>3, TaskFields DEF Started
  <2>4. CASE t = Task(Top) /\ t.phase = "resolve"
    <3>1. Becomes("start", q[2]) \in Tasks'
      BY <1>1, <2>1, <2>4, TaskFields
    <3>2. PICK s : s = Becomes("start", q[2])
      OBVIOUS
    <3>3. s.phase = "start" /\ s.type = "toplevel" /\ PkgOf(s) = q
      BY <2>1, <2>4, <3>2, TaskFields DEF Becomes, PkgOf
    <3> QED BY <3>1, <3>2, <3>3 DEF Expects
  <2> QED BY <1>1, <2>1, <2>2, <2>3, <2>4
<1>5. NodesHandled(graph'.nodes, Tasks', buildOrder', failures', Offered')
  <2> SUFFICES ASSUME NEW q \in graph'.nodes \ {ROOT}
               PROVE  Handled(q, Tasks', buildOrder', failures') \/ Expects(q, Tasks', Offered)
    BY OfferedStays DEF NodesHandled
  <2>1. CASE q \in graph.nodes
    <3>1. q \in Name \X Version
      BY <2>1, GraphIsThere DEF Graph, Pkg
    <3>2. Handled(q, Tasks, buildOrder, failures) \/ Expects(q, Tasks, Offered)
      BY <2>1 DEF LossInv, NodesHandled
    <3> QED BY <1>3, <1>4, <3>1, <3>2
  <2>2. CASE q \notin graph.nodes
    BY <1>1, <2>2
  <2> QED BY <2>1, <2>2
<1>6. MarksHandled(seen', Tasks', buildOrder', failures')
  <2> SUFFICES ASSUME NEW k \in seen'
               PROVE  Handled(<<k[1], k[3]>>, Tasks', buildOrder', failures')
    BY DEF MarksHandled
  <2>1. CASE k \in seen
    BY <1>3, <2>1 DEF LossInv, MarksHandled
  <2>2. CASE Started /\ k \in SeenMarks(Top)
    <3>1. <<k[1], k[3]>> = PkgOf(Top)
      BY <2>2 DEF SeenMarks, SeenKey, PkgOf
    <3> QED BY <1>1, <2>2, <3>1
  <2> QED BY <2>1, <2>2
<1>7. \A i \in DOMAIN u'.top : TopHandled(u'.top[i], todo', graph'.nodes, failures')
  BY DEF LossInv, TopHandled
<1> QED BY <1>5, <1>6, <1>7 DEF LossInv

(* A phase that fails in test mode falls back on a wheel of the index or is     *)
(* reported.                                                                 *)
LEMMA FailsLosesNothing ==
  ASSUME TypeInv, LossInv, TestMode, stack # <<>>, pc = "loop", NEW g, Fails(g), Started,
         graph.nodes \subseteq g.nodes, g.nodes \subseteq graph.nodes \cup {PkgOf(Top)}
  PROVE  LossInv'
<1>1. /\ graph' = g /\ UNCHANGED <<u, todo, pc, seen, buildOrder, exitCode>>
      /\ \/ Puts({TopIn("process-install-deps")}) /\ failures' = failures
         \/ Puts({}) /\ failures' = failures \cup {PkgOf(Top)}
  BY DEF Fails
<1>2. CASE Puts({TopIn("process-install-deps")}) /\ failures' = failures
  <2>1. PICK t : t = TopIn("process-install-deps")
    OBVIOUS
  <2>2. t.phase \in Working /\ PkgOf(t) = PkgOf(Top)
    BY <2>1 DEF TopIn, Becomes, PkgOf, Working
  <2>3. Handled(PkgOf(Top), {t} \cup Rest, buildOrder, failures)
    BY <2>2 DEF Handled, WorksOn
  <2> QED BY <1>1, <1>2, <2>1, <2>3, PutsLosesNothing, TopIsNoRequest
<1>3. CASE Puts({}) /\ failures' = failures \cup {PkgOf(Top)}
  <2>1. Handled(PkgOf(Top), {} \cup Rest, buildOrder, failures')
    BY <1>3 DEF Handled, Recorded
  <2> QED BY <1>1, <1>3, <2>1, PutsLosesNothing, TopIsNoRequest
<1> QED BY <1>1, <1>2, <1>3

LEMMA RunResolveLosesNothing ==
  ASSUME TypeInv, NodesInv, TopResolves, LossInv, TestMode, ~MultipleVersions, RunResolve
  PROVE  LossInv'
<1>1. /\ stack # <<>> /\ pc = "loop" /\ Top.phase = "resolve" /\ ~Started
      /\ UNCHANGED <<u, todo, seen, graph, buildOrder, exitCode>> /\ Top.req \in Req
  BY ResolveTasks, TopFits, TopIsNoRequest
<1>2. Usable(Top.req) = Candidates(Top.req)
  BY <1>1, CandidateVersions DEF Usable, NodesInv
<1>3. Top.type = "toplevel" => Candidates(Top.req) # {} /\ Top.future # "failed"
  <2>1. Top.type = "toplevel" => Offered[Top.req] # {}
    BY <1>1, TopHasNodes, TaskFields DEF HasNodes
  <2>2. Top = stack[1] /\ 1 \in DOMAIN stack
    BY <1>1 DEF Top, TypeInv, LoopTypeOK
  <2> QED BY <1>1, <2>1, <2>2 DEF Offered, TopResolves
<1>4. CASE /\ Puts({Becomes("start", v) : v \in {Highest(Usable(Top.req))}})
           /\ UNCHANGED <<pc, failures>>
  <2>1. Starts(Offered[Top.req]) = {Highest(Usable(Top.req))}
    BY <1>1, <1>2 DEF Starts, Offered
  <2>2. \A v \in Starts(Offered[Top.req]) : Becomes("start", v) \in {Becomes("start", w) : w \in {Highest(Usable(Top.req))}}
    BY <2>1
  <2> QED BY <1>1, <1>4, <2>2, PutsLosesNothing
<1>5. CASE Top.type # "toplevel" /\ Puts({}) /\ RecordUnresolved(Top.req) /\ pc' = "loop"
  <2>1. failures \subseteq failures'
    BY <1>5 DEF RecordUnresolved
  <2> QED BY <1>1, <1>5, <2>1, PutsLosesNothing
<1> QED BY <1>2, <1>3, <1>4, <1>5, ResolveTasks

LEMMA RunStartLosesNothing ==
  ASSUME TypeInv, NodesInv, LossInv, TestMode, RunStart
  PROVE  LossInv'
<1>1. /\ stack # <<>> /\ pc = "loop" /\ Top.phase = "start" /\ Started
      /\ UNCHANGED <<u, todo, buildOrder, exitCode>>
  BY StartTasks DEF Started
<1>2. /\ graph.nodes \subseteq AddToGraph(Top).nodes
      /\ AddToGraph(Top).nodes \subseteq graph.nodes \cup {PkgOf(Top)}
  <2>1. CASE Top.type = "toplevel"
    BY <2>1 DEF AddToGraph
  <2>2. CASE Top.type # "toplevel"
    <3>1. /\ PkgOf(Top) \in Pkg /\ Top.parent \in Pkg \cup {ROOT} /\ Top.type \in ReqType
          /\ graph \in Graph /\ WellFormed(graph)
      BY <1>1, TopFits, ItemFields, GraphIsThere
    <3>2. AddToGraph(Top) = AddDependency(graph, Top.parent, Top.type, PkgOf(Top))
      BY <2>2 DEF AddToGraph
    <3> QED BY <3>1, <3>2, AddDependencyFits
  <2> QED BY <2>1, <2>2
<1>3. CASE Fails(AddToGraph(Top))
  BY <1>1, <1>2, <1>3, FailsLosesNothing
<1>4. CASE /\ graph' = AddToGraph(Top) /\ UNCHANGED <<pc, failures>>
           /\ HasBeenSeen(Top) /\ Puts({}) /\ seen' = seen
  <2>1. PICK k \in seen : <<k[1], k[3]>> = PkgOf(Top)
    BY <1>4 DEF HasBeenSeen, SeenKey, PkgOf
  <2>2. Handled(PkgOf(Top), Tasks, buildOrder, failures)
    BY <2>1 DEF LossInv, MarksHandled
  <2>3. Handled(PkgOf(Top), Rest, buildOrder, failures)
    <3>1. CASE Recorded(PkgOf(Top), buildOrder, failures)
      BY <3>1 DEF Handled
    <3>2. CASE WorksOn(PkgOf(Top), Tasks)
      <4>1. PICK t \in Tasks : t.phase \in Working /\ PkgOf(t) = PkgOf(Top)
        BY <3>2 DEF WorksOn
      <4>2. t # Task(Top)
        BY <1>1, <4>1, TaskFields DEF Working
      <4>3. t \in Rest
        BY <1>1, <4>1, <4>2, TasksBelow
      <4> QED BY <4>1, <4>3, Zenon DEF Handled, WorksOn
    <3> QED BY <2>2, <3>1, <3>2 DEF Handled
  <2> QED BY <1>1, <1>2, <1>4, <2>3, PutsLosesNothing
<1>5. CASE /\ graph' = AddToGraph(Top) /\ UNCHANGED <<pc, failures>>
           /\ Puts({TopIn("prepare-source")}) /\ seen' = seen \cup SeenMarks(Top)
  <2>1. PICK t : t = TopIn("prepare-source")
    OBVIOUS
  <2>2. t.phase \in Working /\ PkgOf(t) = PkgOf(Top)
    BY <2>1 DEF TopIn, Becomes, PkgOf, Working
  <2>3. Handled(PkgOf(Top), {t} \cup Rest, buildOrder, failures)
    BY <2>2 DEF Handled, WorksOn
  <2> QED BY <1>1, <1>2, <1>5, <2>1, <2>3, PutsLosesNothing
<1> QED BY <1>3, <1>4, <1>5, StartTasks

(* A phase between the first and the last leaves an item of the package.       *)
LEMMA NextPhaseLosesNothing ==
  ASSUME TypeInv, LossInv, stack # <<>>, pc = "loop", NEW phase, phase \in Working, Started,
         NEW tasks, TopIn(phase) \in tasks, Puts(tasks),
         UNCHANGED <<u, pc, todo, seen, buildOrder, failures, exitCode>>, graph'.nodes = graph.nodes
  PROVE  LossInv'
<1>1. PICK t : t = TopIn(phase)
  OBVIOUS
<1>2. t.phase \in Working /\ PkgOf(t) = PkgOf(Top)
  BY <1>1 DEF TopIn, Becomes, PkgOf
<1>3. Handled(PkgOf(Top), tasks \cup Rest, buildOrder, failures)
  BY <1>1, <1>2 DEF Handled, WorksOn
<1> QED BY <1>3, PutsLosesNothing, TopIsNoRequest

LEMMA AddToBuildOrderKeeps ==
  ASSUME TypeInv, NEW p, buildOrder' = AddToBuildOrder(buildOrder, p)
  PROVE  /\ Recorded(p, buildOrder', {})
         /\ \A q : Recorded(q, buildOrder, {}) => Recorded(q, buildOrder', {})
<1>1. buildOrder \in Seq(Pkg)
  BY DEF TypeInv, RecordsTypeOK
<1>2. CASE \E i \in DOMAIN buildOrder : buildOrder[i] = p
  BY <1>2 DEF AddToBuildOrder, Recorded
<1>3. CASE ~\E i \in DOMAIN buildOrder : buildOrder[i] = p
  <2>1. buildOrder' = Append(buildOrder, p)
    BY <1>3 DEF AddToBuildOrder
  <2>2. /\ \A i \in DOMAIN buildOrder : i \in DOMAIN buildOrder' /\ buildOrder'[i] = buildOrder[i]
        /\ Len(buildOrder) + 1 \in DOMAIN buildOrder' /\ buildOrder'[Len(buildOrder) + 1] = p
    BY <1>1, <2>1
  <2> QED BY <2>2 DEF Recorded
<1> QED BY <1>2, <1>3

LEMMA ResolveTopLevelLosesNothing ==
  ASSUME TypeInv, LossInv, ~MultipleVersions, ResolveTopLevel
  PROVE  LossInv'
<1> DEFINE r     == Head(todo)
           found == {<<r.name, v>> :
                       v \in IF MultipleVersions THEN Candidates(r) ELSE {Highest(Candidates(r))}}
<1>1. /\ pc = "top-level" /\ Candidates(r) # {} /\ Tasks' = {TopRequest(r)} \cup Tasks
      /\ todo' = Tail(todo) /\ pc' = IF todo' = <<>> THEN "loop" ELSE "top-level"
      /\ graph'.nodes = graph.nodes \cup found
      /\ UNCHANGED <<u, seen, buildOrder, failures, failedVersions, exitCode>>
  BY TopLevelTasks
<1>2. r \in Req /\ todo \in Seq(Req) /\ todo # <<>>
  BY <1>1 DEF TypeInv, LoopTypeOK
<1>3. PICK v : v = Highest(Candidates(r)) /\ v \in r.spec /\ v \in Version /\ found = {<<r.name, v>>}
  BY <1>1, <1>2, CandidateVersions
<1>4. <<r.name, v>> # ROOT
  BY <1>2, <1>3, BootstrapperAssumption DEF Req, Pkg
<1>5. Starts(Offered[r]) = {v}
  BY <1>2, <1>3 DEF Starts, Offered
<1>6. PICK t : t = TopRequest(r)
  OBVIOUS
<1>7. t.phase = "resolve" /\ t.req = r /\ t.type = "toplevel"
  BY <1>6 DEF TopRequest
<1> HIDE DEF r, found
<1>8. Expects(<<r.name, v>>, Tasks', Offered)
  BY <1>1, <1>5, <1>6, <1>7 DEF Expects
<1>9. ASSUME NEW q PROVE /\ Handled(q, Tasks, buildOrder, failures) => Handled(q, Tasks', buildOrder, failures)
                         /\ Expects(q, Tasks, Offered) => Expects(q, Tasks', Offered)
  BY <1>1 DEF Handled, WorksOn, Expects
<1>10. NodesHandled(graph'.nodes, Tasks', buildOrder', failures', Offered')
  BY <1>1, <1>3, <1>8, <1>9, OfferedStays DEF LossInv, NodesHandled
<1>11. MarksHandled(seen', Tasks', buildOrder', failures')
  BY <1>1, <1>9 DEF LossInv, MarksHandled
<1>12. ASSUME NEW i \in DOMAIN u.top PROVE TopHandled(u.top[i], todo', graph'.nodes, failures)
  <2>1. TopHandled(u.top[i], todo, graph.nodes, failures)
    BY <1>12 DEF LossInv
  <2>2. CASE u.top[i] = r
    <3>1. <<r.name, v>> \in graph'.nodes \ {ROOT}
      BY <1>1, <1>3, <1>4
    <3> QED BY <1>3, <2>2, <3>1 DEF TopHandled
  <2>3. ASSUME NEW j \in DOMAIN todo, todo[j] = u.top[i], u.top[i] # r
        PROVE  j - 1 \in DOMAIN Tail(todo) /\ Tail(todo)[j - 1] = u.top[i]
    BY <1>2, <2>3 DEF r
  <2> QED BY <1>1, <2>1, <2>2, <2>3 DEF TopHandled
<1> QED BY <1>1, <1>10, <1>11, <1>12 DEF LossInv

LEMMA FailTopLevelLosesNothing ==
  ASSUME TypeInv, LossInv, TestMode, FailTopLevel
  PROVE  LossInv'
<1>1. /\ pc = "top-level" /\ todo' = Tail(todo) /\ RecordUnresolved(Head(todo))
      /\ pc' = IF todo' = <<>> THEN "loop" ELSE "top-level"
      /\ UNCHANGED <<u, stack, seen, graph, buildOrder, exitCode>>
  BY Zenon DEF FailTopLevel, AfterTopLevel
<1>2. failures' = failures \cup {<<Head(todo).name, NoVersion>>}
  BY <1>1 DEF RecordUnresolved
<1>3. todo \in Seq(Req) /\ todo # <<>>
  BY <1>1 DEF TypeInv, LoopTypeOK
<1>4. Tasks' = Tasks /\ Offered' = Offered
  BY <1>1, OfferedStays DEF Tasks
<1>5. ASSUME NEW q, Handled(q, Tasks, buildOrder, failures)
      PROVE  Handled(q, Tasks, buildOrder, failures')
  BY <1>2, <1>5 DEF Handled, Recorded
<1>6. NodesHandled(graph'.nodes, Tasks', buildOrder', failures', Offered')
  BY <1>1, <1>4, <1>5 DEF LossInv, NodesHandled
<1>7. MarksHandled(seen', Tasks', buildOrder', failures')
  BY <1>1, <1>4, <1>5 DEF LossInv, MarksHandled
<1>8. ASSUME NEW i \in DOMAIN u.top PROVE TopHandled(u.top[i], todo', graph.nodes, failures')
  <2>1. TopHandled(u.top[i], todo, graph.nodes, failures)
    BY <1>8 DEF LossInv
  <2>2. CASE u.top[i] = Head(todo)
    BY <1>2, <2>2 DEF TopHandled
  <2>3. ASSUME NEW j \in DOMAIN todo, todo[j] = u.top[i], u.top[i] # Head(todo)
        PROVE  j - 1 \in DOMAIN Tail(todo) /\ Tail(todo)[j - 1] = u.top[i]
    BY <1>3, <2>3
  <2> QED BY <1>1, <1>2, <2>1, <2>2, <2>3 DEF TopHandled
<1> QED BY <1>1, <1>6, <1>7, <1>8 DEF LossInv

LEMMA LossStays ==
  ASSUME LossInv, Tasks' = Tasks, UNCHANGED <<u, pc, todo, records, exitCode>>
  PROVE  LossInv'
  BY OfferedStays DEF LossInv, records

LEMMA LossStep ==
  TypeInv /\ NodesInv /\ TopResolves /\ LossInv /\ TestMode /\ ~MultipleVersions /\ [Next]_vars
    => LossInv'
<1> SUFFICES ASSUME TypeInv, NodesInv, TopResolves, LossInv, TestMode, ~MultipleVersions, [Next]_vars
             PROVE  LossInv'
  OBVIOUS
<1>1. CASE ResolveTopLevel
  BY <1>1, ResolveTopLevelLosesNothing
<1>2. CASE FailTopLevel
  BY <1>2, FailTopLevelLosesNothing
<1>3. CASE \E i \in DOMAIN stack : FinishResolution(i) \/ FetchSource(i)
  BY <1>3, ThreadTasks, LossStays
<1>4. CASE RunResolve
  BY <1>4, RunResolveLosesNothing
<1>5. CASE RunStart
  BY <1>5, RunStartLosesNothing
<1>6. ASSUME pc = "loop", stack # <<>>, Started, Fails(graph) PROVE LossInv'
  BY <1>6, FailsLosesNothing
<1>7. CASE RunPrepareSource
  <2>1. pc = "loop" /\ stack # <<>> /\ Started
    BY <1>7, PrepareSourceTasks DEF Started, Working
  <2>2. CASE ~Fails(graph)
    <3>1. graph' = graph /\ UNCHANGED <<u, pc, todo, seen, buildOrder, failures, exitCode>>
      BY <1>7, <2>2, PrepareSourceTasks DEF records
    <3>2. \/ \E tasks : Puts(tasks) /\ TopIn("process-install-deps") \in tasks
          \/ \E tasks : Puts(tasks) /\ TopIn("prepare-build") \in tasks
      BY <1>7, <2>2, PrepareSourceTasks
    <3> QED BY <2>1, <3>1, <3>2, NextPhaseLosesNothing DEF Working
  <2> QED BY <1>6, <2>1, <2>2
<1>8. CASE RunPrepareBuild
  <2>1. pc = "loop" /\ stack # <<>> /\ Started
    BY <1>8, PrepareBuildTasks DEF Started, Working
  <2>2. CASE ~Fails(graph)
    <3>1. UNCHANGED <<u, pc, todo, seen, buildOrder, failures, exitCode>>
      BY <1>8, <2>2, PrepareBuildTasks
    <3>2. \E f, edges :
            /\ Puts(Requests(u.sdist[PkgOf(Top)] \ Satisfied(u.sdist[PkgOf(Top)], f), "build-sdist", PkgOf(Top))
                     \cup Requests(u.backend[PkgOf(Top)] \ Satisfied(u.backend[PkgOf(Top)], f),
                                   "build-backend", PkgOf(Top))
                     \cup {TopIn("build")})
            /\ graph' = [nodes |-> graph.nodes, edges |-> edges]
      BY <1>8, <2>2, PrepareBuildTasks, Zenon
    <3>3. graph'.nodes = graph.nodes
      BY <3>2
    <3>4. \E tasks : Puts(tasks) /\ TopIn("build") \in tasks
      BY <3>2
    <3> QED BY <2>1, <3>1, <3>3, <3>4, NextPhaseLosesNothing DEF Working
  <2> QED BY <1>6, <2>1, <2>2
<1>9. CASE RunBuild
  <2>1. pc = "loop" /\ stack # <<>> /\ Started
    BY <1>9, BuildTasks DEF Started, Working
  <2>2. CASE ~Fails(graph)
    <3>1. /\ graph' = graph /\ UNCHANGED <<u, pc, todo, seen, buildOrder, failures, exitCode>>
          /\ Puts({TopIn("process-install-deps")})
      BY <1>9, <2>2, BuildTasks DEF records
    <3> QED BY <2>1, <3>1, NextPhaseLosesNothing DEF Working
  <2> QED BY <1>6, <2>1, <2>2
<1>10. CASE RunProcessInstallDeps
  <2>1. pc = "loop" /\ stack # <<>> /\ Started
    BY <1>10, InstallDepsTasks DEF Started, Working
  <2>2. /\ UNCHANGED <<u, pc, todo, seen, graph, exitCode>> /\ failures \subseteq failures'
        /\ buildOrder' = AddToBuildOrder(buildOrder, PkgOf(Top)) /\ \E tasks : Puts(tasks)
    BY <1>10, InstallDepsTasks
  <2>3. PICK tasks : Puts(tasks)
    BY <2>2
  <2>4. Recorded(PkgOf(Top), buildOrder', {}) /\ \A q : Recorded(q, buildOrder, {}) => Recorded(q, buildOrder', {})
    BY <2>2, AddToBuildOrderKeeps
  <2>5. Handled(PkgOf(Top), tasks \cup Rest, buildOrder', failures')
    BY <2>4 DEF Handled, Recorded
  <2> QED BY <2>1, <2>2, <2>3, <2>4, <2>5, PutsLosesNothing, TopIsNoRequest
<1>11. CASE RunComplete
  <2>1. /\ pc = "loop" /\ stack # <<>> /\ Top.phase = "complete" /\ ~Started /\ Puts({})
        /\ UNCHANGED <<u, pc, todo, seen, graph, buildOrder, failures, exitCode>>
    BY <1>11, CompleteTasks DEF records, Started, Working
  <2> QED BY <2>1, PutsLosesNothing
<1>12. CASE Finalize
  <2>1. /\ stack = <<>> /\ pc' = "finalized" /\ exitCode' = IF TestMode /\ failures # {} THEN 1 ELSE 0
        /\ UNCHANGED <<u, todo, stack, records>> /\ pc = "loop"
    BY <1>12 DEF Finalize
  <2>2. Tasks = {} /\ Tasks' = Tasks
    BY <2>1, TasksOfShort DEF Tasks
  <2> QED BY <2>1, <2>2, OfferedStays DEF LossInv, records
<1>13. CASE UNCHANGED vars
  BY <1>13, LossStays DEF vars, Tasks
<1> QED BY <1>1, <1>2, <1>3, <1>4, <1>5, <1>7, <1>8, <1>9, <1>10, <1>11, <1>12, <1>13 DEF Next, RunItem

(* In test mode, with one version of each requirement, nothing is lost: when     *)
(* the run ends, every package of the graph and every top-level requirement is  *)
(* in the build order or reported, whatever failed, and exit code 0 means that  *)
(* nothing is reported (Bootstrapper._handle_phase_error, finalize).            *)
THEOREM TestModeLosesNothing ==
  ASSUME TestMode, ~MultipleVersions PROVE Spec => []NothingLost
<1>1. Init => LossInv
  BY TasksOfShort, BootstrapperAssumption DEF Init, LossInv, NodesHandled, MarksHandled, TopHandled, Tasks,
     EmptyGraph
<1>2. Init => TopResolves
  BY DEF Init, TopResolves
<1>3. LossInv => NothingLost
  <2> SUFFICES ASSUME LossInv, pc = "finalized" PROVE NothingLost
    BY DEF NothingLost
  <2>1. Tasks = {} /\ todo = <<>> /\ (exitCode = 0 => failures = {})
    BY DEF LossInv
  <2>2. \A p \in graph.nodes \ {ROOT} : InBuildOrder(p) \/ p \in failures
    BY <2>1 DEF LossInv, NodesHandled, Handled, Recorded, WorksOn, Expects, InBuildOrder
  <2>3. \A i \in DOMAIN u.top :
          \/ \E p \in graph.nodes \ {ROOT} : p[1] = u.top[i].name /\ p[2] \in u.top[i].spec
          \/ <<u.top[i].name, NoVersion>> \in failures
    BY <2>1 DEF LossInv, TopHandled
  <2> QED BY <2>1, <2>2, <2>3 DEF NothingLost
<1>4. KeepsNodes
  BY DEF KeepsNodes
<1>5. Spec => []NodesInv
  BY <1>4, NodesAreInvariant
<1>6. Spec => []TopResolves
  BY <1>2, TopResolvesStep, TypeIsInvariant, PTL DEF Spec
<1>7. TypeInv /\ NodesInv /\ TopResolves /\ LossInv /\ [Next]_vars => LossInv'
  BY LossStep
<1> QED BY <1>1, <1>3, <1>5, <1>6, <1>7, TypeIsInvariant, PTL DEF Spec

-----------------------------------------------------------------------------
(* EdgesRecorded, outside test mode with one version of each requirement: in a  *)
(* run that goes on, every requirement of a package that was started has its    *)
(* edge or an item that will record it, unless the phase that finds the        *)
(* requirements is still to come for the package with the same extras.         *)
EdgeTo(p, types, r, edges) ==
  \E e \in edges : e.parent = p /\ e.type \in types /\ e.child[1] = r.name /\ e.child[2] \in r.spec

Asked(p, types, r, tasks) ==
  \E t \in tasks :
    t.phase \in {"resolve", "start"} /\ t.parent = p /\ t.type \in types /\ t.req = r

Covered(p, types, reqs, edges, tasks) ==
  \A r \in reqs : EdgeTo(p, types, r, edges) \/ Asked(p, types, r, tasks)

IsIn(p, extras, phases, tasks) ==
  \E t \in tasks : t.phase \in phases /\ PkgOf(t) = p /\ t.req.extras = extras

Found(p, extras, phases, types, reqs, edges, tasks) ==
  IsIn(p, extras, phases, tasks) \/ Covered(p, types, reqs, edges, tasks)

Installs(p, extras) == u.install[p] \cup IF extras THEN u.extra[p] ELSE {}

BeforeBackend == {"prepare-source", "prepare-build"}

AllFound(p, extras, edges, tasks) ==
  /\ Found(p, extras, Working, InstallType, Installs(p, extras), edges, tasks)
  /\ p[1] \notin u.prebuilt =>
       /\ Found(p, extras, {"prepare-source"}, BuildType, u.system[p], edges, tasks)
       /\ Found(p, extras, BeforeBackend, BuildType, u.backend[p] \cup u.sdist[p], edges, tasks)

Marked(p, marks) == \E k \in marks : p = <<k[1], k[3]>>

EdgesInv ==
  pc # "aborted" =>
    /\ pc = "finalized" => Tasks = {}
    /\ \A t \in Tasks : t.phase # "resolve" => t.ver \in t.req.spec
    /\ \A p \in graph.nodes \ {ROOT} : Expects(p, Tasks, Offered) \/ Marked(p, seen)
    /\ \A k \in seen : AllFound(<<k[1], k[3]>>, k[2], graph.edges, Tasks)

LEMMA MarkedPackages ==
  ASSUME TypeInv, NEW k \in seen
  PROVE  <<k[1], k[3]>> \in Pkg /\ <<k[1], k[3]>> # ROOT
  BY BootstrapperAssumption DEF TypeInv, RecordsTypeOK, Pkg

(* What was asked for is asked for still, or has its edge.                    *)
AnswersTop(tasks, edges) ==
  /\ graph.edges \subseteq edges
  /\ Top.phase = "resolve" => \E v : Becomes("start", v) \in tasks
  /\ Top.phase = "start" /\ Top.parent # ROOT =>
       /\ [parent |-> Top.parent, type |-> Top.type, child |-> PkgOf(Top)] \in edges
       /\ Top.ver \in Top.req.spec

LEMMA CoveredStays ==
  ASSUME TypeInv, stack # <<>>, NEW tasks, NEW edges, AnswersTop(tasks, edges),
         NEW p, p # ROOT, NEW types, NEW reqs, Covered(p, types, reqs, graph.edges, Tasks)
  PROVE  Covered(p, types, reqs, edges, tasks \cup Rest)
<1> SUFFICES ASSUME NEW r \in reqs
             PROVE  EdgeTo(p, types, r, edges) \/ Asked(p, types, r, tasks \cup Rest)
  BY DEF Covered
<1>1. CASE EdgeTo(p, types, r, graph.edges)
  BY <1>1 DEF EdgeTo, AnswersTop
<1>2. CASE Asked(p, types, r, Tasks)
  <2>1. PICK t \in Tasks :
          t.phase \in {"resolve", "start"} /\ t.parent = p /\ t.type \in types /\ t.req = r
    BY <1>2 DEF Asked
  <2>2. CASE t \in Rest
    BY <2>1, <2>2 DEF Asked
  <2>3. CASE t = Task(Top) /\ t.phase = "resolve"
    <3>1. PICK v : Becomes("start", v) \in tasks
      BY <2>3, TaskFields DEF AnswersTop
    <3>2. PICK s : s = Becomes("start", v)
      OBVIOUS
    <3>3. s.phase = "start" /\ s.parent = p /\ s.type \in types /\ s.req = r
      BY <2>1, <2>3, <3>2, TaskFields DEF Becomes
    <3> QED BY <3>1, <3>2, <3>3 DEF Asked
  <2>4. CASE t = Task(Top) /\ t.phase = "start"
    <3>1. PICK e : e = [parent |-> Top.parent, type |-> Top.type, child |-> PkgOf(Top)]
      OBVIOUS
    <3>2. e \in edges /\ Top.ver \in Top.req.spec
      BY <2>1, <2>4, <3>1, TaskFields DEF AnswersTop
    <3>3. e.parent = p /\ e.type \in types /\ e.child[1] = r.name /\ e.child[2] \in r.spec
      BY <2>1, <2>4, <3>1, <3>2, TaskFields DEF PkgOf
    <3> QED BY <3>2, <3>3 DEF EdgeTo
  <2> QED BY <2>1, <2>2, <2>3, <2>4, TasksBelow
<1> QED BY <1>1, <1>2 DEF Covered

LEMMA FoundStays ==
  ASSUME TypeInv, stack # <<>>, NEW tasks, NEW edges, AnswersTop(tasks, edges),
         NEW p, p # ROOT, NEW extras, NEW phases, NEW types, NEW reqs,
         Top.phase \in phases /\ p = PkgOf(Top) /\ extras = Top.req.extras =>
           Found(p, extras, phases, types, reqs, edges, tasks \cup Rest),
         Found(p, extras, phases, types, reqs, graph.edges, Tasks)
  PROVE  Found(p, extras, phases, types, reqs, edges, tasks \cup Rest)
<1>1. CASE Covered(p, types, reqs, graph.edges, Tasks)
  BY <1>1, CoveredStays DEF Found
<1>2. CASE IsIn(p, extras, phases, Tasks)
  <2>1. PICK t \in Tasks : t.phase \in phases /\ PkgOf(t) = p /\ t.req.extras = extras
    BY <1>2 DEF IsIn
  <2>2. CASE t \in Rest
    BY <2>1, <2>2 DEF Found, IsIn
  <2>3. CASE t = Task(Top)
    BY <2>1, <2>3, TaskFields
  <2> QED BY <2>1, <2>2, <2>3, TasksBelow
<1> QED BY <1>1, <1>2 DEF Found

(* What a step of the loop does that keeps EdgesInv.                           *)
KeepsEdges(tasks, marks, nodes, edges) ==
  LET p     == PkgOf(Top)
      after == tasks \cup Rest
  IN  /\ AnswersTop(tasks, edges)
      /\ \A t \in tasks : t.phase # "resolve" => t.ver \in t.req.spec
      /\ seen \subseteq marks /\ nodes \subseteq graph.nodes \cup {p}
      /\ \A k \in marks \ seen : AllFound(<<k[1], k[3]>>, k[2], edges, after)
      /\ Top.phase = "start" => Marked(p, marks)
      /\ Top.phase # "start" => nodes = graph.nodes
      /\ Top.phase = "resolve" /\ Top.type = "toplevel" =>
           \A v \in Starts(Offered[Top.req]) : Becomes("start", v) \in tasks
      /\ Top.phase \in Working =>
           Found(p, Top.req.extras, Working, InstallType, Installs(p, Top.req.extras), edges, after)
      /\ Top.phase = "prepare-source" /\ p[1] \notin u.prebuilt =>
           Found(p, Top.req.extras, {"prepare-source"}, BuildType, u.system[p], edges, after)
      /\ Top.phase \in BeforeBackend /\ p[1] \notin u.prebuilt =>
           Found(p, Top.req.extras, BeforeBackend, BuildType, u.backend[p] \cup u.sdist[p], edges, after)

LEMMA PutsKeepsEdges ==
  ASSUME TypeInv, EdgesInv, stack # <<>>, pc = "loop", NEW tasks, Puts(tasks), UNCHANGED <<u, pc>>,
         KeepsEdges(tasks, seen', graph'.nodes, graph'.edges)
  PROVE  EdgesInv'
<1>1. Tasks = {Task(Top)} \cup Rest /\ Tasks' = tasks \cup Rest
  BY PutsTasks
<1>2. \A t \in Tasks' : t.phase # "resolve" => t.ver \in t.req.spec
  BY <1>1 DEF EdgesInv, KeepsEdges
<1>3. ASSUME NEW q, q \in graph.nodes \ {ROOT}, Expects(q, Tasks, Offered)
      PROVE  Expects(q, Tasks', Offered) \/ Marked(q, seen')
  <2>1. PICK t \in Tasks :
          /\ t.type = "toplevel"
          /\ \/ t.phase = "start" /\ q = PkgOf(t)
             \/ t.phase = "resolve" /\ q[1] = t.req.name /\ q[2] \in Starts(Offered[t.req])
    BY <1>3 DEF Expects
  <2>2. CASE t \in Rest
    BY <1>1, <2>1, <2>2 DEF Expects
  <2>3. CASE t = Task(Top) /\ t.phase = "start"
    BY <1>1, <2>1, <2>3, TaskFields DEF KeepsEdges
  <2>4. CASE t = Task(Top) /\ t.phase = "resolve"
    <3>0. q \in Name \X Version
      BY <1>3, GraphIsThere DEF Graph, Pkg
    <3>1. Becomes("start", q[2]) \in Tasks'
      BY <1>1, <2>1, <2>4, TaskFields DEF KeepsEdges
    <3>2. PICK s : s = Becomes("start", q[2])
      OBVIOUS
    <3>3. s.phase = "start" /\ s.type = "toplevel" /\ PkgOf(s) = q
      BY <2>1, <2>4, <3>0, <3>2, TaskFields DEF Becomes, PkgOf
    <3> QED BY <3>1, <3>2, <3>3 DEF Expects
  <2> QED BY <1>1, <2>1, <2>2, <2>3, <2>4
<1>4. ASSUME NEW q \in graph'.nodes \ {ROOT} PROVE Expects(q, Tasks', Offered) \/ Marked(q, seen')
  <2>1. CASE q \in graph.nodes
    <3>1. Expects(q, Tasks, Offered) \/ Marked(q, seen)
      BY <2>1 DEF EdgesInv
    <3>2. seen \subseteq seen'
      BY DEF KeepsEdges
    <3> QED BY <1>3, <2>1, <3>1, <3>2 DEF Marked
  <2>2. CASE q \notin graph.nodes
    BY <2>2 DEF KeepsEdges
  <2> QED BY <2>1, <2>2
<1>5. ASSUME NEW k \in seen' PROVE AllFound(<<k[1], k[3]>>, k[2], graph'.edges, Tasks')
  <2>1. CASE k \notin seen
    BY <1>1, <2>1 DEF KeepsEdges
  <2>2. CASE k \in seen
    <3>1. PICK q : q = <<k[1], k[3]>> /\ q # ROOT
      BY <2>2, MarkedPackages
    <3>2. AllFound(q, k[2], graph.edges, Tasks)
      BY <2>2, <3>1 DEF EdgesInv
    <3>3. AnswersTop(tasks, graph'.edges)
      BY DEF KeepsEdges
    <3>4. Found(q, k[2], Working, InstallType, Installs(q, k[2]), graph'.edges, tasks \cup Rest)
      BY <3>1, <3>2, <3>3, FoundStays DEF AllFound, KeepsEdges
    <3>5. q[1] \notin u.prebuilt =>
            Found(q, k[2], {"prepare-source"}, BuildType, u.system[q], graph'.edges, tasks \cup Rest)
      BY <3>1, <3>2, <3>3, FoundStays DEF AllFound, KeepsEdges
    <3>6. q[1] \notin u.prebuilt =>
            Found(q, k[2], BeforeBackend, BuildType, u.backend[q] \cup u.sdist[q], graph'.edges, tasks \cup Rest)
      BY <3>1, <3>2, <3>3, FoundStays DEF AllFound, KeepsEdges
    <3> QED BY <1>1, <3>1, <3>4, <3>5, <3>6 DEF AllFound
  <2> QED BY <2>1, <2>2
<1>6. (\A k \in seen : AllFound(<<k[1], k[3]>>, k[2], graph.edges, Tasks))'
  BY <1>5 DEF AllFound, Installs
<1> QED BY <1>2, <1>4, <1>6, OfferedStays DEF EdgesInv

LEMMA TopInFound ==
  ASSUME NEW phases, NEW phase \in phases, NEW tasks, TopIn(phase) \in tasks,
         NEW types, NEW reqs, NEW edges
  PROVE  Found(PkgOf(Top), Top.req.extras, phases, types, reqs, edges, tasks)
<1>1. PICK t : t = TopIn(phase)
  OBVIOUS
<1>2. t.phase \in phases /\ PkgOf(t) = PkgOf(Top) /\ t.req.extras = Top.req.extras
  BY <1>1 DEF TopIn, Becomes, PkgOf
<1> QED BY <1>1, <1>2 DEF Found, IsIn

LEMMA RequestsAsk ==
  ASSUME NEW reqs, NEW type, NEW p, NEW types, type \in types, NEW tasks,
         Requests(reqs, type, p) \subseteq tasks, NEW r \in reqs
  PROVE  Asked(p, types, r, tasks)
<1>1. PICK t : t = [phase |-> "resolve", req |-> r, type |-> type, parent |-> p, ver |-> NoVersion]
  OBVIOUS
<1>2. t \in tasks
  BY <1>1 DEF Requests
<1> QED BY <1>1, <1>2 DEF Asked

(* Above, a phase that fails ends the run.                                    *)
LEMMA FailsAborts ==
  ASSUME ~TestMode, ~MultipleVersions, NEW g, Fails(g)
  PROVE  EdgesInv'
  BY DEF Fails, EdgesInv

LEMMA TopHasItsVersion ==
  ASSUME TypeInv, EdgesInv, pc = "loop", stack # <<>>, Top.phase # "resolve"
  PROVE  /\ Top.ver \in Top.req.spec
         /\ \A phase : \A t \in {TopIn(phase)} : t.ver \in t.req.spec
<1>1. Top.ver \in Top.req.spec
  BY TasksBelow, TaskFields DEF EdgesInv
<1> QED BY <1>1 DEF TopIn, Becomes

(* A step of a phase that works on a package.                                 *)
LEMMA WorkKeepsEdges ==
  ASSUME TypeInv, EdgesInv, pc = "loop", stack # <<>>, Top.phase \notin {"resolve", "start"},
         NEW tasks, Puts(tasks), UNCHANGED <<u, pc, seen>>,
         graph'.nodes = graph.nodes, graph.edges \subseteq graph'.edges,
         \A t \in tasks : t.phase = "resolve" \/ \E phase : t = TopIn(phase),
         Top.phase \in Working =>
           Found(PkgOf(Top), Top.req.extras, Working, InstallType, Installs(PkgOf(Top), Top.req.extras),
                 graph'.edges, tasks),
         Top.phase = "prepare-source" /\ PkgOf(Top)[1] \notin u.prebuilt =>
           Found(PkgOf(Top), Top.req.extras, {"prepare-source"}, BuildType, u.system[PkgOf(Top)],
                 graph'.edges, tasks),
         Top.phase \in BeforeBackend /\ PkgOf(Top)[1] \notin u.prebuilt =>
           Found(PkgOf(Top), Top.req.extras, BeforeBackend, BuildType,
                 u.backend[PkgOf(Top)] \cup u.sdist[PkgOf(Top)], graph'.edges, tasks)
  PROVE  EdgesInv'
<1>1. ASSUME NEW q, NEW extras, NEW phases, NEW types, NEW reqs, NEW edges,
             Found(q, extras, phases, types, reqs, edges, tasks)
      PROVE  Found(q, extras, phases, types, reqs, edges, tasks \cup Rest)
  BY <1>1 DEF Found, IsIn, Covered, Asked
<1>2. \A t \in tasks : t.phase # "resolve" => t.ver \in t.req.spec
  BY TopHasItsVersion
<1>3. AnswersTop(tasks, graph'.edges)
  BY DEF AnswersTop
<1>4. KeepsEdges(tasks, seen', graph'.nodes, graph'.edges)
  BY <1>1, <1>2, <1>3 DEF KeepsEdges
<1> QED BY <1>4, PutsKeepsEdges

LEMMA RunResolveKeepsEdges ==
  ASSUME TypeInv, NodesInv, EdgesInv, ~TestMode, ~MultipleVersions, RunResolve
  PROVE  EdgesInv'
<1>1. /\ stack # <<>> /\ pc = "loop" /\ Top.phase = "resolve"
      /\ UNCHANGED <<u, seen, graph>> /\ Top.req \in Req
  BY ResolveTasks, TopFits
<1>2. Usable(Top.req) = Candidates(Top.req)
  BY <1>1, CandidateVersions DEF Usable, NodesInv
<1>3. CASE /\ Puts({Becomes("start", v) : v \in {Highest(Usable(Top.req))}})
           /\ Usable(Top.req) # {} /\ pc' = pc
  <2>1. PICK v : v = Highest(Usable(Top.req)) /\ v \in Top.req.spec
    BY <1>1, <1>2, <1>3, CandidateVersions
  <2>2. PICK t : t = Becomes("start", v)
    OBVIOUS
  <2>3. {Becomes("start", w) : w \in {Highest(Usable(Top.req))}} = {t}
    BY <2>1, <2>2
  <2>4. t.phase = "start" /\ t.ver \in t.req.spec
    BY <2>1, <2>2 DEF Becomes
  <2>5. Starts(Offered[Top.req]) = {v}
    BY <1>1, <1>2, <2>1 DEF Starts, Offered
  <2>6. AnswersTop({t}, graph'.edges)
    BY <1>1, <2>2 DEF AnswersTop
  <2>7. KeepsEdges({t}, seen', graph'.nodes, graph'.edges)
    BY <1>1, <2>2, <2>4, <2>5, <2>6 DEF KeepsEdges, Working, BeforeBackend
  <2> QED BY <1>1, <1>3, <2>3, <2>7, PutsKeepsEdges
<1>4. CASE pc' = "aborted"
  BY <1>4 DEF EdgesInv
<1> QED BY <1>3, <1>4, ResolveTasks

LEMMA RunStartKeepsEdges ==
  ASSUME TypeInv, NodesInv, EdgesInv, ~TestMode, ~MultipleVersions, RunStart
  PROVE  EdgesInv'
<1>1. /\ stack # <<>> /\ pc = "loop" /\ Top.phase = "start" /\ UNCHANGED u
  BY StartTasks
<1>2. CASE Fails(AddToGraph(Top))
  BY <1>2, FailsAborts
<1>3. CASE /\ Top.type = "toplevel" \/ Top.parent \in AddToGraph(Top).nodes
           /\ graph' = AddToGraph(Top) /\ pc' = pc
           /\ \/ HasBeenSeen(Top) /\ Puts({}) /\ seen' = seen
              \/ Puts({TopIn("prepare-source")}) /\ seen' = seen \cup SeenMarks(Top)
  <2>1. /\ graph.nodes \subseteq graph'.nodes /\ graph'.nodes \subseteq graph.nodes \cup {PkgOf(Top)}
        /\ graph.edges \subseteq graph'.edges
        /\ Top.type # "toplevel" =>
             [parent |-> Top.parent, type |-> Top.type, child |-> PkgOf(Top)] \in graph'.edges
    <3>1. CASE Top.type = "toplevel"
      BY <1>3, <3>1 DEF AddToGraph
    <3>2. CASE Top.type # "toplevel"
      <4>1. /\ PkgOf(Top) \in Pkg /\ Top.parent \in Pkg \cup {ROOT} /\ Top.type \in ReqType
            /\ graph \in Graph /\ WellFormed(graph)
        BY <1>1, TopFits, ItemFields, GraphIsThere
      <4>2. AddToGraph(Top) = AddDependency(graph, Top.parent, Top.type, PkgOf(Top))
        BY <3>2 DEF AddToGraph
      <4>3. PICK added : added = AddDependency(graph, Top.parent, Top.type, PkgOf(Top))
        OBVIOUS
      <4>4. PICK edge : edge = [parent |-> Top.parent, type |-> Top.type, child |-> PkgOf(Top)]
        OBVIOUS
      <4>5. /\ added.nodes = graph.nodes \cup {PkgOf(Top)}
            /\ added.edges = graph.edges \cup IF Top.parent \in added.nodes THEN {edge} ELSE {}
        BY <4>1, <4>3, <4>4, AddDependencyFits
      <4>6. graph' = added /\ Top.parent \in added.nodes
        BY <1>3, <3>2, <4>2, <4>3
      <4> QED BY <4>4, <4>5, <4>6
    <3> QED BY <3>1, <3>2
  <2>2. Top.type = "toplevel" => Top.parent = ROOT
    BY <1>1, TopHasNodes, TaskFields DEF HasNodes
  <2>3. ASSUME NEW tasks PROVE AnswersTop(tasks, graph'.edges)
    BY <1>1, <2>1, <2>2, TopHasItsVersion DEF AnswersTop
  <2>4. CASE HasBeenSeen(Top) /\ Puts({}) /\ seen' = seen
    <3>1. Marked(PkgOf(Top), seen')
      BY <2>4 DEF HasBeenSeen, SeenKey, PkgOf, Marked
    <3>2. KeepsEdges({}, seen', graph'.nodes, graph'.edges)
      BY <1>1, <2>1, <2>3, <2>4, <3>1 DEF KeepsEdges, Working, BeforeBackend
    <3> QED BY <1>1, <1>3, <2>4, <3>2, PutsKeepsEdges
  <2>5. CASE Puts({TopIn("prepare-source")}) /\ seen' = seen \cup SeenMarks(Top)
    <3>1. SeenKey(Top, "sdist") \in seen'
      BY <2>5 DEF SeenMarks
    <3>2. Marked(PkgOf(Top), seen')
      BY <3>1 DEF SeenKey, PkgOf, Marked
    <3>3. ASSUME NEW k \in SeenMarks(Top)
          PROVE  AllFound(<<k[1], k[3]>>, k[2], graph'.edges, {TopIn("prepare-source")} \cup Rest)
      <4>1. <<k[1], k[3]>> = PkgOf(Top) /\ k[2] = Top.req.extras
        BY <3>3 DEF SeenMarks, SeenKey, PkgOf
      <4>2. ASSUME NEW phases, "prepare-source" \in phases, NEW types, NEW reqs
            PROVE  Found(PkgOf(Top), Top.req.extras, phases, types, reqs, graph'.edges,
                         {TopIn("prepare-source")} \cup Rest)
        BY <4>2, TopInFound
      <4>3. /\ "prepare-source" \in Working /\ "prepare-source" \in {"prepare-source"}
            /\ "prepare-source" \in BeforeBackend
        BY DEF Working, BeforeBackend
      <4> QED BY <4>1, <4>2, <4>3 DEF AllFound
    <3>4. \A t \in {TopIn("prepare-source")} : t.ver \in t.req.spec
      BY <1>1, TopHasItsVersion
    <3>5. KeepsEdges({TopIn("prepare-source")}, seen', graph'.nodes, graph'.edges)
      BY <1>1, <2>1, <2>3, <2>5, <3>2, <3>3, <3>4 DEF KeepsEdges, Working, BeforeBackend
    <3> QED BY <1>1, <1>3, <2>5, <3>5, PutsKeepsEdges
  <2> QED BY <1>3, <2>4, <2>5
<1> QED BY <1>2, <1>3, StartTasks

LEMMA RequestsResolve ==
  \A reqs, type, p : \A t \in Requests(reqs, type, p) : t.phase = "resolve"
  BY DEF Requests

LEMMA RunPrepareSourceKeepsEdges ==
  ASSUME TypeInv, EdgesInv, ~TestMode, ~MultipleVersions, RunPrepareSource
  PROVE  EdgesInv'
<1> DEFINE p == PkgOf(Top)
<1>1. /\ stack # <<>> /\ pc = "loop" /\ Top.phase = "prepare-source"
      /\ Top.phase \in Working /\ Top.phase \in BeforeBackend
  BY PrepareSourceTasks DEF Working, BeforeBackend
<1>2. CASE Fails(graph)
  BY <1>2, FailsAborts
<1>3. CASE ~Fails(graph)
  <2>1. u' = u /\ pc' = pc /\ seen' = seen /\ graph' = graph
    BY <1>3, PrepareSourceTasks DEF records
  <2>2. CASE Top.req.name \in u.prebuilt /\ Puts({TopIn("process-install-deps")})
    <3>1. p[1] \in u.prebuilt
      BY <2>2 DEF PkgOf
    <3>2. "process-install-deps" \in Working
      BY DEF Working
    <3>3. Found(p, Top.req.extras, Working, InstallType, Installs(p, Top.req.extras), graph.edges,
                {TopIn("process-install-deps")})
      BY <3>2, TopInFound
    <3> HIDE DEF p
    <3> QED BY <1>1, <2>1, <2>2, <3>1, <3>3, WorkKeepsEdges DEF p
  <2>3. CASE Puts(Requests(u.system[p], "build-system", p) \cup {TopIn("prepare-build")})
    <3>1. PICK tasks : tasks = Requests(u.system[p], "build-system", p) \cup {TopIn("prepare-build")}
      OBVIOUS
    <3>2. TopIn("prepare-build") \in tasks /\ "prepare-build" \in Working /\ "prepare-build" \in BeforeBackend
      BY <3>1 DEF Working, BeforeBackend
    <3>3. \A r \in u.system[p] : Asked(p, BuildType, r, tasks)
      <4>1. "build-system" \in BuildType /\ Requests(u.system[p], "build-system", p) \subseteq tasks
        BY <3>1 DEF BuildType
      <4> QED BY <4>1, RequestsAsk
    <3>4. /\ Found(p, Top.req.extras, Working, InstallType, Installs(p, Top.req.extras), graph.edges, tasks)
          /\ Found(p, Top.req.extras, BeforeBackend, BuildType, u.backend[p] \cup u.sdist[p], graph.edges, tasks)
      BY <3>2, TopInFound
    <3>5. Found(p, Top.req.extras, {"prepare-source"}, BuildType, u.system[p], graph.edges, tasks)
      BY <3>3 DEF Found, Covered
    <3>6. \A t \in tasks : t.phase = "resolve" \/ \E phase : t = TopIn(phase)
      BY <3>1, RequestsResolve
    <3>7. Puts(tasks)
      BY <2>3, <3>1
    <3> QED BY <1>1, <2>1, <3>4, <3>5, <3>6, <3>7, WorkKeepsEdges
  <2> QED BY <1>3, <2>2, <2>3, PrepareSourceTasks
<1> QED BY <1>2, <1>3

LEMMA RunPrepareBuildKeepsEdges ==
  ASSUME TypeInv, EdgesInv, ~TestMode, ~MultipleVersions, RunPrepareBuild
  PROVE  EdgesInv'
<1> DEFINE p == PkgOf(Top)
           sdists(f)   == Requests(u.sdist[p] \ Satisfied(u.sdist[p], f), "build-sdist", p)
           backends(f) == Requests(u.backend[p] \ Satisfied(u.backend[p], f), "build-backend", p)
           added(f)    == SatisfiedEdges(p, u.backend[p], "build-backend", f)
                            \cup SatisfiedEdges(p, u.sdist[p], "build-sdist", f)
<1>1. /\ stack # <<>> /\ pc = "loop" /\ Top.phase = "prepare-build"
      /\ Top.phase \in Working /\ Top.phase \in BeforeBackend
  BY PrepareBuildTasks DEF Working, BeforeBackend
<1>2. CASE Fails(graph)
  BY <1>2, FailsAborts
<1>3. CASE ~Fails(graph)
  <2>1. u' = u /\ pc' = pc /\ seen' = seen
    BY <1>3, PrepareBuildTasks
  <2>2. \E f, x, y :
          /\ x = SatisfiedEdges(p, u.backend[p], "build-backend", f)
          /\ y = SatisfiedEdges(p, u.sdist[p], "build-sdist", f)
          /\ Puts(sdists(f) \cup backends(f) \cup {TopIn("build")})
          /\ graph' = [nodes |-> graph.nodes, edges |-> graph.edges \cup x \cup y]
    BY <1>3, PrepareBuildTasks, Zenon
  <2>3. PICK f, x, y :
          /\ x = SatisfiedEdges(p, u.backend[p], "build-backend", f)
          /\ y = SatisfiedEdges(p, u.sdist[p], "build-sdist", f)
          /\ Puts(sdists(f) \cup backends(f) \cup {TopIn("build")})
          /\ graph' = [nodes |-> graph.nodes, edges |-> graph.edges \cup x \cup y]
    BY <2>2
  <2>4. graph'.nodes = graph.nodes /\ graph'.edges = graph.edges \cup x \cup y
    BY <2>3
  <2>5. PICK tasks : tasks = sdists(f) \cup backends(f) \cup {TopIn("build")}
    OBVIOUS
  <2>6. Puts(tasks) /\ TopIn("build") \in tasks /\ "build" \in Working
    BY <2>3, <2>5 DEF Working
  <2>7. Found(p, Top.req.extras, Working, InstallType, Installs(p, Top.req.extras), graph'.edges, tasks)
    BY <2>6, TopInFound
  <2>8. ASSUME NEW deps, NEW type \in BuildType, NEW r \in deps, r \in Satisfied(deps, f),
               SatisfiedEdges(p, deps, type, f) \subseteq graph'.edges
        PROVE  EdgeTo(p, BuildType, r, graph'.edges)
    <3>1. PICK e : e = [parent |-> p, type |-> type, child |-> <<r.name, f[r.name]>>]
      OBVIOUS
    <3>2. e \in graph'.edges
      BY <2>8, <3>1 DEF SatisfiedEdges
    <3>3. f[r.name] \in r.spec
      BY <2>8 DEF Satisfied
    <3> QED BY <3>1, <3>2, <3>3 DEF EdgeTo
  <2>9. "build-sdist" \in BuildType /\ "build-backend" \in BuildType
    BY DEF BuildType
  <2>10. ASSUME NEW r \in u.backend[p]
         PROVE  EdgeTo(p, BuildType, r, graph'.edges) \/ Asked(p, BuildType, r, tasks)
    <3>1. CASE r \in Satisfied(u.backend[p], f)
      BY <2>3, <2>4, <2>8, <2>9, <3>1
    <3>2. CASE r \notin Satisfied(u.backend[p], f)
      <4>1. backends(f) \subseteq tasks
        BY <2>5
      <4> QED BY <2>9, <2>10, <3>2, <4>1, RequestsAsk
    <3> QED BY <3>1, <3>2
  <2>11. ASSUME NEW r \in u.sdist[p]
         PROVE  EdgeTo(p, BuildType, r, graph'.edges) \/ Asked(p, BuildType, r, tasks)
    <3>1. CASE r \in Satisfied(u.sdist[p], f)
      BY <2>3, <2>4, <2>8, <2>9, <3>1
    <3>2. CASE r \notin Satisfied(u.sdist[p], f)
      <4>1. sdists(f) \subseteq tasks
        BY <2>5
      <4> QED BY <2>9, <2>11, <3>2, <4>1, RequestsAsk
    <3> QED BY <3>1, <3>2
  <2>12. Found(p, Top.req.extras, BeforeBackend, BuildType, u.backend[p] \cup u.sdist[p], graph'.edges, tasks)
    BY <2>10, <2>11 DEF Found, Covered
  <2>13. \A t \in tasks : t.phase = "resolve" \/ \E phase : t = TopIn(phase)
    BY <2>5, RequestsResolve
  <2> QED BY <1>1, <2>1, <2>4, <2>6, <2>7, <2>12, <2>13, WorkKeepsEdges
<1> QED BY <1>2, <1>3

LEMMA RunBuildKeepsEdges ==
  ASSUME TypeInv, EdgesInv, ~TestMode, ~MultipleVersions, RunBuild
  PROVE  EdgesInv'
<1>1. stack # <<>> /\ pc = "loop" /\ Top.phase = "build" /\ Top.phase \notin BeforeBackend
  BY BuildTasks DEF BeforeBackend
<1>2. CASE Fails(graph)
  BY <1>2, FailsAborts
<1>3. CASE Puts({TopIn("process-install-deps")}) /\ UNCHANGED <<u, pc, todo, records, exitCode>>
  <2>1. u' = u /\ pc' = pc /\ seen' = seen /\ graph' = graph
    BY <1>3 DEF records
  <2>2. "process-install-deps" \in Working
    BY DEF Working
  <2>3. Found(PkgOf(Top), Top.req.extras, Working, InstallType, Installs(PkgOf(Top), Top.req.extras),
              graph.edges, {TopIn("process-install-deps")})
    BY <2>2, TopInFound
  <2> QED BY <1>1, <1>3, <2>1, <2>3, WorkKeepsEdges
<1> QED BY <1>2, <1>3, BuildTasks

LEMMA RunProcessInstallDepsKeepsEdges ==
  ASSUME TypeInv, EdgesInv, ~TestMode, ~MultipleVersions, RunProcessInstallDeps
  PROVE  EdgesInv'
<1> DEFINE p == PkgOf(Top)
<1>1. /\ stack # <<>> /\ pc = "loop" /\ Top.phase = "process-install-deps" /\ Top.phase \notin BeforeBackend
  BY InstallDepsTasks DEF BeforeBackend
<1>2. CASE Fails(graph)
  BY <1>2, FailsAborts
<1>3. CASE ~Fails(graph)
  <2>1. /\ u' = u /\ pc' = pc /\ seen' = seen /\ graph' = graph
        /\ Puts(Requests(InstallRequirements(Top), "install", p) \cup {TopIn("complete")})
    BY <1>3, InstallDepsTasks
  <2>2. InstallRequirements(Top) = Installs(p, Top.req.extras)
    <3>1. Top.result = Top.ver
      BY <1>1, TopFits DEF FitItem, Built
    <3> QED BY <3>1 DEF InstallRequirements, Installs, PkgOf
  <2>3. PICK tasks : tasks = Requests(InstallRequirements(Top), "install", p) \cup {TopIn("complete")}
    OBVIOUS
  <2>4. \A r \in Installs(p, Top.req.extras) : Asked(p, InstallType, r, tasks)
    <3>1. "install" \in InstallType /\ Requests(Installs(p, Top.req.extras), "install", p) \subseteq tasks
      BY <2>2, <2>3 DEF InstallType
    <3> QED BY <3>1, RequestsAsk
  <2>5. Found(p, Top.req.extras, Working, InstallType, Installs(p, Top.req.extras), graph.edges, tasks)
    BY <2>4 DEF Found, Covered
  <2>6. \A t \in tasks : t.phase = "resolve" \/ \E phase : t = TopIn(phase)
    BY <2>3, RequestsResolve
  <2>7. Puts(tasks)
    BY <2>1, <2>3
  <2> QED BY <1>1, <2>1, <2>5, <2>6, <2>7, WorkKeepsEdges
<1> QED BY <1>2, <1>3

LEMMA RunCompleteKeepsEdges ==
  ASSUME TypeInv, EdgesInv, RunComplete
  PROVE  EdgesInv'
<1>1. /\ stack # <<>> /\ pc = "loop" /\ Top.phase = "complete" /\ Puts({})
      /\ UNCHANGED <<u, pc, seen, graph>>
  BY CompleteTasks DEF records
<1>2. Top.phase \notin Working /\ Top.phase \notin BeforeBackend
  BY <1>1 DEF Working, BeforeBackend
<1> QED BY <1>1, <1>2, WorkKeepsEdges

LEMMA ResolveTopLevelKeepsEdges ==
  ASSUME TypeInv, EdgesInv, ~MultipleVersions, ResolveTopLevel
  PROVE  EdgesInv'
<1> DEFINE r     == Head(todo)
           found == {<<r.name, v>> :
                       v \in IF MultipleVersions THEN Candidates(r) ELSE {Highest(Candidates(r))}}
<1>1. /\ pc = "top-level" /\ Tasks' = {TopRequest(r)} \cup Tasks
      /\ pc' \in {"loop", "top-level"}
      /\ graph'.nodes = graph.nodes \cup found /\ graph.edges \subseteq graph'.edges
      /\ UNCHANGED <<u, seen>>
  BY TopLevelTasks
<1>2. r \in Req
  BY <1>1 DEF TypeInv, LoopTypeOK
<1>3. PICK t : t = TopRequest(r)
  OBVIOUS
<1>4. t.phase = "resolve" /\ t.req = r /\ t.type = "toplevel"
  BY <1>3 DEF TopRequest
<1>5. \A q \in found : q[1] = r.name /\ q[2] \in Starts(Offered[r])
  BY <1>2 DEF Starts, Offered
<1> HIDE DEF r, found
<1>6. \A q \in found : Expects(q, Tasks', Offered)
  BY <1>1, <1>3, <1>4, <1>5 DEF Expects
<1>7. \A q : Expects(q, Tasks, Offered) => Expects(q, Tasks', Offered)
  BY <1>1 DEF Expects
<1>8. ASSUME NEW q, NEW extras, NEW phases, NEW types, NEW reqs,
             Found(q, extras, phases, types, reqs, graph.edges, Tasks)
      PROVE  Found(q, extras, phases, types, reqs, graph'.edges, Tasks')
  BY <1>1, <1>8 DEF Found, IsIn, Covered, Asked, EdgeTo
<1>9. \A k \in seen : AllFound(<<k[1], k[3]>>, k[2], graph'.edges, Tasks')
  <2> SUFFICES ASSUME NEW k \in seen PROVE AllFound(<<k[1], k[3]>>, k[2], graph'.edges, Tasks')
    OBVIOUS
  <2>1. AllFound(<<k[1], k[3]>>, k[2], graph.edges, Tasks)
    BY <1>1 DEF EdgesInv
  <2> QED BY <1>8, <2>1 DEF AllFound
<1>10. (\A k \in seen : AllFound(<<k[1], k[3]>>, k[2], graph.edges, Tasks))'
  BY <1>1, <1>9 DEF AllFound, Installs
<1>11. \A q \in graph'.nodes \ {ROOT} : Expects(q, Tasks', Offered') \/ Marked(q, seen')
  BY <1>1, <1>6, <1>7, OfferedStays DEF EdgesInv
<1>12. \A s \in Tasks' : s.phase # "resolve" => s.ver \in s.req.spec
  BY <1>1, <1>3, <1>4 DEF EdgesInv
<1> QED BY <1>1, <1>10, <1>11, <1>12 DEF EdgesInv

LEMMA EdgesStay ==
  ASSUME EdgesInv, Tasks' = Tasks, UNCHANGED <<u, pc, records>>
  PROVE  EdgesInv'
<1>1. seen' = seen /\ graph' = graph /\ u' = u /\ pc' = pc /\ Offered' = Offered
  BY OfferedStays DEF records
<1>2. pc # "aborted" => (\A k \in seen : AllFound(<<k[1], k[3]>>, k[2], graph.edges, Tasks))'
  BY <1>1 DEF EdgesInv, AllFound, Installs
<1> QED BY <1>1, <1>2 DEF EdgesInv

LEMMA EdgesStep ==
  TypeInv /\ NodesInv /\ EdgesInv /\ ~TestMode /\ ~MultipleVersions /\ [Next]_vars => EdgesInv'
<1> SUFFICES ASSUME TypeInv, NodesInv, EdgesInv, ~TestMode, ~MultipleVersions, [Next]_vars
             PROVE  EdgesInv'
  OBVIOUS
<1>1. CASE ResolveTopLevel
  BY <1>1, ResolveTopLevelKeepsEdges
<1>2. CASE FailTopLevel
  <2>1. pc' = "aborted"
    BY <1>2 DEF FailTopLevel
  <2> QED BY <2>1 DEF EdgesInv
<1>3. CASE \E i \in DOMAIN stack : FinishResolution(i) \/ FetchSource(i)
  BY <1>3, ThreadTasks, EdgesStay
<1>4. CASE RunItem
  BY <1>4, RunResolveKeepsEdges, RunStartKeepsEdges, RunPrepareSourceKeepsEdges,
     RunPrepareBuildKeepsEdges, RunBuildKeepsEdges, RunProcessInstallDepsKeepsEdges,
     RunCompleteKeepsEdges DEF RunItem
<1>5. CASE Finalize
  <2>1. /\ stack = <<>> /\ pc' = "finalized" /\ pc = "loop"
        /\ seen' = seen /\ graph' = graph /\ u' = u /\ Offered' = Offered
        /\ UNCHANGED stack
    BY <1>5, OfferedStays DEF Finalize, records
  <2>2. Tasks = {} /\ Tasks' = Tasks
    BY <2>1, TasksOfShort DEF Tasks
  <2>3. (\A k \in seen : AllFound(<<k[1], k[3]>>, k[2], graph.edges, Tasks))'
    BY <2>1, <2>2 DEF EdgesInv, AllFound, Installs
  <2> QED BY <2>1, <2>2, <2>3 DEF EdgesInv
<1>6. CASE UNCHANGED vars
  BY <1>6, EdgesStay DEF vars, Tasks
<1> QED BY <1>1, <1>2, <1>3, <1>4, <1>5, <1>6 DEF Next

(* Outside test mode, with one version of each requirement, the graph of a run   *)
(* that ends has an edge for every requirement of every package in it: for the   *)
(* build requirements of what was built and for what each installs, with its     *)
(* extras if they were asked for (Start.run, PrepareBuild.run,                  *)
(* ProcessInstallDeps.run).                                                   *)
THEOREM EveryEdgeIsRecorded ==
  ASSUME ~TestMode, ~MultipleVersions PROVE Spec => []EdgesRecorded
<1>1. Init => EdgesInv
  BY TasksOfShort DEF Init, EdgesInv, Tasks, EmptyGraph
<1>2. TypeInv /\ EdgesInv => EdgesRecorded
  <2> SUFFICES ASSUME TypeInv, EdgesInv, pc = "finalized",
                      NEW p \in graph.nodes \ (failedVersions \cup {ROOT})
               PROVE  /\ \A r \in u.install[p] \cup (IF WithExtras(p) THEN u.extra[p] ELSE {}) :
                           HasEdge(p, InstallType, r)
                      /\ p[1] \notin u.prebuilt => \A r \in BuildRequires(p) : HasEdge(p, BuildType, r)
    BY DEF EdgesRecorded
  <2>1. Tasks = {} /\ \A k \in seen : AllFound(<<k[1], k[3]>>, k[2], graph.edges, {})
    BY DEF EdgesInv
  <2>2. ASSUME NEW q, NEW extras, NEW phases, NEW types, NEW reqs, NEW r \in reqs,
               Found(q, extras, phases, types, reqs, graph.edges, {})
        PROVE  HasEdge(q, types, r)
    BY <2>2 DEF Found, IsIn, Covered, Asked, EdgeTo, HasEdge
  <2>3. PICK k \in seen : p = <<k[1], k[3]>>
    BY <2>1 DEF EdgesInv, Expects, Marked
  <2>4. AllFound(p, k[2], graph.edges, {})
    BY <2>1, <2>3
  <2>5. \A r \in u.install[p] : HasEdge(p, InstallType, r)
    BY <2>2, <2>4 DEF AllFound, Installs
  <2>6. ASSUME WithExtras(p) PROVE \A r \in u.extra[p] : HasEdge(p, InstallType, r)
    <3>1. PICK t \in {"sdist", "wheel"} : <<p[1], TRUE, p[2], t>> \in seen
      BY <2>6 DEF WithExtras
    <3>2. PICK x : x = <<p[1], TRUE, p[2], t>>
      OBVIOUS
    <3>3. x \in seen /\ x[2] = TRUE /\ <<x[1], x[3]>> = p
      BY <2>3, <3>1, <3>2
    <3>4. AllFound(p, TRUE, graph.edges, {})
      BY <2>1, <3>3
    <3> QED BY <2>2, <3>4 DEF AllFound, Installs
  <2>7. p[1] \notin u.prebuilt => \A r \in BuildRequires(p) : HasEdge(p, BuildType, r)
    BY <2>2, <2>4 DEF AllFound, BuildRequires
  <2> QED BY <2>5, <2>6, <2>7
<1>3. KeepsNodes
  BY DEF KeepsNodes
<1>4. Spec => []NodesInv
  BY <1>3, NodesAreInvariant
<1>5. TypeInv /\ NodesInv /\ EdgesInv /\ [Next]_vars => EdgesInv'
  BY EdgesStep
<1> QED BY <1>1, <1>2, <1>4, <1>5, TypeIsInvariant, PTL DEF Spec

-----------------------------------------------------------------------------
(* BuildSystemVersionKept, outside test mode with one version of each           *)
(* requirement: a package waits for its backend requirements below its build    *)
(* system requirements, so that the edges of these are all there, once and for  *)
(* all, when those are compared with them.                                    *)
Asking == {"resolve", "start"}

Later == {"build-backend", "build-sdist"}

(* The edge that each build system requirement of a package ends as.          *)
SystemEdges ==
  [p \in Pkg |-> [r \in u.system[p] |->
     [parent |-> p, type |-> "build-system", child |-> <<r.name, Highest(Offered[r])>>]]]

SystemDone(p, edges, systems) == \A r \in DOMAIN systems[p] : systems[p][r] \in edges

SystemsOf(p, n, edges) ==
  {e.child[2] : e \in {e \in edges : e.parent = p /\ e.type = "build-system" /\ e.child[1] = n}}

Unsatisfied(p, r, edges) ==
  \/ r.extras
  \/ SystemsOf(p, r.name, edges) = {}
  \/ ~(SystemsOf(p, r.name, edges) \subseteq r.spec)

AskFits(t, edges, systems) ==
  t.phase \in Asking =>
    /\ t.type = "build-system" =>
         /\ t.parent \in Pkg /\ t.req \in DOMAIN systems[t.parent]
         /\ t.phase = "start" => PkgOf(t) = systems[t.parent][t.req].child
    /\ t.type \in Later =>
         /\ t.parent \in Pkg /\ SystemDone(t.parent, edges, systems)
         /\ t.req \in u.backend[t.parent] \cup u.sdist[t.parent]
         /\ t.phase = "start" => t.ver \in t.req.spec
         /\ Unsatisfied(t.parent, t.req, edges)

EdgeFits(e, edges, systems) ==
  /\ e.type = "build-system" =>
       e.parent \in Pkg /\ \E r \in DOMAIN systems[e.parent] : e = systems[e.parent][r]
  /\ e.type \in Later =>
       /\ e.parent \in Pkg /\ SystemDone(e.parent, edges, systems)
       /\ \/ e.child[2] \in SystemsOf(e.parent, e.child[1], edges)
          \/ \E r \in u.backend[e.parent] \cup u.sdist[e.parent] :
               r.name = e.child[1] /\ e.child[2] \in r.spec /\ Unsatisfied(e.parent, r, edges)

AsksSystem(t, p, r) ==
  t.phase \in Asking /\ t.type = "build-system" /\ t.parent = p /\ t.req = r

(* Every item that waits has what it waits for in the graph or above it.       *)
Waits(s, edges, systems) ==
  \A i \in DOMAIN s : s[i].phase = "prepare-build" =>
    \A r \in DOMAIN systems[PkgOf(s[i])] :
      \/ systems[PkgOf(s[i])][r] \in edges
      \/ \E j \in DOMAIN s : j < i /\ AsksSystem(Task(s[j]), PkgOf(s[i]), r)

KeptInv ==
  /\ \A e \in graph.edges : EdgeFits(e, graph.edges, SystemEdges)
  /\ pc # "aborted" =>
       /\ \A t \in Tasks : AskFits(t, graph.edges, SystemEdges)
       /\ Waits(stack, graph.edges, SystemEdges)

LEMMA SystemEdgesStay == UNCHANGED u => SystemEdges' = SystemEdges
<1> SUFFICES ASSUME UNCHANGED u PROVE SystemEdges' = SystemEdges
  OBVIOUS
<1>1. Offered' = Offered
  BY OfferedStays
<1> QED BY <1>1, Zenon DEF SystemEdges

LEMMA SystemEdgesOf ==
  ASSUME NEW p \in Pkg
  PROVE  /\ DOMAIN SystemEdges[p] = u.system[p]
         /\ \A r \in u.system[p] :
              SystemEdges[p][r] = [parent |-> p, type |-> "build-system",
                                   child |-> <<r.name, Highest(Offered[r])>>]
  BY DEF SystemEdges

(* When all the edges of its build system are there, no other comes.           *)
LEMMA SystemsAreFinal ==
  ASSUME NEW edges, NEW more, edges \subseteq more, NEW systems, NEW p, SystemDone(p, edges, systems),
         \A e \in more : EdgeFits(e, more, systems)
  PROVE  \A n : SystemsOf(p, n, more) = SystemsOf(p, n, edges)
<1>1. \A e \in more : e.type = "build-system" /\ e.parent = p => e \in edges
  BY DEF EdgeFits, SystemDone
<1> QED BY <1>1 DEF SystemsOf

LEMMA AskFitsStays ==
  ASSUME NEW edges, NEW more, edges \subseteq more, NEW systems,
         \A e \in more : EdgeFits(e, more, systems), NEW t, AskFits(t, edges, systems)
  PROVE  AskFits(t, more, systems)
<1>1. ASSUME t.phase \in Asking, t.type \in Later PROVE Unsatisfied(t.parent, t.req, more)
  <2>1. SystemDone(t.parent, edges, systems) /\ Unsatisfied(t.parent, t.req, edges)
    BY <1>1 DEF AskFits
  <2>2. SystemsOf(t.parent, t.req.name, more) = SystemsOf(t.parent, t.req.name, edges)
    BY <2>1, SystemsAreFinal
  <2> QED BY <2>1, <2>2 DEF Unsatisfied
<1> QED BY <1>1 DEF AskFits, SystemDone

(* Edges fit when more edges come that fit their build systems.               *)
LEMMA EdgesFit ==
  ASSUME NEW edges, NEW more, edges \subseteq more, NEW systems,
         \A e \in edges : EdgeFits(e, edges, systems),
         \A e \in more \ edges : e.type = "build-system" =>
           e.parent \in Pkg /\ \E r \in DOMAIN systems[e.parent] : e = systems[e.parent][r],
         \A e \in more \ edges : e.type \in Later =>
           /\ e.parent \in Pkg /\ SystemDone(e.parent, edges, systems)
           /\ \/ e.child[2] \in SystemsOf(e.parent, e.child[1], edges)
              \/ \E r \in u.backend[e.parent] \cup u.sdist[e.parent] :
                   r.name = e.child[1] /\ e.child[2] \in r.spec /\ Unsatisfied(e.parent, r, edges)
  PROVE  \A e \in more : EdgeFits(e, more, systems)
<1>1. \A e \in more : e.type = "build-system" =>
        e.parent \in Pkg /\ \E r \in DOMAIN systems[e.parent] : e = systems[e.parent][r]
  BY DEF EdgeFits
<1>2. ASSUME NEW q, SystemDone(q, edges, systems)
      PROVE  \A n : SystemsOf(q, n, more) = SystemsOf(q, n, edges)
  <2>1. \A e \in more : e.type = "build-system" /\ e.parent = q => e \in edges
    BY <1>1, <1>2 DEF SystemDone
  <2> QED BY <2>1 DEF SystemsOf
<1>3. ASSUME NEW e \in more, e.type \in Later
      PROVE  /\ e.parent \in Pkg /\ SystemDone(e.parent, more, systems)
             /\ \/ e.child[2] \in SystemsOf(e.parent, e.child[1], more)
                \/ \E r \in u.backend[e.parent] \cup u.sdist[e.parent] :
                     r.name = e.child[1] /\ e.child[2] \in r.spec /\ Unsatisfied(e.parent, r, more)
  <2>1. /\ e.parent \in Pkg /\ SystemDone(e.parent, edges, systems)
        /\ \/ e.child[2] \in SystemsOf(e.parent, e.child[1], edges)
           \/ \E r \in u.backend[e.parent] \cup u.sdist[e.parent] :
                r.name = e.child[1] /\ e.child[2] \in r.spec /\ Unsatisfied(e.parent, r, edges)
    BY <1>3 DEF EdgeFits
  <2>2. SystemDone(e.parent, more, systems)
    BY <2>1 DEF SystemDone
  <2>3. \A n : SystemsOf(e.parent, n, more) = SystemsOf(e.parent, n, edges)
    BY <1>2, <2>1
  <2> QED BY <2>1, <2>2, <2>3 DEF Unsatisfied
<1> QED BY <1>1, <1>3 DEF EdgeFits

(* What waits below the top of the stack waits still when the top goes on.      *)
LEMMA WaitsBelow ==
  ASSUME TypeInv, stack # <<>>, NEW edges, NEW systems, Waits(stack, graph.edges, systems),
         graph.edges \subseteq edges, NEW items \in Seq(FitItem), Ordered(items),
         Top.phase = "resolve" => \E v : Becomes("start", v) \in TasksOf(items),
         Top.phase = "start" /\ Top.type = "build-system" /\ Top.parent \in Pkg
           /\ Top.req \in DOMAIN systems[Top.parent] => systems[Top.parent][Top.req] \in edges,
         \A t \in TasksOf(items) : t.phase = "prepare-build" =>
           /\ PkgOf(t) \in Pkg
           /\ \A r \in DOMAIN systems[PkgOf(t)] : \E s \in TasksOf(items) : AsksSystem(s, PkgOf(t), r)
  PROVE  Waits(Push(items), edges, systems)
<1>1. /\ stack \in Seq(FitItem) /\ Tail(stack) \in Seq(FitItem)
      /\ Push(items) = items \o Tail(stack)
      /\ DOMAIN items = 1..Len(items) /\ Len(items) \in Nat
  BY DEF TypeInv, LoopTypeOK, Push
<1>2. PICK rest : rest = Tail(stack)
  OBVIOUS
<1>3. /\ rest \in Seq(FitItem) /\ Len(rest) \in Nat /\ Len(stack) = Len(rest) + 1
      /\ \A j \in 1..Len(rest) : rest[j] = stack[j + 1]
      /\ stack[1] = Top
  BY <1>1, <1>2 DEF Top
<1>4. PICK new : new = Push(items)
  OBVIOUS
<1>5. /\ new = items \o rest /\ DOMAIN new = 1..(Len(items) + Len(rest))
      /\ \A j \in 1..Len(items) : new[j] = items[j]
      /\ \A j \in 1..Len(rest) : new[Len(items) + j] = rest[j]
  BY <1>1, <1>2, <1>3, <1>4
<1>6. ASSUME NEW i \in 1..Len(items), items[i].phase = "prepare-build",
             NEW r \in DOMAIN systems[PkgOf(items[i])]
      PROVE  \E j \in DOMAIN new : j < i /\ AsksSystem(Task(new[j]), PkgOf(items[i]), r)
  <2>1. PICK t : t = Task(items[i])
    OBVIOUS
  <2>2. t \in TasksOf(items) /\ t.phase = "prepare-build" /\ PkgOf(t) = PkgOf(items[i])
    BY <1>1, <1>6, <2>1, TaskFields DEF TasksOf
  <2>3. PICK s \in TasksOf(items) : AsksSystem(s, PkgOf(items[i]), r)
    BY <1>6, <2>2
  <2>4. PICK j \in 1..Len(items) : s = Task(items[j])
    BY <1>1, <2>3 DEF TasksOf
  <2>5. i = Len(items)
    BY <1>1, <1>6 DEF Ordered
  <2>6. j # i
    BY <1>6, <2>3, <2>4, TaskFields DEF AsksSystem, Asking
  <2>7. j < i
    <3>1. PICK n : n = Len(items)
      OBVIOUS
    <3>2. n \in Nat
      BY <1>1, <3>1
    <3>3. i = n /\ j \in 1..n
      BY <2>4, <2>5, <3>1
    <3> QED BY ONLY <2>6, <3>2, <3>3
  <2>8. j \in DOMAIN new /\ new[j] = items[j]
    BY <1>1, <1>3, <1>5
  <2> QED BY <2>3, <2>4, <2>7, <2>8
<1>7. ASSUME NEW i \in 1..Len(rest), rest[i].phase = "prepare-build",
             NEW r \in DOMAIN systems[PkgOf(rest[i])], systems[PkgOf(rest[i])][r] \notin edges
      PROVE  \E j \in DOMAIN new : j < Len(items) + i /\ AsksSystem(Task(new[j]), PkgOf(rest[i]), r)
  <2>1. i + 1 \in DOMAIN stack /\ stack[i + 1] = rest[i]
    BY <1>1, <1>3
  <2>2. PICK q : q = PkgOf(rest[i])
    OBVIOUS
  <2>3. systems[q][r] \notin graph.edges
    BY <1>7, <2>2
  <2>4. PICK j \in DOMAIN stack : j < i + 1 /\ AsksSystem(Task(stack[j]), q, r)
    BY <1>7, <2>1, <2>2, <2>3 DEF Waits
  <2>5. CASE j # 1
    <3>1. PICK k \in 1..Len(rest) : j = k + 1 /\ k < i
      <4>1. j - 1 \in 1..Len(rest) /\ j = (j - 1) + 1 /\ j - 1 < i
        BY <1>1, <1>3, <2>4, <2>5 DEF TypeInv, LoopTypeOK
      <4> QED BY <4>1
    <3>2. rest[k] = stack[j]
      BY <1>3, <3>1
    <3>3. Len(items) + k \in DOMAIN new
      BY <1>1, <1>3, <1>5
    <3>4. new[Len(items) + k] = stack[j]
      BY <1>5, <3>2
    <3>5. Len(items) + k < Len(items) + i
      BY <1>1, <1>3, <3>1
    <3> QED BY <2>2, <2>4, <3>3, <3>4, <3>5
  <2>6. CASE j = 1
    <3>1. AsksSystem(Task(Top), q, r)
      BY <1>3, <2>4, <2>6
    <3>2. /\ Top.phase \in Asking /\ Top.type = "build-system" /\ Top.parent = q /\ Top.req = r
      BY <3>1, TaskFields DEF AsksSystem
    <3>3. q \in Pkg
      <4>1. rest[i] \in FitItem /\ rest[i].phase # "resolve"
        BY <1>3, <1>7
      <4> QED BY <2>2, <4>1, ItemFields
    <3>4. Top.phase = "resolve"
      BY <1>7, <2>2, <3>2, <3>3 DEF Asking
    <3>5. PICK v : Becomes("start", v) \in TasksOf(items)
      BY <3>4
    <3>6. PICK t : t = Becomes("start", v)
      OBVIOUS
    <3>7. AsksSystem(t, q, r)
      BY <3>2, <3>6 DEF AsksSystem, Becomes, Asking
    <3>8. PICK k \in 1..Len(items) : t = Task(items[k])
      BY <1>1, <3>5, <3>6 DEF TasksOf
    <3>9. k \in DOMAIN new /\ new[k] = items[k] /\ k < Len(items) + i
      BY <1>1, <1>3, <1>5, <3>8
    <3> QED BY <2>2, <3>7, <3>8, <3>9
  <2> QED BY <2>5, <2>6
<1>8. ASSUME NEW i \in DOMAIN new, new[i].phase = "prepare-build",
             NEW r \in DOMAIN systems[PkgOf(new[i])], systems[PkgOf(new[i])][r] \notin edges
      PROVE  \E j \in DOMAIN new : j < i /\ AsksSystem(Task(new[j]), PkgOf(new[i]), r)
  <2>1. CASE i \in 1..Len(items)
    <3>1. new[i] = items[i]
      BY <1>5, <2>1
    <3> QED BY <1>6, <1>8, <2>1, <3>1
  <2>2. CASE i \notin 1..Len(items)
    <3>1. PICK k \in 1..Len(rest) : i = Len(items) + k
      <4>1. i - Len(items) \in 1..Len(rest) /\ i = Len(items) + (i - Len(items))
        BY <1>1, <1>3, <1>5, <2>2
      <4> QED BY <4>1
    <3>2. new[i] = rest[k]
      BY <1>5, <3>1
    <3> QED BY <1>7, <1>8, <3>1, <3>2
  <2> QED BY <2>1, <2>2
<1>9. Waits(new, edges, systems)
  BY <1>8 DEF Waits
<1> QED BY <1>4, <1>9

(* What a step of the loop does that keeps KeptInv.                           *)
LEMMA PutsKeepsSystems ==
  ASSUME TypeInv, KeptInv, stack # <<>>, pc = "loop", NEW tasks, Puts(tasks), u' = u,
         graph.edges \subseteq graph'.edges,
         \A e \in graph'.edges : EdgeFits(e, graph'.edges, SystemEdges),
         \A t \in tasks : AskFits(t, graph'.edges, SystemEdges),
         Top.phase = "resolve" => \E v : Becomes("start", v) \in tasks,
         Top.phase = "start" /\ Top.type = "build-system" /\ Top.parent \in Pkg
           /\ Top.req \in DOMAIN SystemEdges[Top.parent] =>
             SystemEdges[Top.parent][Top.req] \in graph'.edges,
         \A t \in tasks : t.phase = "prepare-build" =>
           /\ PkgOf(t) \in Pkg
           /\ \A r \in DOMAIN SystemEdges[PkgOf(t)] : \E s \in tasks : AsksSystem(s, PkgOf(t), r)
  PROVE  KeptInv'
<1>1. Tasks = {Task(Top)} \cup Rest /\ Tasks' = tasks \cup Rest
  BY PutsTasks
<1>2. \A t \in Rest : AskFits(t, graph'.edges, SystemEdges)
  <2>1. \A t \in Rest : AskFits(t, graph.edges, SystemEdges)
    BY <1>1 DEF KeptInv
  <2> QED BY <2>1, AskFitsStays
<1>3. \A t \in Tasks' : AskFits(t, graph'.edges, SystemEdges)
  BY <1>1, <1>2
<1>4. PICK items \in Seq(FitItem) : stack' = Push(items) /\ Ordered(items) /\ TasksOf(items) = tasks
  BY DEF Puts
<1>5. Waits(stack, graph.edges, SystemEdges)
  BY DEF KeptInv
<1>6. Waits(stack', graph'.edges, SystemEdges)
  BY <1>4, <1>5, WaitsBelow
<1>7. SystemEdges' = SystemEdges
  BY SystemEdgesStay
<1>8. (\A e \in graph.edges : EdgeFits(e, graph.edges, SystemEdges))'
  BY <1>7 DEF EdgeFits
<1>9. (\A t \in Tasks : AskFits(t, graph.edges, SystemEdges))'
  BY <1>3, <1>7 DEF AskFits
<1> QED BY <1>6, <1>7, <1>8, <1>9 DEF KeptInv

(* A step of a phase after those in which a requirement is asked for.           *)
LEMMA WorkKeepsSystems ==
  ASSUME TypeInv, KeptInv, pc = "loop", stack # <<>>, Top.phase \notin Asking, NEW tasks, Puts(tasks),
         UNCHANGED <<u, graph>>, \A t \in tasks : t.phase # "prepare-build",
         \A t \in tasks : t.phase \in Asking => t.type \notin {"build-system"} \cup Later
  PROVE  KeptInv'
<1>1. \A t \in tasks : AskFits(t, graph'.edges, SystemEdges)
  BY DEF AskFits
<1>2. \A e \in graph'.edges : EdgeFits(e, graph'.edges, SystemEdges)
  BY DEF KeptInv
<1>3. Top.phase # "resolve" /\ Top.phase # "start"
  BY DEF Asking
<1> QED BY <1>1, <1>2, <1>3, PutsKeepsSystems

(* A run that stops keeps the edges that it has.                              *)
LEMMA EndKeepsSystems ==
  ASSUME KeptInv, UNCHANGED u, graph'.edges = graph.edges, pc' = "aborted"
  PROVE  KeptInv'
<1>1. (\A e \in graph.edges : EdgeFits(e, graph.edges, SystemEdges))'
  BY SystemEdgesStay DEF KeptInv, EdgeFits
<1> QED BY <1>1 DEF KeptInv

LEMMA RunResolveKeepsSystems ==
  ASSUME TypeInv, NodesInv, KeptInv, ~TestMode, ~MultipleVersions, RunResolve
  PROVE  KeptInv'
<1>1. /\ stack # <<>> /\ pc = "loop" /\ Top.phase = "resolve"
      /\ UNCHANGED <<u, graph>> /\ Top.req \in Req
  BY ResolveTasks, TopFits
<1>2. Usable(Top.req) = Candidates(Top.req)
  BY <1>1, CandidateVersions DEF Usable, NodesInv
<1>3. CASE /\ Puts({Becomes("start", v) : v \in {Highest(Usable(Top.req))}})
           /\ Usable(Top.req) # {} /\ pc' = pc
  <2>1. PICK v : v = Highest(Usable(Top.req)) /\ v \in Top.req.spec
    BY <1>1, <1>2, <1>3, CandidateVersions
  <2>2. PICK t : t = Becomes("start", v)
    OBVIOUS
  <2>3. {Becomes("start", w) : w \in {Highest(Usable(Top.req))}} = {t}
    BY <2>1, <2>2
  <2>4. /\ t.phase = "start" /\ t.ver = v /\ t.req = Top.req /\ t.type = Top.type
        /\ t.parent = Top.parent
    BY <2>2 DEF Becomes
  <2>5. v = Highest(Offered[Top.req])
    BY <1>1, <1>2, <2>1 DEF Offered
  <2>6. AskFits(Task(Top), graph.edges, SystemEdges)
    BY <1>1, TasksBelow DEF KeptInv
  <2>7. ASSUME t.type = "build-system"
        PROVE  /\ t.parent \in Pkg /\ t.req \in DOMAIN SystemEdges[t.parent]
               /\ PkgOf(t) = SystemEdges[t.parent][t.req].child
    <3>1. t.parent \in Pkg /\ t.req \in DOMAIN SystemEdges[t.parent]
      BY <1>1, <2>4, <2>6, <2>7, TaskFields DEF AskFits, Asking
    <3>2. SystemEdges[t.parent][t.req] =
            [parent |-> t.parent, type |-> "build-system", child |-> <<t.req.name, Highest(Offered[t.req])>>]
      BY <3>1, SystemEdgesOf
    <3> QED BY <2>4, <2>5, <3>1, <3>2 DEF PkgOf
  <2>8. ASSUME t.type \in Later
        PROVE  /\ t.parent \in Pkg /\ SystemDone(t.parent, graph.edges, SystemEdges)
               /\ t.req \in u.backend[t.parent] \cup u.sdist[t.parent]
               /\ Unsatisfied(t.parent, t.req, graph.edges)
    BY <1>1, <2>4, <2>6, <2>8, TaskFields DEF AskFits, Asking
  <2>9. AskFits(t, graph.edges, SystemEdges)
    BY <2>1, <2>4, <2>7, <2>8 DEF AskFits
  <2>10. \A e \in graph.edges : EdgeFits(e, graph.edges, SystemEdges)
    BY DEF KeptInv
  <2> QED BY <1>1, <1>3, <2>2, <2>3, <2>4, <2>9, <2>10, PutsKeepsSystems
<1>4. CASE pc' = "aborted"
  BY <1>1, <1>4, EndKeepsSystems
<1> QED BY <1>3, <1>4, ResolveTasks

LEMMA RunStartKeepsSystems ==
  ASSUME TypeInv, NodesInv, KeptInv, ~TestMode, ~MultipleVersions, RunStart
  PROVE  KeptInv'
<1>1. /\ stack # <<>> /\ pc = "loop" /\ Top.phase = "start" /\ UNCHANGED u
  BY StartTasks
<1>2. Top.type = "toplevel" => AddToGraph(Top) = graph
  BY DEF AddToGraph
<1> DEFINE e == [parent |-> Top.parent, type |-> Top.type, child |-> PkgOf(Top)]
<1>3. Top.type # "toplevel" =>
        /\ Top.parent \in AddToGraph(Top).nodes => AddToGraph(Top).edges = graph.edges \cup {e}
        /\ Top.parent \notin AddToGraph(Top).nodes => AddToGraph(Top).edges = graph.edges
  <2> SUFFICES ASSUME Top.type # "toplevel"
               PROVE  /\ Top.parent \in AddToGraph(Top).nodes => AddToGraph(Top).edges = graph.edges \cup {e}
                      /\ Top.parent \notin AddToGraph(Top).nodes => AddToGraph(Top).edges = graph.edges
    OBVIOUS
  <2>1. PICK q, n, type : q = PkgOf(Top) /\ n = Top.parent /\ type = Top.type
    OBVIOUS
  <2>2. graph = [nodes |-> graph.nodes, edges |-> graph.edges]
    BY GraphIsThere DEF Graph
  <2>3. AddNode(graph, q) = [nodes |-> graph.nodes \cup {q}, edges |-> graph.edges]
    BY <2>2 DEF AddNode
  <2>4. AddToGraph(Top) = AddDependency(graph, n, type, q)
    BY <2>1 DEF AddToGraph
  <2>5. AddToGraph(Top) =
          IF n \in graph.nodes \cup {q}
            THEN [nodes |-> graph.nodes \cup {q},
                  edges |-> graph.edges \cup {[parent |-> n, type |-> type, child |-> q]}]
            ELSE [nodes |-> graph.nodes \cup {q}, edges |-> graph.edges]
    BY <2>3, <2>4 DEF AddDependency, ParentExists
  <2> QED BY <2>1, <2>5
<1>4. CASE Fails(AddToGraph(Top)) /\ Top.type # "toplevel" /\ Top.parent \notin AddToGraph(Top).nodes
  <2>1. pc' = "aborted" /\ graph'.edges = graph.edges
    BY <1>3, <1>4 DEF Fails
  <2> QED BY <1>1, <2>1, EndKeepsSystems
<1>5. CASE /\ Top.type = "toplevel" \/ Top.parent \in AddToGraph(Top).nodes
           /\ graph' = AddToGraph(Top) /\ pc' = pc
           /\ Puts({}) \/ Puts({TopIn("prepare-source")})
  <2>1. AskFits(Task(Top), graph.edges, SystemEdges)
    BY <1>1, TasksBelow DEF KeptInv
  <2>2. /\ graph.edges \subseteq graph'.edges /\ graph'.edges \subseteq graph.edges \cup {e}
        /\ Top.type # "toplevel" => e \in graph'.edges
        /\ Top.type = "toplevel" => graph'.edges = graph.edges
    BY <1>2, <1>3, <1>5
  <2>3. e.parent = Top.parent /\ e.type = Top.type /\ e.child = PkgOf(Top)
    OBVIOUS
  <2>4. ASSUME Top.type = "build-system"
        PROVE  /\ Top.parent \in Pkg /\ Top.req \in DOMAIN SystemEdges[Top.parent]
               /\ e = SystemEdges[Top.parent][Top.req]
    <3>1. /\ Top.parent \in Pkg /\ Top.req \in DOMAIN SystemEdges[Top.parent]
          /\ PkgOf(Top) = SystemEdges[Top.parent][Top.req].child
      BY <1>1, <2>1, <2>4, TaskFields DEF AskFits, Asking
    <3>2. SystemEdges[Top.parent][Top.req] =
            [parent |-> Top.parent, type |-> "build-system",
             child |-> <<Top.req.name, Highest(Offered[Top.req])>>]
      BY <3>1, SystemEdgesOf
    <3> QED BY <2>4, <3>1, <3>2
  <2>5. ASSUME Top.type \in Later
        PROVE  /\ Top.parent \in Pkg /\ SystemDone(Top.parent, graph.edges, SystemEdges)
               /\ Top.req \in u.backend[Top.parent] \cup u.sdist[Top.parent]
               /\ Top.req.name = e.child[1] /\ e.child[2] \in Top.req.spec
               /\ Unsatisfied(Top.parent, Top.req, graph.edges)
    BY <1>1, <2>1, <2>5, TaskFields DEF AskFits, Asking, PkgOf
  <2>6. \A d \in graph'.edges \ graph.edges : d = e
    BY <2>2
  <2>7. \A d \in graph'.edges \ graph.edges : d.type = "build-system" =>
          d.parent \in Pkg /\ \E r \in DOMAIN SystemEdges[d.parent] : d = SystemEdges[d.parent][r]
    <3> HIDE DEF e
    <3> QED BY <2>3, <2>4, <2>6
  <2>8. \A d \in graph'.edges \ graph.edges : d.type \in Later =>
          /\ d.parent \in Pkg /\ SystemDone(d.parent, graph.edges, SystemEdges)
          /\ \/ d.child[2] \in SystemsOf(d.parent, d.child[1], graph.edges)
             \/ \E r \in u.backend[d.parent] \cup u.sdist[d.parent] :
                  r.name = d.child[1] /\ d.child[2] \in r.spec /\ Unsatisfied(d.parent, r, graph.edges)
    <3> HIDE DEF e
    <3> QED BY <2>3, <2>5, <2>6
  <2>9. \A d \in graph.edges : EdgeFits(d, graph.edges, SystemEdges)
    BY DEF KeptInv
  <2>10. \A d \in graph'.edges : EdgeFits(d, graph'.edges, SystemEdges)
    BY <2>2, <2>7, <2>8, <2>9, EdgesFit
  <2>11. PICK tasks \in {{}, {TopIn("prepare-source")}} : Puts(tasks)
    BY <1>5
  <2>12. \A t \in tasks : t.phase = "prepare-source"
    BY <2>11 DEF TopIn, Becomes
  <2>13. \A t \in tasks : AskFits(t, graph'.edges, SystemEdges)
    BY <2>12 DEF AskFits, Asking
  <2>14. Top.type = "build-system" => SystemEdges[Top.parent][Top.req] \in graph'.edges
    <3> HIDE DEF e
    <3> QED BY <2>2, <2>4
  <2> HIDE DEF e
  <2> QED BY <1>1, <2>2, <2>10, <2>11, <2>12, <2>13, <2>14, PutsKeepsSystems
<1> QED BY <1>4, <1>5, StartTasks

LEMMA RequestFields ==
  \A reqs, type, p : \A t \in Requests(reqs, type, p) :
    t.phase = "resolve" /\ t.req \in reqs /\ t.type = type /\ t.parent = p
  BY DEF Requests

LEMMA RequestIsIn ==
  ASSUME NEW reqs, NEW r \in reqs, NEW p
  PROVE  \E s \in Requests(reqs, "build-system", p) : AsksSystem(s, p, r)
<1>1. PICK t : t = [phase |-> "resolve", req |-> r, type |-> "build-system", parent |-> p, ver |-> NoVersion]
  OBVIOUS
<1>2. t \in Requests(reqs, "build-system", p) /\ AsksSystem(t, p, r)
  BY <1>1 DEF Requests, AsksSystem, Asking
<1> QED BY <1>2

LEMMA FailsEnds ==
  ASSUME KeptInv, ~TestMode, ~MultipleVersions, Fails(graph)
  PROVE  KeptInv'
<1>1. pc' = "aborted" /\ graph' = graph /\ u' = u
  BY DEF Fails
<1> QED BY <1>1, EndKeepsSystems

LEMMA RunPrepareSourceKeepsSystems ==
  ASSUME TypeInv, KeptInv, ~TestMode, ~MultipleVersions, RunPrepareSource
  PROVE  KeptInv'
<1>1. /\ stack # <<>> /\ pc = "loop" /\ Top.phase = "prepare-source"
      /\ Top.phase \notin Asking /\ Top.phase # "resolve" /\ Top.phase # "start"
  BY PrepareSourceTasks DEF Asking
<1>2. PICK p : p = PkgOf(Top)
  OBVIOUS
<1>3. p \in Pkg
  BY <1>1, <1>2, TopFits, ItemFields
<1>4. CASE Fails(graph)
  BY <1>4, FailsEnds
<1>5. CASE Puts({TopIn("process-install-deps")}) /\ UNCHANGED <<u, graph>>
  <2>1. \A t \in {TopIn("process-install-deps")} : t.phase = "process-install-deps"
    BY DEF TopIn, Becomes
  <2> QED BY <1>1, <1>5, <2>1, WorkKeepsSystems DEF Asking
<1>6. CASE /\ Puts(Requests(u.system[p], "build-system", p) \cup {TopIn("prepare-build")})
           /\ UNCHANGED <<u, graph>>
  <2>1. PICK t : t = TopIn("prepare-build")
    OBVIOUS
  <2>2. t.phase = "prepare-build" /\ PkgOf(t) = p
    BY <1>2, <2>1 DEF TopIn, Becomes, PkgOf
  <2>3. PICK tasks : tasks = Requests(u.system[p], "build-system", p) \cup {t}
    OBVIOUS
  <2>4. DOMAIN SystemEdges[p] = u.system[p]
    BY <1>3, SystemEdgesOf
  <2>5. \A s \in Requests(u.system[p], "build-system", p) : AskFits(s, graph.edges, SystemEdges)
    BY <1>3, <2>4, RequestFields DEF AskFits, Later
  <2>6. \A s \in tasks : AskFits(s, graph.edges, SystemEdges)
    BY <2>2, <2>3, <2>5 DEF AskFits, Asking
  <2>7. \A r \in DOMAIN SystemEdges[p] : \E s \in tasks : AsksSystem(s, p, r)
    BY <2>3, <2>4, RequestIsIn
  <2>8. \A s \in tasks : s.phase = "prepare-build" => PkgOf(s) = p
    BY <2>2, <2>3, RequestFields
  <2>9. \A e \in graph.edges : EdgeFits(e, graph.edges, SystemEdges)
    BY DEF KeptInv
  <2>10. Puts(tasks)
    BY <1>6, <2>1, <2>3
  <2> QED BY <1>1, <1>3, <1>6, <2>6, <2>7, <2>8, <2>9, <2>10, PutsKeepsSystems
<1>7. ~Fails(graph) => UNCHANGED <<u, graph>>
  BY PrepareSourceTasks DEF records
<1> QED BY <1>2, <1>4, <1>5, <1>6, <1>7, PrepareSourceTasks

LEMMA RunPrepareBuildKeepsSystems ==
  ASSUME TypeInv, NodesInv, KeptInv, ~TestMode, ~MultipleVersions, RunPrepareBuild
  PROVE  KeptInv'
<1>1. /\ stack # <<>> /\ pc = "loop" /\ Top.phase = "prepare-build"
      /\ Top.phase # "resolve" /\ Top.phase # "start"
  BY PrepareBuildTasks
<1>2. PICK p : p = PkgOf(Top)
  OBVIOUS
<1>3. p \in Pkg /\ p \in graph.nodes
  BY <1>1, <1>2, TopFits, ItemFields, TopHasNodes
<1>4. CASE Fails(graph)
  BY <1>4, FailsEnds
<1>5. CASE ~Fails(graph)
  <2> DEFINE sdists(f)   == Requests(u.sdist[p] \ Satisfied(u.sdist[p], f), "build-sdist", p)
             backends(f) == Requests(u.backend[p] \ Satisfied(u.backend[p], f), "build-backend", p)
  <2>1. \E f \in BuildSystems(p) : \E x, y :
          /\ x = SatisfiedEdges(p, u.backend[p], "build-backend", f)
          /\ y = SatisfiedEdges(p, u.sdist[p], "build-sdist", f)
          /\ Puts(sdists(f) \cup backends(f) \cup {TopIn("build")})
          /\ graph' = [nodes |-> graph.nodes, edges |-> graph.edges \cup x \cup y]
    BY <1>2, <1>5, PrepareBuildTasks, Zenon
  <2>2. PICK f \in BuildSystems(p) : \E x, y :
          /\ x = SatisfiedEdges(p, u.backend[p], "build-backend", f)
          /\ y = SatisfiedEdges(p, u.sdist[p], "build-sdist", f)
          /\ Puts(sdists(f) \cup backends(f) \cup {TopIn("build")})
          /\ graph' = [nodes |-> graph.nodes, edges |-> graph.edges \cup x \cup y]
    BY <2>1
  <2>3. PICK x, y :
          /\ x = SatisfiedEdges(p, u.backend[p], "build-backend", f)
          /\ y = SatisfiedEdges(p, u.sdist[p], "build-sdist", f)
          /\ Puts(sdists(f) \cup backends(f) \cup {TopIn("build")})
          /\ graph' = [nodes |-> graph.nodes, edges |-> graph.edges \cup x \cup y]
    BY <2>2
  <2>4. graph'.edges = graph.edges \cup x \cup y /\ u' = u
    BY <1>5, <2>3, PrepareBuildTasks
  <2>5. SystemDone(p, graph.edges, SystemEdges)
    <3>1. Waits(stack, graph.edges, SystemEdges)
      BY <1>1 DEF KeptInv
    <3>2. 1 \in DOMAIN stack /\ stack[1] = Top /\ DOMAIN stack \subseteq Nat \ {0}
      BY <1>1 DEF TypeInv, LoopTypeOK, Top
    <3>3. \A j \in DOMAIN stack : ~(j < 1)
      BY <3>2
    <3> QED BY <1>1, <1>2, <3>1, <3>2, <3>3 DEF Waits, SystemDone
  <2>6. /\ \A n \in DOMAIN f : f[n] \in SystemsOf(p, n, graph.edges)
        /\ \A n : SystemsOf(p, n, graph.edges) # {} => n \in DOMAIN f
    <3>1. PICK children : children = Children(graph, p, {"build-system"})
      OBVIOUS
    <3>2. \A c : c \in children <=> \E e \in graph.edges : e.parent = p /\ e.type = "build-system" /\ e.child = c
      BY <3>1 DEF Children
    <3>3. children \subseteq Pkg
      BY <3>2, GraphIsThere DEF Graph, Edge
    <3>4. DOMAIN f = {c[1] : c \in children} /\ \A n \in DOMAIN f : <<n, f[n]>> \in children
      BY <1>3, <3>1 DEF BuildSystems
    <3>5. ASSUME NEW n \in DOMAIN f PROVE f[n] \in SystemsOf(p, n, graph.edges)
      <4>1. PICK e \in graph.edges : e.parent = p /\ e.type = "build-system" /\ e.child = <<n, f[n]>>
        BY <3>2, <3>4
      <4> QED BY <4>1 DEF SystemsOf
    <3>6. ASSUME NEW n, SystemsOf(p, n, graph.edges) # {} PROVE n \in DOMAIN f
      <4>1. PICK e \in graph.edges : e.parent = p /\ e.type = "build-system" /\ e.child[1] = n
        BY <3>6 DEF SystemsOf
      <4> QED BY <3>2, <3>4, <4>1
    <3> QED BY <3>5, <3>6
  <2>7. ASSUME NEW deps, NEW r \in deps, r \notin Satisfied(deps, f)
        PROVE  Unsatisfied(p, r, graph.edges)
    BY <2>6, <2>7 DEF Satisfied, Unsatisfied
  <2>8. ASSUME NEW deps, NEW type \in Later, NEW e \in SatisfiedEdges(p, deps, type, f)
        PROVE  /\ e.parent = p /\ e.type = type
               /\ e.child[2] \in SystemsOf(p, e.child[1], graph.edges)
    <3>1. PICK r \in Satisfied(deps, f) : e = [parent |-> p, type |-> type, child |-> <<r.name, f[r.name]>>]
      BY DEF SatisfiedEdges
    <3>2. r.name \in DOMAIN f
      BY DEF Satisfied
    <3> QED BY <2>6, <3>1, <3>2
  <2>9. "build-backend" \in Later /\ "build-sdist" \in Later /\ "build-system" \notin Later
    BY DEF Later
  <2>10. \A e \in graph'.edges \ graph.edges :
           e.parent = p /\ e.type \in Later /\ e.child[2] \in SystemsOf(p, e.child[1], graph.edges)
    BY <2>3, <2>4, <2>8, <2>9
  <2>11. \A e \in graph.edges : EdgeFits(e, graph.edges, SystemEdges)
    BY DEF KeptInv
  <2>12. graph.edges \subseteq graph'.edges
    BY <2>4
  <2>13. \A e \in graph'.edges : EdgeFits(e, graph'.edges, SystemEdges)
    <3>1. \A e \in graph'.edges \ graph.edges : e.type = "build-system" =>
            e.parent \in Pkg /\ \E r \in DOMAIN SystemEdges[e.parent] : e = SystemEdges[e.parent][r]
      BY <2>9, <2>10
    <3>2. \A e \in graph'.edges \ graph.edges : e.type \in Later =>
            /\ e.parent \in Pkg /\ SystemDone(e.parent, graph.edges, SystemEdges)
            /\ \/ e.child[2] \in SystemsOf(e.parent, e.child[1], graph.edges)
               \/ \E r \in u.backend[e.parent] \cup u.sdist[e.parent] :
                    r.name = e.child[1] /\ e.child[2] \in r.spec /\ Unsatisfied(e.parent, r, graph.edges)
      BY <1>3, <2>5, <2>10
    <3> QED BY <2>11, <2>12, <3>1, <3>2, EdgesFit
  <2>14. ASSUME NEW t, t \in sdists(f) \/ t \in backends(f)
         PROVE  t.phase = "resolve" /\ AskFits(t, graph.edges, SystemEdges)
    <3>1. /\ t.phase = "resolve" /\ t.parent = p /\ t.type \in {"build-sdist", "build-backend"}
          /\ t.req \in u.backend[p] \cup u.sdist[p]
          /\ t.req \notin Satisfied(u.backend[p], f) \/ t.req \notin Satisfied(u.sdist[p], f)
      BY <2>14, RequestFields
    <3>2. Unsatisfied(p, t.req, graph.edges)
      BY <2>14, <2>7, RequestFields
    <3> QED BY <1>3, <2>5, <3>1, <3>2 DEF AskFits
  <2>15. PICK t : t = TopIn("build")
    OBVIOUS
  <2>16. t.phase = "build" /\ t.phase \notin Asking
    BY <2>15 DEF TopIn, Becomes, Asking
  <2>17. PICK tasks : tasks = sdists(f) \cup backends(f) \cup {TopIn("build")}
    OBVIOUS
  <2>18. \A s \in tasks : s.phase # "prepare-build" /\ AskFits(s, graph.edges, SystemEdges)
    BY <2>14, <2>15, <2>16, <2>17 DEF AskFits
  <2>19. \A s \in tasks : AskFits(s, graph'.edges, SystemEdges)
    BY <2>12, <2>13, <2>18, AskFitsStays
  <2>20. Puts(tasks)
    BY <2>3, <2>17
  <2> HIDE DEF sdists, backends
  <2> QED BY <1>1, <2>4, <2>12, <2>13, <2>18, <2>19, <2>20, PutsKeepsSystems
<1> QED BY <1>4, <1>5

LEMMA RunBuildKeepsSystems ==
  ASSUME TypeInv, KeptInv, ~TestMode, ~MultipleVersions, RunBuild
  PROVE  KeptInv'
<1>1. /\ stack # <<>> /\ pc = "loop" /\ Top.phase = "build" /\ Top.phase \notin Asking
      /\ Fails(graph) \/ (Puts({TopIn("process-install-deps")}) /\ UNCHANGED <<u, graph>>)
  BY BuildTasks DEF Asking, records
<1>2. \A t \in {TopIn("process-install-deps")} : t.phase = "process-install-deps"
  BY DEF TopIn, Becomes
<1> QED BY <1>1, <1>2, FailsEnds, WorkKeepsSystems DEF Asking

LEMMA RunProcessInstallDepsKeepsSystems ==
  ASSUME TypeInv, KeptInv, ~TestMode, ~MultipleVersions, RunProcessInstallDeps
  PROVE  KeptInv'
<1>1. /\ stack # <<>> /\ pc = "loop" /\ Top.phase = "process-install-deps" /\ Top.phase \notin Asking
  BY InstallDepsTasks DEF Asking
<1>2. CASE Fails(graph)
  BY <1>2, FailsEnds
<1>3. CASE ~Fails(graph)
  <2>1. PICK reqs : Puts(Requests(reqs, "install", PkgOf(Top)) \cup {TopIn("complete")})
    BY <1>3, InstallDepsTasks
  <2>2. UNCHANGED <<u, graph>>
    BY <1>3, InstallDepsTasks
  <2>3. PICK tasks : tasks = Requests(reqs, "install", PkgOf(Top)) \cup {TopIn("complete")}
    OBVIOUS
  <2>4. \A t \in tasks : t.phase = "complete" \/ (t.phase = "resolve" /\ t.type = "install")
    <3>1. TopIn("complete").phase = "complete"
      BY DEF TopIn, Becomes
    <3> QED BY <2>3, <3>1, RequestFields
  <2>5. /\ \A t \in tasks : t.phase # "prepare-build"
        /\ \A t \in tasks : t.phase \in Asking => t.type \notin {"build-system"} \cup Later
    BY <2>4 DEF Asking, Later
  <2> QED BY <1>1, <2>1, <2>2, <2>3, <2>5, WorkKeepsSystems
<1> QED BY <1>2, <1>3

LEMMA RunCompleteKeepsSystems ==
  ASSUME TypeInv, KeptInv, RunComplete
  PROVE  KeptInv'
<1>1. /\ stack # <<>> /\ pc = "loop" /\ Top.phase = "complete" /\ Puts({})
      /\ UNCHANGED <<u, graph>> /\ Top.phase \notin Asking
  BY CompleteTasks DEF records, Asking
<1> QED BY <1>1, WorkKeepsSystems

LEMMA ResolveTopLevelKeepsSystems ==
  ASSUME TypeInv, FetchInv, KeptInv, ResolveTopLevel
  PROVE  KeptInv'
<1> DEFINE r     == Head(todo)
           found == {<<r.name, v>> :
                       v \in IF MultipleVersions THEN Candidates(r) ELSE {Highest(Candidates(r))}}
<1>1. /\ pc = "top-level" /\ Tasks' = {TopRequest(r)} \cup Tasks /\ u' = u
      /\ graph'.edges = graph.edges \cup {[parent |-> ROOT, type |-> "toplevel", child |-> p] : p \in found}
      /\ \A i \in DOMAIN stack' : stack'[i].phase = "resolve"
  BY TopLevelTasks DEF FetchInv
<1>2. PICK t : t = TopRequest(r)
  OBVIOUS
<1>3. t.type = "toplevel" /\ "toplevel" \notin {"build-system"} \cup Later
  BY <1>2 DEF TopRequest, Later
<1> HIDE DEF r, found
<1>4. graph.edges \subseteq graph'.edges /\ \A e \in graph'.edges \ graph.edges : e.type = "toplevel"
  BY <1>1
<1>5. \A e \in graph'.edges \ graph.edges : e.type # "build-system" /\ e.type \notin Later
  BY <1>3, <1>4
<1>6. \A e \in graph.edges : EdgeFits(e, graph.edges, SystemEdges)
  BY DEF KeptInv
<1>7. \A e \in graph'.edges : EdgeFits(e, graph'.edges, SystemEdges)
  <2>1. \A e \in graph'.edges \ graph.edges : e.type = "build-system" =>
          e.parent \in Pkg /\ \E q \in DOMAIN SystemEdges[e.parent] : e = SystemEdges[e.parent][q]
    BY <1>5
  <2>2. \A e \in graph'.edges \ graph.edges : e.type \in Later =>
          /\ e.parent \in Pkg /\ SystemDone(e.parent, graph.edges, SystemEdges)
          /\ \/ e.child[2] \in SystemsOf(e.parent, e.child[1], graph.edges)
             \/ \E q \in u.backend[e.parent] \cup u.sdist[e.parent] :
                  q.name = e.child[1] /\ e.child[2] \in q.spec /\ Unsatisfied(e.parent, q, graph.edges)
    BY <1>5
  <2> QED BY <1>4, <1>6, <2>1, <2>2, EdgesFit
<1>8. \A s \in Tasks' : AskFits(s, graph'.edges, SystemEdges)
  <2>1. AskFits(t, graph'.edges, SystemEdges)
    BY <1>3 DEF AskFits
  <2>2. \A s \in Tasks : AskFits(s, graph.edges, SystemEdges)
    BY <1>1 DEF KeptInv
  <2>3. \A s \in Tasks : AskFits(s, graph'.edges, SystemEdges)
    BY <1>4, <1>7, <2>2, AskFitsStays
  <2> QED BY <1>1, <1>2, <2>1, <2>3
<1>9. Waits(stack', graph'.edges, SystemEdges)
  BY <1>1 DEF Waits
<1>10. SystemEdges' = SystemEdges
  BY <1>1, SystemEdgesStay
<1>11. (\A e \in graph.edges : EdgeFits(e, graph.edges, SystemEdges))'
  BY <1>1, <1>7, <1>10 DEF EdgeFits
<1>12. (\A s \in Tasks : AskFits(s, graph.edges, SystemEdges))'
  BY <1>1, <1>8, <1>10 DEF AskFits
<1> QED BY <1>9, <1>10, <1>11, <1>12 DEF KeptInv

(* Nothing changes but what a thread reports.                                 *)
LEMMA SystemsStay ==
  ASSUME KeptInv, Tasks' = Tasks, UNCHANGED <<u, graph>>, pc # "aborted",
         DOMAIN stack' = DOMAIN stack, \A j \in DOMAIN stack : Task(stack'[j]) = Task(stack[j])
  PROVE  KeptInv'
<1>1. SystemEdges' = SystemEdges
  BY SystemEdgesStay
<1>2. (\A e \in graph.edges : EdgeFits(e, graph.edges, SystemEdges))'
  BY <1>1 DEF KeptInv, EdgeFits
<1>3. (\A t \in Tasks : AskFits(t, graph.edges, SystemEdges))'
  BY <1>1 DEF KeptInv, AskFits
<1>4. \A j \in DOMAIN stack : stack'[j].phase = stack[j].phase /\ PkgOf(stack'[j]) = PkgOf(stack[j])
  BY TaskFields
<1>5. Waits(stack, graph.edges, SystemEdges)
  BY DEF KeptInv
<1>6. Waits(stack', graph'.edges, SystemEdges)
  BY <1>4, <1>5 DEF Waits
<1> QED BY <1>1, <1>2, <1>3, <1>6 DEF KeptInv

LEMMA KeptStep ==
  TypeInv /\ FetchInv /\ NodesInv /\ KeptInv /\ ~TestMode /\ ~MultipleVersions /\ [Next]_vars => KeptInv'
<1> SUFFICES ASSUME TypeInv, FetchInv, NodesInv, KeptInv, ~TestMode, ~MultipleVersions, [Next]_vars
             PROVE  KeptInv'
  OBVIOUS
<1>1. CASE ResolveTopLevel
  BY <1>1, ResolveTopLevelKeepsSystems
<1>2. CASE FailTopLevel
  <2>1. pc' = "aborted" /\ UNCHANGED <<u, graph>>
    BY <1>2 DEF FailTopLevel
  <2> QED BY <2>1, EndKeepsSystems
<1>3. CASE \E i \in DOMAIN stack : FinishResolution(i) \/ FetchSource(i)
  <2>1. PICK i \in DOMAIN stack : FinishResolution(i) \/ FetchSource(i)
    BY <1>3
  <2>2. UNCHANGED <<u, graph>> /\ pc = "loop"
    BY <2>1, ThreadTasks DEF records
  <2> QED BY <2>1, <2>2, ThreadTasks, SystemsStay
<1>4. CASE RunItem
  BY <1>4, RunResolveKeepsSystems, RunStartKeepsSystems, RunPrepareSourceKeepsSystems,
     RunPrepareBuildKeepsSystems, RunBuildKeepsSystems, RunProcessInstallDepsKeepsSystems,
     RunCompleteKeepsSystems DEF RunItem
<1>5. CASE Finalize
  <2>1. pc = "loop" /\ UNCHANGED <<u, stack, graph>>
    BY <1>5 DEF Finalize, records
  <2> QED BY <2>1, SystemsStay DEF Tasks
<1>6. CASE UNCHANGED vars
  <2>1. UNCHANGED <<u, pc, stack, graph>>
    BY <1>6 DEF vars, records
  <2>2. pc = "aborted" => KeptInv'
    BY <2>1, EndKeepsSystems
  <2> QED BY <2>1, <2>2, SystemsStay DEF Tasks
<1> QED BY <1>1, <1>2, <1>3, <1>4, <1>5, <1>6 DEF Next

(* Outside test mode, with one version of each requirement, no backend or sdist  *)
(* requirement is resolved to another version than the build system of its     *)
(* package has, if that version satisfies it                                   *)
(* (filter_deps_satisfied_by_build_system, PrepareBuild.run).                  *)
THEOREM BuildSystemStaysAsItIs ==
  ASSUME ~TestMode, ~MultipleVersions PROVE Spec => []BuildSystemVersionKept
<1>1. Init => KeptInv /\ FetchInv
  BY TasksOfShort DEF Init, KeptInv, FetchInv, NoFetch, Tasks, EmptyGraph, Waits
<1>2. KeptInv => BuildSystemVersionKept
  <2>1. \A p, n : SystemVersions(p, n) = SystemsOf(p, n, graph.edges)
    BY DEF SystemVersions, SystemsOf, Children
  <2>2. ASSUME KeptInv, NEW e \in graph.edges, e.type \in Later
        PROVE  \/ e.child[2] \in SystemsOf(e.parent, e.child[1], graph.edges)
               \/ \E r \in u.backend[e.parent] \cup u.sdist[e.parent] :
                    r.name = e.child[1] /\ e.child[2] \in r.spec /\ Unsatisfied(e.parent, r, graph.edges)
    BY <2>2 DEF KeptInv, EdgeFits
  <2> QED BY <2>1, <2>2 DEF BuildSystemVersionKept, Unsatisfied, Later
<1>3. KeepsNodes
  BY DEF KeepsNodes
<1>4. Spec => []NodesInv
  BY <1>3, NodesAreInvariant
<1>5. TypeInv /\ FetchInv /\ NodesInv /\ KeptInv /\ [Next]_vars => KeptInv'
  BY KeptStep
<1> QED BY <1>1, <1>2, <1>4, <1>5, TypeIsInvariant, FetchStep, PTL DEF Spec
=============================================================================
