------------------------ MODULE BuildParallelProofs ------------------------
(***************************************************************************)
(* Proofs about BuildParallel, for every set of packages, graphs, threads   *)
(* and settings.                                                           *)
(***************************************************************************)
EXTENDS BuildParallel, TLAPS

-----------------------------------------------------------------------------
(* The inductive invariant, part by part.                                   *)

Busy == queued \cup JobNodes

(* The sorter: what was passed out is in progress or finished, and was       *)
(* passed out after its predecessors had been built.                         *)
SorterInv ==
  /\ passedOut \subseteq Node
  /\ inProgress \cup finished = passedOut
  /\ inProgress \cap finished = {}
  /\ \A n \in passedOut : \A m \in preds[n] : m \in finished /\ outcome[m] = "ok"

(* The pool: a node is queued, with one thread, or has an outcome.           *)
PoolInv ==
  /\ Busy \subseteq futures
  /\ futures \subseteq inProgress
  /\ queued \cap JobNodes = {}
  /\ \A v, w \in Running : job[v].node = job[w].node => v = w
  /\ \A n \in Busy : outcome[n] = "none"
  /\ \A n \in Package : outcome[n] # "none" => n \in futures \cup finished

(* Wheels: a node that ended well has one, and until the loop has raised     *)
(* every finished node ended well.                                           *)
WheelInv ==
  /\ \A n \in Package : outcome[n] = "ok" => n \in mirror
  /\ \A n \in finished : outcome[n] # "none"
  /\ main \notin {"raising", "failed"} => \A n \in finished : outcome[n] = "ok"

(* The main thread: what its position says of the rest.                      *)
MainInv ==
  /\ main \in {"start", "cycle", "rounds", "done"} => futures = {}
  /\ main \in {"start", "cycle"} => passedOut = {}
  /\ IF main = "start" THEN Node = {} ELSE preds = BuildTopology(graph)
  /\ main \notin {"start", "cycle"} => ~HasCycle(preds)
  /\ main = "done" => finished = Node

ExclusiveInv == \A n \in futures \cap Exclusive : futures = {n}

(* A thread that is about to publish has a wheel to publish.                  *)
PublishInv ==
  \A w \in Running :
    job[w].step = "publish" => job[w].node \in downloads \cup buildDir[w]

Inv ==
  /\ TypeOK
  /\ SorterInv
  /\ PoolInv
  /\ WheelInv
  /\ MainInv
  /\ ExclusiveInv
  /\ PublishInv

-----------------------------------------------------------------------------
(* Lemmas about graphs.                                                     *)

(* What the closure of S is: a closed set of nodes that contains S, and the   *)
(* smallest (dependency_graph.py _traverse_install_requirements).            *)
LEMMA ClosureClosed ==
  ASSUME NEW g, WellFormed(g), NEW S, NEW types, S \subseteq g.nodes
  PROVE  /\ Closure(g, S, types) \subseteq g.nodes
         /\ S \subseteq Closure(g, S, types)
         /\ ClosedUnder(g, Closure(g, S, types), types)
<1>1. Closure(g, S, types) \subseteq g.nodes
  BY DEF Closure
<1>2. S \subseteq Closure(g, S, types)
  BY DEF Closure
<1>3. ASSUME NEW e \in g.edges, e.type \in types, e.parent \in Closure(g, S, types)
      PROVE  e.child \in Closure(g, S, types)
  <2>1. e.child \in g.nodes
    BY DEF WellFormed
  <2>2. ASSUME NEW C \in SUBSET g.nodes, S \subseteq C, ClosedUnder(g, C, types)
        PROVE  e.child \in C
    BY <1>3, <2>2 DEF Closure, ClosedUnder
  <2> QED BY <2>1, <2>2 DEF Closure
<1> QED BY <1>1, <1>2, <1>3 DEF ClosedUnder

(* Closure lies in every closed set of nodes that holds S.                   *)
LEMMA ClosureSmallest ==
  ASSUME NEW g, NEW S, NEW types, NEW C \in SUBSET g.nodes,
         S \subseteq C, ClosedUnder(g, C, types)
  PROVE  Closure(g, S, types) \subseteq C
BY DEF Closure

(* The predecessors of a node are packages, never ROOT, and are an            *)
(* environment that pip can install once they are all on the wheel server    *)
(* (dependency_graph.py iter_build_requirements).                            *)
LEMMA BuildRequirementsSuffice ==
  ASSUME NEW g \in Graph, WellFormed(g), NEW n
  PROVE  /\ BuildRequirements(g, n) \subseteq g.nodes \ {ROOT}
         /\ \A offered : BuildRequirements(g, n) \subseteq offered =>
              Installable(g, Children(g, n, BuildType), offered)
<1> DEFINE asked == Children(g, n, BuildType)
<1>1. \A e \in g.edges : e.child \in g.nodes \ {ROOT}
  BY RootAssumption DEF Graph, Edge, WellFormed
<1>2. asked \subseteq g.nodes \ {ROOT}
  BY <1>1 DEF Children
<1>3. ClosedUnder(g, g.nodes \ {ROOT}, InstallType)
  BY <1>1 DEF ClosedUnder
<1>4. BuildRequirements(g, n) \subseteq g.nodes \ {ROOT}
  BY <1>2, <1>3, ClosureSmallest DEF BuildRequirements
<1>5. /\ asked \subseteq BuildRequirements(g, n)
      /\ ClosedUnder(g, BuildRequirements(g, n), InstallType)
  BY <1>2, ClosureClosed DEF BuildRequirements
<1> QED BY <1>4, <1>5 DEF Installable

(* get_build_topology has every node but ROOT, and their requirements are    *)
(* among these nodes.                                                        *)
LEMMA TopologyType ==
  ASSUME NEW g \in Graphs
  PROVE  /\ DOMAIN BuildTopology(g) = g.nodes \ {ROOT}
         /\ DOMAIN BuildTopology(g) \subseteq Package
         /\ \A n \in DOMAIN BuildTopology(g) :
              BuildTopology(g)[n] \subseteq DOMAIN BuildTopology(g)
<1>1. g \in Graph /\ WellFormed(g)
  BY ParallelAssumption
<1>2. g.nodes \ {ROOT} \subseteq Package
  BY <1>1 DEF Graph
<1> QED BY <1>1, <1>2, BuildRequirementsSuffice DEF BuildTopology

-----------------------------------------------------------------------------
(* Every variable keeps its type: among others, the sorter never holds ROOT. *)
LEMMA TypeInit == Init => TypeOK
<1> SUFFICES ASSUME Init PROVE TypeOK
  OBVIOUS
<1>1. preds \in [Node -> SUBSET Package] /\ Node = {}
  BY DEF Init, Node
<1> QED BY <1>1, ParallelAssumption DEF Init, TypeOK, Idle, Node

(* Every step of the main thread and of a pool thread keeps the types.       *)
LEMMA TypeStep == TypeOK /\ [Next]_vars => TypeOK'
<1> SUFFICES ASSUME TypeOK, [Next]_vars PROVE TypeOK'
  OBVIOUS
<1> USE DEF TypeOK
<1>1. CASE Prepare
  <2>1. preds' = BuildTopology(graph) /\ UNCHANGED graph
    BY <1>1 DEF Prepare
  <2>2. Node' \subseteq Package /\ preds' \in [Node' -> SUBSET Package]
    <3>1. Node' = DOMAIN BuildTopology(graph)
      BY <2>1 DEF Node
    <3>2. \A n \in Node' : preds'[n] \subseteq Package
      BY <2>1, <3>1, TopologyType
    <3>3. preds' = [n \in Node' |-> preds'[n]]
      BY <2>1, <3>1 DEF BuildTopology
    <3> QED BY <3>1, <3>2, <3>3, TopologyType
  <2> QED BY <1>1, <2>2 DEF Prepare, poolVars
<1>2. CASE StartRound
  <2>1. Ready \subseteq Package /\ inProgress \cup Ready \subseteq Package
    BY DEF Ready
  <2>2. Available(inProgress \cup Ready) \subseteq Package
    BY <2>1 DEF Available
  <2>3. UNCHANGED Node
    BY <1>2 DEF StartRound, Node
  <2> QED BY <1>2, <2>1, <2>2, <2>3 DEF StartRound
<1>3. CASE Summarize \/ Shutdown
  BY <1>3 DEF Summarize, Shutdown, sorterVars, poolVars, Node
<1>4. ASSUME NEW n \in Package, Collect(n) PROVE TypeOK'
  <2>1. main' \in {"rounds", "waiting", "raising"} /\ UNCHANGED Node
    BY <1>4 DEF Collect, TakeFuture, NextTurn, Node
  <2> QED BY <1>4, <2>1 DEF Collect, TakeFuture
<1>5. ASSUME NEW w \in Worker, Thread(w) PROVE TypeOK'
  <2>1. UNCHANGED <<graph, main, preds, passedOut, inProgress, finished, futures, Node>>
    BY <1>5 DEF Thread, PickUp, Reuse, DownloadPrebuilt, PrepareSource, InstallEnvironment,
                BuildWheel, Raise, Publish, Advance, sorterVars, Node
  <2>2. w \in Running => job[w] \in [node : Package, step : Step]
    BY DEF Running
  <2>3. ASSUME NEW n \in Package, PickUp(w, n) PROVE TypeOK'
    BY <2>1, <2>3 DEF PickUp, Step
  <2>4. ASSUME NEW from \in Step, NEW to \in Step, Advance(w, from, to)
        PROVE  /\ job' \in [Worker -> [node : Package, step : Step] \cup {Idle}]
               /\ UNCHANGED <<queued, outcome, mirror>>
               /\ job[w].node \in Package
    BY <2>2, <2>4 DEF Advance
  <2>5. CASE Reuse(w)
    BY <2>1, <2>4, <2>5 DEF Reuse, Step
  <2>6. CASE DownloadPrebuilt(w)
    BY <2>1, <2>4, <2>6 DEF DownloadPrebuilt, Step
  <2>7. CASE PrepareSource(w)
    BY <2>1, <2>4, <2>7 DEF PrepareSource, Step
  <2>8. CASE InstallEnvironment(w)
    BY <2>1, <2>4, <2>8 DEF InstallEnvironment, Step
  <2>9. CASE BuildWheel(w)
    BY <2>1, <2>4, <2>9 DEF BuildWheel, Step
  <2>10. CASE Raise(w)
    <3>1. job[w].node \in Package
      BY <2>2, <2>10 DEF Raise
    <3>2. buildDir' \in [Worker -> SUBSET Package]
      BY <2>10, <3>1 DEF Raise
    <3>3. /\ job' \in [Worker -> [node : Package, step : Step] \cup {Idle}]
          /\ outcome' \in [Package -> {"none", "ok", "error"}]
      BY <2>10, <3>1 DEF Raise
    <3> QED BY <2>1, <2>10, <3>2, <3>3 DEF Raise
  <2>11. CASE Publish(w)
    <3>1. job[w].node \in Package
      BY <2>2, <2>11 DEF Publish
    <3>2. /\ job' \in [Worker -> [node : Package, step : Step] \cup {Idle}]
          /\ outcome' \in [Package -> {"none", "ok", "error"}]
          /\ buildDir' \in [Worker -> SUBSET Package]
      BY <2>11, <3>1 DEF Publish
    <3>3. downloads' \subseteq Package /\ mirror' \subseteq Package
      BY <2>11 DEF Publish
    <3> QED BY <2>1, <2>11, <3>2, <3>3 DEF Publish
  <2> QED BY <1>5, <2>3, <2>5, <2>6, <2>7, <2>8, <2>9, <2>10, <2>11 DEF Thread
<1>6. CASE UNCHANGED vars
  BY <1>6 DEF vars, sorterVars, poolVars, Node
<1> QED BY <1>1, <1>2, <1>3, <1>4, <1>5, <1>6 DEF Next, Main

(* Every variable of a parallel build keeps its type in every reachable state. *)
THEOREM TypeCorrect == Spec => []TypeOK
BY TypeInit, TypeStep, PTL DEF Spec

-----------------------------------------------------------------------------
(* How the steps of a thread change the nodes the threads work on.            *)

(* A step within _build leaves the nodes that are worked on as they are.     *)
LEMMA AdvanceJobs ==
  ASSUME TypeOK, NEW w \in Worker, NEW from, NEW to \in Step, Advance(w, from, to)
  PROVE  /\ Running' = Running
         /\ \A v \in Worker : job'[v].node = job[v].node
         /\ JobNodes' = JobNodes
<1>1. /\ job' = [job EXCEPT ![w].step = to]
      /\ job[w] \in [node : Package, step : Step]
  BY DEF Advance, Running, TypeOK
<1>2. /\ job'[w] \in [node : Package, step : Step]
      /\ job'[w].node = job[w].node
      /\ \A v \in Worker \ {w} : job'[v] = job[v]
  BY <1>1 DEF TypeOK
<1>3. \A n \in Package, s \in Step : [node |-> n, step |-> s] # Idle
  BY DEF Idle, Step
<1>4. job'[w] # Idle /\ job[w] # Idle
  BY <1>1, <1>2, <1>3
<1>5. Running' = Running
  BY <1>2, <1>4 DEF Running
<1>6. \A v \in Worker : job'[v].node = job[v].node
  BY <1>2
<1>7. Running \subseteq Worker
  BY DEF Running
<1> QED BY <1>5, <1>6, <1>7 DEF JobNodes

(* A thread that picks up a node adds it to those worked on.                 *)
LEMMA PickUpJobs ==
  ASSUME TypeOK, NEW w \in Worker, NEW n \in Package, PickUp(w, n)
  PROVE  /\ Running' = Running \cup {w}
         /\ job'[w].node = n
         /\ \A v \in Running : v # w /\ job'[v].node = job[v].node
         /\ JobNodes' = JobNodes \cup {n}
<1>1. /\ job' = [job EXCEPT ![w] = [node |-> n, step |-> "check"]]
      /\ w \notin Running
  BY DEF PickUp
<1>2. [node |-> n, step |-> "check"] # Idle
  BY DEF Idle
<1>3. /\ job'[w] = [node |-> n, step |-> "check"]
      /\ \A v \in Worker \ {w} : job'[v] = job[v]
  BY <1>1 DEF TypeOK
<1>4. Running' = Running \cup {w}
  BY <1>2, <1>3 DEF Running
<1>5. \A v \in Running : v # w /\ job'[v].node = job[v].node
  BY <1>1, <1>3 DEF Running
<1> QED BY <1>3, <1>4, <1>5 DEF JobNodes

(* A thread that ends its job, well or not, takes away its node and no other. *)
LEMMA EndJobs ==
  ASSUME TypeOK, PoolInv, NEW w \in Running, job' = [job EXCEPT ![w] = Idle]
  PROVE  /\ Running' = Running \ {w}
         /\ \A v \in Running' : job'[v] = job[v]
         /\ JobNodes' = JobNodes \ {job[w].node}
<1>1. w \in Worker
  BY DEF Running
<1>2. job'[w] = Idle /\ \A v \in Worker \ {w} : job'[v] = job[v]
  BY <1>1 DEF TypeOK
<1>3. Running' = Running \ {w}
  BY <1>2 DEF Running
<1>4. \A v \in Running' : job'[v] = job[v]
  BY <1>2, <1>3 DEF Running
<1>5. \A v \in Running \ {w} : job[v].node # job[w].node
  BY DEF PoolInv
<1> QED BY <1>3, <1>4, <1>5 DEF JobNodes

(* A step that only moves a thread from one part of _build to the next.       *)
LEMMA AdvanceStep ==
  ASSUME Inv, NEW w \in Worker, NEW from, NEW to \in Step, Advance(w, from, to)
  PROVE  SorterInv' /\ PoolInv' /\ WheelInv' /\ MainInv' /\ ExclusiveInv'
<1>1. /\ Running' = Running
      /\ \A v \in Worker : job'[v].node = job[v].node
      /\ JobNodes' = JobNodes
  BY AdvanceJobs DEF Inv
<1>2. UNCHANGED <<graph, main, preds, passedOut, inProgress, finished, futures, queued,
                  outcome, mirror, Node>>
  BY DEF Advance, sorterVars, Node
<1>3. Busy' = Busy
  BY <1>1, <1>2 DEF Busy
<1>4. SorterInv'
  BY <1>2 DEF Inv, SorterInv
<1>5. PoolInv'
  <2>1. \A v, x \in Running' : job'[v].node = job'[x].node => v = x
    BY <1>1 DEF Inv, PoolInv, Running
  <2> QED BY <1>1, <1>2, <1>3, <2>1 DEF Inv, PoolInv
<1>6. WheelInv' /\ ExclusiveInv'
  BY <1>2 DEF Inv, WheelInv, ExclusiveInv
<1>7. MainInv'
  BY <1>2 DEF Inv, MainInv
<1> QED BY <1>4, <1>5, <1>6, <1>7

(* The end of a job: its node gets an outcome.                               *)
LEMMA EndStep ==
  ASSUME Inv, NEW w \in Running, NEW result \in {"ok", "error"},
         job' = [job EXCEPT ![w] = Idle],
         outcome' = [outcome EXCEPT ![job[w].node] = result],
         mirror \subseteq mirror', result = "ok" => job[w].node \in mirror',
         UNCHANGED <<graph, main, preds, passedOut, inProgress, finished, futures, queued>>
  PROVE  SorterInv' /\ PoolInv' /\ WheelInv' /\ MainInv' /\ ExclusiveInv'
<1> DEFINE n == job[w].node
<1>1. n \in Busy /\ n \in futures /\ n \notin finished /\ outcome[n] = "none"
  BY DEF Inv, PoolInv, SorterInv, Busy, JobNodes
<1>2. n \in Package
  BY <1>1 DEF Inv, TypeOK
<1>3. outcome'[n] = result /\ \A m \in Package \ {n} : outcome'[m] = outcome[m]
  BY <1>2 DEF Inv, TypeOK
<1>4. /\ Running' = Running \ {w}
      /\ \A v \in Running' : job'[v] = job[v]
      /\ JobNodes' = JobNodes \ {n}
  BY EndJobs DEF Inv
<1>5. Node' = Node
  BY DEF Node
<1>6. n \notin queued
  BY DEF Inv, PoolInv, JobNodes
<1>7. Busy' = Busy \ {n}
  BY <1>4, <1>6 DEF Busy
<1>8. \A m \in finished : m \in Package \ {n}
  BY <1>1 DEF Inv, TypeOK
<1>9. SorterInv'
  <2>1. \A x \in passedOut : \A m \in preds[x] : m \in finished /\ outcome'[m] = "ok"
    BY <1>3, <1>8 DEF Inv, SorterInv
  <2> QED BY <1>5, <2>1 DEF Inv, SorterInv
<1>10. PoolInv'
  <2>1. Busy' \subseteq futures /\ futures \subseteq inProgress /\ queued \cap JobNodes' = {}
    BY <1>4, <1>7 DEF Inv, PoolInv
  <2>2. \A v, x \in Running' : job'[v].node = job'[x].node => v = x
    BY <1>4 DEF Inv, PoolInv
  <2>3. \A m \in Busy' : outcome'[m] = "none"
    BY <1>3, <1>7 DEF Inv, PoolInv, TypeOK
  <2>4. \A m \in Package : outcome'[m] # "none" => m \in futures \cup finished
    BY <1>1, <1>3 DEF Inv, PoolInv
  <2> QED BY <2>1, <2>2, <2>3, <2>4 DEF PoolInv
<1>11. WheelInv'
  <2>1. \A m \in Package : outcome'[m] = "ok" => m \in mirror'
    BY <1>3 DEF Inv, WheelInv
  <2>2. \A m \in finished : outcome'[m] = outcome[m]
    BY <1>3, <1>8
  <2> QED BY <2>1, <2>2 DEF Inv, WheelInv
<1>12. MainInv' /\ ExclusiveInv'
  BY <1>5 DEF Inv, MainInv, ExclusiveInv
<1> QED BY <1>9, <1>10, <1>11, <1>12

-----------------------------------------------------------------------------
(* The invariant holds when the command starts.                              *)
LEMMA InvInit == Init => Inv
<1> SUFFICES ASSUME Init PROVE Inv
  OBVIOUS
<1>1. TypeOK
  BY TypeInit
<1>2. Running = {} /\ JobNodes = {} /\ Busy = {} /\ Node = {}
  BY DEF Init, Running, JobNodes, Busy, Node
<1> QED
  BY <1>1, <1>2 DEF Init, Inv, SorterInv, PoolInv, WheelInv, MainInv, ExclusiveInv, PublishInv

(* get_available submits at most one exclusive node, and then nothing else.   *)
LEMMA AvailableExclusive ==
  ASSUME NEW nodes \in SUBSET Package
  PROVE  /\ Available(nodes) \subseteq nodes
         /\ \A n \in Available(nodes) \cap Exclusive : Available(nodes) = {n}
<1>1. CASE nodes \ Exclusive # {}
  BY <1>1 DEF Available
<1>2. CASE nodes \ Exclusive = {}
  <2>1. Available(nodes) = {n \in nodes : \A m \in nodes : Before(n, m)}
    BY <1>2 DEF Available
  <2>2. ASSUME NEW n \in nodes, NEW m \in nodes, Before(n, m), Before(m, n)
        PROVE  n = m
    <3>1. Rank[n] \in Nat /\ Rank[m] \in Nat /\ Rank[n] <= Rank[m] /\ Rank[m] <= Rank[n]
      BY <2>2, ParallelAssumption DEF Before
    <3> QED BY <3>1, ParallelAssumption
  <2> QED BY <2>1, <2>2
<1> QED BY <1>1, <1>2

(* A round that starts keeps the invariant: what it submits is ready, so the *)
(* predecessors are done, and an exclusive node is submitted alone.          *)
LEMMA StartRoundStep ==
  ASSUME Inv, StartRound
  PROVE  SorterInv' /\ PoolInv' /\ WheelInv' /\ MainInv' /\ ExclusiveInv'
<1> DEFINE nodes == inProgress \cup Ready
<1>1. /\ futures = {} /\ Busy = {} /\ Running = {}
      /\ \A n \in finished : outcome[n] = "ok"
      /\ \A n \in Package \ finished : outcome[n] = "none"
  <2>1. main = "rounds"
    BY DEF StartRound
  <2>2. futures = {} /\ \A n \in finished : outcome[n] = "ok"
    BY <2>1 DEF Inv, MainInv, WheelInv
  <2>3. Busy = {} /\ \A n \in Package \ finished : outcome[n] = "none"
    BY <2>2 DEF Inv, PoolInv
  <2>4. Running = {}
    BY <2>3 DEF Busy, JobNodes
  <2> QED BY <2>2, <2>3, <2>4
<1>2. Node' = Node /\ Running' = {} /\ JobNodes' = {}
  <2>1. Node' = Node /\ Running' = {}
    BY <1>1 DEF StartRound, Node, Running
  <2> QED BY <2>1 DEF JobNodes
<1>3. nodes \cap finished = {} /\ nodes \subseteq Package
  BY DEF Ready, Inv, SorterInv, TypeOK
<1>4. /\ Available(nodes) \subseteq nodes
      /\ \A n \in Available(nodes) \cap Exclusive : Available(nodes) = {n}
  BY <1>3, AvailableExclusive
<1>5. Busy' = Available(nodes)
  BY <1>2 DEF StartRound, Busy
<1>6. SorterInv'
  <2>1. passedOut' \subseteq Node' /\ inProgress' \cup finished' = passedOut'
    BY <1>2 DEF StartRound, Inv, SorterInv, Ready
  <2>2. inProgress' \cap finished' = {}
    BY <1>3 DEF StartRound
  <2>3. ASSUME NEW n \in passedOut', NEW m \in preds'[n]
        PROVE  m \in finished' /\ outcome'[m] = "ok"
    <3>1. m \in finished
      BY <2>3 DEF StartRound, Inv, SorterInv, Ready
    <3> QED BY <3>1, <1>1 DEF StartRound
  <2> QED BY <2>1, <2>2, <2>3 DEF SorterInv
<1>7. PoolInv'
  <2>1. \A n \in Busy' : outcome'[n] = "none"
    BY <1>1, <1>3, <1>4, <1>5 DEF StartRound
  <2>2. \A n \in Package : outcome'[n] # "none" => n \in futures' \cup finished'
    BY <1>1 DEF StartRound
  <2> QED BY <1>2, <1>4, <1>5, <2>1, <2>2 DEF StartRound, PoolInv
<1>8. WheelInv'
  BY <1>1 DEF StartRound, Inv, WheelInv
<1>9. MainInv'
  BY <1>2 DEF StartRound, Inv, MainInv
<1>10. ExclusiveInv'
  BY <1>4 DEF StartRound, ExclusiveInv
<1> QED BY <1>6, <1>7, <1>8, <1>9, <1>10

(* When the loop ends with nothing active, all nodes are done: otherwise each *)
(* of the others would wait for another of them.                             *)
LEMMA NotActiveMeansDone ==
  ASSUME Inv, main = "rounds", ~IsActive
  PROVE  finished = Node
<1> DEFINE rest == Node \ finished
<1>1. passedOut = finished /\ Ready = {}
  BY DEF IsActive, TopoActive
<1>2. \A n \in rest : preds[n] \cap rest # {}
  <2>1. \A n \in rest : ~(preds[n] \subseteq finished)
    BY <1>1 DEF Ready
  <2>2. \A n \in Node : preds[n] \subseteq Node
    BY TopologyType DEF Inv, TypeOK, MainInv, Node
  <2> QED BY <2>1, <2>2
<1>3. ~HasCycle(preds)
  BY DEF Inv, MainInv
<1>4. rest = {}
  BY <1>2, <1>3 DEF HasCycle, Node
<1> QED BY <1>1, <1>4 DEF Inv, SorterInv

(* Taking a future keeps the invariant: without an error, the node is built; *)
(* with one, the rounds are over.                                            *)
LEMMA CollectStep ==
  ASSUME Inv, NEW n \in Package, Collect(n)
  PROVE  SorterInv' /\ PoolInv' /\ WheelInv' /\ MainInv' /\ ExclusiveInv'
<1>1. /\ n \in futures /\ outcome[n] # "none"
      /\ main = "waiting"
      /\ futures' = futures \ {n}
      /\ finished' = finished \cup {n}
      /\ inProgress' = inProgress \ {n}
      /\ UNCHANGED <<graph, preds, passedOut, queued, job, outcome, mirror>>
      /\ main' \in {"raising", "rounds", "waiting"}
      /\ main' # "raising" => outcome[n] # "error"
      /\ main' = "rounds" => futures' = {}
  BY DEF Collect, TakeFuture, NextTurn
<1>2. n \in inProgress /\ n \notin Busy
  BY <1>1 DEF Inv, PoolInv
<1>3. Node' = Node /\ Running' = Running /\ JobNodes' = JobNodes /\ Busy' = Busy
  BY <1>1 DEF Node, Running, JobNodes, Busy
<1>4. SorterInv'
  BY <1>1, <1>2, <1>3 DEF Inv, SorterInv
<1>5. PoolInv'
  <2>1. Busy' \subseteq futures' /\ futures' \subseteq inProgress'
    BY <1>1, <1>2, <1>3 DEF Inv, PoolInv
  <2>2. \A v, x \in Running' : job'[v].node = job'[x].node => v = x
    BY <1>1, <1>3 DEF Inv, PoolInv
  <2> QED BY <1>1, <1>3, <2>1, <2>2 DEF Inv, PoolInv
<1>6. WheelInv'
  <2>1. main' # "raising" => outcome[n] = "ok"
    BY <1>1 DEF Inv, TypeOK
  <2>2. \A m \in finished : outcome[m] = "ok"
    BY <1>1 DEF Inv, WheelInv
  <2> QED BY <1>1, <2>1, <2>2 DEF Inv, WheelInv
<1>7. MainInv'
  BY <1>1, <1>3 DEF Inv, MainInv
<1>8. ExclusiveInv'
  BY <1>1 DEF Inv, ExclusiveInv
<1> QED BY <1>4, <1>5, <1>6, <1>7, <1>8

(* Every step keeps in the mirror the wheel of every node that ended well.   *)
LEMMA PublishStep == Inv /\ [Next]_vars => PublishInv'
<1> SUFFICES ASSUME Inv, [Next]_vars PROVE PublishInv'
  OBVIOUS
<1>1. CASE UNCHANGED <<job, downloads, buildDir>>
  BY <1>1 DEF Inv, PublishInv, Running
<1>2. ASSUME NEW w \in Worker, Thread(w) PROVE PublishInv'
  <2>1. ASSUME \A v \in Worker \ {w} : job'[v] = job[v] /\ buildDir'[v] = buildDir[v],
               downloads \subseteq downloads',
               w \in Running' /\ job'[w].step = "publish" =>
                 job'[w].node \in downloads' \cup buildDir'[w]
        PROVE  PublishInv'
    BY <2>1 DEF Inv, PublishInv, Running
  <2>2. ASSUME NEW n \in Package, PickUp(w, n) PROVE PublishInv'
    <3>1. job'[w].step = "check" /\ \A v \in Worker \ {w} : job'[v] = job[v]
      BY <2>2 DEF PickUp, Inv, TypeOK
    <3> QED BY <2>1, <2>2, <3>1 DEF PickUp
  <2>3. ASSUME NEW from, NEW to \in Step, Advance(w, from, to)
        PROVE  /\ job'[w].step = to
               /\ job'[w].node = job[w].node
               /\ job[w].node \in Package
               /\ \A v \in Worker \ {w} : job'[v] = job[v]
    <3>1. job' = [job EXCEPT ![w].step = to] /\ job[w] \in [node : Package, step : Step]
      BY <2>3 DEF Advance, Running, Inv, TypeOK
    <3> QED BY <3>1 DEF Inv, TypeOK
  <2>4. CASE Reuse(w)
    BY <2>1, <2>3, <2>4 DEF Reuse, Step
  <2>5. CASE PrepareSource(w) \/ InstallEnvironment(w)
    BY <2>1, <2>3, <2>5 DEF PrepareSource, InstallEnvironment, Step
  <2>6. CASE DownloadPrebuilt(w) \/ BuildWheel(w)
    <3>1. /\ Advance(w, IF DownloadPrebuilt(w) THEN "check" ELSE "build", "publish")
          /\ UNCHANGED downloads
          /\ \E S : buildDir' = [buildDir EXCEPT ![w] = S] /\ job[w].node \in S
      BY <2>6 DEF DownloadPrebuilt, BuildWheel
    <3>2. job[w].node \in buildDir'[w] /\ \A v \in Worker \ {w} : buildDir'[v] = buildDir[v]
      BY <3>1 DEF Inv, TypeOK
    <3> QED BY <2>1, <2>3, <3>1, <3>2 DEF Step
  <2>7. CASE Raise(w) \/ Publish(w)
    <3>1. /\ job' = [job EXCEPT ![w] = Idle]
          /\ downloads \subseteq downloads'
          /\ \E S : buildDir' = [buildDir EXCEPT ![w] = S] \/ UNCHANGED buildDir
      BY <2>7 DEF Raise, Publish
    <3>2. /\ \A v \in Worker \ {w} : job'[v] = job[v] /\ buildDir'[v] = buildDir[v]
          /\ w \notin Running'
      BY <3>1 DEF Inv, TypeOK, Running
    <3> QED BY <2>1, <3>1, <3>2
  <2> QED BY <1>2, <2>2, <2>4, <2>5, <2>6, <2>7 DEF Thread
<1>3. CASE Main \/ UNCHANGED vars
  BY <1>1, <1>3 DEF Main, Prepare, StartRound, Summarize, Shutdown, Collect, TakeFuture, vars, poolVars
<1> QED BY <1>2, <1>3 DEF Next

(* Every step keeps the invariant.                                           *)
LEMMA InvStep == Inv /\ [Next]_vars => Inv'
<1> SUFFICES ASSUME Inv, [Next]_vars PROVE Inv'
  OBVIOUS
<1> DEFINE Rest == SorterInv /\ PoolInv /\ WheelInv /\ MainInv /\ ExclusiveInv
<1>0. TypeOK' /\ PublishInv'
  BY TypeStep, PublishStep DEF Inv
<1>1. CASE Prepare
  <2>1. main = "start" /\ preds' = BuildTopology(graph)
    BY <1>1 DEF Prepare
  <2>2. passedOut = {} /\ futures = {} /\ inProgress = {} /\ finished = {}
    BY <2>1 DEF Inv, MainInv, SorterInv
  <2>3. /\ UNCHANGED <<graph, passedOut, inProgress, finished, futures, queued, job, outcome, mirror>>
        /\ Running' = Running /\ JobNodes' = JobNodes /\ Busy' = Busy
    BY <1>1 DEF Prepare, poolVars, Running, JobNodes, Busy
  <2>4. main' = IF HasCycle(preds') THEN "cycle" ELSE "rounds"
    BY <1>1 DEF Prepare
  <2>5. SorterInv'
    BY <2>2, <2>3 DEF SorterInv
  <2>6. PoolInv'
    BY <2>2, <2>3 DEF Inv, PoolInv
  <2>7. WheelInv'
    BY <2>2, <2>3 DEF Inv, WheelInv
  <2>8. MainInv' /\ ExclusiveInv'
    BY <2>1, <2>2, <2>3, <2>4 DEF MainInv, ExclusiveInv
  <2> QED BY <1>0, <2>5, <2>6, <2>7, <2>8 DEF Inv
<1>2. CASE StartRound
  BY <1>0, <1>2, StartRoundStep DEF Inv
<1>3. CASE Summarize
  <2>1. /\ main = "rounds" /\ main' = "done" /\ ~IsActive
        /\ UNCHANGED <<graph, preds, passedOut, inProgress, finished, futures, queued, job, outcome, mirror>>
        /\ Running' = Running /\ JobNodes' = JobNodes /\ Busy' = Busy /\ Node' = Node
    BY <1>3 DEF Summarize, sorterVars, poolVars, Running, JobNodes, Busy, Node
  <2>2. finished = Node
    BY <2>1, NotActiveMeansDone
  <2>3. SorterInv' /\ WheelInv' /\ ExclusiveInv'
    BY <2>1 DEF Inv, SorterInv, WheelInv, ExclusiveInv
  <2>4. PoolInv'
    BY <2>1 DEF Inv, PoolInv
  <2>5. MainInv'
    BY <2>1, <2>2 DEF Inv, MainInv
  <2> QED BY <1>0, <2>3, <2>4, <2>5 DEF Inv
<1>4. CASE Shutdown
  <2>1. /\ main = "raising" /\ main' = "failed"
        /\ UNCHANGED <<graph, preds, passedOut, inProgress, finished, futures, queued, job, outcome, mirror>>
        /\ Running' = Running /\ JobNodes' = JobNodes /\ Busy' = Busy /\ Node' = Node
    BY <1>4 DEF Shutdown, sorterVars, poolVars, Running, JobNodes, Busy, Node
  <2>2. SorterInv' /\ WheelInv' /\ ExclusiveInv'
    BY <2>1 DEF Inv, SorterInv, WheelInv, ExclusiveInv
  <2>3. PoolInv' /\ MainInv'
    BY <2>1 DEF Inv, PoolInv, MainInv
  <2> QED BY <1>0, <2>2, <2>3 DEF Inv
<1>5. ASSUME NEW n \in Package, Collect(n) PROVE Inv'
  BY <1>0, <1>5, CollectStep DEF Inv
<1>6. ASSUME NEW w \in Worker, NEW n \in Package, PickUp(w, n) PROVE Inv'
  <2>1. /\ Running' = Running \cup {w}
        /\ job'[w].node = n
        /\ \A v \in Running : v # w /\ job'[v].node = job[v].node
        /\ JobNodes' = JobNodes \cup {n}
    BY <1>6, PickUpJobs DEF Inv
  <2>2. /\ n \in queued /\ queued' = queued \ {n}
        /\ UNCHANGED <<graph, main, preds, passedOut, inProgress, finished, futures, outcome, mirror, Node>>
    BY <1>6 DEF PickUp, sorterVars, Node
  <2>3. Busy' = Busy /\ n \notin JobNodes
    BY <2>1, <2>2 DEF Busy, Inv, PoolInv
  <2>4. SorterInv' /\ WheelInv' /\ ExclusiveInv' /\ MainInv'
    BY <2>2 DEF Inv, SorterInv, WheelInv, ExclusiveInv, MainInv
  <2>5. \A v, x \in Running' : job'[v].node = job'[x].node => v = x
    BY <2>1, <2>3 DEF Inv, PoolInv, JobNodes
  <2>6. PoolInv'
    BY <2>1, <2>2, <2>3, <2>5 DEF Inv, PoolInv
  <2> QED BY <1>0, <2>4, <2>6 DEF Inv
<1>7. ASSUME NEW w \in Worker, NEW from, NEW to \in Step, Advance(w, from, to) PROVE Inv'
  BY <1>0, <1>7, AdvanceStep DEF Inv
<1>8. ASSUME NEW w \in Worker,
             \/ Reuse(w) \/ DownloadPrebuilt(w) \/ PrepareSource(w)
             \/ InstallEnvironment(w) \/ BuildWheel(w)
      PROVE  Inv'
  BY <1>7, <1>8 DEF Reuse, DownloadPrebuilt, PrepareSource, InstallEnvironment, BuildWheel, Step
<1>9. ASSUME NEW w \in Worker, Raise(w) PROVE Inv'
  BY <1>0, <1>9, EndStep DEF Inv, Raise, sorterVars
<1>10. ASSUME NEW w \in Worker, Publish(w) PROVE Inv'
  <2>1. mirror \subseteq mirror'
    BY <1>10 DEF Publish
  <2>2. job[w].node \in mirror'
    BY <1>10 DEF Publish, Inv, PublishInv
  <2> QED BY <1>0, <1>10, <2>1, <2>2, EndStep DEF Inv, Publish, sorterVars
<1>11. CASE UNCHANGED vars
  <2>1. Running' = Running /\ JobNodes' = JobNodes /\ Busy' = Busy /\ Node' = Node
    BY <1>11 DEF vars, sorterVars, poolVars, Running, JobNodes, Busy, Node
  <2> QED
    BY <1>0, <1>11, <2>1 DEF vars, sorterVars, poolVars, Inv, SorterInv, PoolInv, WheelInv,
                            MainInv, ExclusiveInv
<1> QED
  BY <1>1, <1>2, <1>3, <1>4, <1>5, <1>6, <1>8, <1>9, <1>10, <1>11 DEF Next, Main, Thread

(* The inductive invariant holds in every reachable state of build-parallel. *)
THEOREM Invariant == Spec => []Inv
BY InvInit, InvStep, PTL DEF Spec

-----------------------------------------------------------------------------
(* When a build environment is installed, the local wheel server offers all   *)
(* of it, whatever the graph and whatever the threads do.                    *)
THEOREM EnvironmentIsComplete == Spec => []EnvironmentComplete
<1>1. Inv => EnvironmentComplete
  <2> SUFFICES ASSUME Inv, NEW w \in Running
               PROVE  Installable(graph, Children(graph, job[w].node, BuildType), mirror)
    BY DEF EnvironmentComplete
  <2> DEFINE n == job[w].node
  <2>1. n \in futures /\ n \in passedOut /\ n \in Node
    BY DEF Inv, PoolInv, SorterInv, Busy, JobNodes
  <2>2. preds[n] \subseteq mirror
    BY <2>1 DEF Inv, SorterInv, WheelInv, TypeOK
  <2>3. preds[n] = BuildRequirements(graph, n)
    BY <2>1 DEF Inv, MainInv, BuildTopology, Node
  <2>4. graph \in Graph /\ WellFormed(graph)
    BY ParallelAssumption DEF Inv, TypeOK
  <2> QED BY <2>2, <2>3, <2>4, BuildRequirementsSuffice
<1> QED BY <1>1, Invariant, PTL

(* An exclusive package shares the machine with no other build.               *)
THEOREM ExclusiveIsAlone == Spec => []ExclusiveAlone
<1>1. Inv => ExclusiveAlone
  BY DEF Inv, ExclusiveInv, PoolInv, Busy, ExclusiveAlone
<1> QED BY <1>1, Invariant, PTL

(* No package is built twice, by two threads or again after it was done.      *)
THEOREM EachBuiltOnce == Spec => []BuiltOnce
<1>1. Inv => BuiltOnce
  BY DEF Inv, PoolInv, SorterInv, Busy, BuiltOnce
<1> QED BY <1>1, Invariant, PTL

(* The command succeeds only with a wheel of every package of the graph.      *)
THEOREM DoneIsComplete == Spec => []DoneMeansAllBuilt
<1>1. Inv => DoneMeansAllBuilt
  <2> SUFFICES ASSUME Inv, main = "done" PROVE graph.nodes \ {ROOT} \subseteq mirror
    BY DEF DoneMeansAllBuilt
  <2>1. Node = graph.nodes \ {ROOT}
    BY TopologyType DEF Inv, TypeOK, MainInv, Node
  <2>2. finished \subseteq mirror
    BY DEF Inv, WheelInv, TypeOK
  <2> QED BY <2>1, <2>2 DEF Inv, MainInv
<1> QED BY <1>1, Invariant, PTL

(* After a failed build nothing new is submitted.                            *)
THEOREM NothingStartsAfterFailure == Spec => NoRoundAfterFailure
<1>1. Inv /\ [Next]_vars /\ (\E n \in Package : outcome[n] = "error") => futures' \subseteq futures
  <2> SUFFICES ASSUME Inv, [Next]_vars, NEW n \in Package, outcome[n] = "error"
               PROVE  futures' \subseteq futures
    OBVIOUS
  <2>1. ~StartRound
    <3> SUFFICES ASSUME main = "rounds" PROVE FALSE
      BY DEF StartRound
    <3>1. futures = {} /\ n \in finished
      BY DEF Inv, MainInv, PoolInv
    <3> QED BY <3>1 DEF Inv, WheelInv
  <2>2. CASE Main
    BY <2>1, <2>2 DEF Main, Prepare, Summarize, Shutdown, Collect, TakeFuture, poolVars
  <2>3. ASSUME NEW w \in Worker, Thread(w) PROVE UNCHANGED futures
    BY <2>3 DEF Thread, PickUp, Reuse, DownloadPrebuilt, PrepareSource, InstallEnvironment,
                BuildWheel, Raise, Publish, Advance
  <2>4. CASE UNCHANGED vars
    BY <2>4 DEF vars, poolVars
  <2> QED BY <2>2, <2>3, <2>4 DEF Next
<1> QED BY <1>1, Invariant, PTL DEF Spec, NoRoundAfterFailure

-----------------------------------------------------------------------------
(* The rounds, the pool and the threads implement the abstract schedule: a    *)
(* package is started only when its environment is built, alone if it is      *)
(* exclusive, and never after a failure.                                     *)
Built  == {n \in Package : outcome[n] = "ok"}
Failed == {n \in Package : outcome[n] = "error"}

(* The initial states are initial states of the schedule.                    *)
LEMMA ScheduleInit == Inv /\ Init => Schedule!Init
<1> SUFFICES ASSUME Inv, Init PROVE Schedule!Init
  OBVIOUS
<1>1. Topology = BuildTopology(graph)
  BY DEF Topology, Init
<1>2. DOMAIN Topology \subseteq Package /\ \A n \in DOMAIN Topology : Topology[n] \subseteq Package
  BY <1>1, TopologyType DEF Init
<1>3. queued \cup JobNodes = {}
  BY DEF Init, JobNodes, Running
<1> QED BY <1>2, <1>3 DEF Schedule!Init, Init

(* A step is a step of the schedule or changes nothing that it sees.         *)
LEMMA ScheduleStep == Inv /\ [Next]_vars => [Schedule!Next]_Schedule!vars
<1> SUFFICES ASSUME Inv, [Next]_vars, ~UNCHANGED Schedule!vars
             PROVE  Schedule!Next
  OBVIOUS
<1>1. UNCHANGED Topology
  <2>1. CASE Prepare
    BY <2>1 DEF Prepare, Topology
  <2>2. CASE ~Prepare
    <3>1. UNCHANGED <<graph, preds>> /\ (main = "start" <=> main' = "start")
      BY <2>2 DEF Next, Main, StartRound, Summarize, Shutdown, Collect, TakeFuture, NextTurn,
                  Thread, PickUp, Reuse, DownloadPrebuilt, PrepareSource, InstallEnvironment,
                  BuildWheel, Raise, Publish, Advance, vars, sorterVars
    <3> QED BY <3>1 DEF Topology
  <2> QED BY <2>1, <2>2
<1>2. CASE UNCHANGED <<queued, job, outcome>>
  BY <1>1, <1>2 DEF Schedule!vars, JobNodes, Running
<1>3. CASE StartRound
  <2> DEFINE S == Available(inProgress \cup Ready)
  <2>1. main = "rounds" /\ futures = {} /\ Busy = {}
    BY <1>3 DEF StartRound, Inv, MainInv, PoolInv
  <2>2. UNCHANGED <<job, outcome, JobNodes>> /\ queued' = S
    BY <1>3 DEF StartRound, JobNodes, Running
  <2>3. inProgress \cup Ready \subseteq Node /\ Node \subseteq Package
    BY DEF Inv, TypeOK, SorterInv, Ready
  <2>4. /\ S \subseteq inProgress \cup Ready
        /\ \A n \in S \cap Exclusive : S = {n}
    BY <2>3, AvailableExclusive
  <2>5. Failed = {}
    BY <2>1 DEF Failed, Inv, PoolInv, WheelInv
  <2>6. S # {}
    BY <1>1, <2>1, <2>2 DEF Schedule!vars, Busy
  <2>7. Topology = preds
    BY <2>1 DEF Topology
  <2>8. S \subseteq DOMAIN Topology \ (Busy \cup Built)
    <3>1. ASSUME NEW n \in S PROVE n \in Node /\ outcome[n] # "ok"
      <4>1. n \in Node /\ n \notin finished
        BY <2>3, <2>4 DEF Inv, SorterInv, Ready
      <4> QED BY <4>1, <2>1, <2>3 DEF Inv, PoolInv
    <3> QED BY <3>1, <2>1, <2>7 DEF Node, Built
  <2>9. ASSUME NEW n \in S PROVE Topology[n] \subseteq Built
    <3>1. ASSUME NEW m \in preds[n] PROVE m \in finished
      BY <2>4, <3>1 DEF Inv, SorterInv, Ready
    <3> QED BY <3>1, <2>1, <2>7 DEF Inv, WheelInv, TypeOK, Built
  <2>10. Schedule!Start(S)
    BY <1>1, <2>1, <2>2, <2>4, <2>5, <2>6, <2>8, <2>9 DEF Schedule!Start, Busy, Built, Failed
  <2> QED BY <2>3, <2>4, <2>10 DEF Schedule!Next
<1>4. ASSUME NEW n \in Package, NEW w \in Worker, PickUp(w, n) PROVE FALSE
  <2>1. JobNodes' = JobNodes \cup {n}
    BY <1>4, PickUpJobs DEF Inv
  <2> QED BY <1>1, <1>4, <2>1 DEF PickUp, Schedule!vars
<1>5. ASSUME NEW w \in Worker, NEW from, NEW to \in Step, Advance(w, from, to) PROVE FALSE
  <2>1. JobNodes' = JobNodes
    BY <1>5, AdvanceJobs DEF Inv
  <2> QED BY <1>1, <1>5, <2>1 DEF Advance, Schedule!vars
<1>6. ASSUME NEW w \in Worker, Raise(w) \/ Publish(w) PROVE Schedule!Next
  <2>0. job[w].node \in Package
    BY <1>6 DEF Raise, Publish, Inv, PoolInv, TypeOK, Busy, JobNodes
  <2> PICK n \in Package : n = job[w].node
    BY <2>0
  <2>1. /\ w \in Running
        /\ job' = [job EXCEPT ![w] = Idle]
        /\ UNCHANGED queued
        /\ \/ outcome' = [outcome EXCEPT ![n] = "error"]
           \/ outcome' = [outcome EXCEPT ![n] = "ok"]
    BY <1>6 DEF Raise, Publish
  <2>2. n \in Busy /\ n \in Package /\ outcome[n] = "none" /\ n \notin queued
    BY <2>1 DEF Inv, PoolInv, TypeOK, Busy, JobNodes
  <2>3. JobNodes' = JobNodes \ {n}
    BY <2>1, EndJobs DEF Inv
  <2>4. queued' \cup JobNodes' = Busy \ {n}
    BY <2>1, <2>2, <2>3 DEF Busy
  <2>5. CASE outcome' = [outcome EXCEPT ![n] = "error"]
    <3>1. Failed' = Failed \cup {n} /\ Built' = Built
      BY <2>2, <2>5 DEF Failed, Built, Inv, TypeOK
    <3>2. Schedule!Fail(n)
      BY <1>1, <2>2, <2>4, <3>1 DEF Schedule!Fail, Busy, Built, Failed
    <3> QED BY <2>2, <3>2 DEF Schedule!Next
  <2>6. CASE outcome' = [outcome EXCEPT ![n] = "ok"]
    <3>1. Built' = Built \cup {n} /\ Failed' = Failed
      BY <2>2, <2>6 DEF Failed, Built, Inv, TypeOK
    <3>2. Schedule!Finish(n)
      BY <1>1, <2>2, <2>4, <3>1 DEF Schedule!Finish, Busy, Built, Failed
    <3> QED BY <2>2, <3>2 DEF Schedule!Next
  <2> QED BY <2>1, <2>5, <2>6
<1>7. CASE Prepare \/ Summarize \/ Shutdown \/ UNCHANGED vars \/ \E n \in Package : Collect(n)
  BY <1>2, <1>7 DEF Prepare, Summarize, Shutdown, Collect, TakeFuture, vars, poolVars
<1>8. ASSUME NEW w \in Worker, Thread(w) PROVE Schedule!Next
  BY <1>4, <1>5, <1>6, <1>8 DEF Thread, Reuse, DownloadPrebuilt, PrepareSource,
                               InstallEnvironment, BuildWheel, Step
<1> QED BY <1>3, <1>7, <1>8 DEF Next, Main

(* The build-parallel command implements the abstract schedule.              *)
THEOREM ImplementsSchedule == Spec => ScheduleSpec
<1>1. Init => Inv
  BY InvInit
<1> QED
  BY <1>1, ScheduleInit, ScheduleStep, Invariant, PTL DEF Spec, ScheduleSpec, Schedule!Spec

=============================================================================
