--------------------------- MODULE BuildParallel ---------------------------
(***************************************************************************)
(* The build-parallel command (src/fromager/commands/build.py) with the     *)
(* TrackingTopologicalSorter it drives (src/fromager/dependency_graph.py)   *)
(* and the wheel mirror it fills (src/fromager/server.py).                  *)
(*                                                                         *)
(* The main thread reads the graph, and in rounds asks the sorter for the   *)
(* nodes that can be built, submits all of them to a thread pool and waits  *)
(* for all of them.  Each pool thread builds in a directory of its own and  *)
(* moves what it finds there to the mirror, from which the build            *)
(* environments of later builds are installed.                              *)
(***************************************************************************)
EXTENDS DependencyGraph, Naturals

CONSTANTS
  Worker,     \* threads of the pool: --max-workers of them
  Exclusive,  \* packages whose settings say exclusive_build
  PreBuilt,   \* packages whose settings say pre_built
  Rank,       \* the order of nodes, by name and version
  ForceBuild, \* --force: do not look for wheels that exist already
  Cached,     \* the wheels that the cache server offers
  Leftovers,  \* what an earlier run may have left in a build directory
  Graphs      \* the graphs that graph_file may hold

ASSUME ParallelAssumption ==
  /\ Exclusive \subseteq Package
  /\ PreBuilt \subseteq Package
  /\ Rank \in [Package -> Nat]
  /\ \A a, b \in Package : Rank[a] = Rank[b] => a = b
  /\ ForceBuild \in BOOLEAN
  /\ Cached \subseteq Package
  /\ Leftovers \subseteq SUBSET Package
  /\ Graphs \subseteq {g \in Graph : WellFormed(g)}

Idle == [node |-> ROOT, step |-> "idle"]
Step == {"check", "environment", "build", "publish"}

VARIABLES
  graph,       \* the graph read from graph_file
  main,        \* where the main thread is
  preds,       \* TopologicalSorter: the predecessors of every node
  passedOut,   \* TopologicalSorter: nodes that get_ready has returned
  inProgress,  \* _in_progress_nodes: passed out and not yet done
  finished,    \* TopologicalSorter: nodes marked as done
  futures,     \* future2node: nodes submitted and not yet collected
  queued,      \* submitted nodes that no thread has picked up
  job,         \* what each thread is doing
  outcome,     \* how the future of a node ended
  buildDir,    \* the wheels in the build directory of each thread
  downloads,   \* the wheels in wheels_downloads
  mirror       \* the wheels that the local wheel server has a link to

sorterVars == <<preds, passedOut, inProgress, finished>>
poolVars   == <<futures, queued, job, outcome, buildDir, downloads, mirror>>
vars       == <<graph, main, sorterVars, poolVars>>

Node     == DOMAIN preds
Running  == {w \in Worker : job[w] # Idle}
JobNodes == {job[w].node : w \in Running}
DepNodes == UNION {preds[n] : n \in Node}

-----------------------------------------------------------------------------
(* graphlib.TopologicalSorter, which src/ uses and does not define: a node   *)
(* is ready, once, when all its predecessors are done.                       *)
Ready    == {n \in Node \ passedOut : preds[n] \subseteq finished}
TopoActive == Ready # {} \/ finished # passedOut

(* TrackingTopologicalSorter.is_active *)
IsActive == inProgress # {} \/ TopoActive

(* The exclusive nodes in the order get_available considers them:            *)
(* predecessors of other nodes first, by name within each group.             *)
Before(a, b) ==
  \/ a \in DepNodes /\ b \notin DepNodes
  \/ (a \in DepNodes <=> b \in DepNodes) /\ Rank[a] <= Rank[b]

(* Mutant: exclusive nodes are returned with the others. *)
AvailableTogether(nodes) == nodes

(* What get_available returns of the nodes in progress: all the ordinary     *)
(* ones or, when there is none, the first exclusive one.                     *)
Available(nodes) ==
  IF nodes \ Exclusive # {}
    THEN nodes \ Exclusive
    ELSE {n \in nodes : \A m \in nodes : Before(n, m)}

-----------------------------------------------------------------------------
(* The directories may hold wheels of an earlier run; start_wheel_server has  *)
(* linked those in wheels_downloads.                                         *)
Init ==
  /\ graph \in Graphs
  /\ main = "start"
  /\ preds = [n \in {} |-> {}]
  /\ passedOut = {} /\ inProgress = {} /\ finished = {}
  /\ futures = {} /\ queued = {}
  /\ job = [w \in Worker |-> Idle]
  /\ outcome = [n \in Package |-> "none"]
  /\ buildDir \in [Worker -> Leftovers]
  /\ downloads \in SUBSET Package
  /\ mirror = downloads

(* get_build_topology and prepare: CycleError ends the command.              *)
Prepare ==
  /\ main = "start"
  /\ preds' = BuildTopology(graph)
  /\ main' = IF HasCycle(preds') THEN "cycle" ELSE "rounds"
  /\ UNCHANGED <<graph, passedOut, inProgress, finished, poolVars>>

(* One turn of the while loop up to as_completed: get_available, and every   *)
(* node it returns is submitted; if there is none, get_available raises.      *)
StartRound ==
  LET nodes == inProgress \cup Ready
  IN  /\ main = "rounds"
      /\ IsActive
      /\ passedOut' = passedOut \cup Ready
      /\ inProgress' = nodes
      /\ futures' = Available(nodes)
      /\ queued' = Available(nodes)
      /\ main' = IF nodes = {} THEN "failed" ELSE "waiting"
      /\ UNCHANGED <<graph, preds, finished, job, outcome, buildDir, downloads, mirror>>

(* The loop is over: every node is done.                                     *)
Summarize ==
  /\ main = "rounds"
  /\ ~IsActive
  /\ main' = "done"
  /\ UNCHANGED <<graph, sorterVars, poolVars>>

(* as_completed yields a future; the main thread takes it, marks nodes as    *)
(* done and goes on.                                                         *)
TakeFuture(n, left, next) ==
  /\ main = "waiting"
  /\ n \in futures
  /\ outcome[n] # "none"
  /\ futures' = futures \ {n}
  /\ finished' = finished \cup {n}
  /\ inProgress' = left
  /\ main' = next
  /\ UNCHANGED <<graph, preds, passedOut, queued, job, outcome, buildDir, downloads, mirror>>

NextTurn(n) == IF futures = {n} THEN "rounds" ELSE "waiting"

(* Mutants: a failure is logged and not raised; done leaves the node in      *)
(* progress.                                                                 *)
CollectSwallowing(n) == TakeFuture(n, inProgress \ {n}, NextTurn(n))
CollectKeeping(n) ==
  TakeFuture(n, inProgress, IF outcome[n] = "error" THEN "raising" ELSE NextTurn(n))

(* topo.done runs in a finally block, for a failed build too; the failure is *)
(* then raised out of the loop.                                              *)
Collect(n) ==
  TakeFuture(n, inProgress \ {n}, IF outcome[n] = "error" THEN "raising" ELSE NextTurn(n))

(* Mutant: the loop goes on after a failed round. *)
ShutdownAndGoOn ==
  /\ main = "raising"
  /\ queued = {}
  /\ Running = {}
  /\ main' = "rounds"
  /\ UNCHANGED <<graph, sorterVars, poolVars>>

(* Leaving the with block waits for the pool, which still runs what is       *)
(* queued: nothing is cancelled.                                             *)
Shutdown ==
  /\ main = "raising"
  /\ queued = {}
  /\ Running = {}
  /\ main' = "failed"
  /\ UNCHANGED <<graph, sorterVars, poolVars>>

-----------------------------------------------------------------------------
(* The pool threads: _build, one step per part of it that other threads can  *)
(* observe.                                                                  *)

PickUp(w, n) ==
  /\ w \notin Running
  /\ n \in queued
  /\ queued' = queued \ {n}
  /\ job' = [job EXCEPT ![w] = [node |-> n, step |-> "check"]]
  /\ UNCHANGED <<graph, main, sorterVars, futures, outcome, buildDir, downloads, mirror>>

Advance(w, from, to) ==
  /\ w \in Running
  /\ job[w].step = from
  /\ job' = [job EXCEPT ![w].step = to]
  /\ UNCHANGED <<graph, main, sorterVars, futures, queued, outcome, mirror>>

(* _is_wheel_built finds the wheel, here or on the cache server, from which   *)
(* it is saved to wheels_downloads.                                          *)
Reuse(w) ==
  /\ ~ForceBuild
  /\ job[w].node \in mirror \cup Cached
  /\ Advance(w, "check", "publish")
  /\ downloads' = downloads \cup {job[w].node}
  /\ UNCHANGED buildDir

(* _is_wheel_built swallows every error, so an existing wheel may be missed. *)
DownloadPrebuilt(w) ==
  /\ job[w].node \in PreBuilt
  /\ Advance(w, "check", "publish")
  /\ buildDir' = [buildDir EXCEPT ![w] = @ \cup {job[w].node}]
  /\ UNCHANGED downloads

PrepareSource(w) ==
  /\ job[w].node \notin PreBuilt
  /\ Advance(w, "check", "environment")
  /\ UNCHANGED <<buildDir, downloads>>

(* prepare_build_environment installs the build requirements from the local  *)
(* wheel server.                                                             *)
InstallEnvironment(w) ==
  /\ Advance(w, "environment", "build")
  /\ Installable(graph, Children(graph, job[w].node, BuildType), mirror)
  /\ UNCHANGED <<buildDir, downloads>>

(* wheels.build_wheel insists on exactly one wheel in the thread's directory. *)
BuildWheel(w) ==
  /\ Advance(w, "build", "publish")
  /\ buildDir[w] \subseteq {job[w].node}
  /\ buildDir' = [buildDir EXCEPT ![w] = {job[w].node}]
  /\ UNCHANGED downloads

(* An exception leaves the thread's directory as it is, with the wheel in it  *)
(* when it was a check or a hook after the build that raised.  The hooks for  *)
(* a prebuilt wheel run when the wheel is there.                             *)
Raise(w) ==
  /\ w \in Running
  /\ job[w].step = "publish" => job[w].node \in PreBuilt
  /\ \/ UNCHANGED buildDir
     \/ /\ job[w].step = "build"
        /\ buildDir' = [buildDir EXCEPT ![w] = @ \cup {job[w].node}]
  /\ outcome' = [outcome EXCEPT ![job[w].node] = "error"]
  /\ job' = [job EXCEPT ![w] = Idle]
  /\ UNCHANGED <<graph, main, sorterVars, futures, queued, downloads, mirror>>

(* update_wheel_mirror, under its lock, moves every wheel of the thread's     *)
(* directory and links every wheel of wheels_downloads.                      *)
Publish(w) ==
  /\ w \in Running
  /\ job[w].step = "publish"
  /\ downloads' = downloads \cup buildDir[w]
  /\ mirror' = mirror \cup downloads'
  /\ buildDir' = [buildDir EXCEPT ![w] = {}]
  /\ outcome' = [outcome EXCEPT ![job[w].node] = "ok"]
  /\ job' = [job EXCEPT ![w] = Idle]
  /\ UNCHANGED <<graph, main, sorterVars, futures, queued>>

Thread(w) ==
  \/ \E n \in Package : PickUp(w, n)
  \/ Reuse(w) \/ DownloadPrebuilt(w) \/ PrepareSource(w)
  \/ InstallEnvironment(w) \/ BuildWheel(w) \/ Raise(w) \/ Publish(w)

Main ==
  \/ Prepare \/ StartRound \/ Summarize \/ Shutdown
  \/ \E n \in Package : Collect(n)

Next == Main \/ \E w \in Worker : Thread(w)

Spec == Init /\ [][Next]_vars

(* Every thread keeps running: builds end, and the main thread is woken by a *)
(* completed future.                                                         *)
Fairness == WF_vars(Main) /\ \A w \in Worker : WF_vars(Thread(w))

FairSpec == Spec /\ Fairness
-----------------------------------------------------------------------------
TypeOK ==
  /\ graph \in Graphs
  /\ main \in {"start", "cycle", "rounds", "waiting", "raising", "failed", "done"}
  /\ Node \subseteq Package
  /\ preds \in [Node -> SUBSET Package]
  /\ passedOut \subseteq Package /\ inProgress \subseteq Package
  /\ finished \subseteq Package
  /\ futures \subseteq Package /\ queued \subseteq Package
  /\ job \in [Worker -> [node : Package, step : Step] \cup {Idle}]
  /\ outcome \in [Package -> {"none", "ok", "error"}]
  /\ buildDir \in [Worker -> SUBSET Package]
  /\ downloads \subseteq Package /\ mirror \subseteq Package

(* When a build environment is installed, the local server offers all of it: *)
(* the build requirements of the package and, recursively, what these        *)
(* install, whatever the interleaving of threads and whatever failed before  *)
(* (get_build_topology, get_available, done, _build).                        *)
EnvironmentComplete ==
  \A w \in Running :
    job[w].step \in {"environment", "build"} =>
      Installable(graph, Children(graph, job[w].node, BuildType), mirror)

(* While an exclusive package is queued or built, nothing else is.           *)
ExclusiveAlone ==
  \A n \in (queued \cup JobNodes) \cap Exclusive : queued \cup JobNodes = {n}

(* A command that ends well has a wheel for every node of the graph           *)
(* (_build_parallel, TrackingTopologicalSorter.is_active).                   *)
DoneMeansAllBuilt == main = "done" => graph.nodes \ {ROOT} \subseteq mirror

(* A node is built by one thread at most and not again after it was done,     *)
(* although get_available returns a node until it is marked as done.         *)
BuiltOnce ==
  /\ \A v, w \in Running : job[v].node = job[w].node => v = w
  /\ JobNodes \cap (finished \cup queued) = {}

(* After a build has failed no new round starts: only what was queued with   *)
(* the failed build still runs.  Part of what ScheduleSpec promises.          *)
NoRoundAfterFailure ==
  [][(\E n \in Package : outcome[n] = "error") => futures' \subseteq futures]_vars

(* The refinement mapping to what a parallel build promises.  Before the      *)
(* sorter is prepared its topology is the one the graph determines.          *)
Topology == IF main = "start" THEN BuildTopology(graph) ELSE preds

Schedule == INSTANCE BuildSchedule WITH
  preds    <- Topology,
  building <- queued \cup JobNodes,
  built    <- {n \in Package : outcome[n] = "ok"},
  failed   <- {n \in Package : outcome[n] = "error"}

(* Every behaviour of the command is one that BuildSchedule allows.           *)
ScheduleSpec == Schedule!Spec

(* The command ends, with a cycle found, with a failure or with all done.    *)
Terminates == <>(main \in {"cycle", "failed", "done"})
=============================================================================
