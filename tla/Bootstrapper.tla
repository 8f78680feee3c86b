---------------------------- MODULE Bootstrapper ----------------------------
(***************************************************************************)
(* The bootstrap command: the loop of src/fromager/bootstrapper/ that       *)
(* resolves the top-level requirements, builds every package they need in   *)
(* dependency order and records what it did in the dependency graph and in  *)
(* the build order.                                                        *)
(*                                                                         *)
(* The main thread runs a stack of items, one phase of one requirement      *)
(* each.  Pool threads resolve requirements and fetch sources ahead of it.  *)
(* Three directories hold wheels: wheels_build, where builds write,         *)
(* wheels_downloads and wheels_prebuilt; the local wheel server offers the  *)
(* last two.                                                               *)
(***************************************************************************)
EXTENDS Sequences, Integers, FiniteSets

CONSTANTS
  Name,              \* package names: numbers, in the order of the names
  Version,           \* versions: positive numbers
  ROOT,              \* the node of the command line
  Universes,         \* what the index, the wheel servers and the settings hold
  TestMode,          \* --test-mode
  MultipleVersions,  \* --multiple-versions
  SdistOnly,         \* --sdist-only
  MaxFaults          \* bound: distinct phases of packages that may fail

Pkg       == Name \X Version
NoVersion == 0

INSTANCE DependencyGraph WITH Package <- Pkg

(* A requirement: a name, extras or none, and the versions it admits.         *)
Req == [name : Name, extras : BOOLEAN, spec : SUBSET Version]

(* A run without a top-level requirement stops before it starts.  sdists and   *)
(* wheels are what the package index offers, cache what the cache  *)
(* server has (wheels that an earlier fromager built); system, backend and   *)
(* sdist are the build requirements of a package, install and extra what it   *)
(* installs without and with its extras.                                     *)
Universe ==
  [top : Seq(Req) \ {<<>>}, sdists : SUBSET Pkg, wheels : SUBSET Pkg, cache : SUBSET Pkg,
   prebuilt : SUBSET Name, exclusive : SUBSET Name,
   system : [Pkg -> SUBSET Req], backend : [Pkg -> SUBSET Req], sdist : [Pkg -> SUBSET Req],
   install : [Pkg -> SUBSET Req], extra : [Pkg -> SUBSET Req]]

ASSUME BootstrapperAssumption ==
  /\ Name \subseteq Nat /\ IsFiniteSet(Name)
  /\ Version \subseteq Nat \ {NoVersion} /\ IsFiniteSet(Version)
  /\ ROOT \notin Pkg
  /\ Universes \subseteq Universe
  /\ {TestMode, MultipleVersions, SdistOnly} \subseteq BOOLEAN
  /\ ~(TestMode /\ SdistOnly)
  /\ MaxFaults \in Nat

VARIABLES
  u,               \* the universe of this run
  pc,              \* "top-level", "loop", "finalized" or "aborted"
  todo,            \* top-level requirements still to be resolved
  stack,           \* the work stack, the next item first
  seen,            \* _seen_requirements
  graph,           \* ctx.dependency_graph
  buildOrder,      \* _build_stack, what build-order.json will hold
  failures,        \* failed_packages
  failedVersions,  \* _failed_versions
  wheelsBuild,     \* wheels in ctx.wheels_build
  downloads,       \* wheels in ctx.wheels_downloads
  prebuiltDir,     \* wheels in ctx.wheels_prebuilt
  raw,             \* wheels that a failed build left, without build requirements
  exitCode,        \* what finalize returned
  faults           \* the phases that failed by themselves: hooks, builds, network

records == <<seen, graph, buildOrder, failures, failedVersions>>
dirs    == <<wheelsBuild, downloads, prebuiltDir, raw>>
vars    == <<u, pc, todo, stack, records, dirs, exitCode, faults>>

Phase == {"resolve", "start", "prepare-source", "prepare-build", "build",
          "process-install-deps", "complete"}

-----------------------------------------------------------------------------
(* Resolution.  Without a previous graph and a cooldown the resolver returns  *)
(* what the index offers and the requirement admits.                         *)
Highest(S) == CHOOSE v \in S : \A w \in S : w <= v

Matching(offer, r) == {v \in r.spec : <<r.name, v>> \in offer}

Offer(r) == IF r.name \in u.prebuilt THEN u.wheels ELSE u.sdists

Candidates(r) == Matching(Offer(r), r)

(* The sequences of the elements of S by descending rank.  Requirements of    *)
(* one name come in any order: they are sorted by name, from a set.          *)
Descending(S, rank) ==
  {s \in [1..Cardinality(S) -> S] :
     \A i, j \in 1..Cardinality(S) : i < j => s[i] # s[j] /\ rank[s[i]] >= rank[s[j]]}

ByName(S)    == Descending(S, [r \in S |-> r.name])
ByVersion(S) == Descending(S, [v \in S |-> v])

-----------------------------------------------------------------------------
(* What uv can install from the local wheel server: packages that satisfy     *)
(* what is asked for and what each of them installs, one version of each.    *)
(* The names in extended are installed with their extras.                    *)
Mirror == downloads \cup prebuiltDir

InstallsFrom(asked, wheels) ==
  \E env \in SUBSET wheels, extended \in SUBSET Name :
    LET reqs == UNION ({asked} \cup {u.install[p] : p \in env}
                         \cup {u.extra[p] : p \in {q \in env : q[1] \in extended}})
    IN  /\ \A p, q \in env : p[1] = q[1] => p = q
        /\ \A r \in reqs : /\ \E p \in env : p[1] = r.name /\ p[2] \in r.spec
                           /\ r.extras => r.name \in extended

CanInstall(asked) == InstallsFrom(asked, Mirror)

-----------------------------------------------------------------------------
(* Items.  why is the chain of requirements that led here, each resolved.    *)
NewItem(r, type, why, parent) ==
  [phase |-> "resolve", req |-> r, type |-> type, why |-> why, parent |-> parent,
   ver |-> NoVersion, sdistOnly |-> FALSE, future |-> "pending", cached |-> FALSE,
   system |-> {}, backend |-> {}, sdist |-> {}, result |-> NoVersion]

PkgOf(it)  == <<it.req.name, it.ver>>
LinkOf(it) == [type |-> it.type, req |-> it.req, ver |-> it.ver]

(* Mutants: the first requirement is lost; a fallback's version names the parent. *)
ResolvesButFirst(order, type, it) ==
  [i \in 1..(Len(order) - 1) |->
     NewItem(order[i + 1], type, Append(it.why, LinkOf(it)), PkgOf(it))]

ResolvesForResult(order, type, it) ==
  [i \in DOMAIN order |->
     NewItem(order[i], type, Append(it.why, LinkOf(it)),
             <<it.req.name, IF type = "install" THEN it.result ELSE it.ver>>)]

(* create_unresolved_work_items *)
Resolves(order, type, it) ==
  [i \in DOMAIN order |-> NewItem(order[i], type, Append(it.why, LinkOf(it)), PkgOf(it))]

(* Mutants: only the type of the requirement itself counts; whatever is not asked *)
(* for on the command line is built.                                         *)
DirectBuildContext(it) == it.type \in BuildType
NestedContext(it)      == it.type # "toplevel"

(* is_build_requirement_context *)
BuildContext(it) ==
  \/ it.type \in BuildType
  \/ it.type \in InstallType /\ \E i \in DOMAIN it.why : it.why[i].type \in BuildType

SeenKey(it, type) == <<it.req.name, it.req.extras, it.ver, type>>

Top     == Head(stack)
Running(phase) == pc = "loop" /\ stack # <<>> /\ Top.phase = phase

(* _push_items, after the pop of the loop.                                   *)
Push(items) == items \o Tail(stack)

(* Items whose background work has not ended.                                *)
Pending == {i \in DOMAIN stack : stack[i].future = "pending"}

-----------------------------------------------------------------------------
Init ==
  /\ u \in Universes
  /\ pc = "top-level"
  /\ todo = u.top
  /\ stack = <<>>
  /\ seen = {}
  /\ graph = EmptyGraph
  /\ buildOrder = <<>>
  /\ failures = {} /\ failedVersions = {}
  /\ wheelsBuild = {} /\ downloads = {} /\ prebuiltDir = {} /\ raw = {}
  /\ exitCode = 0
  /\ faults = {}

-----------------------------------------------------------------------------
(* Faults: something outside the loop goes wrong in a phase of a package.     *)
Fault(it) ==
  /\ faults' = faults \cup {<<PkgOf(it), it.phase>>}
  /\ Cardinality(faults') <= MaxFaults

(* update_wheel_mirror after wheels were saved to the other directories.      *)
UpdateMirror(saved, savedPrebuilt) ==
  /\ downloads' = downloads \cup wheelsBuild \cup saved
  /\ prebuiltDir' = prebuiltDir \cup savedPrebuilt
  /\ wheelsBuild' = {}

(* A requirement that does not resolve, in _resolve_and_add_top_level and in  *)
(* _handle_phase_error.                                                      *)
RecordUnresolved(r) ==
  /\ failures' = IF TestMode THEN failures \cup {<<r.name, NoVersion>>} ELSE failures
  /\ failedVersions' = IF MultipleVersions THEN failedVersions \cup {<<r.name, NoVersion>>}
                       ELSE failedVersions

ResolveFailed(r) ==
  /\ stack' = Push(<<>>)
  /\ RecordUnresolved(r)
  /\ pc' = IF TestMode \/ MultipleVersions THEN "loop" ELSE "aborted"

(* _handle_phase_error for the other phases.  g is the graph when the phase   *)
(* raised and left the wheels it leaves in wheels_build.                     *)

(* _handle_test_mode_failure: the highest upstream wheel takes the place of   *)
(* the build.                                                                *)
Fallbacks(it) ==
  IF it.phase \in {"prepare-source", "prepare-build", "build"} /\ it.req.name \notin u.prebuilt
    THEN Matching(u.wheels, it.req) ELSE {}

FallBack(it, g, left) ==
  LET v == Highest(Fallbacks(it))
  IN  /\ TestMode /\ Fallbacks(it) # {}
      /\ stack' = Push(<<[it EXCEPT !.phase = "process-install-deps", !.result = v]>>)
      /\ graph' = g
      /\ downloads' = downloads \cup wheelsBuild \cup left
      /\ prebuiltDir' = prebuiltDir \cup {<<it.req.name, v>>}
      /\ wheelsBuild' = {}
      /\ UNCHANGED <<pc, seen, failures, failedVersions>>

(* Mutant: the failure is only logged. *)
LogFailure(it, g, left) ==
  /\ TestMode
  /\ stack' = Push(<<>>)
  /\ graph' = g
  /\ wheelsBuild' = wheelsBuild \cup left
  /\ UNCHANGED <<pc, seen, failures, failedVersions, downloads, prebuiltDir>>

(* Mutant: the item stays on the stack. *)
RecordAndRetry(it, g, left) ==
  /\ TestMode
  /\ failures' = failures \cup {PkgOf(it)}
  /\ graph' = g
  /\ wheelsBuild' = wheelsBuild \cup left
  /\ UNCHANGED <<pc, stack, seen, failedVersions, downloads, prebuiltDir>>

(* There is nothing to fall back on, or its download fails too.               *)
RecordFailure(it, g, left) ==
  /\ TestMode
  /\ stack' = Push(<<>>)
  /\ failures' = failures \cup {PkgOf(it)}
  /\ graph' = g
  /\ wheelsBuild' = wheelsBuild \cup left
  /\ UNCHANGED <<pc, seen, failedVersions, downloads, prebuiltDir>>

DropVersion(it, g, left) ==
  /\ ~TestMode /\ MultipleVersions
  /\ stack' = Push(<<>>)
  /\ failedVersions' = failedVersions \cup {PkgOf(it)}
  /\ graph' = RemoveDependency(g, PkgOf(it))
  /\ seen' = seen \ {SeenKey(it, "sdist"), SeenKey(it, "wheel")}
  /\ wheelsBuild' = wheelsBuild \cup left
  /\ UNCHANGED <<pc, failures, downloads, prebuiltDir>>

Abort(g, left) ==
  /\ ~TestMode /\ ~MultipleVersions
  /\ pc' = "aborted"
  /\ stack' = Push(<<>>)
  /\ graph' = g
  /\ wheelsBuild' = wheelsBuild \cup left
  /\ UNCHANGED <<seen, failures, failedVersions, downloads, prebuiltDir>>

PhaseFailed(it, g, left) ==
  /\ \/ FallBack(it, g, left) \/ RecordFailure(it, g, left)
     \/ DropVersion(it, g, left) \/ Abort(g, left)
  /\ raw' = raw \cup left
  /\ UNCHANGED <<u, todo, buildOrder, exitCode>>

-----------------------------------------------------------------------------
(* _resolve_and_add_top_level, for one requirement after the other; the items *)
(* are pushed, and their resolution submitted, when all are resolved.        *)
AfterTopLevel == IF todo' = <<>> THEN "loop" ELSE "top-level"

ResolveTopLevel ==
  LET r     == Head(todo)
      found == {<<r.name, v>> :
                  v \in IF MultipleVersions THEN Candidates(r) ELSE {Highest(Candidates(r))}}
  IN  /\ pc = "top-level"
      /\ Candidates(r) # {}
      /\ todo' = Tail(todo)
      /\ pc' = AfterTopLevel
      /\ stack' = <<NewItem(r, "toplevel", <<>>, ROOT)>> \o stack
      /\ graph' = [nodes |-> graph.nodes \cup found,
                   edges |-> graph.edges \cup
                     {[parent |-> ROOT, type |-> "toplevel", child |-> p] : p \in found}]
      /\ UNCHANGED <<u, seen, buildOrder, failures, failedVersions, dirs, exitCode, faults>>

FailTopLevel ==
  LET r == Head(todo)
  IN  /\ pc = "top-level"
      /\ IF Candidates(r) = {} THEN UNCHANGED faults ELSE Fault(NewItem(r, "toplevel", <<>>, ROOT))
      /\ todo' = Tail(todo)
      /\ RecordUnresolved(r)
      /\ pc' = IF TestMode \/ MultipleVersions THEN AfterTopLevel ELSE "aborted"
      /\ UNCHANGED <<u, stack, seen, graph, buildOrder, dirs, exitCode>>

(* A pool thread ends the resolution of an item.  That of a top-level         *)
(* requirement is remembered and cannot fail.                                *)
FinishResolution(i) ==
  /\ pc = "loop"
  /\ i \in Pending /\ stack[i].phase = "resolve"
  /\ \/ /\ stack' = [stack EXCEPT ![i].future = "done"]
        /\ UNCHANGED faults
     \/ /\ stack[i].type # "toplevel"
        /\ stack' = [stack EXCEPT ![i].future = "failed"]
        /\ Fault(stack[i])
  /\ UNCHANGED <<u, pc, todo, records, dirs, exitCode>>

(* Mutant: wheels_downloads is not searched. *)
LocalBuildOnly == wheelsBuild

(* find_cached_wheel in wheels_build and wheels_downloads; a wheel that a     *)
(* failed build left has no build requirements and is not used as a source.  *)
Local       == wheelsBuild \cup downloads
CachedWheel == Local \cup u.cache

(* bg_prepare_prebuilt and _bg_prepare_source.  A cache server that does not  *)
(* answer counts as one without the wheel.                                   *)
FetchSource(i) ==
  LET p      == PkgOf(stack[i])
      remote == p \in u.cache \ Local
      Fetched(cached) == stack' = [stack EXCEPT ![i].future = "done", ![i].cached = cached]
  IN  /\ pc = "loop"
      /\ i \in Pending /\ stack[i].phase = "prepare-source"
      /\ \/ /\ stack[i].req.name \in u.prebuilt
            /\ Fetched(FALSE)
            /\ UpdateMirror({}, {p})
            /\ UNCHANGED faults
         \/ /\ stack[i].req.name \notin u.prebuilt
            /\ remote
            /\ Fetched(TRUE)
            /\ UpdateMirror({p}, {})
            /\ UNCHANGED faults
         \/ /\ stack[i].req.name \notin u.prebuilt
            /\ Fetched(p \in Local \ raw)
            /\ IF remote THEN Fault(stack[i]) ELSE UNCHANGED faults
            /\ UNCHANGED <<wheelsBuild, downloads, prebuiltDir>>
         \/ /\ stack' = [stack EXCEPT ![i].future = "failed"]
            /\ Fault(stack[i])
            /\ UNCHANGED <<wheelsBuild, downloads, prebuiltDir>>
      /\ UNCHANGED <<u, pc, todo, records, raw, exitCode>>

-----------------------------------------------------------------------------
(* Resolve.run: one Start item per version that needs processing, the highest *)
(* on top.  With several versions those whose wheel is found are left out,    *)
(* the cache server being asked for all of them; missed are those that it    *)
(* has and does not answer for.                                              *)
Usable(r) == {v \in Candidates(r) : <<r.name, v>> \notin failedVersions}

Remote(r) ==
  IF MultipleVersions THEN {v \in Usable(r) : <<r.name, v>> \in u.cache \ Local} ELSE {}

Uncached(r, missed) == {v \in Usable(r) : v \in missed \/ <<r.name, v>> \notin CachedWheel}

Chosen(r, missed) ==
  IF MultipleVersions /\ Uncached(r, missed) # {} THEN Uncached(r, missed)
  ELSE {Highest(Usable(r))}

(* Mutant: the version is not passed on. *)
ResolvedUnset(it, versions) ==
  [i \in DOMAIN versions |-> [it EXCEPT !.phase = "start", !.future = "none"]]

(* Mutant: the sources of all versions are fetched at once. *)
ResolvedAhead(it, versions) ==
  [i \in DOMAIN versions |->
     [it EXCEPT !.phase = "prepare-source", !.ver = versions[i], !.future = "pending"]]

Resolved(it, versions) ==
  [i \in DOMAIN versions |-> [it EXCEPT !.phase = "start", !.ver = versions[i], !.future = "none"]]

RunResolve ==
  /\ Running("resolve")
  /\ LET r == Top.req
     IN \/ /\ Top.future = "done" /\ Usable(r) # {}
           /\ \E missed \in SUBSET Remote(r) :
                /\ IF missed = {} THEN UNCHANGED faults ELSE Fault(Top)
                /\ \E versions \in ByVersion(Chosen(r, missed)) :
                     stack' = Push(Resolved(Top, versions))
                /\ IF missed # Remote(r)
                     THEN UpdateMirror({r.name} \X (Remote(r) \ missed), {})
                     ELSE UNCHANGED <<wheelsBuild, downloads, prebuiltDir>>
           /\ UNCHANGED <<pc, failures, failedVersions>>
        \/ /\ \/ Top.future = "failed"
              \/ Top.future = "done" /\ Usable(r) = {}
           /\ ResolveFailed(r)
           /\ UNCHANGED <<wheelsBuild, downloads, prebuiltDir, faults>>
  /\ UNCHANGED <<u, todo, seen, graph, buildOrder, raw, exitCode>>

OnlySdist(it) == SdistOnly /\ ~BuildContext(it)

HasBeenSeen(it) == SeenKey(it, IF OnlySdist(it) THEN "sdist" ELSE "wheel") \in seen

(* Mutant: what was seen already is not added. *)
AddUnlessSeen(it) ==
  IF it.type = "toplevel" \/ HasBeenSeen(it) THEN graph
  ELSE AddDependency(graph, it.parent, it.type, PkgOf(it))

(* Start.run: the edge is recorded, then what was seen already is dropped.    *)
AddToGraph(it) ==
  IF it.type = "toplevel" THEN graph ELSE AddDependency(graph, it.parent, it.type, PkgOf(it))

SeenMarks(it) ==
  {SeenKey(it, "sdist")} \cup IF OnlySdist(it) THEN {} ELSE {SeenKey(it, "wheel")}

RunStart ==
  /\ Running("start")
  /\ \/ /\ Top.type # "toplevel" /\ ~ParentExists(AddToGraph(Top), Top.parent)
        /\ PhaseFailed(Top, AddToGraph(Top), {})
     \/ /\ Top.type = "toplevel" \/ ParentExists(AddToGraph(Top), Top.parent)
        /\ graph' = AddToGraph(Top)
        /\ IF HasBeenSeen(Top)
             THEN stack' = Push(<<>>) /\ UNCHANGED seen
             ELSE /\ seen' = seen \cup SeenMarks(Top)
                  /\ stack' = Push(<<[Top EXCEPT !.phase = "prepare-source", !.future = "pending",
                                                !.sdistOnly = OnlySdist(Top)]>>)
        /\ UNCHANGED <<u, pc, todo, buildOrder, failures, failedVersions, dirs, exitCode>>
  /\ UNCHANGED faults

(* PrepareSource.run: a prebuilt wheel needs no build; otherwise the build    *)
(* system requirements, which may fail to be found, come before the build.   *)
RunPrepareSource ==
  /\ Running("prepare-source")
  /\ \/ Top.future = "failed" /\ PhaseFailed(Top, graph, {}) /\ UNCHANGED faults
     \/ /\ Top.future = "done" /\ Top.req.name \notin u.prebuilt
        /\ Fault(Top) /\ PhaseFailed(Top, graph, {})
     \/ /\ Top.future = "done"
        /\ LET it == [Top EXCEPT !.future = "none"]
           IN IF Top.req.name \in u.prebuilt
                THEN stack' = Push(<<[it EXCEPT !.phase = "process-install-deps", !.result = Top.ver]>>)
                ELSE \E order \in ByName(u.system[PkgOf(Top)]) :
                       stack' = Push(Resolves(order, "build-system", Top)
                                      \o <<[it EXCEPT !.phase = "prepare-build",
                                                      !.system = u.system[PkgOf(Top)]]>>)
        /\ UNCHANGED <<u, pc, todo, records, dirs, exitCode, faults>>

(* get_resolved_build_system_versions: one version of each build system       *)
(* requirement (the last edge of a name counts).                             *)
BuildSystems(p) ==
  LET children == IF p \in graph.nodes THEN Children(graph, p, {"build-system"}) ELSE {}
      names    == {c[1] : c \in children}
  IN  {f \in [names -> Version] : \A n \in names : <<n, f[n]>> \in children}

(* Mutant: a backend requirement is always resolved anew. *)
NeverSatisfied(deps, f) == {}

(* filter_deps_satisfied_by_build_system: requirements with extras are never  *)
(* satisfied.                                                                *)
Satisfied(deps, f) == {r \in deps : ~r.extras /\ r.name \in DOMAIN f /\ f[r.name] \in r.spec}

SatisfiedEdges(p, deps, type, f) ==
  {[parent |-> p, type |-> type, child |-> <<r.name, f[r.name]>>] : r \in Satisfied(deps, f)}

RunPrepareBuild ==
  LET p == PkgOf(Top)
  IN  /\ Running("prepare-build")
      /\ \/ /\ \/ ~CanInstall(Top.system) /\ UNCHANGED faults
               \/ CanInstall(Top.system) /\ Fault(Top)
            /\ PhaseFailed(Top, graph, {})
         \/ /\ CanInstall(Top.system)
            /\ \E f \in BuildSystems(p) :
                 LET it == [Top EXCEPT !.phase = "build",
                                       !.backend = u.backend[p] \ Satisfied(u.backend[p], f),
                                       !.sdist = u.sdist[p] \ Satisfied(u.sdist[p], f)]
                 IN  /\ \E b \in ByName(it.backend), d \in ByName(it.sdist) :
                          stack' = Push(Resolves(d, "build-sdist", Top)
                                         \o Resolves(b, "build-backend", Top) \o <<it>>)
                     /\ graph' = [graph EXCEPT !.edges =
                          @ \cup SatisfiedEdges(p, u.backend[p], "build-backend", f)
                            \cup SatisfiedEdges(p, u.sdist[p], "build-sdist", f)]
            /\ UNCHANGED <<u, pc, todo, seen, buildOrder, failures, failedVersions, dirs,
                           exitCode, faults>>

(* What the build environment of an item holds when the build starts: the     *)
(* remaining requirements are installed only if none is a system requirement. *)
Remaining(it) == it.backend \cup it.sdist

InstallsRemaining(it) == Remaining(it) \cap it.system = {}

BuildEnv(it) == it.system \cup IF InstallsRemaining(it) THEN Remaining(it) ELSE {}

(* do_build builds no wheel when it has one or needs only an sdist.           *)
BuildsWheel(it) == ~it.cached /\ ~it.sdistOnly

(* Build.run.  build_wheel fails when wheels_build then holds another wheel   *)
(* beside the new one, and can fail with the new wheel in place.             *)
Build(it) ==
  LET p    == PkgOf(it)
      done == Push(<<[it EXCEPT !.phase = "process-install-deps", !.result = it.ver]>>)
  IN  /\ it.req.name \in u.exclusive => Pending = {}
      /\ \/ InstallsRemaining(it) /\ ~CanInstall(Remaining(it))
            /\ PhaseFailed(it, graph, {}) /\ UNCHANGED faults
         \/ /\ \E left \in {{}, IF BuildsWheel(it) THEN {p} ELSE {}} : PhaseFailed(it, graph, left)
            /\ Fault(it)
         \/ /\ InstallsRemaining(it) => CanInstall(Remaining(it))
            /\ IF ~BuildsWheel(it)
                 THEN /\ stack' = done
                      /\ UNCHANGED <<u, pc, todo, records, dirs, exitCode>>
                 ELSE IF wheelsBuild \subseteq {p}
                 THEN /\ stack' = done
                      /\ UpdateMirror({p}, {})
                      /\ raw' = raw \ {p}
                      /\ UNCHANGED <<u, pc, todo, records, exitCode>>
                 ELSE PhaseFailed(it, graph, {p})
            /\ UNCHANGED faults

RunBuild == Running("build") /\ Build(Top)

-----------------------------------------------------------------------------
(* Mutant: the build order is written from its end.                          *)
PrependToOrder(order, p) ==
  IF \E i \in DOMAIN order : order[i] = p THEN order ELSE <<p>> \o order

(* add_to_build_order                                                        *)
AddToBuildOrder(order, p) ==
  IF \E i \in DOMAIN order : order[i] = p THEN order ELSE Append(order, p)

InstallRequirements(it) ==
  LET p == <<it.req.name, it.result>>
  IN  u.install[p] \cup IF it.req.extras THEN u.extra[p] ELSE {}

(* ProcessInstallDeps.run.  In test mode a hook or the extraction of the      *)
(* requirements that fails is recorded and the item goes on, in the second    *)
(* case without requirements.                                                *)
RunProcessInstallDeps ==
  /\ Running("process-install-deps")
  /\ \/ ~TestMode /\ Fault(Top) /\ PhaseFailed(Top, graph, {})
     \/ /\ \E reqs \in {InstallRequirements(Top)} \cup IF TestMode THEN {{}} ELSE {} :
            /\ \E order \in ByName(reqs) :
                 stack' = Push(Resolves(order, "install", Top) \o <<[Top EXCEPT !.phase = "complete"]>>)
            /\ \/ reqs = InstallRequirements(Top) /\ UNCHANGED <<failures, faults>>
               \/ TestMode /\ Fault(Top) /\ failures' = failures \cup {PkgOf(Top)}
        /\ buildOrder' = AddToBuildOrder(buildOrder, PkgOf(Top))
        /\ UNCHANGED <<u, pc, todo, seen, graph, failedVersions, dirs, exitCode>>

(* Complete.run *)
RunComplete ==
  /\ Running("complete")
  /\ stack' = Push(<<>>)
  /\ UNCHANGED <<u, pc, todo, records, dirs, exitCode, faults>>

(* finalize, when the loop has ended.                                        *)
Finalize ==
  /\ pc = "loop"
  /\ stack = <<>>
  /\ pc' = "finalized"
  /\ exitCode' = IF TestMode /\ failures # {} THEN 1 ELSE 0
  /\ UNCHANGED <<u, todo, stack, records, dirs, faults>>

RunItem == \/ RunResolve \/ RunStart \/ RunPrepareSource \/ RunPrepareBuild
           \/ RunBuild \/ RunProcessInstallDeps \/ RunComplete

Next ==
  \/ ResolveTopLevel \/ FailTopLevel
  \/ \E i \in DOMAIN stack : FinishResolution(i) \/ FetchSource(i)
  \/ RunItem
  \/ Finalize

Spec     == Init /\ [][Next]_vars
FairSpec == Spec /\ WF_vars(Next)

-----------------------------------------------------------------------------
Item ==
  [phase : Phase, req : Req, type : ReqType,
   why : Seq([type : ReqType, req : Req, ver : Version]), parent : Pkg \cup {ROOT},
   ver : Version \cup {NoVersion}, sdistOnly : BOOLEAN,
   future : {"none", "pending", "done", "failed"}, cached : BOOLEAN,
   system : SUBSET Req, backend : SUBSET Req, sdist : SUBSET Req,
   result : Version \cup {NoVersion}]

FailureKeys == Name \X (Version \cup {NoVersion})

(* The type invariant of the bootstrapper; the graph it records is closed:   *)
(* an edge joins nodes of the graph.                                         *)
TypeOK ==
  /\ pc \in {"top-level", "loop", "finalized", "aborted"}
  /\ \A i \in DOMAIN stack : stack[i] \in Item
  /\ seen \subseteq Name \X BOOLEAN \X Version \X {"sdist", "wheel"}
  /\ graph \in [nodes : SUBSET (Pkg \cup {ROOT}), edges : SUBSET Edge]
  /\ WellFormed(graph)
  /\ \A i \in DOMAIN buildOrder : buildOrder[i] \in Pkg
  /\ failures \subseteq FailureKeys /\ failedVersions \subseteq FailureKeys
  /\ wheelsBuild \subseteq Pkg /\ downloads \subseteq Pkg /\ prebuiltDir \subseteq Pkg
  /\ raw \subseteq Pkg
  /\ exitCode \in {0, 1}

-----------------------------------------------------------------------------
BuildRequires(p) == u.system[p] \cup u.backend[p] \cup u.sdist[p]

Requirements(p) == BuildRequires(p) \cup u.install[p] \cup u.extra[p]

Known == {u.top[i] : i \in DOMAIN u.top} \cup UNION {Requirements(p) : p \in Pkg}

UniverseGraph ==
  LET Edges(of, type) ==
        UNION {{[parent |-> x[1], type |-> type, child |-> <<x[2].name, v>>] : v \in Candidates(x[2])} :
                 x \in {x \in Pkg \X Req : x[2] \in of[x[1]]}}
  IN  [nodes |-> Pkg \cup {ROOT},
       edges |-> Edges(u.system, "build-system") \cup Edges(u.backend, "build-backend")
                 \cup Edges(u.sdist, "build-sdist") \cup Edges(u.install, "install")
                 \cup Edges(u.extra, "install")]

(* What the sources choose from: wheels of the prebuilt packages, sdists of    *)
(* the others.                                                               *)
Everything == {p \in Pkg : p \in IF p[1] \in u.prebuilt THEN u.wheels ELSE u.sdists}

(* A universe that asks for nothing impossible: every requirement can be      *)
(* resolved, to one version only, no package needs itself to be built, and no  *)
(* build environment needs two versions of one package.                      *)
Buildable ==
  /\ \A r \in Known : Cardinality(Candidates(r)) = 1
  /\ ~HasCycle(BuildTopology(UniverseGraph))
  /\ \A p \in Pkg : /\ InstallsFrom(u.system[p], Everything)
                    /\ InstallsFrom(u.backend[p] \cup u.sdist[p], Everything)

(* The order in which the loop visits requirements is enough: if nothing      *)
(* outside the loop fails and the universe is buildable, no phase fails. In   *)
(* particular every wheel that a build environment needs is in the local     *)
(* wheel server before uv is asked to install it.                            *)
NoFailureWithoutFault ==
  faults = {} /\ (pc = "aborted" \/ failures # {} \/ failedVersions # {}) => ~Buildable

(* build-order.json can be followed from its start: the build requirements of *)
(* each entry that is built can be installed from the entries before it.      *)
BuildableInOrder ==
  \A i \in DOMAIN buildOrder :
    buildOrder[i][1] \notin u.prebuilt =>
      InstallsFrom(BuildRequires(buildOrder[i]), {buildOrder[j] : j \in 1..(i - 1)})

(* Build.run "install[s] remaining deps": a wheel is built in an environment   *)
(* that every build requirement of its package was installed into, but for   *)
(* those that a build system requirement satisfied.                          *)
BuildHasItsRequirements ==
  Running("build") /\ BuildsWheel(Top) => Remaining(Top) \subseteq BuildEnv(Top)

SystemVersions(p, name) ==
  {c[2] : c \in {c \in Children(graph, p, {"build-system"}) : c[1] = name}}

(* A backend or sdist requirement is not resolved to another version than its *)
(* package's build system has already, if that version satisfies it: the     *)
(* environment would be upgraded behind the build system's back.             *)
BuildSystemVersionKept ==
  \A e \in graph.edges :
    e.type \in {"build-backend", "build-sdist"} =>
      LET versions == SystemVersions(e.parent, e.child[1])
      IN  versions = {} \/ e.child[2] \in versions
          \/ \E r \in u.backend[e.parent] \cup u.sdist[e.parent] :
               r.name = e.child[1] /\ e.child[2] \in r.spec
               /\ (r.extras \/ ~(versions \subseteq r.spec))

(* Only the item on top of the stack has its source fetched.  So no two       *)
(* threads prepare one source tree, and none empties wheels_build, as         *)
(* update_wheel_mirror does, while the main thread builds a wheel into it.    *)
OneFetchAtATime == \A i \in Pending : stack[i].phase = "prepare-source" => i = 1

Obtainable(r) ==
  /\ <<r.name, NoVersion>> \notin failedVersions
  /\ \E v \in Candidates(r) : <<r.name, v>> \notin failedVersions

HasEdge(p, types, r) ==
  \E e \in graph.edges :
    e.parent = p /\ e.type \in types /\ e.child[1] = r.name /\ e.child[2] \in r.spec

WithExtras(p) == \E t \in {"sdist", "wheel"} : <<p[1], TRUE, p[2], t>> \in seen

(* The final graph has the edges of every package in it that did not fail:   *)
(* one for every requirement that some version still satisfies.              *)
EdgesRecorded ==
  pc = "finalized" =>
    \A p \in graph.nodes \ (failedVersions \cup {ROOT}) :
      /\ \A r \in u.install[p] \cup (IF WithExtras(p) THEN u.extra[p] ELSE {}) :
           Obtainable(r) => HasEdge(p, InstallType, r)
      /\ p[1] \notin u.prebuilt =>
           \A r \in BuildRequires(p) : Obtainable(r) => HasEdge(p, BuildType, r)

(* The parent of every item on the stack is in the graph, so that recording   *)
(* the edge to it never raises ValueError.                                   *)
ParentsKnown == \A i \in DOMAIN stack : stack[i].parent \in graph.nodes

NeededForBuilds == UNION {BuildRequirements(graph, n) : n \in graph.nodes}

(* With --sdist-only, as long as no version is dropped, the wheels that are     *)
(* built are those of packages that some build needs, and never one more.     *)
(* Wheels of the cache server come without a build.                          *)
WheelsAreForBuilds == failedVersions = {} => downloads \ u.cache \subseteq NeededForBuilds

(* All requirements of one name ask for the package with its extras, or none.  *)
SameExtras == \A r, s \in Known : r.name = s.name => r.extras = s.extras

(* And never one less: when a run ends in which nothing outside the loop       *)
(* failed, and in which no version was dropped or had a reason to be, the      *)
(* local wheel server has every package that some build needs.  A package     *)
(* that is asked for with extras by those who install it and without by those *)
(* who build with it is needed without: its extras need no wheel, although    *)
(* the graph, which tells no extras, has them below it.                      *)
NeededWheelsAreBuilt ==
  pc = "finalized" /\ faults = {} /\ (failedVersions = {} \/ Buildable) /\ SameExtras =>
    NeededForBuilds \subseteq Mirror

(* No wheel that the local wheel server has is built once more, whatever     *)
(* extras the package is asked for with.                                     *)
NoRebuild ==
  [][RunBuild /\ ~Top.cached /\ ~Top.sdistOnly => PkgOf(Top) \notin Mirror]_vars

InBuildOrder(p) == \E i \in DOMAIN buildOrder : buildOrder[i] = p

(* Test mode loses nothing: when it ends, every package of the graph and every *)
(* top-level requirement is in the build order or reported, and exit code 0   *)
(* means that nothing is reported.                                           *)
NothingLost ==
  pc = "finalized" =>
    /\ \A p \in graph.nodes \ {ROOT} : InBuildOrder(p) \/ p \in failures
    /\ \A i \in DOMAIN u.top :
         \/ \E p \in graph.nodes \ {ROOT} : p[1] = u.top[i].name /\ p[2] \in u.top[i].spec
         \/ <<u.top[i].name, NoVersion>> \in failures
    /\ exitCode = 0 => failures = {}

(* wheels_build never holds two wheels: the next build would fail.           *)
OneWheelInBuildDir == Cardinality(wheelsBuild) <= 1

(* Every run ends.                                                           *)
Terminates == <>(pc \in {"finalized", "aborted"})
=============================================================================
