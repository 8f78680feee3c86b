# fromager, specified

TLA+ specifications of [fromager](../src/README.md), the tool that builds a
collection of Python wheels from source together with everything these wheels
need to be built and installed.  Paths below are relative to
`src/src/fromager/`.  `PROJECT.json` maps every definition to the lines it models.

1. [The system](#the-system)
2. [Modules](#modules)
3. [What is checked](#what-is-checked)
4. [What is proved](#what-is-proved)
5. [What the checks found](#what-the-checks-found)
6. [Modelling notes](#modelling-notes)
7. [Not modelled, and the plan](#not-modelled-and-the-plan)

## The system

Two commands do most of the work.  `bootstrap` finds out what has to be built,
building as it goes, and leaves `graph.json` and `build-order.json`.
`build-parallel` builds everything in a graph file again, with a pool of threads.
`build` and `build-sequence` build one package after another, the `step` commands
do one step of one build, and the `graph` commands read a graph file.

| part | state | operations | interacts with |
|---|---|---|---|
| bootstrap loop (`bootstrapper/`) | work stack of (requirement, phase), seen keys, why chain, build order, failures, failed versions | resolve top level, one handler per phase, error handling per mode, finalize | resolver, caches, graph, build environment; pool threads run `background_work` of items ahead of the loop, another writes `graph.json` |
| requirement resolver (`bootstrap_requirement_resolver.py`) | known versions per package, resolved rules, a lock | resolve, get_cached_resolution | called by the main thread and by pool threads; asks providers, a previous graph, the cache server |
| version providers (`resolver.py`, `candidate.py`, `constraints.py`) | listings of indexes, kept for the run | find candidates, filter by kind, requirement, constraint, cooldown, age | resolver |
| wheel caches and mirror (`bootstrapper/_cache.py`, `server.py`) | `wheels_build`, `wheels_downloads`, `wheels_prebuilt`, links under `simple/` | find_cached_wheel, download from cache or index, update_wheel_mirror (under a lock) | builds write into `wheels_build`; environments are installed from the links |
| dependency graph (`dependency_graph.py`) | nodes by name==version, typed edges kept at both ends | add, cascading remove, serialize, read, build topology | written by the loop after every change; read by `build-parallel` and the graph commands |
| parallel build (`commands/build.py`) | topological sorter with its in-progress set, futures, one build directory per thread | rounds of submit and collect; `_build` per node | graph, mirror, build environment |
| sources, environment, requirement files (`sources.py`, `build_environment.py`, `dependencies.py`) | one directory per version: source tree, virtual environment, `build-*-requirements.txt` | unpack or reuse, patch, create or reuse, install, read or write | caches put requirement files there, too |
| wheel building (`wheels.py`) | the build directory | build, count, validate, add metadata | build environment, mirror |
| downloads and retries (`downloads.py`, `http_retry.py`) | temporary and final files | download, retry with backoff | resolver, sources, caches |
| constraints file (`commands/bootstrap.py`) | versions chosen, names given up | choose one version per package | graph |
| graph commands (`commands/graph.py`, `minimize.py`) | - | subset, reduce, explain, minimize | graph |
| settings, overrides, hooks | YAML files, plugins | read, call | all of the above |

The hard behaviours, each listed with its line in `PROJECT.json`:

- **Order.**  Nothing checks that a wheel exists before an environment asks for
  it.  In `bootstrap` the order in which items leave the stack ensures it, in
  `build-parallel` the topology and the rounds.
- **Failure of one of many.**  A failed build counts as done in the sorter; a
  failed version leaves the graph together with what it orphans; a failed build
  leaves files behind; test mode goes on after everything.
- **Interleaving.**  Pool threads fetch, resolve and move wheels while the main
  thread builds; build threads share one mirror; an exclusive package must be
  alone in both commands.
- **Repetition.**  Requirements are cyclic and a package is asked for again with
  other extras, in another context or version: the seen keys decide whether it is
  processed, built, or dropped, and whether the run ends.
- **Shared memory of the past.**  All requirements on a package share one table of
  versions, one listing per index and one previous graph; what is exempt from a
  limit must not exempt others.
- **Restarts.**  A run may be killed anywhere.  The next one finds half a tree,
  half an environment, wheels that were never finished, moved or linked, a graph
  file cut short, and all of it may have been made with other settings.

## Modules

| module | models | extends / refines |
|---|---|---|
| `DependencyGraph` | the graph as a value: addition, cascading removal, serialization, build requirements, topology | |
| `BuildSchedule` | what a parallel build promises: environments built first, exclusive packages alone, no start after a failure | |
| `BuildParallel` | `build-parallel`: main thread, sorter, pool threads, mirror | extends `DependencyGraph`, implements `BuildSchedule` |
| `Bootstrapper` | `bootstrap`: top-level resolution, the phases, background work, caches, three failure modes | instantiates `DependencyGraph` with Package <- Name x Version |
| `Providers` | indexes, what a provider lets through, age limits and fallbacks, as operators | |
| `RequirementResolver` | rules, known versions, previous graph, cache server; requests in any order, uploads, a second run | extends `Providers` |
| `GraphStore` | the graph as it is stored, with edges at both ends; removal one orphan at a time; walks, loading | extends `DependencyGraph` |
| `GraphFile` | `graph.json`: the background writer, failures, the ways a run ends | extends `GraphStore` |
| `ConstraintsFile` | `write_constraints_file`, pass by pass | extends `DependencyGraph` |
| `GraphCommands` | a bootstrap that writes the file, then commands that read it: constraints, subset, reduced graph | composes `GraphFile` and `ConstraintsFile` |
| `Minimize` | `minimize`, requirement by requirement, and what `pip` installs for a list, with extras | extends `DependencyGraph`, run by `MCGraphCommands` beside `GraphCommands` |
| `Downloads` | one file, two nested loops of retries, temporary files, kills | |
| `Workspace` | the work directory of one version over many runs: download, unpack, patch, environment, requirement files, build, repack, publish, clean | composes `Downloads` |
| `BuildParallelProofs`, `BootstrapperProofs`, `ResolverProofs`, `ConstraintsProofs` | theorems | extend the module they are about |
| `BuildOrderProofs` | theorems about what the order of the stack of `Bootstrapper` ensures | extends `BootstrapperProofs` |
| `WorkspaceProofs` | theorems about `Workspace` and `Downloads` | extends `Workspace` |
| `GraphStoreProofs` | lemmas about walks, removal and loading | extends `GraphStore` |
| `GraphCommandsProofs` | theorems about `GraphStore`, `GraphFile` and `GraphCommands` | extends `GraphCommands`, `GraphStoreProofs`, `ConstraintsProofs` |
| `MCBuildParallel`, `MCBootstrapper`, `MCRequirementResolver`, `MCGraphCommands`, `MCWorkspace` | instances for TLC | |

**BuildParallel.**  `Prepare`, `StartRound`, `Collect`, `Shutdown` and `Summarize`
are the parts of `build_parallel` between which other threads can run.  A thread
goes through `_build` in four steps: `check` (existing wheel, prebuilt wheel or
source), `environment`, `build`, `publish`; `Raise` leaves any of them.  Its build
directory survives it, as the directory named after a native thread id does.
`graphlib` is modelled by its documentation: ready once, when all predecessors are done.
`StartRound` ends the command if nothing is available, as `get_available` raises then; no
behaviour gets there, since an active sorter with nothing in progress has a ready node.

**Bootstrapper.**  One action per phase handler (`RunResolve` ... `RunComplete`),
each popping the top of the stack and pushing what the handler returns; two for
top-level requirements; `FinishResolution` and `FetchSource` for pool threads;
`Finalize`.  A handler that raises goes through `PhaseFailed`, which is
`_handle_phase_error`: a fallback or a record in test mode, the removal of the
version with several versions, the end of the command otherwise.  The world is
one record `u`: what the index, the cache server and the settings hold, and what
each package asks for.  It never changes during a run.

| code | model |
|---|---|
| `Phase` objects on `stack` | records on `stack`, the top first |
| `WorkItem.why_snapshot` | `why` |
| `bg_future` | `future`: none, pending, done, failed |
| `_seen_requirements` | `seen` |
| `_build_stack`, `_build_requirements` | `buildOrder` |
| `failed_packages`, `_failed_versions` | `failures`, `failedVersions` |
| the three wheel directories | `wheelsBuild`, `downloads`, `prebuiltDir`; `raw` marks wheels without fromager's metadata |

**RequirementResolver.**  `Resolve(r)` is the whole of `resolve`, which holds the
lock from its first line to its last; threads differ in the order of requests
only, and `ResolveBelow` takes any.  `Lookup` is `_resolve_and_extend`: previous
graph, wheel servers or source, cache server.  `Publish` adds a file to an index
at any time, `RunAgain` starts the second run with the graph of the first.

**GraphStore, GraphFile, GraphCommands.**  `RemovePackage` and `RemoveNext` are
`remove_dependency` and one turn of its loop.  After a removal the text of the
graph is queued; `OpenFile` and `FillFile` are `write_text`, which empties the
file first.  `Finalize` drains the queue, `Exit` drops it, `Kill` stops the writer
too.  A command can `Read` only a file that is whole.

**Workspace.**  `pc` walks through `_build`, `bootstrap`'s build phases or a step
command; any step may be the last (`Interrupt`, `CrashFetch`).  What a file or
directory holds is nothing, a part, or all of what a *recipe* (settings and
patches) puts there; `ChangeRecipe` is the user.  A wheel remembers by which
command it was built, with what recipe, whether from nothing else, and with which
of its own requirements installed.  `build` and `step prepare-build` install each
requirement file as it is there.  `bootstrap` installs that of the build system and,
once all three are there, the other two together or not at all (`Installs`; `_build.py:56-59`
skips them if they share a requirement with the build system, which this module leaves open
and `Bootstrapper` computes).

**Minimize.**  `Consider` is one turn of the loop of `_minimize_requirements`.  A requirement
knows which package it led to, which packages it admits, whether it is exact (has an operator
`==`), and its extras, which the command ignores.  `Installs` is external: what `pip` does
with a list, where a dependency may hold for some extras only.

## What is checked

| run | question | instance | distinct states |
|---|---|---|---|
| `parallel` | are environments complete, exclusive packages alone, all packages built once; does it implement `BuildSchedule`; does it end? | 216 graphs, two exclusive packages, leftovers of earlier runs | 151,796 |
| `bootstrap_normal` | is the visiting order enough, are the records complete? | 462 universes, one fault | 64,354 |
| `bootstrap_sdist_only` | which wheels are built with `--sdist-only --multiple-versions`? | 246 universes, one fault | 28,547 |
| `bootstrap_test` | does test mode lose a package, does it end? | 439 universes, two faults | 458,711 |
| `resolver` | do limits of age hold, do requests agree, does a second run repeat the first? | 13 sets of options x 3 command lines x 2 sets of requests x 12 indexes, one upload | 87,697 |
| `graph_commands` | is the file the graph, do removals cascade, what do the commands make of it, what does a minimized file lose? | 3529 graphs over five names, one failure; beside a small one, requirements files for up to three packages, pinned, with an extra or in two versions, and 48 ways in which they require each other | 240,924 |
| `workspace` | what do interrupted runs and changed settings do to later ones? | three runs, two recipes, tags 0 to 2 | 8,930,462 |
| `multiple_edges`, `multiple_one_wheel`, `backend_environment`, `resolver_cache_fallback`, `constraints` | see [below](#what-the-checks-found) | | |

**Bounds.**  Three packages are the least with which a build requirement of a build
requirement, a cycle that does not go through the package at hand, and two
packages that share a requirement occur.  Instances contain all combinations of
relations of pairs of them (none, requires to build, installs, either way, both
install each other), so also every cycle.  Two threads suffice for a race, since
all packages of a round are submitted before any is collected and the third waits
in the queue.  Two versions of a name occur where a requirement pins one.
`MaxFaults` bounds how many phases of packages may fail of themselves; consequences
of a failure, which the model computes, are not counted.  One fault separates a
cause from its consequences; test mode gets two, as its fallback can fail too.
`MaxNews` is one upload, which is enough to tell an early answer from a late one;
three versions are the least with one below, one above and one at a pin.
`MaxRemovals` is one failure, as a second starts from a graph like that of the
first.  Two names with two versions and two users each are needed for a choice
that depends on another, a third for a name that is asked for by both.
In `workspace`, three runs are one that leaves something, one that meets it, and
one that meets what the two made of it; two recipes and tags up to 2 allow
equal, growing and missing tags; two requirement files are one that does not
need the backend and one that does (the third is as the second).
Two tries of two requests let either loop end first.  Everything else is bounded
by the system.

**Fairness.**  `build-parallel`: weak fairness of the main thread and of each pool
thread; builds are subprocesses that end, `as_completed` wakes the main thread.
`bootstrap`: weak fairness of the next-state relation as a whole; the loop waits
for a future only when the thread that completes it can run, and everything else
is the loop's own step.  `graph_commands`: weak fairness of the next-state relation;
`ConstraintsWritten` is about a sequential function without calls that block.

Deadlock is not checked: commands end, and ended states are named by `main` and `pc`.

**Properties worth knowing**

- `EnvironmentComplete`: install requirements of build requirements count; a
  topology of direct build requirements violates it.
- `NoFailureWithoutFault`: if every requirement has exactly one candidate, no package
  needs itself to be built, and each build environment can be installed at all,
  nothing fails unless something outside does.  The order of the stack is the only reason.
- `BuildableInOrder`: each entry of `build-order.json` can be built from earlier ones.
- `EdgesRecorded`: the final graph has an edge for every requirement.  Holds in
  the default mode, does not with several versions.
- `WheelsAreForBuilds`: with `--sdist-only` no package gets a wheel that builds do not need.
- `NeededWheelsAreBuilt`: and in the end each package that builds need has one, though it
  may have been met first where its sdist was enough.  A package that is asked for with
  extras by those who install it and without by those who build with it gets its wheel
  without the extras' wheels, while the graph, which does not record extras, has them below it;
  `SameExtras` excludes this case.
- `NothingLost`: in test mode every package is in the build order or reported, and
  exit code 0 means that nothing was reported.
- `OneFetchAtATime`: the claim behind the comment "thread-safe" on the background
  fetch; only the top item is ever fetched, as `Start` hands over one item at a time.
- `CooldownEnforced`: an exact pin of the command line is exempt from the minimum
  age; its version enters the table that all requirements share, and nothing else does.
- `AnswersAgree`: without limits on age the same requirement has the same answer
  everywhere, although files are published meanwhile; with a limit it does not,
  since an age limit's fallback depends on what was asked first.
- `SameRouteBelowTop`: with the previous graph the second run answers as the first,
  new files notwithstanding.
- `RemovalCascades`: the loop over orphans computes the least set closed under
  orphaning, the definition in `DependencyGraph`.
- `FileFollowsGraph`: a drained queue means that the file is the graph.
- `InstallsFit`, `ExplainAgrees`: the choice of a version that packages install remains right
  although later choices change who its users are.  A version that only the command line asks
  for is the exception in both: one chosen package may refuse it (finding 5), and a name may be
  given up although such a version fits everyone, as it counts as one user too many.
- `LossIsExplained`: what a minimized file loses, it loses with a requirement that was dropped and
  asks for extras or leads to a package on a cycle of installation.  Requirements without
  extras on packages without cycles never drop each other so that a package is lost.  The
  exceptions are real losses, listed [below](#what-the-checks-found).
- `WheelFollowsRecipe`: with `--cleanup`, no leftover of an earlier run and no
  change of settings gets into a wheel of `build` or `bootstrap`.  A wheel of `build` has all
  its requirement files installed, one of `bootstrap` at least that of the build system
  (finding 3).  `CleanRunsDoNotFail`: nor do leftovers make a run fail.
- `ReuseIsCurrent`: only the build tag tells an old wheel from a new one, so it
  holds for settings that change the tag with each recipe.  The recipe of a wheel is that of
  the settings at its build; a wheel that `step build-wheel` made from an older tree counts as
  current, and nothing in the code could tell.
- `FailureJustified`: a download fails on a final error (a refusal, a body that cannot be decoded or
  written, an empty file), after all tries, or after all requests of one try.  Each try has all
  requests of the adapter again, and nothing follows a final error.

## What is proved

Every safety invariant of the passing runs but `LossIsExplained`, and every action property and
refinement, has a theorem; liveness has none ([below](#model-checked-only)).  A theorem holds for all values of the constants:
any number of packages, threads, runs, requests, tries and faults.

| module | theorem: property |
|---|---|
| `BuildParallelProofs` | `TypeCorrect`: `TypeOK`; `EnvironmentIsComplete`: `EnvironmentComplete`; `ExclusiveIsAlone`: `ExclusiveAlone`; `EachBuiltOnce`: `BuiltOnce`; `DoneIsComplete`: `DoneMeansAllBuilt`; `NothingStartsAfterFailure`: `NoRoundAfterFailure`; `ImplementsSchedule`: `ScheduleSpec`, of which `NoRoundAfterFailure` is a part |
| `BootstrapperProofs` | `BootstrapperTypeCorrect`: `TypeOK`; `SourcesOneByOne`: `OneFetchAtATime`; `ParentsStayKnown`: `ParentsKnown`; `TestModeLosesNothing`: `NothingLost`; `EveryEdgeIsRecorded`: `EdgesRecorded`; `BuildSystemStaysAsItIs`: `BuildSystemVersionKept` |
| `BuildOrderProofs` | `OrderOfVisitsIsEnough`: `NoFailureWithoutFault`; `BuildOrderCanBeFollowed`: `BuildableInOrder`; `NothingIsBuiltTwice`: `NoRebuild`; `OnlyNeededWheelsAreBuilt`: `WheelsAreForBuilds`; `EveryNeededWheelIsBuilt`: `NeededWheelsAreBuilt` |
| `ResolverProofs` | `ResolverTypeCorrect`: `TypeOK`; `CooldownIsEnforced`: `CooldownEnforced`; `AnswersDoAgree`: `AnswersAgree`; `FewAreTooOld`: `FewOldVersions`; `SameRouteIsTaken`: `SameRouteBelowTop` |
| `GraphCommandsProofs` | `GraphCommandsTypeCorrect`: `TypeOK`; `RemovalTakesOrphans`: `RemovalCascades`; `FileKeepsWhatWhyExplains`: `KeptIsExplained`; `FileIsUpToDate`: `FileFollowsGraph`; `SubsetsAreUsable`: `SubsetIsUsable`; `ReducedGraphsKeepPaths`: `ReductionKeepsPaths` |
| `ConstraintsProofs` | `OneVersionEach`; `ChoicesFit`: `InstallsFit`; `ReportsAgree`: `ExplainAgrees` |
| `WorkspaceProofs` | `DownloadFailsForCause`, `WorkspaceDownloads`: `FailureJustified`; `WorkspaceTypeCorrect`: `TypeOK`; `ServerListsAll`: `MirrorComplete`; `ReusedWheelsAreCurrent`: `ReuseIsCurrent`; `WheelsFollowRecipes`: `WheelFollowsRecipe`; `LeftoversDoNotFail`: `CleanRunsDoNotFail` |

**BuildParallel.**  The assumptions are `RootAssumption` (ROOT is no package) and
`ParallelAssumption` (constants have their types, ranks are distinct, graphs are
well-formed).  None of the properties is inductive.  That an environment is complete depends on
outcomes of nodes that were collected long before, so the invariant `Inv` says in
addition:

- `SorterInv`: a node passed out by the sorter has predecessors that are finished
  *and ended well*.  `done` is called for failed nodes too, so this needs
- `WheelInv`: until the main thread raises, finished nodes ended well, and a
  node that ended well has its wheel in the mirror;
- `PoolInv`: a submitted node is queued, with exactly one thread, or has an outcome;
- `MainInv`: futures are empty between rounds, and the topology is that of the graph, without cycles;
- `ExclusiveInv`: an exclusive node is the only one of its round;
- `PublishInv`: a thread that publishes has its wheel in a directory that it publishes.

That predecessors with wheels are a complete environment is
`BuildRequirementsSuffice`, a fact about closures; that an inactive sorter has
finished every node is `NotActiveMeansDone`, where the absence of a cycle is used.
`InvStep` has one step per action and cites lemmas per part.  The refinement
follows from `Inv`: `StartRound` is the abstract `Start`, `Publish` and `Raise`
are `Finish` and `Fail`, all other steps stutter.

**Bootstrapper.**  `BootstrapperAssumption`: finitely many names and versions, ROOT is
none of them, universes have their types, and test mode excludes `--sdist-only`, as
the command does.  All proofs rest on one description of a step (`Puts`): the top
item makes way for a few tasks, and no other item changes but for its future.
One lemma per handler says which tasks, after which an invariant about tasks
need not look at the stack again.

- `FetchInv`: no item but the top is in the phase that fetches (`OneFetchAtATime`).
- `NodesInv`: the parent of every item is a node, its own package too once it has started, and
  what a top-level requirement will start has been added (`ParentsKnown`).
- `LossInv`: a node that is neither in the build order nor reported is that of a
  task; a key that was seen belongs to a task or to a package that was handled; with
  `TopResolves`, a remembered resolution does not fail (`NothingLost`).
- `EdgesInv`: what a seen package requires has its edge, or a task on the stack
  that asks for it (`EdgesRecorded`).
- `KeptInv`: an item that waits to prepare its build has all its build system
  requirements recorded or above it on the stack (`Waits`), so that the filter
  sees all of the build system when it compares (`BuildSystemVersionKept`).

`ParentsStayKnown` is about test mode or one version of each requirement: with several
versions outside test mode a version that fails leaves the graph while items may
still name it as their parent.  `TestModeLosesNothing` is about test mode,
`EveryEdgeIsRecorded` and `BuildSystemStaysAsItIs` about the other modes, all three with
one version of each requirement; with several versions `EdgesRecorded` is false (`multiple_edges`), and so is `ParentsKnown`:
a package met again with an extra that fails leaves the graph while its requirements wait, and
their `Start` raises.

**Bootstrapper, the order of visits.**  `BuildOrderProofs` is about universes that are
`Buildable`: every known requirement has one candidate (`Soles`), no package is among what it
needs to be built, at any depth (`NothingNeedsItself`, from `HasCycle` of the topology), and what
a build asks `uv` for can be installed from everything that the sources offer.  A run is `Calm` if,
moreover, nothing outside the loop has failed or the first failure ends the run.
`NoFailureWithoutFault` is not inductive: a build succeeds now because of
items that left the stack long ago.  `HealthInv` says of a calm run that

- `Placed`: above an item on the stack there is only what it reaches, and strictly what it needs while
  it waits to be built; whatever it waits for has been answered or is asked for above it;
- `MarksSettle`: a package with the wheel's seen key is in work, or has its wheel, is in
  the build order, and has all that it installs answered;
- `EdgeMarked`: the child of a build edge has a seen key;
- `Sound`: each item says of itself what is right (its version, its sources, its build requirements);
- `Quiet`: nothing failed, and no wheel is left in `wheels_build`.

An item in work below the top would be needed by itself, so whatever the top needs is settled
(`NothingNeededIsInWork`).  `EnvironmentFrom` is the step to environments: a
set of wheels that satisfies a request from everything there is, cut down to what was visited, satisfies it
from the wheels at hand, since what was visited is closed under installation.  One lemma per handler
(`RunStartHealth` ...) shows that it keeps all this and leaves nothing but requests and its own item.

- `OrderInv` (`BuildableInOrder`): whatever an appended entry needs is settled, so it is in the
  order already.  The property asks for one environment with all build requirements, while the code
  fills it in two steps; hence `OneEnvironment`.  Where a build system needs version 1 and a backend
  asks for version 2 there is no such set of wheels, and the property is false.
- `FreshInv` (`NoRebuild`): a package that waits for its build has no wheel on the server yet; no build or
  fetch above it makes one, as that would be needed by itself.
- `WheelsInv` (`WheelsAreForBuilds`): an item in the context of a build requirement is one, or has a parent
  that some build needs.  It asks for `--sdist-only` and for nothing else: cycles, faults and
  several versions are allowed until a version is dropped.
- `TraceInv` (`NeededWheelsAreBuilt`): an edge of type install is a requirement of its parent, asked for
  with the extras that some requirement names.  With `SameExtras` these are the extras in the parent's seen key, so
  that the marked packages are closed under installation; a finished run has settled them all.

**RequirementResolver.**  Worlds are `FitWorld`: only the command line has top-level
requirements, and a text tells what it admits.  TLC evaluates this for the worlds of
the run (`WorldsAssumption`).  `CooldownIsEnforced` needs the first half only.

- `CooldownInv`: the kept listings of PyPI show files that are still there, so their
  upload times are true; not only the table of known versions but also this run's graph
  and the previous one hold fine versions only, since `_resolve_from_graph` brings them back without
  any check; and time only makes a version older (`FineStays`).
- `TypeInv`: the edges of the graph have the URL that the table has for their version
  (`GraphIsKnown`), without which two runs could know a version with two URLs.
- `FirstRunInv`: the table has nothing but what the kept listing offers
  (`KnownIsOffered`), and all of it that a resolved rule admits (`RulesAreFull`).  So an
  answer is a function of the listing, the same for whoever asks and whenever.
  The listing itself may change once, from empty to something, while nothing is known.
- `SecondRunInv`: with `O` the versions of the previous graph, every first answer is what
  `O` has for it and has its edges there; nothing else gets into the table of the second
  run.  That the first run's listing may have had more than `O` is no matter: its
  highest admitted version is in `O`, and a highest stays one in a smaller set
  (`HighestBetween`; this is where versions have to be finitely many).
- `FewOldInv`: a lookup finds at most one version that is too old (`SourceHasOne`) and
  then its rule is new; uploads make no version older than it was.

One lemma per source of versions follows the code: `FromSource`, `FromWheelServers`,
`FromCacheServer` and `FromGraph`, each for its type and its cooldown.

**GraphStore, GraphFile, GraphCommands.**  `StoreAssumption`: finitely many packages.  The theorems
are about any set of worlds that are `World`: a graph as reading a file leaves it
(`Rooted`), requirements that admit what they led to.  TLC evaluates this for the worlds of the run.

`GraphStoreProofs` shows first that `Walk`, a recursive function over sets, ends with the least
closed set (`WalkIsLeast`, `WalkUpIsLeast`); no induction over data is needed, as the function is
called on ever larger subsets of a finite set, of which one is a minimal counterexample (`MinimalSubset`).
Everything said with a walk is then a fact about closed sets.  `StoreInv` describes the store between two
turns of the loop: what was cut so far lies in every set closed under orphaning
(`CutIsLeast`), what it has orphaned is cut or queued (`CutIsClosed`), and a node
without parents is queued (`OrphansAreQueued`), so that an empty queue means the
least closed set.  `GraphInv` adds the file: the last text of the queue, or the
file if it is empty, is the graph as it is (`LastText`), unless the run was cut short.

**ConstraintsFile.**  For every finite graph (`Readable`: requirements admit
the versions they led to, and candidates are closed under installation)
`write_constraints_file` chooses one version per package.  No chosen package refuses a
chosen version that some package installs, and at most one refuses a version that only the command line
asks for.  A name is given up although `explain-duplicates` shows a version for all only if just the
command line asks for that version or every consumer was settled otherwise.  The theorems assume
nothing about where versions come from.  `InstallsFit` is not inductive, as it speaks of chosen parents only,
and parents are chosen after their children; `ChosenFit` in the invariant speaks of every edge that no
choice has dropped, chosen parent or not yet.  `UsableRefused` counts: a usable version has as many
users as there are, so as many refuse it as it counts itself.  `DropsGrow` says that dropping is
for good, which is why the answer for one name survives all later ones.

**Downloads, Workspace.**  `DownloadsAssumption` and `WorkspaceAssumption` bound nothing but
types.  `FaultsCounted` says that both counters of a download are what was heard: `try` one more than the
failed tries, `attempt` one more than the failed requests of this try;
`StepOfDownload` shows that each step of the work directory is a step of the download or
leaves it alone, so that `Workspace` inherits what `Downloads` promises.

- `MirrorInv`: a server starts with every run anew, and only `LinkWheel` with nothing
  left to link lets a run go on.
- `TagInv`: a repacked wheel has the tag of its recipe, a raw one none, and the raw
  wheel that is being repacked is of the current run.
- `PathInv`: which steps a command can be at, where `wheels_build` is empty, and where reuse is possible.
- `FreshInv`: a clean run has emptied or made whatever it uses by the time it uses it: tree,
  environment, requirement files, and in the environment nothing but what was installed
  before the file it is at (`InstalledBefore`).  This is what no leftover can disturb.

<a name="model-checked-only"></a>
**Model-checked only.**  Liveness (`Terminates` of `BuildParallel` and of `Bootstrapper`,
`ConstraintsWritten`), which needs `ENABLED`.  Beyond the hypotheses of their theorems, also on the
instances of the runs: `BuildableInOrder` and `NoRebuild` in universes that are not buildable (unresolvable or
cyclic requirements, several candidates), and `NeededWheelsAreBuilt` in those of them in which no version was dropped.
`LossIsExplained`: it needs a chain of requirements without end to be found in a finite graph, an
induction over data.

## What the checks found

1. **Edges lost with several versions** (`multiple_edges`).  When a version fails,
   `remove_dependency` also deletes requirements that nothing else needs, but only
   the failed version's keys leave the seen set.  If another package needs such a requirement
   later, it is added to the graph and then dropped as seen: its own edges are
   missing from `graph.json`, from which `build-parallel` takes its topology.
2. **A leftover wheel breaks other builds** (`multiple_one_wheel`).  A build that
   fails after its wheel was written leaves the wheel in `wheels_build`.  The next
   build of any package counts two wheels and fails.
3. **Backend requirements that are not installed** (`backend_environment`).  If one
   remaining requirement is also a build system requirement, none is installed.
   That takes a requirement with extras, which the filter for satisfied
   requirements always keeps.
4. **The cache server is never asked** (`resolver_cache_fallback`).  The fallback
   waits for an empty list from a function that raises instead; its test mocks it.
5. **Constraints that do not fit together** (`constraints`).  A version that only the command line
   asks for counts as its own user, but not among the users to be satisfied.  If one package
   uses the name and refuses that version, the two numbers are equal and the version is
   chosen: with `b==2` on the command line and a package that requires `b<2`,
   `constraints.txt` has `b==2` and the command reports success.  If no package refuses it, it
   is never chosen, and the name can be given up while `explain-duplicates` prints that version as
   usable by all.
Also seen, without a run.  In `bootstrap`: a fallback in test mode is recorded in the build order
with the version that failed; with several versions, cached versions of a
top-level requirement are nodes of the graph that are not processed; a pending
`Start` item can put a version back into the graph after it failed.

In the resolver: with a previous graph, top-level packages need not take "the same
route" that the comment in `_resolve_from_graph` promises; with an age limit or
prebuilt wheels an answer depends on which requirement came first;
`retry_on_exception` on a generator (`_find_tags`) retries nothing.

Around the graph: packages that require each other and lose their last other
parent stay in memory but not in the file (`KeptIsExplained` has the exact
statement); the branch "should not happen" in `remove_dependency` is taken
whenever an orphan has two edges from one parent; `minimize` compares a requirement with
versions other than the one it was resolved to, and drops one because of a package that is
there for it only: `x[all]`, whose extra requires `x` again, disappears from the file, and so do
two entries that require each other (the cases that `LossIsExplained` excepts); `write_constraints_file` says it writes nothing on a
conflict and writes the resolved lines, and never tries a name again that it has
given up.

In the work directory: `bootstrap` with a wheel from the cache uses an
environment that a killed run left half made, and fails until someone deletes it
(hence `reused = {}` in `CleanRunsDoNotFail`); with `--no-cleanup` a tree that was
unpacked and not patched is built; a wheel that a kill cut short while it was
written is moved and served by the next command; a download that is
verified only after it was renamed stays, and fails every later run.

## Modelling notes

- A requirement is a name, extras or none, and the set of versions it admits.
  Markers, build tags and URLs are left out; `git+` requirements are refused by the code.
- In `Bootstrapper` the resolver has no previous graph, cooldown or constraints: it
  returns matching versions of the index, and the same each time.  A resolution in a pool
  thread may fail; for a top-level requirement it is remembered and cannot.
- The cache server is another server than the local one, and its wheels carry
  fromager's build requirements.
- Requirements are sorted by name; those of one name come in any order, as they are
  kept in sets.
- Background tasks end in any order.  As only the top item can have a fetch
  pending (`OneFetchAtATime`), a build and a fetch never overlap, and each is one step.
- `uv` can install if some set of offered wheels, one version per name, satisfies
  everything asked for.  Which set it picks is not modelled, nor whether a build
  succeeds without a requirement that was not installed.
- In test mode the same package may fail repeatedly in one phase at the cost of one fault.
- A wheel that a failed build left is `raw`: it was there before metadata was added.
- `DependencyGraph` keeps sets of edges.  The lists of the code may repeat an edge;
  the operators do not depend on that.  It defines closures as least sets instead of
  by recursion, so that they can be used in proofs.
- In `RequirementResolver` there is one package, as requirements on different ones
  share nothing; days stand for times, sets of versions for specifiers and
  constraints.  Pre-releases are left out: whether a specifier admits them depends on
  the packaging library and, with `filter`, on the other candidates.
- `GraphFile` leaves errors of the file system out, which are logged and ignored.
- `ConstraintsFile` takes names in the order of numbers, as the code sorts them.  An
  edge carries the set of packages its requirement admits.
- `Workspace`: one process at a time; one version of one package, so that
  `wheels_build` holds its wheels only; a step interrupted in the middle leaves a
  part.  A wheel in `links` is a name, since a link that dangles is removed and made
  again.  Which recipe a file was made from is bookkeeping of the model.  `bootstrap` has no cache
  server here: the download of a wheel from one into `wheels_downloads` (`_cache.py:145-149`), which
  is linked at once, and archives that are found without `download_source` are left out.
- `Downloads`: retries of urllib3 are part of what the server answers.  `MaxTemps`
  is a bound for TLC on how often a download is killed.
- Definitions whose comment begins with "Mutant" are faulty versions of the
  definition below them; no specification uses them.  Replacing the definition by
  the mutant violates the property listed with it in `PROJECT.json`.

## Not modelled, and the plan

Every part of the plan that this project began with is a module now.  What is left, in this order:

1. `RequirementResolver` in place of `Candidates` in `Bootstrapper`, once requirements
   on several packages share something.
2. `migrate-graph` and `build-graph`; wheels of a remote cache in `build-sequence`.
3. GitHub, GitLab and version-map providers: they differ from the index in where
   candidates come from and in what a kept listing is known by.
4. Theorems about `Bootstrapper` with several candidates per requirement, where the
   universe no longer tells which version is chosen.

Left out for good: parsing and merging of settings, constraints, templates and
plugin lookup (data without control flow), what patches, vendoring and metadata do to
a tree or a wheel (sequential file I/O), git and HTTP themselves, output of the
reporting commands, SBOM, logging, progress.
