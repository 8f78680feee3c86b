----------------------------- MODULE Workspace -----------------------------
(***************************************************************************)
(* The work directory of one version of a package over many runs of          *)
(* fromager, any of which may fail or be killed at any step:                 *)
(*   - build and build-sequence (_build in src/fromager/commands/build.py),  *)
(*   - bootstrap (src/fromager/bootstrapper), which reuses more wheels      *)
(*     (_cache.py) and installs the requirements of the backend and the      *)
(*     sdist together, or not at all (_build.py),                           *)
(*   - the step commands (src/fromager/commands/step.py), in any order.      *)
(* On disk: the archive (Downloads); the directory with the source tree, the *)
(* build environment and the requirement files; the build and downloads      *)
(* directories of wheels; the links that the local server lists.             *)
(*                                                                         *)
(* Between runs a user may change how the package is built (patches,         *)
(* settings): a recipe is a number, and has a build tag, 0 if the settings   *)
(* have no changelog.  One process at a time uses the directory.            *)
(***************************************************************************)
EXTENDS Downloads, FiniteSets

CONSTANTS
  Kinds,     \* requirement files, in order: build system, backend, sdist
  MaxRuns,   \* bound on the runs of fromager
  MaxRecipe, \* bound on the changes of the recipe
  MaxTag     \* the largest build tag

ASSUME WorkspaceAssumption ==
  Kinds \in Nat \ {0} /\ MaxRuns \in Nat /\ MaxRecipe \in Nat \ {0} /\ MaxTag \in Nat

VARIABLES
  tags,       \* [recipes -> build tag]
  recipe,     \* the current one
  runs,       \* how many runs were started
  command,    \* of the current or last run
  cleanup,    \* its --cleanup
  pc,         \* the step it is at, "idle" between runs
  kind,       \* the requirement file it is at
  started,    \* whether its wheel server has started
  reused,     \* the wheel it found, if any
  outcome,    \* how it ended
  unpackDir,  \* whether work-dir/<name>-<version> exists
  tree,       \* the source in it
  env,        \* the build environment in it
  reqs,       \* build-*-requirements.txt in it
  building,   \* wheels_build
  downloads,  \* wheels_downloads
  links       \* names of wheels in the simple index

userVars  == <<tags, recipe, runs, command, cleanup>>
runVars   == <<pc, kind, started, reused, outcome>>
dirVars   == <<unpackDir, tree, env, reqs>>
wheelVars == <<building, downloads, links>>
vars == <<downloadVars, userVars, runVars, dirVars, wheelVars>>

Kind    == 1..Kinds
Recipe  == 1..MaxRecipe
Command == {"build", "bootstrap", "prepare-source", "prepare-build", "build-sdist", "build-wheel"}
Steps   == {"idle", "move", "link", "lookup", "find archive", "find tree", "download", "unpack",
            "remove", "extract", "patch", "environment", "create", "dependencies", "write", "install",
            "sdist", "wheel", "count", "pack", "packed", "unlink", "clean"}

(* What a file or directory holds: nothing, a part, or all of what a recipe    *)
(* puts there (0: as it comes).                                              *)
Content  == [state : {"none", "part", "whole"}, recipe : 0..MaxRecipe]
Nothing  == [state |-> "none", recipe |-> 0]
Part     == [state |-> "part", recipe |-> 0]
Whole(r) == [state |-> "whole", recipe |-> r]
NoFiles  == [k \in Kind |-> Nothing]
NoEnv    == [made |-> Nothing, installed |-> NoFiles]

(* A wheel: its file name, which is raw from the backend or has a build tag;   *)
(* whether writing it came to its end; the requirement files in it; by which  *)
(* run and under which recipe it was built, whether from nothing of another   *)
(* recipe, and which requirements of its own were installed.                 *)
Wheel == [raw : BOOLEAN, tag : 0..MaxTag, whole : BOOLEAN, reqs : [Kind -> Content],
          by : Command, cleanup : BOOLEAN, recipe : Recipe, pure : BOOLEAN, equipped : SUBSET Kind]
FileName(x)  == <<x.raw, x.tag>>
Names(dir)   == {FileName(x) : x \in dir}

(* Mutant: a wheel does not replace the one of its name. *)
PutBeside(dir, x) == dir \cup {x}

Put(dir, x) == {y \in dir : FileName(y) # FileName(x)} \cup {x}

TypeOK ==
  /\ DownloadsTypeOK
  /\ tags \in [Recipe -> 0..MaxTag] /\ recipe \in Recipe /\ runs \in 0..MaxRuns
  /\ command \in Command /\ cleanup \in BOOLEAN
  /\ pc \in Steps /\ kind \in Kind /\ started \in BOOLEAN /\ reused \subseteq Wheel
  /\ outcome \in {"none", "ok", "interrupted", "failed", "leftover"}
  /\ unpackDir \in BOOLEAN /\ tree \in Content /\ reqs \in [Kind -> Content]
  /\ env \in [made : Content, installed : [Kind -> Content]]
  /\ ~unpackDir => tree = Nothing /\ env = NoEnv /\ reqs = NoFiles
  /\ building \subseteq Wheel /\ downloads \subseteq Wheel
  /\ \A dir \in {building, downloads} : \A x, y \in dir : FileName(x) = FileName(y) => x = y
  /\ links \subseteq BOOLEAN \X (0..MaxTag)
  /\ Fetching => pc = "download"

Init ==
  /\ DownloadsInit
  /\ tags \in [Recipe -> 0..MaxTag] /\ \A r, s \in Recipe : r <= s => tags[r] <= tags[s]
  /\ recipe = 1 /\ runs = 0 /\ command = "build" /\ cleanup = TRUE
  /\ pc = "idle" /\ kind = 1 /\ started = FALSE /\ reused = {} /\ outcome = "none"
  /\ unpackDir = FALSE /\ tree = Nothing /\ env = NoEnv /\ reqs = NoFiles
  /\ building = {} /\ downloads = {} /\ links = {}

-----------------------------------------------------------------------------
Goto(from, to) == pc = from /\ pc' = to /\ UNCHANGED <<kind, started, reused, outcome>>
End(how)       == pc' = "idle" /\ outcome' = how /\ kind' = 1 /\ started' = FALSE /\ UNCHANGED reused
Stop(from, how) == pc = from /\ End(how)

(* Mutant: a build does not look at wheels_build before it starts. *)
NoMoveFirst(c) ==
  CASE c \in {"build", "bootstrap"} -> "lookup"
    [] c = "prepare-source" -> "find archive"
    [] OTHER -> "find tree"

FirstStep(c) ==
  CASE c \in {"build", "bootstrap", "prepare-build"} -> "move"
    [] c = "prepare-source" -> "find archive"
    [] OTHER -> "find tree"

Start(c, clean) ==
  /\ pc = "idle" /\ runs < MaxRuns /\ runs' = runs + 1
  /\ command' = c /\ cleanup' = clean
  /\ pc' = FirstStep(c)
  /\ reused' = {} /\ outcome' = "none"
  /\ UNCHANGED <<kind, started, downloadVars, tags, recipe, dirVars, wheelVars>>

(* The user, between runs: another recipe; a wheel is deleted to have it built *)
(* again.                                                                   *)
ChangeRecipe ==
  /\ pc = "idle" /\ recipe < MaxRecipe /\ recipe' = recipe + 1
  /\ UNCHANGED <<downloadVars, tags, runs, command, cleanup, runVars, dirVars, wheelVars>>

DeleteWheel ==
  /\ pc = "idle" /\ \E x \in downloads : downloads' = downloads \ {x}
  /\ UNCHANGED <<downloadVars, userVars, runVars, dirVars, building, links>>

(* A tool fails, or the process is killed: what is on disk stays.             *)
Interrupt ==
  /\ pc # "idle" /\ fetch = "idle" /\ End("interrupted")
  /\ UNCHANGED <<downloadVars, userVars, dirVars, wheelVars>>

-----------------------------------------------------------------------------
(* update_wheel_mirror, at the start of a command (start_wheel_server) and     *)
(* after a build: moves the wheels, then links all that are not.              *)
MoveWheel ==
  /\ pc = "move"
  /\ \/ \E x \in building :
          /\ building' = building \ {x} /\ downloads' = Put(downloads, x)
          /\ UNCHANGED runVars
     \/ building = {} /\ Goto("move", "link") /\ UNCHANGED <<building, downloads>>
  /\ UNCHANGED <<downloadVars, userVars, dirVars, links>>

(* Mutant: only wheels that a build has just moved are linked. *)
UnlinkedOfBuild == IF started THEN Names(downloads) \ links ELSE {}

Unlinked == Names(downloads) \ links

AfterStart ==
  CASE command = "build"         -> {"lookup", "download"}  \* without and with --force
    [] command = "bootstrap"     -> {"lookup"}
    [] command = "prepare-build" -> {"find tree"}
    [] OTHER                     -> {"environment"}

LinkWheel ==
  /\ pc = "link"
  /\ \/ \E n \in Unlinked : links' = links \cup {n} /\ UNCHANGED runVars
     \/ /\ Unlinked = {} /\ ~started /\ started' = TRUE
        /\ pc' \in AfterStart /\ UNCHANGED <<kind, reused, outcome, links>>
     \/ /\ Unlinked = {} /\ started /\ UNCHANGED links
        /\ IF command = "bootstrap" THEN Goto("link", "clean") ELSE End("ok")
  /\ UNCHANGED <<downloadVars, userVars, dirVars, building, downloads>>

-----------------------------------------------------------------------------
(* Mutant: a wheel of the version is as good as any. *)
AnyTag(x) == TRUE

(* The comparison of build tags (_is_wheel_built): none counts as 0.          *)
ExpectedTag(x) == x.tag = tags[recipe]

(* What the local server offers first: the highest tag, no tag being lowest.  *)
Offered ==
  LET served == {x \in downloads : FileName(x) \in links}
  IN  {x \in served : \A y \in served : y.tag < x.tag \/ (y.tag = x.tag /\ (x.raw => y.raw))}

LookupForBuild ==
  /\ command = "build" /\ pc = "lookup"
  /\ \/ \E x \in Offered :
          /\ ExpectedTag(x) /\ reused' = {x} /\ pc' = "move"
          /\ UNCHANGED <<kind, started, outcome>>
     \/ (\A x \in Offered : ~ExpectedTag(x)) /\ Goto("lookup", "download")
  /\ UNCHANGED <<downloadVars, userVars, dirVars, wheelVars>>

(* find_cached_wheel: any file of the version if no tag is expected; then the  *)
(* requirement files are unpacked from it, and it does not count without.     *)
Cached(dir) == {x \in dir : tags[recipe] = 0 \/ (ExpectedTag(x) /\ ~x.raw)}
HasReqs(x)  == x.whole /\ \A k \in Kind : x.reqs[k] # Nothing

LookupForBootstrap ==
  /\ command = "bootstrap" /\ pc = "lookup"
  /\ \/ \E x \in Cached(downloads) :
          /\ unpackDir' = TRUE /\ UNCHANGED <<tree, env>>
          /\ \/ /\ HasReqs(x) /\ reqs' = x.reqs /\ reused' = {x}
                /\ pc' = "environment" /\ UNCHANGED <<kind, started, outcome>>
             \/ ~HasReqs(x) /\ reqs' = NoFiles /\ Goto("lookup", "download")
     \/ Cached(downloads) = {} /\ Goto("lookup", "download") /\ UNCHANGED dirVars
  /\ UNCHANGED <<downloadVars, userVars, wheelVars>>

(* The step commands look for what an earlier one has left: any archive that  *)
(* is there,                                                                *)
FindArchive ==
  /\ \/ file # "none" /\ Goto("find archive", "unpack")
     \/ file = "none" /\ Stop("find archive", "failed")
  /\ UNCHANGED <<downloadVars, userVars, dirVars, wheelVars>>

(* and the directory.                                                        *)
FindTree ==
  /\ \/ ~unpackDir /\ Stop("find tree", "failed")
     \/ unpackDir /\ Goto("find tree", CASE command = "build-wheel"   -> "move"
                                         [] command = "build-sdist"   -> "environment"
                                         [] command = "prepare-build" -> "environment")
  /\ UNCHANGED <<downloadVars, userVars, dirVars, wheelVars>>

(* download_source                                                           *)
Download ==
  /\ pc = "download"
  /\ \/ Fetch /\ UNCHANGED runVars
     \/ CrashFetch /\ End("interrupted")
     \/ fetch = "got" /\ EndFetch /\ Goto("download", "unpack")
     \/ fetch = "failed" /\ EndFetch /\ Stop("download", "failed")
  /\ UNCHANGED <<userVars, dirVars, wheelVars>>

-----------------------------------------------------------------------------
AfterSource == IF command = "prepare-source" THEN "done" ELSE "environment"
Onward(from, to) == IF to = "done" THEN Stop(from, "ok") ELSE Goto(from, to)

(* Mutant: a directory that is there is used again. *)
ReuseDirectory ==
  /\ IF unpackDir THEN Onward("unpack", AfterSource) ELSE Goto("unpack", "extract")
  /\ UNCHANGED <<downloadVars, userVars, dirVars, wheelVars>>

(* unpack_source: a directory from earlier is removed with all that is in it,  *)
(* or used again as it is.                                                   *)
Unpack ==
  /\ \/ ~unpackDir /\ Goto("unpack", "extract") /\ UNCHANGED dirVars
     \/ unpackDir /\ ~cleanup /\ Onward("unpack", AfterSource) /\ UNCHANGED dirVars
     \/ /\ unpackDir /\ cleanup /\ Goto("unpack", "remove")
        /\ tree' = (IF tree = Nothing THEN tree ELSE Part)
        /\ env' = (IF env = NoEnv THEN env ELSE [NoEnv EXCEPT !.made = Part])
        /\ UNCHANGED <<unpackDir, reqs>>
  /\ UNCHANGED <<downloadVars, userVars, wheelVars>>

Remove ==
  /\ Goto("remove", "extract")
  /\ unpackDir' = FALSE /\ tree' = Nothing /\ env' = NoEnv /\ reqs' = NoFiles
  /\ UNCHANGED <<downloadVars, userVars, wheelVars>>

(* An empty archive is found to be none once the directory is gone.           *)
Extract ==
  /\ \/ file = "empty" /\ Stop("extract", "failed") /\ UNCHANGED <<unpackDir, tree>>
     \/ /\ file # "empty" /\ pc = "extract" /\ unpackDir' = TRUE
        /\ \/ tree = Nothing /\ tree' = Part /\ UNCHANGED runVars
           \/ tree = Part /\ tree' = Whole(0) /\ Goto("extract", "patch")
  /\ UNCHANGED <<downloadVars, userVars, env, reqs, wheelVars>>

(* prepare_new_source: patches, then changes of pyproject.toml, vendoring.    *)
Patch ==
  /\ pc = "patch"
  /\ \/ tree = Whole(0) /\ tree' = Part /\ UNCHANGED runVars
     \/ tree = Part /\ tree' = Whole(recipe) /\ Onward("patch", AfterSource)
  /\ UNCHANGED <<downloadVars, userVars, unpackDir, env, reqs, wheelVars>>

-----------------------------------------------------------------------------
AfterEnvironment ==
  CASE command = "build-sdist" -> "sdist"
    [] command = "build-wheel" -> "wheel"
    [] OTHER                   -> "dependencies"

(* BuildEnvironment._createenv: an environment that is there is used again.   *)
Environment ==
  /\ pc = "environment"
  /\ \/ env.made = Nothing /\ env' = [env EXCEPT !.made = Part] /\ Goto("environment", "create")
     \/ env.made # Nothing /\ Goto("environment", AfterEnvironment) /\ UNCHANGED env
  /\ UNCHANGED <<downloadVars, userVars, unpackDir, tree, reqs, wheelVars>>

CreateEnvironment ==
  /\ env' = [env EXCEPT !.made = Whole(0)] /\ Goto("create", AfterEnvironment)
  /\ UNCHANGED <<downloadVars, userVars, unpackDir, tree, reqs, wheelVars>>

(* get_build_system_dependencies, get_build_backend_dependencies,            *)
(* get_build_sdist_dependencies: a file that is there is read, whatever the   *)
(* tree says.  All but the first ask the backend in the environment.          *)
BackendCanRun == tree # Nothing /\ env.made.state = "whole"

Dependencies ==
  /\ \/ reqs[kind] # Nothing /\ Goto("dependencies", "install") /\ UNCHANGED reqs
     \/ /\ reqs[kind] = Nothing /\ (kind > 1 => BackendCanRun)
        /\ Goto("dependencies", "write") /\ reqs' = [reqs EXCEPT ![kind] = Part]
     \/ /\ reqs[kind] = Nothing /\ kind > 1 /\ ~BackendCanRun
        /\ Stop("dependencies", "leftover") /\ UNCHANGED reqs
  /\ UNCHANGED <<downloadVars, userVars, unpackDir, tree, env, wheelVars>>

WriteRequirements ==
  /\ Goto("write", "install")
  /\ reqs' = [reqs EXCEPT ![kind] = Whole(tree.recipe)]
  /\ UNCHANGED <<downloadVars, userVars, unpackDir, tree, env, wheelVars>>

AfterInstall ==
  CASE command = "prepare-build" -> "done"
    [] command = "bootstrap" /\ reused # {} -> "clean"
    [] OTHER -> "sdist"

(* What is installed once a file is there: its requirements; but bootstrap     *)
(* waits for the last file and then installs all but those of the build system *)
(* together, or none of them if one is also required by the build system.     *)
Installs ==
  CASE command # "bootstrap" \/ kind = 1 -> {{kind}}
    [] command = "bootstrap" /\ 1 < kind /\ kind < Kinds -> {{}}
    [] OTHER -> {{}, 2..Kinds}

Install ==
  /\ pc = "install"
  /\ \/ env.made.state # "whole" /\ Stop("install", "leftover") /\ UNCHANGED env
     \/ /\ env.made.state = "whole"
        /\ \E ks \in Installs :
             env' = [env EXCEPT !.installed = [k \in Kind |-> IF k \in ks THEN reqs[k] ELSE @[k]]]
        /\ IF kind < Kinds
           THEN kind' = kind + 1 /\ pc' = "dependencies" /\ UNCHANGED <<started, reused, outcome>>
           ELSE Onward("install", AfterInstall)
  /\ UNCHANGED <<downloadVars, userVars, unpackDir, tree, reqs, wheelVars>>

-----------------------------------------------------------------------------
BuildSdist ==
  /\ \/ tree = Nothing /\ Stop("sdist", "leftover")
     \/ tree # Nothing /\ Onward("sdist", IF command = "build-sdist" THEN "done" ELSE "wheel")
  /\ UNCHANGED <<downloadVars, userVars, dirVars, wheelVars>>

Equipped == {k \in Kind : env.installed[k] = Whole(recipe)}

Pure == /\ tree = Whole(recipe) /\ env.made.state = "whole"
        /\ \A k \in Kind \ Equipped : env.installed[k] = Nothing

(* build_wheel: the backend writes a wheel,                                  *)
BuildWheel ==
  /\ \/ ~BackendCanRun /\ Stop("wheel", "leftover") /\ UNCHANGED building
     \/ /\ BackendCanRun /\ Goto("wheel", "count")
        /\ building' = Put(building, [raw |-> TRUE, tag |-> 0, whole |-> FALSE, reqs |-> NoFiles,
                                      by |-> command, cleanup |-> cleanup, recipe |-> recipe,
                                      pure |-> Pure, equipped |-> Equipped])
  /\ UNCHANGED <<downloadVars, userVars, dirVars, downloads, links>>

(* of which there must be one,                                               *)
Count ==
  /\ IF Cardinality(building) = 1
     THEN Goto("count", "pack") /\ building' = {[x EXCEPT !.whole = TRUE] : x \in building}
     ELSE Stop("count", "leftover") /\ UNCHANGED building
  /\ UNCHANGED <<downloadVars, userVars, dirVars, downloads, links>>

(* add_extra_metadata_to_wheels: which is packed again with the requirement    *)
(* files and the build tag, beside the first one, which is then removed.      *)
Repacked(whole) ==
  {[x EXCEPT !.raw = FALSE, !.tag = tags[recipe], !.reqs = reqs, !.whole = whole] : x \in {x \in building : x.raw}}

Pack ==
  /\ \/ Goto("pack", "packed") /\ \E x \in Repacked(FALSE) : building' = Put(building, x)
     \/ Goto("packed", "unlink") /\ \E x \in Repacked(TRUE) : building' = Put(building, x)
     \/ /\ Onward("unlink", CASE command = "build" -> "clean"
                             [] command = "bootstrap" -> "move"
                             [] OTHER -> "done")
        /\ building' = {x \in building : ~x.raw}
  /\ UNCHANGED <<downloadVars, userVars, dirVars, downloads, links>>

(* clean_build_dirs: the tree and the environment, not the requirement files.  *)
(* A run that reused a wheel looks for the tree under the stem of the           *)
(* directory's name, which is the tree's only if the version has no dot.       *)
Clean ==
  /\ IF command = "build" THEN Goto("clean", "move") ELSE Stop("clean", "ok")
  /\ IF cleanup
     THEN tree' \in (IF reused = {} THEN {Nothing} ELSE {Nothing, tree}) /\ env' = NoEnv
     ELSE UNCHANGED <<tree, env>>
  /\ UNCHANGED <<downloadVars, userVars, unpackDir, reqs, wheelVars>>

Prepare == Unpack \/ Remove \/ Extract \/ Patch
Provide == Environment \/ CreateEnvironment \/ Dependencies \/ WriteRequirements \/ Install
Build   == BuildSdist \/ BuildWheel \/ Count \/ Pack \/ Clean

Next ==
  \/ \E c \in Command, clean \in BOOLEAN : Start(c, clean)
  \/ ChangeRecipe \/ DeleteWheel \/ Interrupt
  \/ MoveWheel \/ LinkWheel \/ LookupForBuild \/ LookupForBootstrap
  \/ FindArchive \/ FindTree \/ Download
  \/ Prepare \/ Provide \/ Build

Spec == Init /\ [][Next]_vars

-----------------------------------------------------------------------------
(* A wheel that build or bootstrap makes with --cleanup is made of the archive, *)
(* whole and patched as the current settings say, in an environment that holds  *)
(* nothing but requirements of its own, whatever interrupted runs, step        *)
(* commands, runs without cleanup and runs with other settings have left: all   *)
(* of them if build makes it, at least those of the build system if bootstrap   *)
(* does (unpack_source, _createenv, requirement files, Build.run).             *)
WheelFollowsRecipe ==
  \A x \in building \cup downloads :
    x.by \in {"build", "bootstrap"} /\ x.cleanup =>
      /\ x.pure
      /\ IF x.by = "build" THEN x.equipped = Kind ELSE 1 \in x.equipped

(* Nor does such a run fail because of them: not for want of a tree or an       *)
(* environment and not because of wheels left in wheels_build, unless it takes  *)
(* the requirement files of a wheel and so keeps the directory (build_wheel,    *)
(* update_wheel_mirror, unpack_source).                                       *)
CleanRunsDoNotFail ==
  cleanup /\ command \in {"build", "bootstrap"} /\ reused = {} => outcome # "leftover"

(* With a new build tag for each recipe, a run reuses a wheel only if it was built *)
(* under the current one (which says nothing of the tree that a step command   *)
(* built it from); and a tag at all keeps the raw wheel of an interrupted      *)
(* build, which the next run publishes, from being taken for the built one     *)
(* (_is_wheel_built, _look_for_existing_wheel, update_wheel_mirror).           *)
ReuseIsCurrent ==
  pc # "idle" => \A x \in reused :
    /\ (\A r, s \in Recipe : r < s => tags[r] < tags[s]) => x.recipe = recipe
    /\ tags[recipe] > 0 => ~x.raw

(* While a command runs the local server lists every wheel of wheels_downloads, *)
(* those included that an interrupted run moved and did not link              *)
(* (update_wheel_mirror, start_wheel_server).                                 *)
MirrorComplete ==
  started /\ pc \notin {"idle", "move", "link"} => Names(downloads) \subseteq links
=============================================================================
