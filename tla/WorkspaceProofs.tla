-------------------------- MODULE WorkspaceProofs --------------------------
(***************************************************************************)
(* What holds of the work directory for every number of runs, of changes of   *)
(* the recipe, of requirement files and of retries, whichever commands run    *)
(* and wherever they end.                                                    *)
(***************************************************************************)
EXTENDS Workspace, FiniteSetTheorems, TLAPS

-----------------------------------------------------------------------------
(* Downloads on their own, which hold for every number of tries and requests.  *)

(* While a file is fetched, the tries and requests that failed are those that  *)
(* the loops have counted; every download starts both loops afresh.           *)
FaultsCounted ==
  /\ Fetching => heard = [tries |-> try - 1, requests |-> attempt - 1, final |-> FALSE]
  /\ fetch = "idle" => try = 1 /\ attempt = 1

DownloadsInv == DownloadsTypeOK /\ FaultsCounted /\ FailureJustified

-----------------------------------------------------------------------------
(* TryAgain either sends again, as the first request of the next try, or fails *)
(* after the last.                                                           *)
LEMMA TryAgainCounts ==
  ASSUME DownloadsTypeOK, FaultsCounted, Fetching, TryAgain
  PROVE  /\ try' \in 1..Tries /\ attempt' \in 1..Attempts
         /\ fetch' \in {"sending", "failed"}
         /\ heard' \in [tries : 0..Tries, requests : 0..Attempts, final : BOOLEAN]
         /\ FaultsCounted' /\ FailureJustified'
<1> USE DownloadsAssumption
<1>1. heard = [tries |-> try - 1, requests |-> attempt - 1, final |-> FALSE] /\ try \in 1..Tries
  BY DEF FaultsCounted, DownloadsTypeOK
<1>4. heard' = [heard EXCEPT !.tries = heard.tries + 1, !.requests = 0]
  BY DEF TryAgain, TryFailed
<1>5. heard' = [tries |-> (try - 1) + 1, requests |-> 0, final |-> FALSE]
  BY <1>1, <1>4
<1>6. heard' = [tries |-> try, requests |-> 0, final |-> FALSE]
  BY <1>1, <1>5
<1>2. CASE try < Tries /\ try' = try + 1 /\ attempt' = 1 /\ fetch' = "sending"
  BY <1>6, <1>2 DEF DownloadsTypeOK, FaultsCounted, Fetching, FailureJustified
<1>3. CASE try = Tries /\ fetch' = "failed" /\ UNCHANGED <<try, attempt>>
  BY <1>6, <1>3 DEF DownloadsTypeOK, FaultsCounted, Fetching, FailureJustified
<1> QED BY <1>2, <1>3 DEF TryAgain

(* So is a request that failed, unless it was the last of its try.             *)
LEMMA RequestCounts ==
  ASSUME DownloadsTypeOK, FaultsCounted, fetch = "sending", RequestFailed, UNCHANGED try,
         \/ attempt < Attempts /\ attempt' = attempt + 1 /\ fetch' = fetch
         \/ attempt = Attempts /\ fetch' = "failed" /\ UNCHANGED attempt
  PROVE  /\ attempt' \in 1..Attempts
         /\ heard' \in [tries : 0..Tries, requests : 0..Attempts, final : BOOLEAN]
         /\ FaultsCounted' /\ FailureJustified'
<1> USE DownloadsAssumption
<1>1. /\ heard = [tries |-> try - 1, requests |-> attempt - 1, final |-> FALSE]
      /\ try \in 1..Tries /\ attempt \in 1..Attempts
  BY DEF FaultsCounted, Fetching, DownloadsTypeOK
<1>2. heard' = [heard EXCEPT !.requests = heard.requests + 1]
  BY DEF RequestFailed
<1>3. heard' = [tries |-> try - 1, requests |-> (attempt - 1) + 1, final |-> FALSE]
  BY <1>1, <1>2
<1>4. heard' = [tries |-> try - 1, requests |-> attempt, final |-> FALSE]
  BY <1>1, <1>3
<1>5. CASE attempt < Attempts /\ attempt' = attempt + 1 /\ fetch' = fetch
  BY <1>1, <1>4, <1>5 DEF FaultsCounted, Fetching, FailureJustified
<1>6. CASE attempt = Attempts /\ fetch' = "failed" /\ UNCHANGED attempt
  BY <1>1, <1>4, <1>6 DEF FaultsCounted, Fetching, FailureJustified
<1> QED BY <1>5, <1>6

LEMMA DownloadsInitInv == DownloadsInit => DownloadsInv
  BY DownloadsAssumption
  DEF DownloadsInit, DownloadsInv, DownloadsTypeOK, FaultsCounted, FailureJustified, Fetching, Silence

LEMMA DownloadsNextInv == DownloadsInv /\ [DownloadsNext]_downloadVars => DownloadsInv'
<1> SUFFICES ASSUME DownloadsInv, [DownloadsNext]_downloadVars
             PROVE  DownloadsInv'
  OBVIOUS
<1> USE DownloadsAssumption DEF DownloadsInv
<1>1. CASE StartFetch
  <2>1. heard' = [tries |-> 0, requests |-> 0, final |-> file = "empty"]
    BY <1>1, Zenon DEF StartFetch, Silence
  <2>2. /\ fetch = "idle" /\ UNCHANGED <<file, temps, try, attempt>>
        /\ fetch' = IF file = "none" THEN "sending" ELSE Verified(file)
    BY <1>1 DEF StartFetch
  <2>3. heard' \in [tries : 0..Tries, requests : 0..Attempts, final : BOOLEAN]
    BY <2>1
  <2>4. CASE file = "empty"
    BY <2>1, <2>2, <2>3, <2>4 DEF Verified, DownloadsTypeOK, FaultsCounted, FailureJustified, Fetching
  <2>5. CASE file # "empty"
    <3>1. heard' = [tries |-> 0, requests |-> 0, final |-> FALSE]
      BY <2>1, <2>5
    <3> QED BY <2>2, <2>3, <2>5, <3>1 DEF Verified, DownloadsTypeOK, FaultsCounted, FailureJustified, Fetching
  <2> QED BY <2>4, <2>5
<1>2. CASE ServerError
  <2>1. /\ FaultsCounted' /\ FailureJustified' /\ attempt' \in 1..Attempts
        /\ heard' \in [tries : 0..Tries, requests : 0..Attempts, final : BOOLEAN]
    BY <1>2, RequestCounts DEF ServerError
  <2> QED BY <1>2, <2>1 DEF ServerError, DownloadsTypeOK
<1>3. CASE Drop
  <2>1. CASE attempt < Attempts /\ attempt' = attempt + 1 /\ RequestFailed /\ UNCHANGED <<fetch, try>>
    <3>1. /\ FaultsCounted' /\ FailureJustified' /\ attempt' \in 1..Attempts
          /\ heard' \in [tries : 0..Tries, requests : 0..Attempts, final : BOOLEAN]
      BY <1>3, <2>1, RequestCounts DEF Drop
    <3> QED BY <1>3, <2>1, <3>1 DEF Drop, DownloadsTypeOK
  <2>2. CASE attempt = Attempts /\ TryAgain
    BY <1>3, <2>2, TryAgainCounts DEF Drop, DownloadsTypeOK, Fetching
  <2> QED BY <1>3, <2>1, <2>2 DEF Drop
<1>4. CASE Refuse
  BY <1>4 DEF Refuse, DownloadsTypeOK, FaultsCounted, FailureJustified, Fetching
<1>5. CASE Respond
  BY <1>5 DEF Respond, DownloadsTypeOK, FaultsCounted, FailureJustified, Fetching
<1>6. CASE Cut
  BY <1>6, TryAgainCounts DEF Cut, DownloadsTypeOK, Fetching
<1>11. CASE Spoil
  BY <1>11 DEF Spoil, DownloadsTypeOK, FaultsCounted, FailureJustified, Fetching
<1>7. CASE Save
  <2>1. PICK f \in {"good", "empty"} :
          /\ fetch = "reading" /\ file' = f /\ fetch' = Verified(f)
          /\ heard' = [heard EXCEPT !.final = (f = "empty")]
          /\ UNCHANGED <<temps, try, attempt>>
    BY <1>7 DEF Save
  <2>2. heard' \in [tries : 0..Tries, requests : 0..Attempts, final : BOOLEAN]
    BY <2>1, Zenon DEF DownloadsTypeOK
  <2>3. heard' = [tries |-> try - 1, requests |-> attempt - 1, final |-> f = "empty"]
    BY <2>1 DEF FaultsCounted, Fetching
  <2>4. heard'.final <=> f = "empty"
    BY <2>3
  <2> QED
    BY <2>1, <2>2, <2>4 DEF Verified, DownloadsTypeOK, FaultsCounted, FailureJustified, Fetching
<1>8. CASE CrashFetch
  BY <1>8 DEF CrashFetch, Forget, Silence, DownloadsTypeOK, FaultsCounted, FailureJustified, Fetching
<1>9. CASE EndFetch
  BY <1>9 DEF EndFetch, Forget, Silence, DownloadsTypeOK, FaultsCounted, FailureJustified, Fetching
<1>10. CASE UNCHANGED downloadVars
  BY <1>10 DEF downloadVars, DownloadsTypeOK, FaultsCounted, FailureJustified, Fetching
<1> QED
  BY <1>1, <1>2, <1>3, <1>4, <1>5, <1>6, <1>7, <1>8, <1>9, <1>10, <1>11 DEF DownloadsNext, Fetch

-----------------------------------------------------------------------------
(* The counters of both loops keep within their bounds (retry_on_exception,    *)
(* RetryHTTPAdapter.send, download_url).                                      *)
THEOREM DownloadsTypeCorrect == DownloadsSpec => []DownloadsTypeOK
<1>1. DownloadsInv => DownloadsTypeOK
  BY DEF DownloadsInv
<1> QED BY <1>1, DownloadsInitInv, DownloadsNextInv, PTL DEF DownloadsSpec

(* However many tries and requests the two loops allow, a download fails only   *)
(* on what is final, after all its tries, or after as many requests of one try  *)
(* as may be sent, and goes no further on what is final (retry_on_exception,    *)
(* RetryHTTPAdapter.send).                                                   *)
THEOREM DownloadFailsForCause == DownloadsSpec => []FailureJustified
<1>1. DownloadsInv => FailureJustified
  BY DEF DownloadsInv
<1> QED BY <1>1, DownloadsInitInv, DownloadsNextInv, PTL DEF DownloadsSpec

-----------------------------------------------------------------------------
(* The work directory.                                                       *)

(* TypeOK, by the groups of variables that change together.                  *)
RunsTypeOK ==
  /\ tags \in [Recipe -> 0..MaxTag] /\ recipe \in Recipe /\ runs \in 0..MaxRuns
  /\ command \in Command /\ cleanup \in BOOLEAN
  /\ pc \in Steps /\ kind \in Kind /\ started \in BOOLEAN
  /\ outcome \in {"none", "ok", "interrupted", "failed", "leftover"}

DirTypeOK ==
  /\ unpackDir \in BOOLEAN /\ tree \in Content /\ reqs \in [Kind -> Content]
  /\ env \in [made : Content, installed : [Kind -> Content]]
  /\ ~unpackDir => tree = Nothing /\ env = NoEnv /\ reqs = NoFiles

OneOfEachName(dir) == \A x, y \in dir : FileName(x) = FileName(y) => x = y

WheelsTypeOK ==
  /\ building \subseteq Wheel /\ downloads \subseteq Wheel /\ reused \subseteq Wheel
  /\ OneOfEachName(building) /\ OneOfEachName(downloads)
  /\ links \subseteq BOOLEAN \X (0..MaxTag)

MakesWheel == command \in {"build", "bootstrap"}

(* Where a command can be, and what it may rely on there.                    *)
RunsInOrder ==
  /\ pc \in {"move", "link"} => command \notin {"prepare-source", "build-sdist"}
  /\ pc = "find tree" => command \in {"build-wheel", "build-sdist", "prepare-build"}
  /\ pc \in {"lookup", "download"} => MakesWheel
  /\ fetch # "idle" => pc = "download"

InDirectory == {"patch", "environment", "create", "dependencies", "write", "install"}

DirectoryIsThere ==
  \/ pc \in InDirectory
  \/ pc \in {"move", "link"} /\ command = "build-wheel"
  => unpackDir

TypeInv == DownloadsInv /\ RunsTypeOK /\ DirTypeOK /\ WheelsTypeOK /\ RunsInOrder /\ DirectoryIsThere

LEMMA TypeInvTypes == TypeInv => TypeOK
<1> SUFFICES ASSUME TypeInv PROVE TypeOK
  OBVIOUS
<1>1. DownloadsTypeOK /\ (Fetching => pc = "download")
  BY DEF TypeInv, DownloadsInv, RunsInOrder, Fetching
<1>2. /\ building \subseteq Wheel /\ downloads \subseteq Wheel /\ reused \subseteq Wheel
      /\ \A dir \in {building, downloads} : \A x, y \in dir : FileName(x) = FileName(y) => x = y
      /\ links \subseteq BOOLEAN \X (0..MaxTag)
  BY DEF TypeInv, WheelsTypeOK, OneOfEachName
<1> QED BY <1>1, <1>2 DEF TypeInv, TypeOK, RunsTypeOK, DirTypeOK

-----------------------------------------------------------------------------
(* Every step is a step of the download or leaves it alone.                  *)
LEMMA StepOfDownload == [Next]_vars => [DownloadsNext]_downloadVars
<1> SUFFICES ASSUME [Next]_vars PROVE DownloadsNext \/ UNCHANGED downloadVars
  OBVIOUS
<1> USE DEF downloadVars
<1>1. CASE \E c \in Command, clean \in BOOLEAN : Start(c, clean)
  BY <1>1 DEF Start
<1>2. CASE ChangeRecipe \/ DeleteWheel \/ Interrupt
  BY <1>2 DEF ChangeRecipe, DeleteWheel, Interrupt
<1>3. CASE MoveWheel \/ LinkWheel \/ LookupForBuild \/ LookupForBootstrap \/ FindArchive \/ FindTree
  BY <1>3 DEF MoveWheel, LinkWheel, LookupForBuild, LookupForBootstrap, FindArchive, FindTree
<1>4. CASE Download
  BY <1>4 DEF Download, DownloadsNext
<1>5. CASE Prepare
  BY <1>5 DEF Prepare, Unpack, Remove, Extract, Patch
<1>6. CASE Provide
  BY <1>6 DEF Provide, Environment, CreateEnvironment, Dependencies, WriteRequirements, Install
<1>7. CASE Build
  BY <1>7 DEF Build, BuildSdist, BuildWheel, Count, Pack, Clean
<1>8. CASE UNCHANGED vars
  BY <1>8 DEF vars
<1> QED BY <1>1, <1>2, <1>3, <1>4, <1>5, <1>6, <1>7, <1>8 DEF Next

(* The user's choices stand still while a command runs.                      *)
LEMMA StepOfUser ==
  ASSUME [Next]_vars
  PROVE  \/ \E c \in Command, clean \in BOOLEAN : Start(c, clean)
         \/ ChangeRecipe
         \/ UNCHANGED userVars
<1> USE DEF userVars
<1>2. CASE DeleteWheel \/ Interrupt
  BY <1>2 DEF DeleteWheel, Interrupt
<1>3. CASE MoveWheel \/ LinkWheel \/ LookupForBuild \/ LookupForBootstrap \/ FindArchive \/ FindTree
  BY <1>3 DEF MoveWheel, LinkWheel, LookupForBuild, LookupForBootstrap, FindArchive, FindTree
<1>4. CASE Download
  BY <1>4 DEF Download
<1>5. CASE Prepare
  BY <1>5 DEF Prepare, Unpack, Remove, Extract, Patch
<1>6. CASE Provide
  BY <1>6 DEF Provide, Environment, CreateEnvironment, Dependencies, WriteRequirements, Install
<1>7. CASE Build
  BY <1>7 DEF Build, BuildSdist, BuildWheel, Count, Pack, Clean
<1>8. CASE UNCHANGED vars
  BY <1>8 DEF vars
<1> QED BY <1>2, <1>3, <1>4, <1>5, <1>6, <1>7, <1>8 DEF Next

(* Which steps touch the directory.                                          *)
LEMMA StepOfDirectory ==
  ASSUME [Next]_vars
  PROVE  \/ LookupForBootstrap \/ Prepare \/ Provide \/ Clean
         \/ UNCHANGED dirVars
<1> USE DEF dirVars
<1>1. CASE \E c \in Command, clean \in BOOLEAN : Start(c, clean)
  BY <1>1 DEF Start
<1>2. CASE ChangeRecipe \/ DeleteWheel \/ Interrupt
  BY <1>2 DEF ChangeRecipe, DeleteWheel, Interrupt
<1>3. CASE MoveWheel \/ LinkWheel \/ LookupForBuild \/ FindArchive \/ FindTree
  BY <1>3 DEF MoveWheel, LinkWheel, LookupForBuild, FindArchive, FindTree
<1>4. CASE Download
  BY <1>4 DEF Download
<1>5. CASE BuildSdist \/ BuildWheel \/ Count \/ Pack
  BY <1>5 DEF BuildSdist, BuildWheel, Count, Pack
<1>6. CASE UNCHANGED vars
  BY <1>6 DEF vars
<1> QED BY <1>1, <1>2, <1>3, <1>4, <1>5, <1>6 DEF Next, Build

(* Which steps touch the wheels.                                             *)
LEMMA StepOfWheels ==
  ASSUME [Next]_vars
  PROVE  \/ DeleteWheel \/ MoveWheel \/ LinkWheel \/ BuildWheel \/ Count \/ Pack
         \/ UNCHANGED wheelVars
<1> USE DEF wheelVars
<1>1. CASE \E c \in Command, clean \in BOOLEAN : Start(c, clean)
  BY <1>1 DEF Start
<1>2. CASE ChangeRecipe \/ Interrupt
  BY <1>2 DEF ChangeRecipe, Interrupt
<1>3. CASE LookupForBuild \/ LookupForBootstrap \/ FindArchive \/ FindTree
  BY <1>3 DEF LookupForBuild, LookupForBootstrap, FindArchive, FindTree
<1>4. CASE Download
  BY <1>4 DEF Download
<1>5. CASE Prepare
  BY <1>5 DEF Prepare, Unpack, Remove, Extract, Patch
<1>6. CASE Provide
  BY <1>6 DEF Provide, Environment, CreateEnvironment, Dependencies, WriteRequirements, Install
<1>7. CASE BuildSdist \/ Clean
  BY <1>7 DEF BuildSdist, Clean
<1>8. CASE UNCHANGED vars
  BY <1>8 DEF vars
<1> QED BY <1>1, <1>2, <1>3, <1>4, <1>5, <1>6, <1>7, <1>8 DEF Next, Build

-----------------------------------------------------------------------------
LEMMA ContentTypes ==
  /\ Nothing \in Content /\ Part \in Content /\ Nothing # Part
  /\ \A r \in 0..MaxRecipe : Whole(r) \in Content /\ Whole(r) # Nothing /\ Whole(r) # Part
  /\ \A r, s : Whole(r) = Whole(s) => r = s
  /\ NoFiles \in [Kind -> Content] /\ NoEnv \in [made : Content, installed : [Kind -> Content]]
  /\ \A c \in Content : c.recipe \in 0..MaxRecipe
<1> USE WorkspaceAssumption
<1>1. Nothing \in Content /\ Part \in Content /\ Nothing # Part
  BY DEF Nothing, Part, Content
<1>2. \A r \in 0..MaxRecipe : Whole(r) \in Content /\ Whole(r) # Nothing /\ Whole(r) # Part
  BY DEF Whole, Nothing, Part, Content
<1>3. NoFiles \in [Kind -> Content]
  BY <1>1 DEF NoFiles
<1>4. NoEnv \in [made : Content, installed : [Kind -> Content]]
  BY <1>1, <1>3 DEF NoEnv
<1>5. \A c \in Content : c.recipe \in 0..MaxRecipe
  BY DEF Content
<1>6. \A r, s : Whole(r) = Whole(s) => r = s
  BY DEF Whole
<1> QED BY <1>1, <1>2, <1>3, <1>4, <1>5, <1>6

LEMMA KindTypes == 1 \in Kind /\ Kinds \in Kind /\ Kind \subseteq Nat /\ \A k \in Kind : k < Kinds => k + 1 \in Kind
  BY WorkspaceAssumption DEF Kind

(* Every command goes through its steps in the order of the code.            *)
LEMMA RunsStep ==
  ASSUME RunsTypeOK, RunsInOrder, [Next]_vars
  PROVE  RunsTypeOK' /\ RunsInOrder'
<1> USE WorkspaceAssumption, KindTypes DEF RunsTypeOK, RunsInOrder, MakesWheel, downloadVars, userVars, runVars, Goto, End, Stop
<1>1. CASE \E c \in Command, clean \in BOOLEAN : Start(c, clean)
  <2>1. PICK c \in Command, clean \in BOOLEAN : Start(c, clean)
    BY <1>1
  <2>2. /\ pc = "idle" /\ runs < MaxRuns /\ runs' = runs + 1 /\ command' = c /\ cleanup' = clean
        /\ pc' = FirstStep(c) /\ outcome' = "none"
        /\ UNCHANGED <<kind, started, tags, recipe, fetch>>
    BY <2>1 DEF Start
  <2>3. runs' \in 0..MaxRuns
    BY <2>2
  <2>4. CASE c \in {"build", "bootstrap", "prepare-build"}
    BY <2>2, <2>3, <2>4 DEF FirstStep, Steps, Command
  <2>5. CASE c = "prepare-source"
    BY <2>2, <2>3, <2>5 DEF FirstStep, Steps, Command
  <2>6. CASE c \in {"build-sdist", "build-wheel"}
    <3>1. pc' = "find tree"
      BY <2>2, <2>6 DEF FirstStep
    <3> QED BY <2>2, <2>3, <2>6, <3>1 DEF Steps, Command
  <2> QED BY <2>4, <2>5, <2>6 DEF Command
<1>2. CASE ChangeRecipe \/ DeleteWheel
  <2>1. CASE ChangeRecipe
    <3>1. recipe' \in Recipe /\ UNCHANGED <<tags, runs, command, cleanup, runVars, downloadVars>>
      BY <2>1 DEF ChangeRecipe, Recipe
    <3> QED BY <3>1
  <2>2. CASE DeleteWheel
    BY <2>2 DEF DeleteWheel
  <2> QED BY <1>2, <2>1, <2>2
<1>3. CASE Interrupt
  BY <1>3 DEF Interrupt, Steps
<1>4. CASE MoveWheel
  BY <1>4 DEF MoveWheel, Steps
<1>5. CASE LinkWheel
  BY <1>5 DEF LinkWheel, Steps, AfterStart, Command
<1>6. CASE LookupForBuild
  BY <1>6 DEF LookupForBuild, Steps
<1>7. CASE LookupForBootstrap
  BY <1>7 DEF LookupForBootstrap, Steps
<1>8. CASE FindArchive
  BY <1>8 DEF FindArchive, Steps
<1>9. CASE FindTree
  BY <1>9 DEF FindTree, Steps
<1>10. CASE Download
  <2>1. CASE Fetch /\ UNCHANGED runVars
    BY <1>10, <2>1 DEF Download
  <2>2. CASE CrashFetch /\ End("interrupted")
    BY <1>10, <2>2 DEF Download, CrashFetch, Forget, Steps
  <2>3. CASE fetch = "got" /\ EndFetch /\ Goto("download", "unpack")
    BY <1>10, <2>3 DEF Download, EndFetch, Forget, Steps
  <2>4. CASE fetch = "failed" /\ EndFetch /\ Stop("download", "failed")
    BY <1>10, <2>4 DEF Download, EndFetch, Forget, Steps
  <2> QED BY <1>10, <2>1, <2>2, <2>3, <2>4 DEF Download
<1>11. CASE Prepare
  <2> USE DEF Onward, AfterSource, Steps
  <2>1. CASE Unpack
    BY <2>1 DEF Unpack
  <2>2. CASE Remove
    BY <2>2 DEF Remove
  <2>3. CASE Extract
    BY <2>3 DEF Extract
  <2>4. CASE Patch
    <3>1. CASE tree' = Part /\ UNCHANGED runVars
      BY <2>4, <3>1 DEF Patch
    <3>2. CASE tree = Part /\ tree' = Whole(recipe) /\ Onward("patch", AfterSource)
      BY <2>4, <3>2 DEF Patch
    <3> QED BY <2>4, <3>1, <3>2 DEF Patch
  <2> QED BY <1>11, <2>1, <2>2, <2>3, <2>4 DEF Prepare
<1>12. CASE Provide
  <2> USE DEF Onward, AfterEnvironment, AfterInstall, Steps
  <2>1. CASE Environment
    BY <2>1 DEF Environment
  <2>2. CASE CreateEnvironment
    BY <2>2 DEF CreateEnvironment
  <2>3. CASE Dependencies
    BY <2>3 DEF Dependencies
  <2>4. CASE WriteRequirements
    BY <2>4 DEF WriteRequirements
  <2>5. CASE Install
    BY <2>5 DEF Install
  <2> QED BY <1>12, <2>1, <2>2, <2>3, <2>4, <2>5 DEF Provide
<1>13. CASE Build
  <2> USE DEF Onward, Steps
  <2>1. CASE BuildSdist
    BY <2>1 DEF BuildSdist
  <2>2. CASE BuildWheel
    BY <2>2 DEF BuildWheel
  <2>3. CASE Count
    <3>1. (Goto("count", "pack") \/ Stop("count", "leftover")) /\ UNCHANGED <<downloadVars, userVars>>
      BY <2>3, Zenon DEF Count
    <3> QED BY <3>1
  <2>4. CASE Pack
    BY <2>4 DEF Pack
  <2>5. CASE Clean
    BY <2>5 DEF Clean
  <2> QED BY <1>13, <2>1, <2>2, <2>3, <2>4, <2>5 DEF Build
<1>14. CASE UNCHANGED vars
  BY <1>14 DEF vars
<1> QED
  BY <1>1, <1>2, <1>3, <1>4, <1>5, <1>6, <1>7, <1>8, <1>9, <1>10, <1>11, <1>12, <1>13, <1>14 DEF Next

(* An environment in which some requirements were installed.                  *)
WithInstalled(ks) == [env EXCEPT !.installed = [k \in Kind |-> IF k \in ks THEN reqs[k] ELSE @[k]]]

LEMMA InstalledTypes ==
  ASSUME DirTypeOK, NEW ks
  PROVE  /\ WithInstalled(ks) \in [made : Content, installed : [Kind -> Content]]
         /\ WithInstalled(ks).made = env.made
         /\ \A k \in Kind : WithInstalled(ks).installed[k] =
              IF k \in ks THEN reqs[k] ELSE env.installed[k]
<1>1. env \in [made : Content, installed : [Kind -> Content]] /\ reqs \in [Kind -> Content]
  BY DEF DirTypeOK
<1> DEFINE inst == [k \in Kind |-> IF k \in ks THEN reqs[k] ELSE env.installed[k]]
<1>2. WithInstalled(ks) = [env EXCEPT !.installed = inst]
  BY DEF WithInstalled
<1>3. inst \in [Kind -> Content]
  BY <1>1
<1>4. \A k \in Kind : inst[k] = IF k \in ks THEN reqs[k] ELSE env.installed[k]
  OBVIOUS
<1> HIDE DEF inst
<1>5. WithInstalled(ks).made = env.made /\ WithInstalled(ks).installed = inst
  BY <1>1, <1>2
<1>6. WithInstalled(ks) \in [made : Content, installed : [Kind -> Content]]
  BY <1>1, <1>2, <1>3
<1> QED BY <1>4, <1>5, <1>6

(* The types of what is in the directory.                                    *)
LEMMA DirTypesStep ==
  ASSUME RunsTypeOK, DirTypeOK, WheelsTypeOK, DirectoryIsThere, [Next]_vars
  PROVE  DirTypeOK'
<1> USE WorkspaceAssumption, KindTypes, ContentTypes DEF RunsTypeOK, DirTypeOK
<1>1. CASE LookupForBootstrap
  <2>1. CASE UNCHANGED dirVars
    BY <2>1 DEF dirVars
  <2>2. CASE \E x \in Cached(downloads) : /\ unpackDir' = TRUE /\ UNCHANGED <<tree, env>>
                                          /\ reqs' = x.reqs \/ reqs' = NoFiles
    <3>1. PICK x \in Cached(downloads) : /\ unpackDir' = TRUE /\ UNCHANGED <<tree, env>>
                                         /\ reqs' = x.reqs \/ reqs' = NoFiles
      BY <2>2
    <3>2. x.reqs \in [Kind -> Content]
      BY <3>1 DEF Cached, WheelsTypeOK, Wheel
    <3> QED BY <3>1, <3>2
  <2> QED BY <1>1, <2>1, <2>2 DEF LookupForBootstrap
<1>2. CASE Prepare
  <2>1. CASE Unpack
    <3>1. CASE UNCHANGED dirVars
      BY <3>1 DEF dirVars
    <3>2. CASE /\ unpackDir /\ UNCHANGED <<unpackDir, reqs>>
               /\ tree' = (IF tree = Nothing THEN tree ELSE Part)
               /\ env' = (IF env = NoEnv THEN env ELSE [NoEnv EXCEPT !.made = Part])
      <4>1. env' \in [made : Content, installed : [Kind -> Content]]
        BY <3>2 DEF NoEnv
      <4> QED BY <3>2, <4>1
    <3> QED BY <2>1, <3>1, <3>2 DEF Unpack
  <2>2. CASE Remove
    BY <2>2 DEF Remove
  <2>3. CASE Extract
    <3>1. UNCHANGED <<env, reqs>>
      BY <2>3 DEF Extract
    <3>2. UNCHANGED <<unpackDir, tree>> \/ (unpackDir' = TRUE /\ tree' \in {Part, Whole(0)})
      BY <2>3 DEF Extract
    <3>3. Part \in Content /\ Whole(0) \in Content
      OBVIOUS
    <3> QED BY <3>1, <3>2, <3>3
  <2>4. CASE Patch
    <3>1. unpackDir
      BY <2>4 DEF Patch, Goto, Stop, Onward, DirectoryIsThere, InDirectory
    <3>2. recipe \in 0..MaxRecipe
      BY DEF Recipe
    <3> QED BY <2>4, <3>1, <3>2 DEF Patch
  <2> QED BY <1>2, <2>1, <2>2, <2>3, <2>4 DEF Prepare
<1>3. CASE Provide
  <2> USE DEF Goto, Stop, DirectoryIsThere, InDirectory
  <2>1. CASE Environment
    <3>1. unpackDir /\ UNCHANGED <<unpackDir, tree, reqs>>
      BY <2>1 DEF Environment
    <3>2. env' \in [made : Content, installed : [Kind -> Content]]
      BY <2>1 DEF Environment
    <3> QED BY <3>1, <3>2
  <2>2. CASE CreateEnvironment
    <3>1. unpackDir /\ UNCHANGED <<unpackDir, tree, reqs>>
      BY <2>2 DEF CreateEnvironment
    <3>2. Whole(0) \in Content
      OBVIOUS
    <3>3. env' \in [made : Content, installed : [Kind -> Content]]
      BY <2>2, <3>2 DEF CreateEnvironment
    <3> QED BY <3>1, <3>3
  <2>3. CASE Dependencies
    <3>1. unpackDir /\ UNCHANGED <<unpackDir, tree, env>>
      BY <2>3 DEF Dependencies
    <3>2. reqs' \in [Kind -> Content]
      BY <2>3 DEF Dependencies
    <3> QED BY <3>1, <3>2
  <2>4. CASE WriteRequirements
    <3>1. unpackDir /\ UNCHANGED <<unpackDir, tree, env>>
      BY <2>4 DEF WriteRequirements
    <3>2. Whole(tree.recipe) \in Content
      OBVIOUS
    <3>3. reqs' \in [Kind -> Content]
      BY <2>4, <3>2 DEF WriteRequirements
    <3> QED BY <3>1, <3>3
  <2>5. CASE Install
    <3>1. unpackDir /\ UNCHANGED <<unpackDir, tree, reqs>>
      BY <2>5 DEF Install
    <3>2. CASE env' = env
      BY <3>1, <3>2
    <3>3. CASE \E ks \in Installs : env' = WithInstalled(ks)
      <4>1. PICK ks \in Installs : env' = WithInstalled(ks)
        BY <3>3
      <4>2. env' \in [made : Content, installed : [Kind -> Content]]
        BY <4>1, InstalledTypes
      <4> QED BY <3>1, <4>2
    <3> QED BY <2>5, <3>2, <3>3, Zenon DEF Install, WithInstalled
  <2> QED BY <1>3, <2>1, <2>2, <2>3, <2>4, <2>5 DEF Provide
<1>4. CASE Clean
  BY <1>4 DEF Clean
<1>5. CASE UNCHANGED dirVars
  BY <1>5 DEF dirVars
<1> QED BY <1>1, <1>2, <1>3, <1>4, <1>5, StepOfDirectory

(* Whatever works on the directory finds it there.                           *)
LEMMA DirectoryStep ==
  ASSUME RunsTypeOK, RunsInOrder, DirTypeOK, DirectoryIsThere, [Next]_vars
  PROVE  DirectoryIsThere'
<1> USE DEF RunsTypeOK, RunsInOrder, DirectoryIsThere, InDirectory, MakesWheel, dirVars, userVars, runVars, Goto, End, Stop
<1>1. CASE \E c \in Command, clean \in BOOLEAN : Start(c, clean)
  <2>1. PICK c \in Command, clean \in BOOLEAN : Start(c, clean)
    BY <1>1
  <2>2. pc' = FirstStep(c) /\ command' = c
    BY <2>1 DEF Start
  <2>3. pc' \in {"move", "find archive", "find tree"} /\ (command' = "build-wheel" => pc' = "find tree")
    BY <2>2 DEF FirstStep
  <2> QED BY <2>3
<1>2. CASE ChangeRecipe \/ DeleteWheel \/ Interrupt
  BY <1>2 DEF ChangeRecipe, DeleteWheel, Interrupt
<1>3. CASE MoveWheel
  BY <1>3 DEF MoveWheel
<1>4. CASE LinkWheel
  <2>1. pc = "link" /\ unpackDir' = unpackDir /\ command' = command
    BY <1>4 DEF LinkWheel
  <2>2. CASE ~started /\ pc' \in AfterStart
    <3>1. pc' \in {"lookup", "download", "find tree"} \/ (pc' = "environment" /\ command = "build-wheel")
      BY <2>1, <2>2 DEF AfterStart, Command
    <3> QED BY <2>1, <3>1
  <2>3. CASE started /\ IF command = "bootstrap" THEN Goto("link", "clean") ELSE End("ok")
    BY <2>1, <2>3
  <2>4. CASE UNCHANGED runVars
    BY <2>1, <2>4
  <2> QED BY <1>4, <2>2, <2>3, <2>4 DEF LinkWheel
<1>5. CASE LookupForBuild \/ FindArchive
  BY <1>5 DEF LookupForBuild, FindArchive
<1>6. CASE LookupForBootstrap
  BY <1>6 DEF LookupForBootstrap
<1>7. CASE FindTree
  BY <1>7 DEF FindTree
<1>8. CASE Download
  BY <1>8 DEF Download
<1>9. CASE Prepare
  <2> USE DEF Onward, AfterSource
  <2>1. CASE Unpack
    BY <2>1 DEF Unpack
  <2>2. CASE Remove
    BY <2>2 DEF Remove
  <2>3. CASE Extract
    BY <2>3 DEF Extract
  <2>4. CASE Patch
    BY <2>4 DEF Patch
  <2> QED BY <1>9, <2>1, <2>2, <2>3, <2>4 DEF Prepare
<1>10. CASE Provide
  BY <1>10 DEF Provide, Environment, CreateEnvironment, Dependencies, WriteRequirements, Install,
     Onward, AfterEnvironment, AfterInstall
<1>11. CASE Build
  <2> USE DEF Onward
  <2>1. CASE BuildSdist \/ BuildWheel \/ Count
    BY <2>1 DEF BuildSdist, BuildWheel, Count
  <2>2. CASE Pack
    <3>1. pc' \in {"packed", "unlink", "clean", "idle"} \/ (pc' = "move" /\ command' = "bootstrap")
      BY <2>2 DEF Pack
    <3> QED BY <3>1
  <2>3. CASE Clean
    BY <2>3 DEF Clean
  <2> QED BY <1>11, <2>1, <2>2, <2>3 DEF Build
<1>12. CASE UNCHANGED vars
  BY <1>12 DEF vars
<1> QED
  BY <1>1, <1>2, <1>3, <1>4, <1>5, <1>6, <1>7, <1>8, <1>9, <1>10, <1>11, <1>12 DEF Next

(* A wheel is put in place of the one of its name.                           *)
LEMMA PutKeepsNames ==
  ASSUME NEW dir \in SUBSET Wheel, NEW x \in Wheel, OneOfEachName(dir)
  PROVE  Put(dir, x) \subseteq Wheel /\ OneOfEachName(Put(dir, x))
  BY DEF Put, OneOfEachName

LEMMA SubsetKeepsNames ==
  ASSUME NEW dir, NEW part \in SUBSET dir, OneOfEachName(dir)
  PROVE  OneOfEachName(part)
  BY DEF OneOfEachName

(* The wheel that the backend writes.                                        *)
RawWheel == [raw |-> TRUE, tag |-> 0, whole |-> FALSE, reqs |-> NoFiles,
             by |-> command, cleanup |-> cleanup, recipe |-> recipe,
             pure |-> Pure, equipped |-> Equipped]

LEMMA RawWheelType == ASSUME RunsTypeOK PROVE RawWheel \in Wheel
<1>1. Pure \in BOOLEAN /\ Equipped \in SUBSET Kind
  BY DEF Pure, Equipped
<1>2. 0 \in 0..MaxTag
  BY WorkspaceAssumption
<1> QED BY <1>1, <1>2, ContentTypes DEF RawWheel, Wheel, RunsTypeOK

LEMMA RepackedTypes ==
  ASSUME RunsTypeOK, DirTypeOK, WheelsTypeOK, NEW w \in BOOLEAN, NEW y \in Repacked(w)
  PROVE  /\ y \in Wheel
         /\ \E x \in building : /\ x.raw
                                /\ y = [x EXCEPT !.raw = FALSE, !.tag = tags[recipe], !.reqs = reqs, !.whole = w]
<1>1. PICK x \in building : /\ x.raw
                            /\ y = [x EXCEPT !.raw = FALSE, !.tag = tags[recipe], !.reqs = reqs, !.whole = w]
  BY Zenon DEF Repacked
<1>2. tags[recipe] \in 0..MaxTag
  BY DEF RunsTypeOK
<1>3. x \in Wheel
  BY DEF WheelsTypeOK
<1>4. y \in Wheel
  BY <1>1, <1>2, <1>3 DEF Wheel, DirTypeOK
<1> QED BY <1>1, <1>4

(* Counting has found one wheel, or leaves the directory as it is.           *)
LEMMA CountedTypes ==
  ASSUME WheelsTypeOK
  PROVE  LET counted == {[x EXCEPT !.whole = TRUE] : x \in building}
         IN  counted \subseteq Wheel /\ OneOfEachName(counted)
<1>1. ASSUME NEW x \in building
      PROVE  /\ [x EXCEPT !.whole = TRUE] \in Wheel
             /\ FileName([x EXCEPT !.whole = TRUE]) = FileName(x)
  <2>1. x \in Wheel
    BY DEF WheelsTypeOK
  <2> QED BY <2>1 DEF Wheel, FileName
<1>2. \A x, y \in building : FileName(x) = FileName(y) => x = y
  BY DEF WheelsTypeOK, OneOfEachName
<1> DEFINE counted == {[x EXCEPT !.whole = TRUE] : x \in building}
<1>3. counted \subseteq Wheel
  BY <1>1
<1>4. ASSUME NEW p \in counted, NEW q \in counted, FileName(p) = FileName(q)
      PROVE  p = q
  <2>1. PICK x \in building : p = [x EXCEPT !.whole = TRUE]
    OBVIOUS
  <2>2. PICK y \in building : q = [y EXCEPT !.whole = TRUE]
    OBVIOUS
  <2>3. x = y
    BY <1>1, <1>2, <1>4, <2>1, <2>2
  <2> QED BY <2>1, <2>2, <2>3
<1> QED BY <1>3, <1>4 DEF OneOfEachName

LEMMA WheelTypesStep ==
  ASSUME RunsTypeOK, DirTypeOK, WheelsTypeOK, [Next]_vars
  PROVE  /\ building' \subseteq Wheel /\ downloads' \subseteq Wheel
         /\ OneOfEachName(building)' /\ OneOfEachName(downloads)'
         /\ links' \subseteq BOOLEAN \X (0..MaxTag)
<1> USE DEF WheelsTypeOK
<1>1. CASE DeleteWheel
  <2>1. downloads' \subseteq downloads /\ UNCHANGED <<building, links>>
    BY <1>1 DEF DeleteWheel
  <2> QED BY <2>1 DEF OneOfEachName
<1>2. CASE MoveWheel
  <2>1. CASE \E x \in building : building' = building \ {x} /\ downloads' = Put(downloads, x)
    <3>1. PICK x \in building : building' = building \ {x} /\ downloads' = Put(downloads, x)
      BY <2>1
    <3>2. OneOfEachName(building)' /\ links' = links
      BY <1>2, <3>1 DEF MoveWheel, OneOfEachName
    <3>3. Put(downloads, x) \subseteq Wheel /\ OneOfEachName(Put(downloads, x))
      BY <3>1, PutKeepsNames
    <3>4. OneOfEachName(downloads)'
      BY <3>1, <3>3 DEF OneOfEachName
    <3> QED BY <3>1, <3>2, <3>3, <3>4
  <2>2. CASE UNCHANGED <<building, downloads>>
    BY <1>2, <2>2 DEF MoveWheel, OneOfEachName
  <2> QED BY <1>2, <2>1, <2>2 DEF MoveWheel
<1>3. CASE LinkWheel
  <2>1. UNCHANGED <<building, downloads>>
    BY <1>3 DEF LinkWheel
  <2>2. Names(downloads) \subseteq BOOLEAN \X (0..MaxTag)
    BY DEF Names, FileName, Wheel
  <2>3. links' \subseteq links \cup Names(downloads)
    BY <1>3 DEF LinkWheel, Unlinked
  <2> QED BY <2>1, <2>2, <2>3 DEF OneOfEachName
<1>4. CASE BuildWheel
  <2>1. UNCHANGED <<downloads, links>> /\ (building' = building \/ building' = Put(building, RawWheel))
    BY <1>4, Zenon DEF BuildWheel, RawWheel
  <2>2. Put(building, RawWheel) \subseteq Wheel /\ OneOfEachName(Put(building, RawWheel))
    BY RawWheelType, PutKeepsNames
  <2> QED BY <2>1, <2>2 DEF OneOfEachName
<1>5. CASE Count
  <2>1. UNCHANGED <<downloads, links>>
    BY <1>5 DEF Count
  <2>2. building' = building \/ building' = {[x EXCEPT !.whole = TRUE] : x \in building}
    BY <1>5, Zenon DEF Count
  <2> QED BY <2>1, <2>2, CountedTypes DEF OneOfEachName
<1>6. CASE Pack
  <2>1. UNCHANGED <<downloads, links>>
    BY <1>6 DEF Pack
  <2>2. \/ \E w \in BOOLEAN : \E x \in Repacked(w) : building' = Put(building, x)
        \/ building' = {x \in building : ~x.raw}
    BY <1>6 DEF Pack
  <2>3. CASE \E w \in BOOLEAN : \E x \in Repacked(w) : building' = Put(building, x)
    <3>1. PICK w \in BOOLEAN : \E x \in Repacked(w) : building' = Put(building, x)
      BY <2>3
    <3>2. PICK x \in Repacked(w) : building' = Put(building, x)
      BY <3>1
    <3>3. x \in Wheel
      BY RepackedTypes
    <3>4. Put(building, x) \subseteq Wheel /\ OneOfEachName(Put(building, x))
      BY <3>3, PutKeepsNames
    <3> QED BY <2>1, <3>2, <3>4 DEF OneOfEachName
  <2>4. CASE building' = {x \in building : ~x.raw}
    BY <2>1, <2>4 DEF OneOfEachName
  <2> QED BY <2>2, <2>3, <2>4
<1>7. CASE UNCHANGED wheelVars
  BY <1>7 DEF wheelVars, OneOfEachName
<1> QED BY <1>1, <1>2, <1>3, <1>4, <1>5, <1>6, <1>7, StepOfWheels

(* A run reuses a wheel of wheels_downloads, which it looks up once.         *)
LEMMA StepOfReused ==
  ASSUME [Next]_vars
  PROVE  \/ LookupForBuild \/ LookupForBootstrap
         \/ pc = "idle" /\ reused' = {}
         \/ reused' = reused
<1> USE DEF runVars, Goto, End, Stop, Onward
<1>1. CASE \E c \in Command, clean \in BOOLEAN : Start(c, clean)
  BY <1>1 DEF Start
<1>2. CASE ChangeRecipe \/ DeleteWheel \/ Interrupt
  BY <1>2 DEF ChangeRecipe, DeleteWheel, Interrupt
<1>3. CASE MoveWheel \/ LinkWheel \/ FindArchive \/ FindTree
  BY <1>3 DEF MoveWheel, LinkWheel, FindArchive, FindTree
<1>4. CASE Download
  BY <1>4 DEF Download
<1>5. CASE Prepare
  BY <1>5 DEF Prepare, Unpack, Remove, Extract, Patch
<1>6. CASE Provide
  BY <1>6 DEF Provide, Environment, CreateEnvironment, Dependencies, WriteRequirements, Install
<1>7. CASE Build
  BY <1>7 DEF Build, BuildSdist, BuildWheel, Count, Pack, Clean
<1>8. CASE UNCHANGED vars
  BY <1>8 DEF vars
<1> QED BY <1>1, <1>2, <1>3, <1>4, <1>5, <1>6, <1>7, <1>8 DEF Next

LEMMA WheelsStep ==
  ASSUME RunsTypeOK, DirTypeOK, WheelsTypeOK, [Next]_vars
  PROVE  WheelsTypeOK'
<1>1. reused' \subseteq Wheel
  <2>1. CASE LookupForBuild
    <3>1. reused' = reused \/ \E x \in Offered : reused' = {x}
      BY <2>1 DEF LookupForBuild, Goto
    <3> QED BY <3>1 DEF Offered, WheelsTypeOK
  <2>2. CASE LookupForBootstrap
    <3>1. reused' = reused \/ \E x \in Cached(downloads) : reused' = {x}
      BY <2>2 DEF LookupForBootstrap, Goto
    <3> QED BY <3>1 DEF Cached, WheelsTypeOK
  <2> QED BY <2>1, <2>2, StepOfReused DEF WheelsTypeOK
<1> QED BY <1>1, WheelTypesStep DEF WheelsTypeOK

LEMMA TypeInitInv == Init => TypeInv
<1> SUFFICES ASSUME Init PROVE TypeInv
  OBVIOUS
<1>1. DownloadsInv
  BY DownloadsInitInv DEF Init
<1>2. RunsTypeOK
  <2>1. 1 \in Recipe /\ 0 \in 0..MaxRuns /\ 1 \in Kind
    BY WorkspaceAssumption, KindTypes DEF Recipe
  <2>2. tags \in [Recipe -> 0..MaxTag]
    BY Zenon DEF Init
  <2> QED BY <2>1, <2>2 DEF Init, RunsTypeOK, Command, Steps
<1>3. DirTypeOK
  BY ContentTypes DEF Init, DirTypeOK
<1>4. WheelsTypeOK
  BY DEF Init, WheelsTypeOK, OneOfEachName
<1>5. RunsInOrder /\ DirectoryIsThere
  BY DEF Init, DownloadsInit, RunsInOrder, DirectoryIsThere, InDirectory
<1> QED BY <1>1, <1>2, <1>3, <1>4, <1>5 DEF TypeInv

LEMMA TypeNextInv == TypeInv /\ [Next]_vars => TypeInv'
<1> SUFFICES ASSUME TypeInv, [Next]_vars PROVE TypeInv'
  OBVIOUS
<1> USE DEF TypeInv
<1>1. DownloadsInv'
  BY StepOfDownload, DownloadsNextInv
<1>2. RunsTypeOK' /\ RunsInOrder'
  BY RunsStep
<1>3. DirTypeOK' /\ DirectoryIsThere'
  BY DirTypesStep, DirectoryStep
<1>4. WheelsTypeOK'
  BY WheelsStep
<1> QED BY <1>1, <1>2, <1>3, <1>4

(* Any number of runs of any commands, each of which may end anywhere, keeps   *)
(* the directory and the wheels in shape: one wheel of each name in a          *)
(* directory, no environment without the directory that holds it.             *)
THEOREM WorkspaceTypeCorrect == Spec => []TypeOK
<1> QED BY TypeInitInv, TypeNextInv, TypeInvTypes, PTL DEF Spec

(* The workspace uses a download as Downloads specifies it, so that, there too, *)
(* a download fails only on what is final or when one of the two loops is used  *)
(* up (download_source, retry_on_exception, RetryHTTPAdapter.send).           *)
THEOREM WorkspaceDownloads == Spec => DownloadsSpec /\ []FailureJustified
<1>1. Init => DownloadsInit
  BY DEF Init
<1>2. Spec => DownloadsSpec
  BY <1>1, StepOfDownload, PTL DEF Spec, DownloadsSpec
<1> QED BY <1>2, DownloadFailsForCause, PTL

-----------------------------------------------------------------------------
(* A server starts with every run anew.                                      *)
MirrorInv ==
  /\ pc = "idle" => ~started
  /\ MirrorComplete

LEMMA MirrorInitInv == Init => MirrorInv
  BY DEF Init, MirrorInv, MirrorComplete

(* Only LinkWheel, once nothing is left to link, lets a run go on.           *)
LEMMA StepOfServer ==
  ASSUME RunsInOrder, [Next]_vars, pc # "link"
  PROVE  /\ \/ started' = started /\ (pc' = "idle" => pc = "idle")
            \/ started' = FALSE /\ pc' = "idle"
         /\ pc = "move" => pc' \in {"move", "link", "idle"}
<1> USE DEF runVars, Goto, End, Stop, Onward
<1>1. CASE \E c \in Command, clean \in BOOLEAN : Start(c, clean)
  <2>1. PICK c \in Command, clean \in BOOLEAN : Start(c, clean)
    BY <1>1
  <2>2. pc = "idle" /\ started' = started
    BY <2>1 DEF Start
  <2> QED BY <2>2
<1>2. CASE ChangeRecipe \/ DeleteWheel \/ Interrupt
  BY <1>2 DEF ChangeRecipe, DeleteWheel, Interrupt
<1>3. CASE MoveWheel
  BY <1>3 DEF MoveWheel
<1>4. CASE LinkWheel
  BY <1>4 DEF LinkWheel
<1>5. CASE LookupForBuild \/ LookupForBootstrap \/ FindArchive
  BY <1>5 DEF LookupForBuild, LookupForBootstrap, FindArchive
<1>6. CASE FindTree
  <2>1. pc = "find tree" /\ (started' = started \/ (started' = FALSE /\ pc' = "idle"))
    BY <1>6 DEF FindTree
  <2>2. CASE unpackDir
    <3>1. command \in {"build-wheel", "build-sdist", "prepare-build"}
      BY <2>1 DEF RunsInOrder
    <3>2. pc' \in {"move", "environment"} /\ started' = started
      BY <1>6, <2>2, <3>1 DEF FindTree
    <3> QED BY <2>1, <3>2
  <2>3. CASE ~unpackDir
    BY <1>6, <2>1, <2>3 DEF FindTree
  <2> QED BY <2>2, <2>3
<1>7. CASE Download
  BY <1>7 DEF Download
<1>8. CASE Prepare
  BY <1>8 DEF Prepare, Unpack, Remove, Extract, Patch, AfterSource
<1>9. CASE Provide
  BY <1>9 DEF Provide, Environment, CreateEnvironment, Dependencies, WriteRequirements, Install,
     AfterEnvironment, AfterInstall
<1>10. CASE Build
  BY <1>10 DEF Build, BuildSdist, BuildWheel, Count, Pack, Clean
<1>11. CASE UNCHANGED vars
  BY <1>11 DEF vars
<1> QED BY <1>1, <1>2, <1>3, <1>4, <1>5, <1>6, <1>7, <1>8, <1>9, <1>10, <1>11 DEF Next

LEMMA MirrorNextInv == TypeInv /\ MirrorInv /\ [Next]_vars => MirrorInv'
<1> SUFFICES ASSUME TypeInv, MirrorInv, [Next]_vars PROVE MirrorInv'
  OBVIOUS
<1> USE DEF MirrorInv, MirrorComplete, TypeInv
<1> DEFINE Listed == Names(downloads) \subseteq links
<1>1. CASE LinkWheel
  <2> USE DEF runVars, Goto, End
  <2>1. CASE UNCHANGED runVars
    BY <1>1, <2>1 DEF LinkWheel
  <2>2. CASE Unlinked = {} /\ UNCHANGED links
    <3>1. Listed'
      BY <1>1, <2>2 DEF LinkWheel, Unlinked, Names
    <3>2. pc' # "idle" \/ ~started'
      BY <1>1 DEF LinkWheel, AfterStart
    <3> QED BY <3>1, <3>2
  <2> QED BY <1>1, <2>1, <2>2 DEF LinkWheel
<1>2. CASE pc # "link"
  <2>1. pc' = "idle" => ~started'
    BY <1>2, StepOfServer
  <2>2. CASE pc = "move"
    <3>1. pc' \in {"move", "link", "idle"}
      BY <1>2, <2>2, StepOfServer
    <3> QED BY <2>1, <3>1
  <2>3. CASE ~started
    <3>1. ~started'
      BY <1>2, <2>3, StepOfServer
    <3> QED BY <3>1
  <2>4. CASE pc # "move" /\ pc # "idle" /\ started
    <3>1. UNCHANGED <<downloads, links>>
      BY <1>2, <2>4, StepOfWheels DEF DeleteWheel, MoveWheel, LinkWheel, BuildWheel, Count, Pack, wheelVars
    <3>2. Listed
      BY <1>2, <2>4
    <3>3. Listed'
      BY <3>1, <3>2 DEF Names
    <3> QED BY <2>1, <3>3
  <2> QED BY <2>2, <2>3, <2>4
<1>3. CASE pc = "link" /\ ~LinkWheel
  <2>1. Interrupt \/ UNCHANGED vars
    BY <1>3 DEF Next, Start, ChangeRecipe, DeleteWheel, MoveWheel, LookupForBuild, LookupForBootstrap,
       FindArchive, FindTree, Download, Prepare, Provide, Build, Unpack, Remove, Extract, Patch,
       Environment, CreateEnvironment, Dependencies, WriteRequirements, Install,
       BuildSdist, BuildWheel, Count, Pack, Clean, Goto, Stop, Onward
  <2> QED BY <1>3, <2>1 DEF Interrupt, End, vars, runVars
<1> QED BY <1>1, <1>2, <1>3

(* While a command runs its server lists every wheel of wheels_downloads,       *)
(* whatever runs before were cut short between moving a wheel and linking it   *)
(* (update_wheel_mirror, start_wheel_server).                                 *)
THEOREM ServerListsAll == Spec => []MirrorComplete
<1>1. MirrorInv => MirrorComplete
  BY DEF MirrorInv
<1> QED BY <1>1, TypeInitInv, TypeNextInv, MirrorInitInv, MirrorNextInv, PTL DEF Spec

-----------------------------------------------------------------------------
(* A repacked wheel has the tag of the recipe it was built with; a raw one has *)
(* none.  While one is repacked, the raw wheel is that of the current run.    *)
TagFits(x) == x.recipe <= recipe /\ x.tag = IF x.raw THEN 0 ELSE tags[x.recipe]

Repacking == {"count", "pack", "packed", "unlink"}

TagInv ==
  /\ \A x \in building \cup downloads : TagFits(x)
  /\ pc \in Repacking => \A x \in building : x.raw => x.recipe = recipe
  /\ ReuseIsCurrent

LEMMA TagInitInv == Init => TagInv
  BY DEF Init, TagInv, ReuseIsCurrent, Repacking

(* A wheel that the comparison of tags lets pass is of the current recipe, if   *)
(* each recipe has a tag of its own.                                         *)
LEMMA CurrentByTag ==
  ASSUME RunsTypeOK, NEW x \in Wheel, TagFits(x), tags[recipe] = 0 \/ x.tag = tags[recipe]
  PROVE  /\ (\A r, s \in Recipe : r < s => tags[r] < tags[s]) => x.recipe = recipe
         /\ tags[recipe] > 0 => ~x.raw
<1>1. x.recipe \in Recipe /\ recipe \in Recipe /\ x.raw \in BOOLEAN /\ x.recipe <= recipe
  BY DEF Wheel, RunsTypeOK, TagFits
<1>2. \A r \in Recipe : tags[r] \in Nat /\ r \in Nat
  BY WorkspaceAssumption DEF RunsTypeOK, Recipe
<1>3. x.tag = IF x.raw THEN 0 ELSE tags[x.recipe]
  BY DEF TagFits
<1>4. ASSUME tags[recipe] > 0 PROVE ~x.raw
  BY <1>1, <1>2, <1>3, <1>4
<1>5. ASSUME \A r, s \in Recipe : r < s => tags[r] < tags[s] PROVE x.recipe = recipe
  <2>1. CASE tags[recipe] = 0
    BY <1>1, <1>2, <1>5, <2>1
  <2>2. CASE tags[recipe] > 0
    BY <1>1, <1>2, <1>3, <1>4, <1>5, <2>2
  <2> QED BY <1>1, <1>2, <2>1, <2>2
<1> QED BY <1>4, <1>5

LEMMA StepOfRepacking ==
  ASSUME RunsInOrder, [Next]_vars, pc' \in Repacking
  PROVE  BuildWheel \/ Count \/ Pack \/ (pc \in Repacking /\ UNCHANGED <<building, recipe>>)
<1> USE DEF runVars, Goto, End, Stop, Onward, Repacking
<1>1. CASE \E c \in Command, clean \in BOOLEAN : Start(c, clean)
  <2>1. PICK c \in Command, clean \in BOOLEAN : Start(c, clean)
    BY <1>1
  <2>2. pc' \in {"move", "find archive", "find tree"}
    BY <2>1 DEF Start, FirstStep
  <2> QED BY <2>2
<1>2. CASE ChangeRecipe \/ DeleteWheel \/ Interrupt
  BY <1>2 DEF ChangeRecipe, DeleteWheel, Interrupt
<1>3. CASE MoveWheel
  BY <1>3 DEF MoveWheel
<1>4. CASE LinkWheel
  <2>1. pc' \in {"link", "lookup", "download", "find tree", "environment", "clean", "idle"}
    BY <1>4 DEF LinkWheel, AfterStart
  <2> QED BY <2>1
<1>5. CASE LookupForBuild \/ LookupForBootstrap \/ FindArchive
  BY <1>5 DEF LookupForBuild, LookupForBootstrap, FindArchive
<1>6. CASE FindTree
  BY <1>6 DEF FindTree, RunsInOrder
<1>7. CASE Download
  BY <1>7 DEF Download
<1>8. CASE Prepare
  BY <1>8 DEF Prepare, Unpack, Remove, Extract, Patch, AfterSource
<1>9. CASE Provide
  BY <1>9 DEF Provide, Environment, CreateEnvironment, Dependencies, WriteRequirements, Install,
     AfterEnvironment, AfterInstall
<1>10. CASE BuildSdist \/ Clean
  BY <1>10 DEF BuildSdist, Clean
<1>11. CASE UNCHANGED vars
  BY <1>11 DEF vars, wheelVars, userVars
<1> QED BY <1>1, <1>2, <1>3, <1>4, <1>5, <1>6, <1>7, <1>8, <1>9, <1>10, <1>11 DEF Next, Build

(* What a build writes into wheels_build.                                    *)
LEMMA TagsOfBuild ==
  ASSUME TypeInv, TagInv, BuildWheel \/ Count \/ Pack
  PROVE  /\ \A x \in building' : TagFits(x)
         /\ pc' \in Repacking => \A x \in building' : x.raw => x.recipe = recipe
<1> USE DEF TagInv, TypeInv, Repacking
<1>0. recipe \in Recipe /\ recipe \in Nat /\ building \subseteq Wheel
  BY WorkspaceAssumption DEF RunsTypeOK, Recipe, WheelsTypeOK
<1>1. CASE BuildWheel
  <2>1. TagFits(RawWheel) /\ RawWheel.recipe = recipe /\ FileName(RawWheel) = <<TRUE, 0>>
    BY <1>0 DEF TagFits, RawWheel, FileName
  <2>2. ASSUME NEW y \in building, y.raw PROVE FileName(y) = FileName(RawWheel)
    BY <1>0, <2>1, <2>2 DEF TagFits, FileName, Wheel
  <2>3. CASE building' = building /\ pc' = "idle"
    BY <2>3
  <2>4. CASE building' = Put(building, RawWheel)
    BY <2>1, <2>2, <2>4 DEF Put
  <2> QED BY <1>1, <2>3, <2>4 DEF BuildWheel, RawWheel, Stop, End
<1>2. CASE Count
  <2>1. pc = "count"
    BY <1>2 DEF Count, Goto, Stop
  <2>2. CASE building' = building
    BY <2>1, <2>2
  <2>3. CASE building' = {[x EXCEPT !.whole = TRUE] : x \in building}
    <3>1. SUFFICES ASSUME NEW y \in building' PROVE TagFits(y) /\ (y.raw => y.recipe = recipe)
      OBVIOUS
    <3>2. PICK x \in building : y = [x EXCEPT !.whole = TRUE]
      BY <2>3
    <3>3. y.raw = x.raw /\ y.tag = x.tag /\ y.recipe = x.recipe
      BY <1>0, <3>2 DEF Wheel
    <3> QED BY <2>1, <3>3 DEF TagFits
  <2> QED BY <1>2, <2>2, <2>3, Zenon DEF Count
<1>3. CASE Pack
  <2>1. pc \in Repacking
    BY <1>3 DEF Pack, Goto, Stop, Onward
  <2>2. \/ \E w \in BOOLEAN : \E x \in Repacked(w) : building' = Put(building, x)
        \/ building' = {x \in building : ~x.raw}
    BY <1>3 DEF Pack
  <2>3. CASE \E w \in BOOLEAN : \E x \in Repacked(w) : building' = Put(building, x)
    <3>1. PICK w \in BOOLEAN : \E x \in Repacked(w) : building' = Put(building, x)
      BY <2>3
    <3>2. PICK y \in Repacked(w) : building' = Put(building, y)
      BY <3>1
    <3>3. PICK x \in building : /\ x.raw
                                /\ y = [x EXCEPT !.raw = FALSE, !.tag = tags[recipe], !.reqs = reqs, !.whole = w]
      BY <3>2, Zenon DEF Repacked
    <3>4. x.recipe = recipe
      BY <2>1, <3>3
    <3>5. ~y.raw /\ y.tag = tags[recipe] /\ y.recipe = recipe
      BY <1>0, <3>3, <3>4 DEF Wheel
    <3>6. TagFits(y)
      BY <1>0, <3>5 DEF TagFits
    <3> QED BY <2>1, <3>2, <3>5, <3>6 DEF Put
  <2>4. CASE building' = {x \in building : ~x.raw}
    BY <2>4
  <2> QED BY <2>2, <2>3, <2>4
<1> QED BY <1>1, <1>2, <1>3

LEMMA TagNextInv == TypeInv /\ TagInv /\ [Next]_vars => TagInv'
<1> SUFFICES ASSUME TypeInv, TagInv, [Next]_vars PROVE TagInv'
  OBVIOUS
<1> USE DEF TypeInv, TagInv
<1>1. tags' = tags /\ recipe' \in Nat /\ recipe \in Nat /\ recipe <= recipe' /\ (pc # "idle" => recipe' = recipe)
  <2>1. recipe \in Nat
    BY WorkspaceAssumption DEF RunsTypeOK, Recipe
  <2> QED BY <2>1, StepOfUser DEF Start, ChangeRecipe, userVars
<1>2. \A x \in Wheel : TagFits(x) => TagFits(x)'
  BY <1>1 DEF TagFits, Wheel, Recipe
<1>3. \A x \in building' \cup downloads' : TagFits(x)
  <2>1. CASE BuildWheel \/ Count \/ Pack
    <3>1. downloads' = downloads
      BY <2>1 DEF BuildWheel, Count, Pack
    <3> QED BY <2>1, <3>1, TagsOfBuild
  <2>2. CASE DeleteWheel \/ MoveWheel \/ LinkWheel \/ UNCHANGED wheelVars
    <3>1. building' \cup downloads' \subseteq building \cup downloads
      BY <2>2 DEF DeleteWheel, MoveWheel, LinkWheel, wheelVars, Put
    <3> QED BY <3>1
  <2> QED BY <2>1, <2>2, StepOfWheels
<1>4. \A x \in building' \cup downloads' : TagFits(x)'
  <2>1. building' \cup downloads' \subseteq Wheel
    BY TypeNextInv DEF WheelsTypeOK
  <2> QED BY <1>2, <1>3, <2>1
<1>5. (pc \in Repacking => \A x \in building : x.raw => x.recipe = recipe)'
  <2>1. SUFFICES ASSUME pc' \in Repacking PROVE \A x \in building' : x.raw => x.recipe = recipe'
    OBVIOUS
  <2>2. CASE BuildWheel \/ Count \/ Pack
    <3>1. recipe' = recipe
      BY <2>2 DEF BuildWheel, Count, Pack, userVars
    <3> QED BY <2>1, <2>2, <3>1, TagsOfBuild
  <2>3. CASE pc \in Repacking /\ UNCHANGED <<building, recipe>>
    BY <2>3
  <2> QED BY <2>1, <2>2, <2>3, StepOfRepacking
<1>6. ReuseIsCurrent'
  <2>1. CASE pc = "idle"
    <3>1. pc' = "idle" \/ reused' = {}
      BY <2>1 DEF Next, Start, ChangeRecipe, DeleteWheel, Interrupt, MoveWheel, LinkWheel, LookupForBuild,
         LookupForBootstrap, FindArchive, FindTree, Download, Prepare, Provide, Build, Unpack, Remove, Extract,
         Patch, Environment, CreateEnvironment, Dependencies, WriteRequirements, Install, BuildSdist,
         BuildWheel, Count, Pack, Clean, Goto, Stop, Onward, vars, runVars
    <3> QED BY <3>1 DEF ReuseIsCurrent
  <2>2. CASE pc # "idle"
    <3>1. recipe' = recipe /\ tags' = tags
      BY <1>1, <2>2
    <3>2. CASE reused' = reused
      BY <2>2, <3>1, <3>2 DEF ReuseIsCurrent
    <3>3. CASE \E x \in downloads : reused' = {x} /\ (tags[recipe] = 0 \/ x.tag = tags[recipe])
      <4>1. PICK x \in downloads : reused' = {x} /\ (tags[recipe] = 0 \/ x.tag = tags[recipe])
        BY <3>3
      <4>2. x \in Wheel /\ TagFits(x)
        BY <4>1 DEF WheelsTypeOK
      <4> QED BY <3>1, <4>1, <4>2, CurrentByTag DEF ReuseIsCurrent
    <3>4. CASE LookupForBuild
      BY <3>2, <3>3, <3>4 DEF LookupForBuild, Goto, Offered, ExpectedTag
    <3>5. CASE LookupForBootstrap
      BY <3>2, <3>3, <3>5 DEF LookupForBootstrap, Goto, Cached, ExpectedTag
    <3> QED BY <2>2, <3>2, <3>4, <3>5, StepOfReused
  <2> QED BY <2>1, <2>2
<1> QED BY <1>4, <1>5, <1>6

(* With a new build tag for each recipe, build and bootstrap take no wheel of   *)
(* another recipe for the one to build, and with any tag no raw wheel that an  *)
(* interrupted build left and a later run published (_is_wheel_built,         *)
(* _look_for_existing_wheel).                                                *)
THEOREM ReusedWheelsAreCurrent == Spec => []ReuseIsCurrent
<1>1. TagInv => ReuseIsCurrent
  BY DEF TagInv
<1> QED BY <1>1, TypeInitInv, TypeNextInv, TagInitInv, TagNextInv, PTL DEF Spec

-----------------------------------------------------------------------------
(* Where a run that makes a wheel is.  Until the backend writes it, nothing is  *)
(* in wheels_build: a run begins by moving what is there.  A run that found a  *)
(* wheel never comes to building one.                                        *)
BeforeWheel == {"lookup", "download", "unpack", "remove", "extract", "patch", "environment", "create",
                "dependencies", "write", "install", "sdist", "wheel"}

BeforeInstall == {"idle", "find tree", "find archive", "lookup", "download", "unpack", "remove", "extract",
                  "patch", "environment", "create"}

RunOfReuse ==
  \/ command = "build" /\ pc \in {"move", "link"} /\ started
  \/ command = "bootstrap" /\ pc \in {"environment", "create", "dependencies", "write", "install", "clean"}

PathInv ==
  /\ pc = "find archive" => command = "prepare-source"
  /\ pc = "link" => building = {}
  /\ MakesWheel /\ pc \in BeforeWheel => building = {}
  /\ MakesWheel /\ pc = "count" => \E x \in building : building = {x}
  /\ MakesWheel /\ pc \notin {"idle", "move", "link"} => started
  /\ reused # {} /\ pc # "idle" => RunOfReuse
  /\ pc \in BeforeInstall \/ (pc \in {"move", "link"} /\ ~started) => kind = 1

LEMMA PathInitInv == Init => PathInv
  BY DEF Init, PathInv, BeforeWheel, MakesWheel

LEMMA PathNextInv == TypeInv /\ PathInv /\ [Next]_vars => PathInv'
<1> SUFFICES ASSUME TypeInv, PathInv, [Next]_vars PROVE PathInv'
  OBVIOUS
<1> USE DEF PathInv, RunOfReuse, BeforeWheel, BeforeInstall, MakesWheel, TypeInv, RunsInOrder, RunsTypeOK,
        userVars, runVars, wheelVars, Goto, End, Stop
<1>1. CASE \E c \in Command, clean \in BOOLEAN : Start(c, clean)
  <2>1. PICK c \in Command, clean \in BOOLEAN : Start(c, clean)
    BY <1>1
  <2>2. /\ pc = "idle" /\ command' = c /\ pc' = FirstStep(c) /\ reused' = {}
        /\ UNCHANGED <<kind, started, building>>
    BY <2>1 DEF Start, wheelVars
  <2>3. \/ pc' = "move"
        \/ pc' = "find archive" /\ c = "prepare-source"
        \/ pc' = "find tree" /\ c \in {"build-sdist", "build-wheel"}
    BY <2>2 DEF FirstStep, Command
  <2> QED BY <2>2, <2>3
<1>2. CASE ChangeRecipe \/ DeleteWheel
  BY <1>2 DEF ChangeRecipe, DeleteWheel
<1>3. CASE Interrupt
  BY <1>3 DEF Interrupt
<1>4. CASE MoveWheel
  BY <1>4 DEF MoveWheel
<1>5. CASE LinkWheel
  <2>1. pc = "link" /\ command' = command /\ building' = building /\ building = {}
    BY <1>5 DEF LinkWheel
  <2>2. CASE ~started /\ started' = TRUE /\ pc' \in AfterStart /\ UNCHANGED <<kind, reused, outcome, links>>
    <3>1. \/ command = "build" /\ pc' \in {"lookup", "download"}
          \/ command = "bootstrap" /\ pc' = "lookup"
          \/ ~MakesWheel /\ pc' \in {"find tree", "environment"}
      BY <2>1, <2>2 DEF AfterStart
    <3> QED BY <2>1, <2>2, <3>1
  <2>3. CASE started /\ IF command = "bootstrap" THEN Goto("link", "clean") ELSE End("ok")
    BY <2>1, <2>3
  <2>4. CASE UNCHANGED runVars
    BY <2>1, <2>4
  <2> QED BY <1>5, <2>2, <2>3, <2>4 DEF LinkWheel
<1>6. CASE LookupForBuild
  BY <1>6 DEF LookupForBuild
<1>7. CASE LookupForBootstrap
  BY <1>7 DEF LookupForBootstrap
<1>8. CASE FindArchive
  BY <1>8 DEF FindArchive
<1>9. CASE FindTree
  BY <1>9 DEF FindTree
<1>10. CASE Download
  BY <1>10 DEF Download
<1>11. CASE Prepare
  <2> USE DEF Onward, AfterSource
  <2>1. CASE Unpack
    BY <2>1 DEF Unpack
  <2>2. CASE Remove
    BY <2>2 DEF Remove
  <2>3. CASE Extract
    BY <2>3 DEF Extract
  <2>4. CASE Patch
    BY <2>4 DEF Patch
  <2> QED BY <1>11, <2>1, <2>2, <2>3, <2>4 DEF Prepare
<1>12. CASE Provide
  <2> USE DEF Onward
  <2>1. CASE Environment
    BY <2>1 DEF Environment, AfterEnvironment
  <2>2. CASE CreateEnvironment
    BY <2>2 DEF CreateEnvironment, AfterEnvironment
  <2>3. CASE Dependencies
    BY <2>3 DEF Dependencies
  <2>4. CASE WriteRequirements
    BY <2>4 DEF WriteRequirements
  <2>5. CASE Install
    <3>1. pc = "install" /\ command' = command /\ building' = building
      BY <2>5 DEF Install
    <3>2. \/ Stop("install", "leftover")
          \/ pc' = "dependencies" /\ UNCHANGED <<started, reused, outcome>>
          \/ Onward("install", AfterInstall)
      BY <2>5 DEF Install
    <3>3. CASE Onward("install", AfterInstall)
      <4>1. \/ AfterInstall = "done"
            \/ AfterInstall = "clean" /\ command = "bootstrap"
            \/ AfterInstall = "sdist" /\ (command = "bootstrap" => reused = {})
        BY DEF AfterInstall
      <4>2. CASE AfterInstall = "done"
        BY <3>1, <3>3, <4>2
      <4>3. CASE AfterInstall = "clean" /\ command = "bootstrap"
        BY <3>1, <3>3, <4>3
      <4>4. CASE AfterInstall = "sdist" /\ (command = "bootstrap" => reused = {})
        <5>1. pc' = "sdist" /\ UNCHANGED <<kind, started, reused, outcome>>
          BY <3>3, <4>4
        <5> QED BY <3>1, <4>4, <5>1
      <4> QED BY <4>1, <4>2, <4>3, <4>4
    <3>4. CASE Stop("install", "leftover")
      BY <3>1, <3>4
    <3>5. CASE pc' = "dependencies" /\ UNCHANGED <<started, reused, outcome>>
      BY <3>1, <3>5
    <3> QED BY <3>2, <3>3, <3>4, <3>5
  <2> QED BY <1>12, <2>1, <2>2, <2>3, <2>4, <2>5 DEF Provide
<1>13. CASE Build
  <2> USE DEF Onward
  <2>1. CASE BuildSdist
    BY <2>1 DEF BuildSdist
  <2>2. CASE BuildWheel
    <3>1. CASE Stop("wheel", "leftover")
      BY <2>2, <3>1 DEF BuildWheel
    <3>2. CASE Goto("wheel", "count") /\ building' = Put(building, RawWheel)
      BY <2>2, <3>2 DEF BuildWheel, Put
    <3> QED BY <2>2, <3>1, <3>2, Zenon DEF BuildWheel, RawWheel
  <2>3. CASE Count
    <3>1. (Goto("count", "pack") \/ Stop("count", "leftover")) /\ UNCHANGED <<downloadVars, userVars>>
      BY <2>3, Zenon DEF Count
    <3> QED BY <3>1
  <2>4. CASE Pack
    BY <2>4 DEF Pack
  <2>5. CASE Clean
    BY <2>5 DEF Clean
  <2> QED BY <1>13, <2>1, <2>2, <2>3, <2>4, <2>5 DEF Build
<1>14. CASE UNCHANGED vars
  BY <1>14 DEF vars
<1> QED
  BY <1>1, <1>2, <1>3, <1>4, <1>5, <1>6, <1>7, <1>8, <1>9, <1>10, <1>11, <1>12, <1>13, <1>14 DEF Next

-----------------------------------------------------------------------------
(* A run with --cleanup that found no wheel starts from nothing: when it has    *)
(* unpacked the archive, the environment and the requirement files are gone,   *)
(* and whatever it makes after that is made of the current recipe, one         *)
(* requirement file after another.                                           *)
CleanRun == MakesWheel /\ cleanup /\ reused = {}

WrittenBefore(n) == \A k \in Kind : k < n => reqs[k] = Whole(recipe)
MissingFrom(n)   == \A k \in Kind : k >= n => reqs[k] = Nothing

(* Bootstrap may leave out all requirements but those of the build system.    *)
InstalledBefore(n) ==
  \A k \in Kind :
    \/ k < n /\ env.installed[k] = Whole(recipe)
    \/ (k < n => command = "bootstrap" /\ k > 1) /\ env.installed[k] = Nothing

WithTree == {"environment", "create", "dependencies", "write", "install", "sdist", "wheel"}

FreshInv ==
  CleanRun =>
    /\ pc \in {"extract", "patch", "environment"} => env = NoEnv
    /\ pc \in {"extract", "patch", "environment", "create"} => reqs = NoFiles
    /\ pc = "create" => env.installed = NoFiles
    /\ pc \in WithTree => tree = Whole(recipe)
    /\ pc \in {"dependencies", "write", "install", "sdist", "wheel"} => env.made = Whole(0)
    /\ pc \in {"dependencies", "write", "install"} => InstalledBefore(kind) /\ WrittenBefore(kind)
    /\ pc = "dependencies" => MissingFrom(kind)
    /\ pc \in {"write", "install"} => MissingFrom(kind + 1)
    /\ pc = "install" => reqs[kind] = Whole(recipe)
    /\ pc \in {"sdist", "wheel"} => InstalledBefore(Kinds + 1)
    /\ outcome # "leftover"

LEMMA FreshInitInv == Init => FreshInv
  BY DEF Init, FreshInv, WithTree

(* A run that is clean after a step was so before it, or has just begun.      *)
LEMMA CleanRunStays ==
  ASSUME [Next]_vars, CleanRun', pc # "idle"
  PROVE  CleanRun /\ UNCHANGED <<command, cleanup, recipe, reused>>
<1>1. UNCHANGED userVars
  BY StepOfUser DEF Start, ChangeRecipe
<1>2. reused' = reused
  BY StepOfReused DEF CleanRun, LookupForBuild, LookupForBootstrap, Goto
<1> QED BY <1>1, <1>2 DEF CleanRun, MakesWheel, userVars

LEMMA FreshSource ==
  ASSUME TypeInv, PathInv, FreshInv, [Next]_vars, CleanRun, CleanRun',
         UNCHANGED <<command, cleanup, recipe, reused>>, Prepare
  PROVE  FreshInv'
<1> USE DEF FreshInv, CleanRun, WithTree, MakesWheel, Goto, End, Stop, Onward, AfterSource
<1>1. CASE Unpack
  <2>1. ~unpackDir => env = NoEnv /\ reqs = NoFiles
    BY DEF TypeInv, DirTypeOK
  <2>2. \/ ~unpackDir /\ Goto("unpack", "extract") /\ UNCHANGED dirVars
        \/ unpackDir /\ Goto("unpack", "remove")
    BY <1>1 DEF Unpack
  <2> QED BY <2>1, <2>2 DEF dirVars
<1>2. CASE Remove
  BY <1>2 DEF Remove
<1>3. CASE Extract
  BY <1>3 DEF Extract, runVars
<1>4. CASE Patch
  BY <1>4 DEF Patch, runVars
<1> QED BY <1>1, <1>2, <1>3, <1>4 DEF Prepare

LEMMA FreshEnvironment ==
  ASSUME TypeInv, PathInv, FreshInv, [Next]_vars, CleanRun, CleanRun',
         UNCHANGED <<command, cleanup, recipe, reused>>, Provide
  PROVE  FreshInv'
<1> USE KindTypes DEF FreshInv, WithTree
<1>0. /\ env \in [made : Content, installed : [Kind -> Content]] /\ reqs \in [Kind -> Content]
      /\ kind \in Kind /\ recipe \in 0..MaxRecipe /\ Kinds \in Nat
  BY WorkspaceAssumption DEF TypeInv, DirTypeOK, RunsTypeOK, Recipe
<1>1. CASE Environment
  <2>1. pc = "environment" /\ env = NoEnv /\ reqs = NoFiles /\ tree = Whole(recipe)
    BY <1>1 DEF Environment, Goto
  <2>2. env.made = Nothing /\ env.installed = NoFiles
    BY <2>1 DEF NoEnv
  <2>3. env' = [env EXCEPT !.made = Part] /\ Goto("environment", "create") /\ UNCHANGED <<tree, reqs>>
    BY <1>1, <2>2 DEF Environment
  <2>4. env'.installed = NoFiles
    BY <1>0, <2>2, <2>3
  <2> QED BY <2>1, <2>3, <2>4 DEF Goto
<1>2. CASE CreateEnvironment
  <2>1. AfterEnvironment = "dependencies"
    BY DEF AfterEnvironment, CleanRun, MakesWheel
  <2>2. /\ pc = "create" /\ pc' = "dependencies" /\ UNCHANGED <<kind, outcome, tree, reqs>>
        /\ env' = [env EXCEPT !.made = Whole(0)]
    BY <1>2, <2>1 DEF CreateEnvironment, Goto
  <2>3. kind = 1 /\ reqs = NoFiles /\ env'.made = Whole(0) /\ tree = Whole(recipe)
    BY <1>0, <2>2 DEF PathInv, BeforeInstall
  <2>4. env.installed = NoFiles /\ env'.installed = env.installed
    BY <1>0, <2>2
  <2>5. InstalledBefore(kind)' /\ WrittenBefore(kind)' /\ MissingFrom(kind)'
    BY <2>2, <2>3, <2>4 DEF InstalledBefore, WrittenBefore, MissingFrom, NoFiles, Kind
  <2> QED BY <2>2, <2>3, <2>5
<1>3. CASE Dependencies
  <2>1. pc = "dependencies" /\ UNCHANGED <<tree, env>>
    BY <1>3 DEF Dependencies, Goto, Stop
  <2>2. reqs[kind] = Nothing
    BY <1>0, <2>1 DEF MissingFrom
  <2>3. BackendCanRun
    BY <1>0, <2>1, ContentTypes DEF BackendCanRun, Whole
  <2>4. Goto("dependencies", "write") /\ reqs' = [reqs EXCEPT ![kind] = Part]
    BY <1>3, <2>2, <2>3 DEF Dependencies
  <2>5. InstalledBefore(kind)' /\ WrittenBefore(kind)' /\ MissingFrom(kind + 1)'
    BY <1>0, <2>1, <2>4 DEF InstalledBefore, WrittenBefore, MissingFrom, Goto
  <2> QED BY <2>1, <2>4, <2>5 DEF Goto
<1>4. CASE WriteRequirements
  <2>1. Goto("write", "install") /\ reqs' = [reqs EXCEPT ![kind] = Whole(tree.recipe)] /\ UNCHANGED <<tree, env>>
    BY <1>4 DEF WriteRequirements
  <2>2. tree = Whole(recipe)
    BY <2>1 DEF Goto
  <2>3. tree.recipe = recipe
    BY <2>2 DEF Whole
  <2>4. reqs'[kind] = Whole(recipe)
    BY <1>0, <2>1, <2>3
  <2>5. InstalledBefore(kind)' /\ WrittenBefore(kind)' /\ MissingFrom(kind + 1)'
    BY <1>0, <2>1 DEF InstalledBefore, WrittenBefore, MissingFrom, Goto
  <2> QED BY <2>1, <2>2, <2>4, <2>5 DEF Goto
<1>5. CASE Install
  <2>1. pc = "install" /\ UNCHANGED <<tree, reqs>>
    BY <1>5 DEF Install
  <2>2. env.made = Whole(0) /\ env.made.state = "whole"
    BY <2>1 DEF Whole
  <2>3. /\ \E ks \in Installs : env' = WithInstalled(ks)
        /\ \/ kind < Kinds /\ kind' = kind + 1 /\ pc' = "dependencies" /\ UNCHANGED <<started, reused, outcome>>
           \/ ~(kind < Kinds) /\ Onward("install", AfterInstall)
    BY <1>5, <2>2 DEF Install, WithInstalled
  <2>4. PICK ks \in Installs : env' = WithInstalled(ks)
    BY <2>3
  <2>5. /\ env'.made = Whole(0)
        /\ \A k \in Kind : env'.installed[k] = IF k \in ks THEN reqs[k] ELSE env.installed[k]
    BY <2>2, <2>4, InstalledTypes DEF TypeInv
  <2>8. \A k \in Kind : k < kind + 1 => reqs[k] = Whole(recipe)
    <3>1. WrittenBefore(kind) /\ reqs[kind] = Whole(recipe)
      BY <2>1
    <3> QED BY ONLY <1>0, <3>1, KindTypes DEF WrittenBefore
  <2>9. ASSUME NEW k \in Kind
        PROVE  \/ k < kind + 1 /\ env'.installed[k] = Whole(recipe)
               \/ (k < kind + 1 => command = "bootstrap" /\ k > 1) /\ env'.installed[k] = Nothing
    <3>1. \/ ks = {kind} /\ (command # "bootstrap" \/ kind = 1)
          \/ ks = {} /\ command = "bootstrap" /\ kind > 1
          \/ ks = 2..Kinds /\ command = "bootstrap" /\ kind = Kinds /\ kind > 1
      BY ONLY <1>0, <2>4, KindTypes DEF Installs, Kind
    <3>2. InstalledBefore(kind)
      BY <2>1
    <3>3. \/ k < kind /\ env.installed[k] = Whole(recipe)
          \/ (k < kind => command = "bootstrap" /\ k > 1) /\ env.installed[k] = Nothing
      BY ONLY <3>2 DEF InstalledBefore
    <3>4. env'.installed[k] = IF k \in ks THEN reqs[k] ELSE env.installed[k]
      BY <2>5
    <3>5. k \in Nat /\ kind \in Nat /\ k \in 1..Kinds
      BY ONLY <1>0, <2>9, KindTypes DEF Kind
    <3>6. CASE ks = {kind} /\ (command # "bootstrap" \/ kind = 1)
      BY ONLY <3>3, <3>4, <3>5, <3>6, <2>8, <2>9
    <3>7. CASE ks = {} /\ command = "bootstrap" /\ kind > 1
      BY ONLY <3>3, <3>4, <3>5, <3>7
    <3>8. CASE ks = 2..Kinds /\ command = "bootstrap" /\ kind = Kinds /\ kind > 1
      BY ONLY <3>3, <3>4, <3>5, <3>8, <2>8, <2>9, <1>0
    <3> QED BY <3>1, <3>6, <3>7, <3>8
  <2>6. CASE kind < Kinds /\ kind' = kind + 1 /\ pc' = "dependencies" /\ UNCHANGED <<started, reused, outcome>>
    <3>1. InstalledBefore(kind)' /\ WrittenBefore(kind)' /\ MissingFrom(kind)'
      BY <2>1, <2>6, <2>8, <2>9 DEF InstalledBefore, WrittenBefore, MissingFrom
    <3> QED BY <2>1, <2>5, <2>6, <3>1
  <2>7. CASE ~(kind < Kinds) /\ Onward("install", AfterInstall)
    <3>1. AfterInstall = "sdist"
      BY DEF AfterInstall, CleanRun, MakesWheel
    <3>2. pc' = "sdist" /\ outcome' = outcome
      BY <2>7, <3>1 DEF Onward, Goto
    <3>3. kind = Kinds
      BY <1>0, <2>7 DEF Kind
    <3>4. InstalledBefore(Kinds + 1)'
      BY <2>9, <3>3 DEF InstalledBefore
    <3> QED BY <2>1, <2>5, <3>2, <3>4
  <2> QED BY <2>3, <2>6, <2>7
<1> QED BY <1>1, <1>2, <1>3, <1>4, <1>5 DEF Provide

LEMMA FreshBuild ==
  ASSUME TypeInv, PathInv, FreshInv, [Next]_vars, CleanRun, CleanRun',
         UNCHANGED <<command, cleanup, recipe, reused>>, Build
  PROVE  FreshInv'
<1> USE DEF FreshInv, WithTree
<1>1. CASE BuildSdist
  <2>1. pc = "sdist"
    BY <1>1 DEF BuildSdist, Stop, Onward, Goto
  <2>2. tree # Nothing
    BY <2>1, ContentTypes DEF TypeInv, RunsTypeOK, Recipe, Nothing, Whole
  <2>3. command # "build-sdist"
    BY DEF CleanRun, MakesWheel
  <2>4. pc' = "wheel" /\ UNCHANGED <<outcome, tree, env, reqs>>
    BY <1>1, <2>2, <2>3 DEF BuildSdist, Onward, Goto, dirVars
  <2> QED BY <2>1, <2>4 DEF InstalledBefore
<1>2. CASE BuildWheel
  <2>1. pc = "wheel"
    BY <1>2, Zenon DEF BuildWheel, Stop, Goto
  <2>2. BackendCanRun
    BY <2>1 DEF BackendCanRun, Nothing, Whole
  <2>3. pc' = "count" /\ outcome' = outcome
    BY <1>2, <2>2, Zenon DEF BuildWheel, Goto
  <2> QED BY <2>1, <2>3
<1>3. CASE Count
  <2>1. pc = "count"
    BY <1>3, Zenon DEF Count, Stop, Goto
  <2>2. Cardinality(building) = 1
    <3>1. PICK x \in building : building = {x}
      BY <2>1 DEF PathInv, CleanRun
    <3> QED BY <3>1, FS_Singleton
  <2>3. pc' = "pack" /\ outcome' = outcome
    BY <1>3, <2>2, Zenon DEF Count, Goto
  <2> QED BY <2>1, <2>3
<1>4. CASE Pack
  <2>1. pc' \in {"packed", "unlink", "clean", "move", "idle"} /\ (outcome' = outcome \/ outcome' = "ok")
    BY <1>4 DEF Pack, Onward, Stop, Goto, End
  <2> QED BY <2>1
<1>5. CASE Clean
  <2>1. pc' \in {"move", "idle"} /\ (outcome' = outcome \/ outcome' = "ok")
    BY <1>5 DEF Clean, Goto, Stop, End
  <2> QED BY <2>1
<1> QED BY <1>1, <1>2, <1>3, <1>4, <1>5 DEF Build

LEMMA FreshNextInv == TypeInv /\ PathInv /\ FreshInv /\ [Next]_vars => FreshInv'
<1> SUFFICES ASSUME TypeInv, PathInv, FreshInv, [Next]_vars, CleanRun' PROVE FreshInv'
  BY DEF FreshInv
<1>1. CASE \E c \in Command, clean \in BOOLEAN : Start(c, clean)
  <2>1. PICK c \in Command, clean \in BOOLEAN : Start(c, clean)
    BY <1>1
  <2>2. pc' \in {"move", "find archive", "find tree"} /\ outcome' = "none"
    BY <2>1 DEF Start, FirstStep
  <2> QED BY <2>2 DEF FreshInv, WithTree
<1>2. CASE ChangeRecipe \/ DeleteWheel
  <2>1. pc = "idle" /\ UNCHANGED <<pc, outcome, command, cleanup, reused>>
    BY <1>2 DEF ChangeRecipe, DeleteWheel, runVars, userVars
  <2>2. pc' = "idle" /\ outcome' # "leftover"
    BY <2>1 DEF FreshInv, CleanRun, MakesWheel
  <2> QED BY <2>2 DEF FreshInv, WithTree
<1>3. CASE pc # "idle"
  <2>0. CleanRun /\ UNCHANGED <<command, cleanup, recipe, reused>>
    BY <1>3, CleanRunStays
  <2>00. command \in {"build", "bootstrap"}
    BY <2>0 DEF CleanRun, MakesWheel
  <2>1. CASE Interrupt
    <3>1. pc' = "idle" /\ outcome' = "interrupted"
      BY <2>1 DEF Interrupt, End
    <3> QED BY <3>1 DEF FreshInv, WithTree
  <2>2. CASE MoveWheel
    <3>1. pc' \in {"move", "link"} /\ outcome' = outcome
      BY <1>3, <2>2 DEF MoveWheel, Goto, runVars
    <3> QED BY <2>0, <3>1 DEF FreshInv, WithTree
  <2>3. CASE LinkWheel
    <3>1. pc' \in {"link", "lookup", "download", "clean", "idle"} /\ (outcome' = outcome \/ outcome' = "ok")
      BY <2>00, <2>3 DEF LinkWheel, Goto, End, runVars, AfterStart
    <3> QED BY <2>0, <3>1 DEF FreshInv, WithTree
  <2>4. CASE LookupForBuild
    <3>1. pc' \in {"move", "download"} /\ outcome' = outcome
      BY <2>4 DEF LookupForBuild, Goto
    <3> QED BY <2>0, <3>1 DEF FreshInv, WithTree
  <2>5. CASE LookupForBootstrap
    <3>1. pc' = "download" /\ outcome' = outcome
      BY <2>0, <2>5 DEF LookupForBootstrap, Goto, CleanRun
    <3> QED BY <2>0, <3>1 DEF FreshInv, WithTree
  <2>6. CASE FindArchive
    BY <2>00, <2>6 DEF FindArchive, PathInv, Goto, Stop
  <2>7. CASE FindTree
    BY <2>00, <2>7 DEF FindTree, TypeInv, RunsInOrder, Goto, Stop
  <2>8. CASE Download
    <3>1. pc' \in {"download", "unpack", "idle"} /\ outcome' \in {outcome, "interrupted", "failed"}
      BY <2>8 DEF Download, Goto, Stop, End, runVars
    <3> QED BY <2>0, <3>1 DEF FreshInv, WithTree
  <2>9. CASE Prepare
    BY <2>0, <2>9, FreshSource
  <2>10. CASE Provide
    BY <2>0, <2>10, FreshEnvironment
  <2>11. CASE Build
    BY <2>0, <2>11, FreshBuild
  <2>12. CASE UNCHANGED vars
    BY <2>0, <2>12 DEF vars, runVars, dirVars, userVars, FreshInv, InstalledBefore, WrittenBefore, MissingFrom
  <2> QED
    BY <1>1, <1>2, <2>1, <2>2, <2>3, <2>4, <2>5, <2>6, <2>7, <2>8, <2>9, <2>10, <2>11, <2>12 DEF Next
<1>4. CASE UNCHANGED vars
  BY <1>4 DEF vars, runVars, dirVars, userVars, FreshInv, CleanRun, MakesWheel, InstalledBefore,
         WrittenBefore, MissingFrom
<1>5. pc = "idle" => \/ \E c \in Command, clean \in BOOLEAN : Start(c, clean)
                     \/ ChangeRecipe \/ DeleteWheel \/ UNCHANGED vars
  BY DEF Next, Interrupt, MoveWheel, LinkWheel, LookupForBuild,
     LookupForBootstrap, FindArchive, FindTree, Download, Prepare, Provide, Build, Unpack, Remove, Extract,
     Patch, Environment, CreateEnvironment, Dependencies, WriteRequirements, Install, BuildSdist,
     BuildWheel, Count, Pack, Clean, Goto, Stop, Onward
<1> QED BY <1>1, <1>2, <1>3, <1>4, <1>5

-----------------------------------------------------------------------------
LEMMA WheelsFollowInit == Init => WheelFollowsRecipe
  BY DEF Init, WheelFollowsRecipe

SameMaterial(x, y) ==
  y.by = x.by /\ y.cleanup = x.cleanup /\ y.pure = x.pure /\ y.equipped = x.equipped

(* A wheel keeps what it was built from when it is counted, repacked or moved. *)
LEMMA SameOrigin ==
  ASSUME TypeInv, BuildWheel \/ Count \/ Pack, NEW y \in building'
  PROVE  \/ BuildWheel /\ y = RawWheel
         \/ \E x \in building : SameMaterial(x, y)
<1>0. building \subseteq Wheel
  BY DEF TypeInv, WheelsTypeOK
<1>1. CASE BuildWheel
  <2>1. building' = building \/ building' = Put(building, RawWheel)
    BY <1>1, Zenon DEF BuildWheel, RawWheel
  <2>2. building' \subseteq building \cup {RawWheel}
    BY <2>1 DEF Put
  <2> QED BY <1>1, <2>2 DEF SameMaterial
<1>2. CASE Count
  <2>1. building' = building \/ building' = {[x EXCEPT !.whole = TRUE] : x \in building}
    BY <1>2, Zenon DEF Count
  <2>2. CASE building' = {[x EXCEPT !.whole = TRUE] : x \in building}
    <3>1. PICK x \in building : y = [x EXCEPT !.whole = TRUE]
      BY <2>2
    <3> QED BY <1>0, <3>1 DEF Wheel, SameMaterial
  <2> QED BY <2>1, <2>2 DEF SameMaterial
<1>3. CASE Pack
  <2>1. \/ \E w \in BOOLEAN : \E x \in Repacked(w) : building' = Put(building, x)
        \/ building' = {x \in building : ~x.raw}
    BY <1>3 DEF Pack
  <2>2. CASE \E w \in BOOLEAN : \E x \in Repacked(w) : building' = Put(building, x)
    <3>1. PICK w \in BOOLEAN : \E x \in Repacked(w) : building' = Put(building, x)
      BY <2>2
    <3>2. PICK z \in Repacked(w) : building' = Put(building, z)
      BY <3>1
    <3>3. PICK x \in building : /\ x.raw
                                /\ z = [x EXCEPT !.raw = FALSE, !.tag = tags[recipe], !.reqs = reqs, !.whole = w]
      BY <3>2, Zenon DEF Repacked
    <3>4. SameMaterial(x, z)
      BY <1>0, <3>3 DEF Wheel, SameMaterial
    <3> QED BY <3>2, <3>4 DEF Put, SameMaterial
  <2> QED BY <2>1, <2>2 DEF SameMaterial
<1> QED BY <1>1, <1>2, <1>3

LEMMA WheelsFollowNext ==
  TypeInv /\ PathInv /\ FreshInv /\ WheelFollowsRecipe /\ [Next]_vars => WheelFollowsRecipe'
<1> SUFFICES ASSUME TypeInv, PathInv, FreshInv, WheelFollowsRecipe, [Next]_vars,
                    NEW y \in building' \cup downloads', y.by \in {"build", "bootstrap"}, y.cleanup
             PROVE  y.pure /\ IF y.by = "build" THEN y.equipped = Kind ELSE 1 \in y.equipped
  BY DEF WheelFollowsRecipe
<1>1. CASE y \in building \cup downloads
  BY <1>1 DEF WheelFollowsRecipe
<1>2. CASE \E x \in building : SameMaterial(x, y)
  <2>1. PICK x \in building : SameMaterial(x, y)
    BY <1>2
  <2>2. x.by \in {"build", "bootstrap"} /\ x.cleanup
    BY <2>1 DEF SameMaterial
  <2> QED BY <2>1, <2>2 DEF WheelFollowsRecipe, SameMaterial
<1>3. CASE BuildWheel /\ y = RawWheel
  <2>1. y.by = command /\ y.cleanup = cleanup /\ y.pure = Pure /\ y.equipped = Equipped
    BY <1>3 DEF RawWheel
  <2>2. pc = "wheel" \/ building' = building
    BY <1>3, Zenon DEF BuildWheel, Goto, Stop
  <2>3. CASE pc = "wheel"
    <3>1. CleanRun
      BY <2>1, <2>3 DEF CleanRun, MakesWheel, PathInv, RunOfReuse
    <3>2. tree = Whole(recipe) /\ env.made = Whole(0) /\ InstalledBefore(Kinds + 1)
      BY <2>3, <3>1 DEF FreshInv, WithTree
    <3>3. env.made.state = "whole"
      BY <3>2 DEF Whole
    <3>4. \A k \in Kind : k < Kinds + 1
      BY WorkspaceAssumption DEF Kind
    <3>5. \A k \in Kind :
            \/ env.installed[k] = Whole(recipe)
            \/ command = "bootstrap" /\ k > 1 /\ env.installed[k] = Nothing
      BY <3>2, <3>4 DEF InstalledBefore
    <3>6. Pure
      BY <3>2, <3>3, <3>5 DEF Pure, Equipped
    <3>7. 1 \in Equipped
      BY <3>5, KindTypes DEF Equipped
    <3>8. command = "build" => Equipped = Kind
      BY <3>5 DEF Equipped
    <3> QED BY <2>1, <3>6, <3>7, <3>8
  <2>4. CASE building' = building
    BY <1>1, <1>3, <2>4 DEF BuildWheel
  <2> QED BY <2>2, <2>3, <2>4
<1>4. CASE BuildWheel \/ Count \/ Pack
  <2>1. downloads' = downloads
    BY <1>4 DEF BuildWheel, Count, Pack
  <2> QED BY <1>1, <1>2, <1>3, <1>4, <2>1, SameOrigin
<1>5. CASE DeleteWheel \/ MoveWheel \/ LinkWheel \/ UNCHANGED wheelVars
  <2>1. building' \cup downloads' \subseteq building \cup downloads
    BY <1>5 DEF DeleteWheel, MoveWheel, LinkWheel, wheelVars, Put
  <2> QED BY <1>1, <2>1
<1> QED BY <1>4, <1>5, StepOfWheels

(* A wheel that build or bootstrap makes with --cleanup is made of the archive  *)
(* as the settings of that moment say, in an environment that holds nothing but *)
(* requirements of its own - all if build makes it, at least those of the build *)
(* system if bootstrap does -, whatever any number of earlier runs, step        *)
(* commands and changes of settings have left (unpack_source, _createenv,      *)
(* requirement files, Build.run).                                            *)
THEOREM WheelsFollowRecipes == Spec => []WheelFollowsRecipe
<1> QED
  BY TypeInitInv, TypeNextInv, PathInitInv, PathNextInv, FreshInitInv, FreshNextInv,
     WheelsFollowInit, WheelsFollowNext, PTL DEF Spec

(* Nor do leftovers make such a run fail, unless it takes the requirement files *)
(* of a wheel (build_wheel, update_wheel_mirror, unpack_source).              *)
THEOREM LeftoversDoNotFail == Spec => []CleanRunsDoNotFail
<1>1. FreshInv => CleanRunsDoNotFail
  BY DEF FreshInv, CleanRun, MakesWheel, CleanRunsDoNotFail
<1> QED
  BY <1>1, TypeInitInv, TypeNextInv, PathInitInv, PathNextInv, FreshInitInv, FreshNextInv, PTL DEF Spec
=============================================================================
