------------------------ MODULE RequirementResolver ------------------------
(***************************************************************************)
(* BootstrapRequirementResolver                                            *)
(* (src/fromager/bootstrap_requirement_resolver.py) for the requirements    *)
(* of one package, over two runs of bootstrap: a first one without and a    *)
(* second one with the graph of the first as its previous graph, while the  *)
(* indexes go on changing.                                                 *)
(*                                                                         *)
(* The main thread resolves the requirements of the command line in order;  *)
(* pool threads then resolve the others in any order.  resolve() holds the  *)
(* lock of the resolver from its first to its last line, network included,  *)
(* so that one call is one step.                                           *)
(***************************************************************************)
EXTENDS Providers, Sequences

CONSTANTS
  Local,       \* the local wheel server
  Cache,       \* the remote wheel cache
  Parent,      \* names of packages that require the package at hand
  CommandLine, \* the parent of top-level requirements, not a package
  ReqType,     \* types of requirements, "toplevel" among them
  MaxNews      \* how many files may appear on indexes while bootstrap runs

ASSUME ResolverAssumption ==
  /\ {Local, Cache} \subseteq Server /\ CommandLine \notin Parent
  /\ Local # Cache /\ Local # PyPI /\ Cache # PyPI /\ MaxNews \in Nat

VARIABLES
  w,        \* options, settings and requirements of both runs
  index,    \* [Server -> Page]
  run,      \* 1 or 2
  now,      \* the day on which the run started
  known,    \* _known_versions: [pre_built -> set of [version, url]]
  rules,    \* _resolved_rules
  listings, \* BaseProvider.resolver_cache
  graph,    \* edges to the package's nodes in the graph of this run
  prev,     \* ... in the previous graph
  asked,    \* requests that were resolved in this run
  answers,  \* what they got: [run -> set of records]
  news      \* files that have appeared

vars == <<w, index, run, now, known, rules, listings, graph, prev, asked, answers, news>>

(* A requirement as its string (text), what it admits and whether it is an   *)
(* exact pin; a request is a requirement with its place in the tree.         *)
Request == [text : STRING, admits : SUBSET Version, pin : BOOLEAN,
            type : ReqType, parent : Parent \cup {CommandLine}]
Found   == [version : Version, url : Server]
Edge    == [parent : Parent \cup {CommandLine}, type : ReqType, prebuilt : BOOLEAN,
            version : Version, url : Server]
Constraint == [versions : SUBSET Version, pin : BOOLEAN]
World   == [multiple : BOOLEAN, cacheServer : BOOLEAN, prebuilt : BOOLEAN,
            sdists : BOOLEAN, wheels : BOOLEAN, anyPlatform : BOOLEAN,
            cooldown : Int \cup {None}, ownAge : Int \cup {None}, maxAge : Int \cup {None},
            constraint : Constraint, top : Seq(Request), below : SUBSET Request]

(* Only the command line has requirements of its type and is their parent, and  *)
(* what a requirement admits is told by its text.                            *)
BelowIsBelow(x) == \A r \in x.below : r.type # "toplevel"
TextsTell(x) ==
  LET all == x.below \cup {x.top[i] : i \in DOMAIN x.top}
  IN  \A r, s \in all : r.text = s.text => r.admits = s.admits
FitWorld(x) ==
  BelowIsBelow(x) /\ TextsTell(x) /\ \A r \in x.below : r.parent # CommandLine

NoListings == [k \in Server \X BOOLEAN |-> {}]

TypeOK ==
  /\ w \in World
  /\ index \in [Server -> Page]
  /\ run \in 1..2 /\ now \in Nat /\ news \in 0..MaxNews
  /\ known \in [BOOLEAN -> SUBSET Found]
  /\ \A pre \in BOOLEAN : \A f, g \in known[pre] : f.version = g.version => f = g
  /\ rules \subseteq STRING \X BOOLEAN
  /\ listings \in [Server \X BOOLEAN -> SUBSET File]
  /\ graph \subseteq Edge /\ prev \subseteq Edge
  /\ asked \subseteq Request
  /\ \A i \in 1..2 : \A a \in answers[i] :
       a.request \in Request /\ a.raised \in BOOLEAN /\ a.versions \subseteq Version

-----------------------------------------------------------------------------
(* How one server answers: its outcome and the listings afterwards.          *)
Query(p, r, maxAge, fallback) ==
  [out  |-> FindAllMatching(p, index[p.server], listings, r.admits, w.constraint, now,
                            maxAge, fallback),
   kept |-> KeepListing(p, index[p.server], listings)]

CooldownFor(r) == PackageCooldown(r.type, r.pin, w.cooldown, w.ownAge)

Answer(vs, url, raised, kept) ==
  [found |-> {[version |-> v, url |-> url] : v \in vs}, raised |-> raised, kept |-> kept]

(* get_source_provider and the query of it.                                  *)
SourceProvider(r) ==
  PyPIProvider(PyPI, w.sdists, w.wheels, w.anyPlatform, CooldownFor(r))

(* Mutant: several versions fall back to all old versions. *)
FallbackAlwaysAll == "all"
AgeFallback == IF w.multiple THEN "newest" ELSE "all"

(* _resolve_from_cache_server: the highest version among wheels and sdists,  *)
(* without limits on age; a server that cannot answer counts as empty.       *)
FromCacheServer(r, listed) ==
  LET best(sdists) == FindAllMatching(PyPICacheProvider(Cache, sdists), index[Cache], listed,
                                      r.admits, w.constraint, now, None, "all").versions
      vs == best(TRUE) \cup best(FALSE)
  IN  Answer(Highest(vs), Cache, FALSE,
             KeepListing(PyPICacheProvider(Cache, FALSE), index[Cache], listed))

FromSource(r) ==
  LET q == Query(SourceProvider(r), r, w.maxAge, AgeFallback)
  IN  IF ~q.out.raised /\ q.out.versions = {} /\ w.multiple /\ w.cacheServer
      THEN FromCacheServer(r, q.kept)
      ELSE Answer(q.out.versions, PyPI, q.out.raised, q.kept)

(* resolve_all_prebuilt_wheels: the first server with a match, the local one *)
(* first, which need not tell upload times.                                  *)
FromWheelServers(r) ==
  LET local == [PyPIProvider(Local, FALSE, TRUE, FALSE, CooldownFor(r)) EXCEPT !.timestamps = FALSE]
      pypi  == PyPIProvider(PyPI, FALSE, TRUE, FALSE, CooldownFor(r))
      first == Query(local, r, None, "all")
      other == Query(pypi, r, None, "all")
  IN  IF ~first.out.raised THEN Answer(first.out.versions, Local, FALSE, first.kept)
      ELSE Answer(other.out.versions, PyPI, other.out.raised,
                  KeepListing(pypi, index[PyPI], first.kept))

(* _resolve_from_version_source: a provider without cache or limits on age.  *)
FromVersions(edges, r) ==
  {[version |-> e.version, url |-> e.url] :
     e \in {e \in edges : e.version \in r.admits \cap w.constraint.versions}}

(* Mutant: the previous graph is not consulted. *)
ForgetGraph(r, pre) == {}

(* _resolve_from_graph: what the command line chose in this run, else what    *)
(* the same parent required in the previous run, else any version that run    *)
(* used.  Versions seen in an earlier place are not looked at again.          *)
FromGraph(r, pre) ==
  LET top    == {e \in graph : e.parent = CommandLine}
      unseen(edges, seen) == {e \in edges : e.prebuilt = pre /\ e.version \notin VersionsOf(seen)}
      same   == unseen({e \in prev : e.parent = r.parent /\ e.type = r.type}, top)
      byName == unseen(prev, top \cup same)
  IN  IF prev = {} THEN {}
      ELSE IF FromVersions(top, r) # {} THEN FromVersions(top, r)
      ELSE IF FromVersions(same, r) # {} THEN FromVersions(same, r)
      ELSE FromVersions(byName, r)

(* _resolve_and_extend *)
Lookup(r) ==
  LET old == FromGraph(r, w.prebuilt)
  IN  IF old # {} THEN [found |-> old, raised |-> FALSE, kept |-> listings]
      ELSE IF w.prebuilt THEN FromWheelServers(r)
      ELSE FromSource(r)

(* Mutant: the last URL is added to the first. *)
MergeAll(old, new) == old \cup new

(* Merging: the first URL of a version stays.                                *)
Merge(old, new) == old \cup {f \in new : f.version \notin VersionsOf(old)}

(* _get_matching_versions, and what a caller gets of it: the highest, or all *)
(* with several versions.                                                    *)
Matching(table, r) == {v \in VersionsOf(table) : v \in r.admits}
Chosen(table, r) ==
  LET vs == Matching(table, r)
  IN  IF w.multiple THEN vs ELSE Highest(vs)

(* The edges that the bootstrapper adds to the graph for an answer.          *)
EdgesFor(r, table, vs) ==
  {[parent |-> r.parent, type |-> r.type, prebuilt |-> w.prebuilt,
    version |-> f.version, url |-> f.url] : f \in {f \in table : f.version \in vs}}

(* resolve(): a rule is its text and pre_built, nothing else.  It counts as   *)
(* resolved once something was found.                                        *)
Resolve(r) ==
  LET rule  == <<r.text, w.prebuilt>>
      known_before == known[w.prebuilt]
      look  == IF rule \in rules THEN [found |-> {}, raised |-> FALSE, kept |-> listings]
               ELSE Lookup(r)
      table == Merge(known_before, look.found)
      vs    == IF look.raised THEN {} ELSE Chosen(table, r)
  IN  /\ known' = [known EXCEPT ![w.prebuilt] = table]
      /\ rules' = IF look.found = {} THEN rules ELSE rules \cup {rule}
      /\ listings' = look.kept
      /\ graph' = graph \cup EdgesFor(r, table, vs)
      /\ asked' = asked \cup {r}
      /\ answers' = [answers EXCEPT ![run] = @ \cup {[request |-> r, versions |-> vs, raised |-> look.raised]}]
      /\ UNCHANGED <<w, index, run, now, prev, news>>

TopLevelLeft == {i \in DOMAIN w.top : w.top[i] \notin asked}

(* resolve_and_add_top_level, one requirement after another.                 *)
ResolveTopLevel ==
  \E i \in TopLevelLeft : (\A j \in TopLevelLeft : i <= j) /\ Resolve(w.top[i])

(* Resolve.background_work of any item of the loop.                          *)
ResolveBelow ==
  /\ TopLevelLeft = {}
  /\ \E r \in w.below \ asked : Resolve(r)

(* Someone uploads a file, or a wheel reaches the local server.               *)
Publish ==
  /\ news < MaxNews /\ news' = news + 1
  /\ \E s \in Server, v \in Version :
       \E f \in [version : {v}, sdist : {s = PyPI /\ ~w.prebuilt}, upload : {IF s = PyPI THEN now ELSE None},
                 fault : {"none"}] :
         /\ v \notin VersionsOf(index[s].files)
         /\ index' = [index EXCEPT ![s].status = "active", ![s].files = @ \cup {f}]
  /\ UNCHANGED <<w, run, now, known, rules, listings, graph, prev, asked, answers>>

(* bootstrap ends well and is run again, with --previous-bootstrap-file.     *)
RunAgain ==
  /\ run = 1 /\ TopLevelLeft = {} /\ w.below \subseteq asked
  /\ \A a \in answers[1] : ~a.raised
  /\ run' = 2 /\ now' = now + 1
  /\ prev' = graph /\ graph' = {}
  /\ known' = [pre \in BOOLEAN |-> {}] /\ rules' = {} /\ listings' = NoListings /\ asked' = {}
  /\ UNCHANGED <<w, index, answers, news>>

Next == ResolveTopLevel \/ ResolveBelow \/ Publish \/ RunAgain

InitWith(worlds, indexes, today) ==
  /\ w \in worlds /\ index \in indexes /\ run = 1 /\ now = today
  /\ known = [pre \in BOOLEAN |-> {}] /\ rules = {} /\ listings = NoListings
  /\ graph = {} /\ prev = {} /\ asked = {} /\ news = 0
  /\ answers = [i \in 1..2 |-> {}]

-----------------------------------------------------------------------------
(* A version that PyPI offered for long enough.                              *)
OldEnough(v) ==
  LET limit == IF w.ownAge = None THEN w.cooldown ELSE IF w.ownAge = 0 THEN None ELSE w.ownAge
  IN  limit = None \/ \E f \in index[PyPI].files :
                        f.version = v /\ f.upload # None /\ f.upload <= now - limit

PinnedOnTop(v) == \E i \in DOMAIN w.top : w.top[i].pin /\ v \in w.top[i].admits

(* Cooldown: whatever the order in which requirements are resolved and merged, *)
(* a version of PyPI that is younger than the package's minimum age is chosen  *)
(* only if the command line pins it.  Pins of packages do not count            *)
(* (resolve_package_cooldown, is_blocked_by_cooldown, the shared table).       *)
CooldownEnforced ==
  \A pre \in BOOLEAN : \A f \in known[pre] :
    f.url = PyPI => OldEnough(f.version) \/ PinnedOnTop(f.version)

(* One package, one truth: without limits on age, the same requirement gets   *)
(* the same answer from every parent, in every order, although the index      *)
(* changes meanwhile (resolver_cache, _resolved_rules).                       *)
AnswersAgree ==
  w.maxAge = None /\ w.cooldown = None /\ w.ownAge = None /\ ~w.prebuilt =>
    \A a, b \in answers[1] :
      a.request.text = b.request.text /\ ~a.raised /\ ~b.raised => a.versions = b.versions

(* With several versions and an age limit, each requirement that was resolved  *)
(* brings in at most one version that is too old (AgeFallback.NEWEST).         *)
FewOldVersions ==
  run = 1 /\ w.multiple /\ w.maxAge # None /\ ~w.constraint.pin /\ ~w.prebuilt =>
    Cardinality({f \in known[FALSE] : \A file \in index[PyPI].files :
                   file.version = f.version => file.upload # None /\ file.upload < now - w.maxAge})
      <= Cardinality(rules)

(* The second run answers each request as the first did.                      *)
RouteKept ==
  \A a \in answers[1], b \in answers[2] :
    a.request = b.request => ~b.raised /\ a.versions = b.versions

(* "This will for sure ensure that bootstrap takes the same route as it did in *)
(* the previous one" (_resolve_from_graph): for packages that are not on the   *)
(* command line, when no age limit made the first answers depend on their      *)
(* order.                                                                     *)
SameRouteBelowTop == w.top = <<>> /\ w.maxAge = None /\ ~w.prebuilt => RouteKept

(* "If True and no results are found through any other approach, takes the    *)
(* latest candidate from the cache server" (multiple_versions in __init__).    *)
CacheServerIsTried ==
  w.multiple /\ w.cacheServer /\ ~w.prebuilt =>
    \A a \in answers[run] : a.raised =>
      \A f \in index[Cache].files :
        f.fault # "none" \/ f.version \notin a.request.admits \cap w.constraint.versions
=============================================================================
