--------------------------- MODULE ResolverProofs ---------------------------
(***************************************************************************)
(* What holds of the resolver for every package, all settings, every order *)
(* of requests and all uploads: cooldown, agreement of answers, the route  *)
(* of a second run.                                                        *)
(***************************************************************************)
EXTENDS RequirementResolver, FiniteSetTheorems, WellFoundedInduction, TLAPS

(* A version of PyPI that may be known.                                      *)
Fine(v) == OldEnough(v) \/ PinnedOnTop(v)

(* What the invariant needs of the types.                                    *)
Typed ==
  /\ w \in World /\ BelowIsBelow(w)
  /\ index \in [Server -> Page] /\ now \in Int
  /\ listings \in [Server \X BOOLEAN -> SUBSET File]
  /\ DOMAIN known = BOOLEAN

(* Files leave no index, so a listing that is kept shows what is still there. *)
Listed(ls) == \A b \in BOOLEAN : ls[<<PyPI, b>>] \subseteq index[PyPI].files

(* Both graphs and the table of known versions hold fine versions only: what   *)
(* one request finds another may get, and the next run as well.               *)
FineSources(S) == \A x \in S : x.url = PyPI => Fine(x.version)

CooldownInv ==
  /\ Typed /\ Listed(listings)
  /\ \A pre \in BOOLEAN : FineSources(known[pre])
  /\ FineSources(graph) /\ FineSources(prev)

(* A requirement of this run.                                                *)
Required(r) == r \in w.below \/ \E i \in DOMAIN w.top : r = w.top[i]

-----------------------------------------------------------------------------
(* What a resolution returns are versions of matching files.                 *)
LEMMA ReturnsMatches ==
  ASSUME NEW p, NEW page, NEW ls, NEW admitted, NEW constraint, NEW today, NEW maxAge,
         NEW fallback \in {"all", "newest", "none"}
  PROVE  FindAllMatching(p, page, ls, admitted, constraint, today, maxAge, fallback).versions
           \subseteq VersionsOf(FindMatches(p, page, ls, admitted, constraint, today))
<1> DEFINE matches == FindMatches(p, page, ls, admitted, constraint, today)
           recent  == RecentEnough(matches, today - maxAge)
           out     == FindAllMatching(p, page, ls, admitted, constraint, today, maxAge, fallback)
<1>1. VersionsOf(recent) \subseteq VersionsOf(matches)
  BY DEF RecentEnough, VersionsOf
<1>2. Highest(VersionsOf(matches)) \subseteq VersionsOf(matches)
  BY DEF Highest
<1> HIDE DEF matches
<1>3. CASE matches = {}
  BY <1>3 DEF FindAllMatching, Raises, matches
<1>4. CASE matches # {} /\ (maxAge = None \/ constraint.pin)
  BY <1>4 DEF FindAllMatching, Returns, matches
<1>5. CASE matches # {} /\ ~(maxAge = None \/ constraint.pin)
  <2>1. out = IF recent # {} THEN Returns(VersionsOf(recent))
              ELSE CASE fallback = "all"    -> Returns(VersionsOf(matches))
                     [] fallback = "newest" -> Returns(Highest(VersionsOf(matches)))
                     [] fallback = "none"   -> Returns({})
    BY <1>5 DEF FindAllMatching, matches
  <2> HIDE DEF out, recent
  <2>2. out \in {Returns(VersionsOf(recent)), Returns(VersionsOf(matches)),
                 Returns(Highest(VersionsOf(matches))), Returns({})}
    BY <2>1
  <2>3. \A vs : Returns(vs).versions = vs
    BY DEF Returns
  <2>4. out.versions \subseteq VersionsOf(matches)
    BY <2>2, <2>3, <1>1, <1>2
  <2> QED BY <2>4 DEF out, matches
<1> QED BY <1>3, <1>4, <1>5

(* A listing holds what its index shows.                                     *)
LEMMA CandidatesListed ==
  ASSUME Typed, NEW p, NEW ls, p.server = PyPI, p.anyPlatform \in BOOLEAN, Listed(ls)
  PROVE  CandidateFiles(p, index[PyPI], ls) \subseteq index[PyPI].files
  BY DEF CandidateFiles, ProjectFiles, Listed, CacheKey

LEMMA KeepsListed ==
  ASSUME Typed, NEW p, p.server \in Server, p.anyPlatform \in BOOLEAN,
         NEW ls \in [Server \X BOOLEAN -> SUBSET File], Listed(ls)
  PROVE  /\ KeepListing(p, index[p.server], ls) \in [Server \X BOOLEAN -> SUBSET File]
         /\ Listed(KeepListing(p, index[p.server], ls))
<1> DEFINE key   == CacheKey(p)
           files == CandidateFiles(p, index[p.server], ls)
<1>1. key \in Server \X BOOLEAN /\ key[1] = p.server
  BY DEF CacheKey
<1>2. index[p.server].files \in SUBSET File
  BY DEF Typed, Page
<1>3. files \in SUBSET File
  BY <1>1, <1>2 DEF CandidateFiles, ProjectFiles
<1>4. p.server = PyPI => files \subseteq index[PyPI].files
  BY CandidatesListed
<1> HIDE DEF key, files
<1>5. [ls EXCEPT ![key] = files] \in [Server \X BOOLEAN -> SUBSET File]
  BY <1>1, <1>3
<1>6. Listed([ls EXCEPT ![key] = files])
  <2> SUFFICES ASSUME NEW b \in BOOLEAN
               PROVE  [ls EXCEPT ![key] = files][<<PyPI, b>>] \subseteq index[PyPI].files
    BY DEF Listed
  <2>1. <<PyPI, b>> \in Server \X BOOLEAN
    BY ProvidersAssumption
  <2>2. CASE <<PyPI, b>> = key
    BY <2>1, <2>2, <1>1, <1>4
  <2>3. CASE <<PyPI, b>> # key
    BY <2>1, <2>3 DEF Listed
  <2> QED BY <2>2, <2>3
<1> QED BY <1>5, <1>6 DEF KeepListing, key, files

-----------------------------------------------------------------------------
(* A file of PyPI that a provider lets through is old enough, or the request   *)
(* is exempt.                                                                *)
LEMMA MatchesFine ==
  ASSUME Typed, NEW r, Required(r), NEW p, p.server = PyPI, p.timestamps = TRUE,
         p.anyPlatform \in BOOLEAN, p.cooldown = CooldownFor(r),
         NEW ls, Listed(ls),
         NEW f \in FindMatches(p, index[PyPI], ls, r.admits, w.constraint, now)
  PROVE  Fine(f.version)
<1> USE ProvidersAssumption
<1>1. /\ f \in index[PyPI].files /\ f.version \in r.admits
      /\ ~IsBlockedByCooldown(p, f, now)
  BY CandidatesListed DEF FindMatches, IsSatisfiedBy
<1>2. f.upload \in Int \cup {None}
  BY <1>1 DEF Typed, Page, File
<1>3. w.cooldown \in Int \cup {None} /\ w.ownAge \in Int \cup {None}
  BY DEF Typed, World
<1>4. CASE r.type = "toplevel" /\ r.pin
  <2>1. \E i \in DOMAIN w.top : r = w.top[i]
    BY <1>4 DEF Required, Typed, BelowIsBelow
  <2> QED BY <2>1, <1>1, <1>4 DEF Fine, PinnedOnTop
<1>5. CASE ~(r.type = "toplevel" /\ r.pin)
  <2> DEFINE limit == IF w.ownAge = None THEN w.cooldown ELSE IF w.ownAge = 0 THEN None ELSE w.ownAge
  <2>1. p.cooldown = limit
    BY <1>5 DEF CooldownFor, PackageCooldown
  <2>2. limit \in Int \cup {None}
    BY <1>3
  <2> HIDE DEF limit
  <2>3. limit = None \/ (f.upload # None /\ f.upload <= now - limit)
    BY <1>1, <1>2, <2>1, <2>2 DEF IsBlockedByCooldown, Typed
  <2>4. OldEnough(f.version)
    BY <2>3, <1>1 DEF OldEnough, limit
  <2> QED BY <2>4 DEF Fine
<1> QED BY <1>4, <1>5

(* An answer is fine, and keeps listings that are.                           *)
FineAnswer(a) ==
  /\ FineSources(a.found)
  /\ a.kept \in [Server \X BOOLEAN -> SUBSET File] /\ Listed(a.kept)

LEMMA AnswerOf ==
  ASSUME NEW vs, NEW url, NEW raised, NEW kept,
         kept \in [Server \X BOOLEAN -> SUBSET File], Listed(kept),
         url = PyPI => \A v \in vs : Fine(v)
  PROVE  FineAnswer(Answer(vs, url, raised, kept))
  BY DEF FineAnswer, Answer, FineSources

(* What a query of PyPI returns is fine.                                     *)
LEMMA QueryFine ==
  ASSUME Typed, Listed(listings), NEW r, Required(r), NEW p, p.server = PyPI, p.timestamps = TRUE,
         p.anyPlatform \in BOOLEAN, p.cooldown = CooldownFor(r),
         NEW maxAge, NEW fallback \in {"all", "newest", "none"}
  PROVE  \A v \in Query(p, r, maxAge, fallback).out.versions : Fine(v)
<1> DEFINE matches == FindMatches(p, index[PyPI], listings, r.admits, w.constraint, now)
<1>1. Query(p, r, maxAge, fallback).out.versions \subseteq VersionsOf(matches)
  BY ReturnsMatches DEF Query
<1>2. \A f \in matches : Fine(f.version)
  BY MatchesFine
<1> QED BY <1>1, <1>2 DEF VersionsOf

LEMMA FromCacheServerFine ==
  ASSUME Typed, NEW r, NEW ls \in [Server \X BOOLEAN -> SUBSET File], Listed(ls)
  PROVE  FineAnswer(FromCacheServer(r, ls))
<1> DEFINE p == PyPICacheProvider(Cache, FALSE)
<1>1. p.server = Cache /\ p.anyPlatform = FALSE
  BY Zenon DEF PyPICacheProvider, PyPIProvider
<1>2. Cache \in Server /\ Cache # PyPI
  BY ResolverAssumption
<1> HIDE DEF p
<1>3. /\ KeepListing(p, index[Cache], ls) \in [Server \X BOOLEAN -> SUBSET File]
      /\ Listed(KeepListing(p, index[Cache], ls))
  BY <1>1, <1>2, KeepsListed
<1>4. \E vs : FromCacheServer(r, ls) = Answer(vs, Cache, FALSE, KeepListing(p, index[Cache], ls))
  BY DEF FromCacheServer, p
<1> QED BY <1>2, <1>3, <1>4, AnswerOf

LEMMA FromSourceFine ==
  ASSUME Typed, Listed(listings), NEW r, Required(r)
  PROVE  FineAnswer(FromSource(r))
<1> DEFINE p == SourceProvider(r)
           q == Query(p, r, w.maxAge, AgeFallback)
<1>1. /\ p.server = PyPI /\ p.anyPlatform \in BOOLEAN /\ p.cooldown = CooldownFor(r)
      /\ p.timestamps = TRUE
  <2>1. w.anyPlatform \in BOOLEAN
    BY DEF Typed, World
  <2>2. p.server = PyPI /\ p.anyPlatform = w.anyPlatform /\ p.cooldown = CooldownFor(r)
    BY Zenon DEF SourceProvider, PyPIProvider
  <2>3. p.timestamps = TRUE
    <3>1. p.timestamps = (PyPI = PyPI)
      BY Zenon DEF SourceProvider, PyPIProvider
    <3>2. (PyPI = PyPI) = TRUE
      OBVIOUS
    <3> QED BY <3>1, <3>2, Zenon
  <2> QED BY <2>1, <2>2, <2>3
<1>2. AgeFallback \in {"all", "newest", "none"}
  BY DEF AgeFallback
<1> HIDE DEF p
<1>3. \A v \in q.out.versions : Fine(v)
  BY <1>1, <1>2, QueryFine
<1>4. q.kept = KeepListing(p, index[p.server], listings)
  BY DEF Query
<1>5. q.kept \in [Server \X BOOLEAN -> SUBSET File] /\ Listed(q.kept)
  <2>1. listings \in [Server \X BOOLEAN -> SUBSET File] /\ PyPI \in Server
    BY ProvidersAssumption DEF Typed
  <2>2. /\ KeepListing(p, index[p.server], listings) \in [Server \X BOOLEAN -> SUBSET File]
        /\ Listed(KeepListing(p, index[p.server], listings))
    BY <1>1, <2>1, KeepsListed
  <2> QED BY <1>4, <2>2
<1>6. FineAnswer(Answer(q.out.versions, PyPI, q.out.raised, q.kept))
  BY <1>3, <1>5, AnswerOf
<1>7. FineAnswer(FromCacheServer(r, q.kept))
  BY <1>5, FromCacheServerFine
<1> HIDE DEF q
<1>8. FromSource(r) \in {FromCacheServer(r, q.kept), Answer(q.out.versions, PyPI, q.out.raised, q.kept)}
  BY DEF FromSource, q, p
<1> QED BY <1>6, <1>7, <1>8

LEMMA FromWheelServersFine ==
  ASSUME Typed, Listed(listings), NEW r, Required(r)
  PROVE  FineAnswer(FromWheelServers(r))
<1> DEFINE local == [PyPIProvider(Local, FALSE, TRUE, FALSE, CooldownFor(r)) EXCEPT !.timestamps = FALSE]
           pypi  == PyPIProvider(PyPI, FALSE, TRUE, FALSE, CooldownFor(r))
           first == Query(local, r, None, "all")
           other == Query(pypi, r, None, "all")
           both  == KeepListing(pypi, index[PyPI], first.kept)
<1>1. local.server = Local /\ local.anyPlatform = FALSE
  BY Zenon DEF PyPIProvider
<1>2. pypi.server = PyPI /\ pypi.anyPlatform = FALSE /\ pypi.timestamps = TRUE /\ pypi.cooldown = CooldownFor(r)
  <2>1. pypi.server = PyPI /\ pypi.anyPlatform = FALSE /\ pypi.cooldown = CooldownFor(r)
    BY Zenon DEF PyPIProvider
  <2>2. pypi.timestamps = TRUE
    <3>1. pypi.timestamps = (PyPI = PyPI)
      BY Zenon DEF PyPIProvider
    <3>2. (PyPI = PyPI) = TRUE
      OBVIOUS
    <3> QED BY <3>1, <3>2, Zenon
  <2> QED BY <2>1, <2>2
<1>3. Local \in Server /\ PyPI \in Server /\ Local # PyPI
  BY ResolverAssumption, ProvidersAssumption
<1> HIDE DEF local, pypi
<1>4. \A v \in other.out.versions : Fine(v)
  BY <1>2, QueryFine
<1>5. first.kept = KeepListing(local, index[local.server], listings)
  BY DEF Query
<1>6. first.kept \in [Server \X BOOLEAN -> SUBSET File] /\ Listed(first.kept)
  <2>1. listings \in [Server \X BOOLEAN -> SUBSET File]
    BY DEF Typed
  <2>2. /\ KeepListing(local, index[local.server], listings) \in [Server \X BOOLEAN -> SUBSET File]
        /\ Listed(KeepListing(local, index[local.server], listings))
    BY <1>1, <1>3, <2>1, KeepsListed
  <2> QED BY <1>5, <2>2
<1>7. both \in [Server \X BOOLEAN -> SUBSET File] /\ Listed(both)
  BY <1>2, <1>3, <1>6, KeepsListed
<1> HIDE DEF first, other, both
<1>8. FineAnswer(Answer(first.out.versions, Local, FALSE, first.kept))
  BY <1>3, <1>6, AnswerOf
<1>9. FineAnswer(Answer(other.out.versions, PyPI, other.out.raised, both))
  BY <1>4, <1>7, AnswerOf
<1>10. FromWheelServers(r) \in {Answer(first.out.versions, Local, FALSE, first.kept),
                                Answer(other.out.versions, PyPI, other.out.raised, both)}
  BY DEF FromWheelServers, local, pypi, first, other, both
<1> QED BY <1>8, <1>9, <1>10

(* What the graphs know was fine when it was found.                          *)
LEMMA FromGraphFine ==
  ASSUME FineSources(graph), FineSources(prev), NEW r, NEW pre
  PROVE  FineSources(FromGraph(r, pre))
<1> DEFINE top    == {e \in graph : e.parent = CommandLine}
           unseen(edges, seen) == {e \in edges : e.prebuilt = pre /\ e.version \notin VersionsOf(seen)}
           same   == unseen({e \in prev : e.parent = r.parent /\ e.type = r.type}, top)
           byName == unseen(prev, top \cup same)
<1>1. \A S : FineSources(S) => FineSources(FromVersions(S, r))
  BY DEF FineSources, FromVersions
<1>2. FineSources(top) /\ FineSources(same) /\ FineSources(byName) /\ FineSources({})
  BY DEF FineSources
<1> HIDE DEF top, same, byName
<1>3. FromGraph(r, pre) \in {{}, FromVersions(top, r), FromVersions(same, r), FromVersions(byName, r)}
  BY DEF FromGraph, top, same, byName
<1> QED BY <1>1, <1>2, <1>3

LEMMA LookupFine ==
  ASSUME CooldownInv, NEW r, Required(r)
  PROVE  FineAnswer(Lookup(r))
<1> DEFINE old == FromGraph(r, w.prebuilt)
<1>1. FineAnswer([found |-> old, raised |-> FALSE, kept |-> listings])
  BY FromGraphFine DEF CooldownInv, Typed, FineAnswer
<1>2. FineAnswer(FromWheelServers(r)) /\ FineAnswer(FromSource(r))
  BY FromWheelServersFine, FromSourceFine DEF CooldownInv
<1> HIDE DEF old
<1>3. Lookup(r) \in {[found |-> old, raised |-> FALSE, kept |-> listings], FromWheelServers(r), FromSource(r)}
  BY DEF Lookup, old
<1> QED BY <1>1, <1>2, <1>3

-----------------------------------------------------------------------------
(* A fine version stays so: indexes only grow, and days only pass.           *)
LEMMA FineStays ==
  ASSUME Typed, now' \in Int, now' >= now, w' = w, index[PyPI].files \subseteq index'[PyPI].files,
         NEW v, Fine(v)
  PROVE  Fine(v)'
<1> USE ProvidersAssumption
<1>1. CASE PinnedOnTop(v)
  BY <1>1 DEF PinnedOnTop, Fine
<1>2. CASE OldEnough(v)
  <2> DEFINE limit == IF w.ownAge = None THEN w.cooldown ELSE IF w.ownAge = 0 THEN None ELSE w.ownAge
  <2>1. limit \in Int \cup {None} /\ now \in Int
    BY DEF Typed, World
  <2>2. \A f \in index[PyPI].files : f.upload \in Int \cup {None}
    BY DEF Typed, Page, File
  <2>3. limit = None \/ \E f \in index[PyPI].files : f.version = v /\ f.upload # None /\ f.upload <= now - limit
    BY <1>2 DEF OldEnough
  <2>4. limit' = limit
    OBVIOUS
  <2> HIDE DEF limit
  <2>5. limit = None \/ \E f \in index'[PyPI].files : f.version = v /\ f.upload # None /\ f.upload <= now' - limit
    BY <2>1, <2>2, <2>3
  <2>6. OldEnough(v)'
    BY <2>4, <2>5 DEF OldEnough, limit
  <2> QED BY <2>6 DEF Fine
<1> QED BY <1>1, <1>2 DEF Fine

LEMMA ResolveKeeps ==
  ASSUME CooldownInv, NEW r, Required(r), Resolve(r)
  PROVE  CooldownInv'
<1> DEFINE rule  == <<r.text, w.prebuilt>>
           look  == IF rule \in rules THEN [found |-> {}, raised |-> FALSE, kept |-> listings]
                    ELSE Lookup(r)
           table == Merge(known[w.prebuilt], look.found)
           vs    == IF look.raised THEN {} ELSE Chosen(table, r)
<1>1. FineAnswer(look)
  BY LookupFine DEF CooldownInv, Typed, FineAnswer, FineSources
<1> HIDE DEF look
<1>2. w.prebuilt \in BOOLEAN
  BY DEF CooldownInv, Typed, World
<1>3. FineSources(table)
  BY <1>1, <1>2 DEF CooldownInv, FineAnswer, FineSources, Merge
<1> HIDE DEF table
<1>4. FineSources(EdgesFor(r, table, vs))
  BY <1>3 DEF FineSources, EdgesFor
<1> HIDE DEF vs
<1>5. /\ known' = [known EXCEPT ![w.prebuilt] = table] /\ listings' = look.kept
      /\ graph' = graph \cup EdgesFor(r, table, vs) /\ UNCHANGED <<w, index, now, prev>>
  BY DEF Resolve, rule, look, table, vs
<1>6. \A v : Fine(v)' <=> Fine(v)
  BY <1>5 DEF Fine, OldEnough, PinnedOnTop
<1>7. Typed' /\ Listed(listings)'
  BY <1>1, <1>5 DEF CooldownInv, Typed, FineAnswer, Listed, BelowIsBelow
<1>8. \A pre \in BOOLEAN : FineSources(known'[pre])
  BY <1>2, <1>3, <1>5 DEF CooldownInv, Typed
<1>9. FineSources(graph') /\ FineSources(prev')
  BY <1>4, <1>5 DEF CooldownInv, FineSources
<1> QED BY <1>5, <1>6, <1>7, <1>8, <1>9 DEF CooldownInv, FineSources

(* Someone uploads a file: an index grows.                                    *)
LEMMA PublishGrows ==
  ASSUME index \in [Server -> Page], now \in Int, Publish
  PROVE  index' \in [Server -> Page] /\ \A t \in Server : index[t].files \subseteq index'[t].files
<1>0. PICK s \in Server, v \in Version :
        \E f \in [version : {v}, sdist : {s = PyPI /\ ~w.prebuilt}, upload : {IF s = PyPI THEN now ELSE None},
                  fault : {"none"}] :
          /\ v \notin VersionsOf(index[s].files)
          /\ index' = [index EXCEPT ![s].status = "active", ![s].files = @ \cup {f}]
  BY DEF Publish
<1>1. PICK f \in [version : {v}, sdist : {s = PyPI /\ ~w.prebuilt}, upload : {IF s = PyPI THEN now ELSE None},
                  fault : {"none"}] :
        index' = [index EXCEPT ![s].status = "active", ![s].files = @ \cup {f}]
  BY <1>0
<1>2. f \in File
  <2>1. (s = PyPI /\ ~w.prebuilt) \in BOOLEAN
    OBVIOUS
  <2>2. (IF s = PyPI THEN now ELSE None) \in Int \cup {None}
    OBVIOUS
  <2> QED BY <1>1, <2>1, <2>2, Zenon DEF File, Fault
<1> DEFINE page == [index[s] EXCEPT !.status = "active", !.files = @ \cup {f}]
<1>3. page \in Page /\ index[s].files \subseteq page.files
  BY <1>2 DEF Page
<1>4. index' = [index EXCEPT ![s] = page]
  BY <1>1, Zenon
<1> HIDE DEF page
<1> QED BY <1>3, <1>4

LEMMA PublishKeeps ==
  ASSUME CooldownInv, Publish
  PROVE  CooldownInv'
<1>1. UNCHANGED <<w, now, known, listings, graph, prev>>
  BY DEF Publish
<1>2. index' \in [Server -> Page] /\ \A t \in Server : index[t].files \subseteq index'[t].files
  BY PublishGrows DEF CooldownInv, Typed
<1>3. \A v : Fine(v) => Fine(v)'
  BY <1>1, <1>2, FineStays, ProvidersAssumption DEF CooldownInv, Typed
<1>4. Typed' /\ Listed(listings)'
  BY <1>1, <1>2, ProvidersAssumption DEF CooldownInv, Typed, Listed, BelowIsBelow
<1> QED BY <1>1, <1>3, <1>4 DEF CooldownInv, FineSources

LEMMA RunAgainKeeps ==
  ASSUME CooldownInv, RunAgain
  PROVE  CooldownInv'
<1>1. /\ now' = now + 1 /\ prev' = graph /\ graph' = {} /\ known' = [pre \in BOOLEAN |-> {}]
      /\ listings' = NoListings /\ UNCHANGED <<w, index>>
  BY DEF RunAgain
<1>2. \A v : Fine(v) => Fine(v)'
  BY <1>1, FineStays DEF CooldownInv, Typed
<1>3. Typed' /\ Listed(listings)'
  BY <1>1, ProvidersAssumption DEF CooldownInv, Typed, NoListings, Listed, BelowIsBelow
<1> QED BY <1>1, <1>2, <1>3 DEF CooldownInv, FineSources

LEMMA CooldownStep == CooldownInv /\ [Next]_vars => CooldownInv'
<1> SUFFICES ASSUME CooldownInv, [Next]_vars
             PROVE  CooldownInv'
  OBVIOUS
<1>1. CASE ResolveTopLevel
  BY <1>1, ResolveKeeps DEF ResolveTopLevel, TopLevelLeft, Required
<1>2. CASE ResolveBelow
  BY <1>2, ResolveKeeps DEF ResolveBelow, Required
<1>3. CASE Publish
  BY <1>3, PublishKeeps
<1>4. CASE RunAgain
  BY <1>4, RunAgainKeeps
<1>5. CASE UNCHANGED vars
  BY <1>5 DEF vars, CooldownInv, Typed, Listed, BelowIsBelow, FineSources, Fine, OldEnough, PinnedOnTop
<1> QED BY <1>1, <1>2, <1>3, <1>4, <1>5 DEF Next

LEMMA CooldownStart ==
  ASSUME NEW worlds \in SUBSET World, \A x \in worlds : BelowIsBelow(x),
         NEW indexes \in SUBSET [Server -> Page], NEW today \in Int,
         InitWith(worlds, indexes, today)
  PROVE  CooldownInv
  BY ProvidersAssumption
  DEF InitWith, CooldownInv, Typed, Listed, FineSources, NoListings

-----------------------------------------------------------------------------
(* The minimum age of a package is enforced, whatever the options, settings    *)
(* and indexes, and in whatever order requests are resolved, merged, answered  *)
(* from a listing and found again in the previous graph                       *)
(* (resolve_package_cooldown, is_blocked_by_cooldown, _resolve_and_extend,     *)
(* _resolve_from_graph).                                                     *)
THEOREM CooldownIsEnforced ==
  ASSUME NEW worlds \in SUBSET World, \A x \in worlds : BelowIsBelow(x),
         NEW indexes \in SUBSET [Server -> Page], NEW today \in Int
  PROVE  InitWith(worlds, indexes, today) /\ [][Next]_vars => []CooldownEnforced
<1>1. InitWith(worlds, indexes, today) => CooldownInv
  BY CooldownStart
<1>2. CooldownInv => CooldownEnforced
  BY DEF CooldownInv, CooldownEnforced, FineSources, Fine
<1> QED BY <1>1, <1>2, CooldownStep, PTL
-----------------------------------------------------------------------------
(* TypeOK, and what it rests on: a version has one URL, in the table and in     *)
(* both graphs, of which this run's has what the table has.                   *)
OneUrl(S) == \A f, g \in S : f.version = g.version => f.url = g.url

GraphIsKnown ==
  \A e \in graph : \E f \in known[w.prebuilt] : f.version = e.version /\ f.url = e.url

AnswersTypeOK ==
  /\ DOMAIN answers = 1..2
  /\ \A i \in 1..2 : \A a \in answers[i] :
       a.request \in Request /\ a.raised \in BOOLEAN /\ a.versions \subseteq Version

TypeInv ==
  /\ w \in World /\ index \in [Server -> Page]
  /\ run \in 1..2 /\ now \in Nat /\ news \in 0..MaxNews
  /\ known \in [BOOLEAN -> SUBSET Found] /\ \A pre \in BOOLEAN : OneUrl(known[pre])
  /\ rules \subseteq STRING \X BOOLEAN
  /\ listings \in [Server \X BOOLEAN -> SUBSET File]
  /\ graph \subseteq Edge /\ prev \subseteq Edge /\ asked \subseteq Request
  /\ GraphIsKnown /\ OneUrl(prev)
  /\ AnswersTypeOK

TypedAnswer(a) ==
  /\ a.found \subseteq Found /\ OneUrl(a.found) /\ a.raised \in BOOLEAN
  /\ a.kept \in [Server \X BOOLEAN -> SUBSET File]

LEMMA TypedAnswerOf ==
  ASSUME NEW vs, vs \subseteq Version, NEW url \in Server, NEW raised \in BOOLEAN,
         NEW kept \in [Server \X BOOLEAN -> SUBSET File]
  PROVE  TypedAnswer(Answer(vs, url, raised, kept))
  BY DEF TypedAnswer, Answer, Found, OneUrl

(* A query tells versions of files, or that there are none.                   *)
LEMMA OutcomeRaised ==
  ASSUME NEW p, NEW page, NEW ls, NEW admitted, NEW constraint, NEW today, NEW maxAge,
         NEW fallback \in {"all", "newest", "none"}
  PROVE  FindAllMatching(p, page, ls, admitted, constraint, today, maxAge, fallback).raised
           = (FindMatches(p, page, ls, admitted, constraint, today) = {})
<1> DEFINE matches == FindMatches(p, page, ls, admitted, constraint, today)
           recent  == RecentEnough(matches, today - maxAge)
           out     == FindAllMatching(p, page, ls, admitted, constraint, today, maxAge, fallback)
<1> HIDE DEF matches
<1>1. CASE matches = {}
  BY <1>1 DEF FindAllMatching, Raises, matches
<1>2. CASE matches # {} /\ (maxAge = None \/ constraint.pin)
  BY <1>2 DEF FindAllMatching, Returns, matches
<1>3. CASE matches # {} /\ ~(maxAge = None \/ constraint.pin)
  <2>1. out = IF recent # {} THEN Returns(VersionsOf(recent))
              ELSE CASE fallback = "all"    -> Returns(VersionsOf(matches))
                     [] fallback = "newest" -> Returns(Highest(VersionsOf(matches)))
                     [] fallback = "none"   -> Returns({})
    BY <1>3 DEF FindAllMatching, matches
  <2> HIDE DEF out, recent
  <2>2. \E vs : out = Returns(vs)
    BY <2>1
  <2>3. out.raised = FALSE
    BY <2>2 DEF Returns
  <2> QED BY <1>3, <2>3 DEF out, matches
<1> QED BY <1>1, <1>2, <1>3

LEMMA QueryTyped ==
  ASSUME index \in [Server -> Page], listings \in [Server \X BOOLEAN -> SUBSET File],
         NEW r, NEW p, p.server \in Server, p.anyPlatform \in BOOLEAN,
         NEW maxAge, NEW fallback \in {"all", "newest", "none"},
         NEW ls \in [Server \X BOOLEAN -> SUBSET File]
  PROVE  /\ FindAllMatching(p, index[p.server], ls, r.admits, w.constraint, now, maxAge, fallback).versions
              \subseteq Version
         /\ FindAllMatching(p, index[p.server], ls, r.admits, w.constraint, now, maxAge, fallback).raised
              \in BOOLEAN
         /\ KeepListing(p, index[p.server], ls) \in [Server \X BOOLEAN -> SUBSET File]
<1> DEFINE matches == FindMatches(p, index[p.server], ls, r.admits, w.constraint, now)
           files   == CandidateFiles(p, index[p.server], ls)
<1>1. CacheKey(p) \in Server \X BOOLEAN /\ index[p.server].files \in SUBSET File
  BY DEF CacheKey, Page
<1>2. files \in SUBSET File
  BY <1>1 DEF CandidateFiles, ProjectFiles
<1>3. matches \subseteq files
  BY DEF FindMatches
<1>4. VersionsOf(matches) \subseteq Version
  BY <1>2, <1>3 DEF VersionsOf, File
<1> HIDE DEF files, matches
<1>5. FindAllMatching(p, index[p.server], ls, r.admits, w.constraint, now, maxAge, fallback).versions
        \subseteq VersionsOf(matches)
  BY ReturnsMatches DEF matches
<1>6. FindAllMatching(p, index[p.server], ls, r.admits, w.constraint, now, maxAge, fallback).raised
        = (matches = {})
  BY OutcomeRaised DEF matches
<1>7. KeepListing(p, index[p.server], ls) \in [Server \X BOOLEAN -> SUBSET File]
  BY <1>1, <1>2 DEF KeepListing, files
<1> QED BY <1>4, <1>5, <1>6, <1>7
LEMMA FromCacheServerTyped ==
  ASSUME TypeInv, NEW r, NEW ls \in [Server \X BOOLEAN -> SUBSET File]
  PROVE  TypedAnswer(FromCacheServer(r, ls))
<1> DEFINE p(sdists) == PyPICacheProvider(Cache, sdists)
           best(sdists) == FindAllMatching(p(sdists), index[Cache], ls, r.admits, w.constraint, now, None, "all").versions
           kept == KeepListing(p(FALSE), index[Cache], ls)
<1>1. \A sdists : p(sdists).server = Cache /\ p(sdists).anyPlatform = FALSE
  BY Zenon DEF PyPICacheProvider, PyPIProvider
<1>2. Cache \in Server
  BY ResolverAssumption
<1> HIDE DEF p
<1>3. ASSUME NEW sdists PROVE best(sdists) \subseteq Version /\ KeepListing(p(sdists), index[Cache], ls) \in [Server \X BOOLEAN -> SUBSET File]
  <2>1. p(sdists).server \in Server /\ p(sdists).anyPlatform \in BOOLEAN /\ index[p(sdists).server] = index[Cache]
    BY <1>1, <1>2
  <2> QED BY <2>1, QueryTyped DEF TypeInv
<1>4. FromCacheServer(r, ls) = Answer(Highest(best(TRUE) \cup best(FALSE)), Cache, FALSE, kept)
  BY DEF FromCacheServer, p
<1> HIDE DEF best
<1>5. Highest(best(TRUE) \cup best(FALSE)) \subseteq Version
  BY <1>3 DEF Highest
<1> QED BY <1>2, <1>3, <1>4, <1>5, TypedAnswerOf

LEMMA FromSourceTyped ==
  ASSUME TypeInv, NEW r
  PROVE  TypedAnswer(FromSource(r))
<1> DEFINE p == SourceProvider(r)
           q == Query(p, r, w.maxAge, AgeFallback)
<1>1. p.server = PyPI /\ p.anyPlatform \in BOOLEAN
  <2>1. w.anyPlatform \in BOOLEAN
    BY DEF TypeInv, World
  <2> QED BY <2>1, Zenon DEF SourceProvider, PyPIProvider
<1>2. AgeFallback \in {"all", "newest", "none"} /\ PyPI \in Server
  BY ProvidersAssumption DEF AgeFallback
<1> HIDE DEF p
<1>3. /\ q.out.versions \subseteq Version /\ q.out.raised \in BOOLEAN
      /\ q.kept \in [Server \X BOOLEAN -> SUBSET File]
  <2>1. p.server \in Server
    BY <1>1, <1>2
  <2> QED BY <1>1, <1>2, <2>1, QueryTyped DEF Query, TypeInv
<1>4. TypedAnswer(Answer(q.out.versions, PyPI, q.out.raised, q.kept))
  BY <1>2, <1>3, TypedAnswerOf
<1>5. TypedAnswer(FromCacheServer(r, q.kept))
  BY <1>3, FromCacheServerTyped
<1> HIDE DEF q
<1>6. FromSource(r) \in {FromCacheServer(r, q.kept), Answer(q.out.versions, PyPI, q.out.raised, q.kept)}
  BY DEF FromSource, q, p
<1> QED BY <1>4, <1>5, <1>6

LEMMA FromWheelServersTyped ==
  ASSUME TypeInv, NEW r
  PROVE  TypedAnswer(FromWheelServers(r))
<1> DEFINE local == [PyPIProvider(Local, FALSE, TRUE, FALSE, CooldownFor(r)) EXCEPT !.timestamps = FALSE]
           pypi  == PyPIProvider(PyPI, FALSE, TRUE, FALSE, CooldownFor(r))
           first == Query(local, r, None, "all")
           other == Query(pypi, r, None, "all")
           both  == KeepListing(pypi, index[PyPI], first.kept)
<1>1. /\ local.server = Local /\ local.anyPlatform = FALSE
      /\ pypi.server = PyPI /\ pypi.anyPlatform = FALSE
  BY Zenon DEF PyPIProvider
<1>2. local.server \in Server /\ pypi.server \in Server /\ Local \in Server /\ PyPI \in Server
  BY <1>1, ResolverAssumption, ProvidersAssumption
<1> HIDE DEF local, pypi
<1>3. listings \in [Server \X BOOLEAN -> SUBSET File] /\ index \in [Server -> Page]
  BY DEF TypeInv
<1>4. first.out.versions \subseteq Version /\ first.kept \in [Server \X BOOLEAN -> SUBSET File]
  BY <1>1, <1>2, <1>3, QueryTyped DEF Query
<1>5. other.out.versions \subseteq Version /\ other.out.raised \in BOOLEAN
  BY <1>1, <1>2, <1>3, QueryTyped DEF Query
<1> HIDE DEF first, other
<1>6. both \in [Server \X BOOLEAN -> SUBSET File]
  <2>1. KeepListing(pypi, index[pypi.server], first.kept) \in [Server \X BOOLEAN -> SUBSET File]
    BY <1>1, <1>2, <1>3, <1>4, QueryTyped
  <2> QED BY <1>1, <2>1
<1> HIDE DEF both
<1>7. TypedAnswer(Answer(first.out.versions, Local, FALSE, first.kept))
  BY <1>2, <1>4, TypedAnswerOf
<1>8. TypedAnswer(Answer(other.out.versions, PyPI, other.out.raised, both))
  BY <1>2, <1>5, <1>6, TypedAnswerOf
<1>9. FromWheelServers(r) \in {Answer(first.out.versions, Local, FALSE, first.kept),
                               Answer(other.out.versions, PyPI, other.out.raised, both)}
  BY DEF FromWheelServers, local, pypi, first, other, both
<1> QED BY <1>7, <1>8, <1>9

LEMMA FromGraphTyped ==
  ASSUME TypeInv, NEW r, NEW pre
  PROVE  FromGraph(r, pre) \subseteq Found /\ OneUrl(FromGraph(r, pre))
<1> DEFINE top    == {e \in graph : e.parent = CommandLine}
           unseen(edges, seen) == {e \in edges : e.prebuilt = pre /\ e.version \notin VersionsOf(seen)}
           same   == unseen({e \in prev : e.parent = r.parent /\ e.type = r.type}, top)
           byName == unseen(prev, top \cup same)
<1>1. OneUrl(graph) /\ OneUrl(prev)
  <2>1. w.prebuilt \in BOOLEAN
    BY DEF TypeInv, World
  <2> QED BY <2>1 DEF TypeInv, GraphIsKnown, OneUrl
<1>2. \A S : S \subseteq Edge /\ OneUrl(S) => FromVersions(S, r) \subseteq Found /\ OneUrl(FromVersions(S, r))
  <2> SUFFICES ASSUME NEW S, S \subseteq Edge, OneUrl(S)
               PROVE  FromVersions(S, r) \subseteq Found /\ OneUrl(FromVersions(S, r))
    OBVIOUS
  <2>1. \A f \in FromVersions(S, r) : f \in Found /\ \E e \in S : f.version = e.version /\ f.url = e.url
    BY DEF FromVersions, Edge, Found
  <2> QED BY <2>1 DEF OneUrl
<1>3. /\ top \subseteq graph /\ same \subseteq prev /\ byName \subseteq prev
  OBVIOUS
<1>4. \A S : (S \subseteq graph \/ S \subseteq prev) => S \subseteq Edge /\ OneUrl(S)
  BY <1>1 DEF OneUrl, TypeInv
<1>5. FromGraph(r, pre) \in {{}, FromVersions(top, r), FromVersions(same, r), FromVersions(byName, r)}
  BY DEF FromGraph
<1> HIDE DEF top, same, byName
<1>6. {} \subseteq Found /\ OneUrl({})
  BY DEF OneUrl
<1> QED BY <1>2, <1>3, <1>4, <1>5, <1>6

LEMMA LookupTyped ==
  ASSUME TypeInv, NEW r
  PROVE  TypedAnswer(Lookup(r))
<1> DEFINE old == FromGraph(r, w.prebuilt)
<1>1. TypedAnswer([found |-> old, raised |-> FALSE, kept |-> listings])
  BY FromGraphTyped DEF TypeInv, TypedAnswer
<1>2. TypedAnswer(FromWheelServers(r)) /\ TypedAnswer(FromSource(r))
  BY FromWheelServersTyped, FromSourceTyped
<1> HIDE DEF old
<1>3. Lookup(r) \in {[found |-> old, raised |-> FALSE, kept |-> listings], FromWheelServers(r), FromSource(r)}
  BY DEF Lookup, old
<1> QED BY <1>1, <1>2, <1>3

(* Merging keeps the URLs that are known, and no version gets two.             *)
LEMMA MergeTyped ==
  ASSUME NEW old \in SUBSET Found, OneUrl(old), NEW new \in SUBSET Found, OneUrl(new)
  PROVE  /\ Merge(old, new) \in SUBSET Found /\ OneUrl(Merge(old, new)) /\ old \subseteq Merge(old, new)
         /\ VersionsOf(Merge(old, new)) = VersionsOf(old) \cup VersionsOf(new)
<1>1. Merge(old, new) \in SUBSET Found /\ old \subseteq Merge(old, new)
  BY DEF Merge
<1>2. \A f : f \in Merge(old, new) <=> f \in old \/ (f \in new /\ f.version \notin VersionsOf(old))
  BY DEF Merge
<1>3. \A S, v : v \in VersionsOf(S) <=> \E f \in S : f.version = v
  BY DEF VersionsOf
<1>4. OneUrl(Merge(old, new))
  BY <1>2, <1>3 DEF OneUrl
<1>5. VersionsOf(Merge(old, new)) = VersionsOf(old) \cup VersionsOf(new)
  BY <1>2, <1>3
<1> QED BY <1>1, <1>4, <1>5

(* A rule that is resolved already is not looked up again.                     *)
LEMMA LookTyped ==
  ASSUME TypeInv, NEW r, NEW rule
  PROVE  TypedAnswer(IF rule \in rules THEN [found |-> {}, raised |-> FALSE, kept |-> listings]
                     ELSE Lookup(r))
<1>1. TypedAnswer([found |-> {}, raised |-> FALSE, kept |-> listings])
  BY DEF TypeInv, TypedAnswer, OneUrl
<1> QED BY <1>1, LookupTyped

LEMMA ResolveTyped ==
  ASSUME TypeInv, NEW r \in Request, Resolve(r)
  PROVE  TypeInv'
<1> DEFINE rule  == <<r.text, w.prebuilt>>
           look  == IF rule \in rules THEN [found |-> {}, raised |-> FALSE, kept |-> listings]
                    ELSE Lookup(r)
           table == Merge(known[w.prebuilt], look.found)
           vs    == IF look.raised THEN {} ELSE Chosen(table, r)
           record == [request |-> r, versions |-> vs, raised |-> look.raised]
<1>1. TypedAnswer(look)
  BY LookTyped
<1>2. /\ known' = [known EXCEPT ![w.prebuilt] = table]
      /\ rules' = IF look.found = {} THEN rules ELSE rules \cup {rule}
      /\ listings' = look.kept /\ graph' = graph \cup EdgesFor(r, table, vs)
      /\ asked' = asked \cup {r}
      /\ answers' = [answers EXCEPT ![run] = @ \cup {record}]
      /\ UNCHANGED <<w, index, run, now, prev, news>>
  BY DEF Resolve
<1>3. w.prebuilt \in BOOLEAN /\ rule \in STRING \X BOOLEAN
  BY DEF TypeInv, World, Request
<1> HIDE DEF look, rule
<1>4. table \in SUBSET Found /\ OneUrl(table) /\ known[w.prebuilt] \subseteq table
  BY <1>1, <1>3, MergeTyped DEF TypeInv, TypedAnswer
<1> HIDE DEF table
<1>5. vs \subseteq Version
  BY <1>4 DEF Chosen, Matching, Highest, VersionsOf, Found
<1>6. /\ record.request \in Request /\ record.raised \in BOOLEAN /\ record.versions \subseteq Version
  BY <1>1, <1>5 DEF TypedAnswer
<1> HIDE DEF vs, record
<1>7. known' \in [BOOLEAN -> SUBSET Found] /\ \A pre \in BOOLEAN : OneUrl(known'[pre])
  BY <1>2, <1>3, <1>4 DEF TypeInv
<1>8. known'[w.prebuilt] = table
  BY <1>2, <1>3 DEF TypeInv
<1>9. graph' \subseteq Edge /\ GraphIsKnown'
  <2>1. \A e \in EdgesFor(r, table, vs) : e \in Edge /\ \E f \in table : f.version = e.version /\ f.url = e.url
    BY <1>3, <1>4 DEF EdgesFor, Edge, Found, Request
  <2> QED BY <1>2, <1>4, <1>8, <2>1 DEF TypeInv, GraphIsKnown
<1>10. AnswersTypeOK'
  <2>1. DOMAIN answers' = 1..2
    BY <1>2 DEF TypeInv, AnswersTypeOK
  <2>2. \A i \in 1..2 : \A a \in answers'[i] : a \in answers[i] \/ a = record
    BY <1>2 DEF TypeInv, AnswersTypeOK
  <2> QED BY <1>6, <2>1, <2>2 DEF TypeInv, AnswersTypeOK
<1>11. listings' \in [Server \X BOOLEAN -> SUBSET File]
  BY <1>1, <1>2 DEF TypedAnswer
<1>12. rules' \subseteq STRING \X BOOLEAN /\ asked' \subseteq Request
  BY <1>2, <1>3 DEF TypeInv
<1> QED BY <1>2, <1>7, <1>9, <1>10, <1>11, <1>12 DEF TypeInv
LEMMA TypeStep == TypeInv /\ [Next]_vars => TypeInv'
<1> SUFFICES ASSUME TypeInv, [Next]_vars
             PROVE  TypeInv'
  OBVIOUS
<1>1. CASE ResolveTopLevel
  BY <1>1, ResolveTyped DEF ResolveTopLevel, TopLevelLeft, TypeInv, World
<1>2. CASE ResolveBelow
  BY <1>2, ResolveTyped DEF ResolveBelow, TypeInv, World
<1>3. CASE Publish
  <2>1. index' \in [Server -> Page]
    BY <1>3, PublishGrows DEF TypeInv
  <2>2. news' = news + 1 /\ news < MaxNews /\ UNCHANGED <<w, run, now, known, rules, listings, graph, prev, asked, answers>>
    BY <1>3 DEF Publish
  <2>3. news' \in 0..MaxNews
    BY <2>2, ResolverAssumption DEF TypeInv
  <2> QED BY <2>1, <2>2, <2>3 DEF TypeInv, GraphIsKnown, AnswersTypeOK
<1>4. CASE RunAgain
  <2>1. /\ run' = 2 /\ now' = now + 1 /\ prev' = graph /\ graph' = {}
        /\ known' = [pre \in BOOLEAN |-> {}] /\ rules' = {} /\ listings' = NoListings /\ asked' = {}
        /\ UNCHANGED <<w, index, answers, news>>
    BY <1>4 DEF RunAgain
  <2>2. OneUrl(prev')
    <3>1. w.prebuilt \in BOOLEAN
      BY DEF TypeInv, World
    <3> QED BY <2>1, <3>1 DEF TypeInv, GraphIsKnown, OneUrl
  <2>3. known' \in [BOOLEAN -> SUBSET Found] /\ \A pre \in BOOLEAN : OneUrl(known'[pre])
    BY <2>1 DEF OneUrl
  <2>4. listings' \in [Server \X BOOLEAN -> SUBSET File]
    BY <2>1 DEF NoListings
  <2>5. GraphIsKnown' /\ AnswersTypeOK'
    BY <2>1 DEF GraphIsKnown, AnswersTypeOK, TypeInv
  <2> QED BY <2>1, <2>2, <2>3, <2>4, <2>5 DEF TypeInv
<1>5. CASE UNCHANGED vars
  BY <1>5 DEF vars, TypeInv, GraphIsKnown, AnswersTypeOK
<1> QED BY <1>1, <1>2, <1>3, <1>4, <1>5 DEF Next

LEMMA TypeStart ==
  ASSUME NEW worlds \in SUBSET World, NEW indexes \in SUBSET [Server -> Page], NEW today \in Nat,
         InitWith(worlds, indexes, today)
  PROVE  TypeInv
  BY ResolverAssumption
  DEF InitWith, TypeInv, OneUrl, NoListings, GraphIsKnown, AnswersTypeOK

(* What the resolver keeps has its types; a version is known with one URL,      *)
(* wherever it was found (_resolve_and_extend).                              *)
THEOREM ResolverTypeCorrect ==
  ASSUME NEW worlds \in SUBSET World, NEW indexes \in SUBSET [Server -> Page], NEW today \in Nat
  PROVE  InitWith(worlds, indexes, today) /\ [][Next]_vars => []TypeOK
<1>1. InitWith(worlds, indexes, today) => TypeInv
  BY TypeStart
<1>2. TypeInv => TypeOK
  BY DEF TypeInv, TypeOK, OneUrl, AnswersTypeOK, Found
<1> QED BY <1>1, <1>2, TypeStep, PTL
-----------------------------------------------------------------------------
(* No limit on age that depends on the order, and one cooldown for all.        *)
Steady ==
  /\ w.maxAge = None /\ w.prebuilt = FALSE
  /\ \A r, s : Required(r) /\ Required(s) => CooldownFor(r) = CooldownFor(s)

(* What files offer to a request, whatever it admits itself; and what is        *)
(* offered to it by the listing that is kept.                                *)
OffersIn(files, r) ==
  VersionsOf({f \in files : /\ f.version \in w.constraint.versions
                            /\ IF f.sdist THEN w.sdists ELSE w.wheels
                            /\ ~IsBlockedByCooldown(SourceProvider(r), f, now)})

Listing    == listings[<<PyPI, w.anyPlatform>>]
Offered(r) == OffersIn(Listing, r)

(* All that is offered to a request is known, and there is some.               *)
Full(r) ==
  /\ Offered(r) \cap r.admits # {}
  /\ Offered(r) \cap r.admits \subseteq VersionsOf(known[FALSE])

Select(S) == IF w.multiple THEN S ELSE Highest(S)

(* The first run: the table has nothing but what the listing offers, and all of *)
(* it that a request admits whose rule is resolved, so that the answer to a      *)
(* request is the listing's.                                                 *)
KnownIsOffered == \A r : Required(r) => VersionsOf(known[FALSE]) \subseteq Offered(r)
RulesAreFull   == \A r : Required(r) /\ <<r.text, FALSE>> \in rules => Full(r)

AnswersAreOffered ==
  \A a \in answers[1] :
    /\ Required(a.request)
    /\ ~a.raised => Full(a.request) /\ a.versions = Select(Offered(a.request) \cap a.request.admits)

(* An answer has its edges in a graph, and an edge comes from a request.       *)
HasEdges(a, edges) ==
  \A v \in a.versions : \E e \in edges :
    e.parent = a.request.parent /\ e.type = a.request.type /\ e.version = v

AnswersHaveEdges == \A a \in answers[1] : HasEdges(a, graph)

EdgesAreAnswers ==
  \A e \in graph : /\ e.prebuilt = FALSE /\ e.version \in VersionsOf(known[FALSE])
                   /\ \E r : Required(r) /\ e.parent = r.parent

FirstRunInv ==
  /\ prev = {} /\ answers[2] = {}
  /\ KnownIsOffered /\ RulesAreFull
  /\ AnswersAreOffered /\ AnswersHaveEdges /\ EdgesAreAnswers
  /\ \A r \in asked : \E a \in answers[1] : a.request = r

LEMMA AnswerTells ==
  ASSUME NEW vs, NEW url, NEW raised, NEW kept
  PROVE  /\ Answer(vs, url, raised, kept).raised = raised /\ Answer(vs, url, raised, kept).kept = kept
         /\ VersionsOf(Answer(vs, url, raised, kept).found) = vs
<1>1. \A v : [version |-> v, url |-> url].version = v
  OBVIOUS
<1>2. Answer(vs, url, raised, kept).found = {[version |-> v, url |-> url] : v \in vs}
  BY DEF Answer
<1>3. {f.version : f \in {[version |-> v, url |-> url] : v \in vs}} = vs
  BY <1>1
<1> QED BY <1>2, <1>3 DEF Answer, VersionsOf

LEMMA SourceOffers ==
  ASSUME TypeInv, Steady, NEW r
  PROVE  LET key == <<PyPI, w.anyPlatform>>
             ans == FromSource(r)
         IN  /\ Listing # {} => ans.kept[key] = Listing
             /\ VersionsOf(ans.found) = OffersIn(ans.kept[key], r) \cap r.admits
             /\ ans.raised = (OffersIn(ans.kept[key], r) \cap r.admits = {})
<1> DEFINE p       == SourceProvider(r)
           key     == <<PyPI, w.anyPlatform>>
           files   == CandidateFiles(p, index[PyPI], listings)
           kept    == KeepListing(p, index[PyPI], listings)
           matches == FindMatches(p, index[PyPI], listings, r.admits, w.constraint, now)
           out     == FindAllMatching(p, index[PyPI], listings, r.admits, w.constraint, now, w.maxAge, AgeFallback)
           q       == Query(p, r, w.maxAge, AgeFallback)
<1>1. /\ p.server = PyPI /\ p.anyPlatform = w.anyPlatform /\ p.sdists = w.sdists /\ p.wheels = w.wheels
      /\ p.caches = TRUE
  BY Zenon DEF SourceProvider, PyPIProvider
<1>2. key \in Server \X BOOLEAN
  BY ProvidersAssumption DEF TypeInv, World
<1>3. CacheKey(p) = key
  BY <1>1 DEF CacheKey
<1>4. files = IF Listing # {} THEN Listing
              ELSE IF Reachable(index[PyPI]) THEN ProjectFiles(index[PyPI], p.anyPlatform) ELSE {}
  BY <1>1, <1>3 DEF CandidateFiles, Listing
<1>5. kept[key] = files
  BY <1>1, <1>2, <1>3 DEF KeepListing, TypeInv
<1>6. VersionsOf(matches) = OffersIn(files, r) \cap r.admits
  <2>1. matches = {f \in files : /\ f.version \in r.admits \cap w.constraint.versions
                                 /\ IF f.sdist THEN w.sdists ELSE w.wheels
                                 /\ ~IsBlockedByCooldown(p, f, now)}
    BY <1>1 DEF FindMatches, IsSatisfiedBy
  <2> HIDE DEF matches, files
  <2> QED BY <2>1 DEF OffersIn, VersionsOf
<1>7. matches = {} <=> VersionsOf(matches) = {}
  BY DEF VersionsOf
<1>8. out = IF matches = {} THEN Raises ELSE Returns(VersionsOf(matches))
  <2> HIDE DEF matches
  <2>1. CASE matches = {}
    BY <2>1 DEF FindAllMatching, matches
  <2>2. CASE matches # {}
    <3>1. w.maxAge = None
      BY DEF Steady
    <3> QED BY <2>2, <3>1 DEF FindAllMatching, matches
  <2> QED BY <2>1, <2>2
<1>9. q.out = out /\ q.kept = kept
  <2>1. q = [out |-> FindAllMatching(p, index[p.server], listings, r.admits, w.constraint, now, w.maxAge, AgeFallback),
             kept |-> KeepListing(p, index[p.server], listings)]
    BY DEF Query
  <2> HIDE DEF p, q
  <2> QED BY <1>1, <2>1
<1> HIDE DEF p, matches, files, kept, out
<1>10. out.raised = (matches = {}) /\ out.versions = VersionsOf(matches)
  BY <1>7, <1>8 DEF Raises, Returns
<1>11. FromSource(r) = Answer(out.versions, PyPI, out.raised, kept)
  <2>1. ~(~q.out.raised /\ q.out.versions = {} /\ w.multiple /\ w.cacheServer)
    BY <1>7, <1>9, <1>10
  <2>2. FromSource(r) = IF ~q.out.raised /\ q.out.versions = {} /\ w.multiple /\ w.cacheServer
                        THEN FromCacheServer(r, q.kept)
                        ELSE Answer(q.out.versions, PyPI, q.out.raised, q.kept)
    BY DEF FromSource, p
  <2> HIDE DEF q
  <2> QED BY <1>9, <2>1, <2>2
<1>12. FromSource(r).kept = kept /\ FromSource(r).raised = out.raised /\ VersionsOf(FromSource(r).found) = out.versions
  BY <1>11, AnswerTells
<1> QED BY <1>4, <1>5, <1>6, <1>7, <1>10, <1>12

(* One cooldown: what is offered to one is offered to all.                     *)
LEMMA OffersAlike ==
  ASSUME Steady, NEW files, NEW r, Required(r), NEW s, Required(s)
  PROVE  OffersIn(files, r) = OffersIn(files, s)
<1>1. CooldownFor(r) = CooldownFor(s)
  BY DEF Steady
<1>2. SourceProvider(r) = SourceProvider(s)
  BY <1>1, Zenon DEF SourceProvider
<1> QED BY <1>2, Zenon DEF OffersIn

LEMMA FirstRunResolve ==
  ASSUME TypeInv, FitWorld(w), Steady, FirstRunInv, run = 1,
         NEW r \in Request, Required(r), Resolve(r)
  PROVE  FirstRunInv'
<1> DEFINE key   == <<PyPI, w.anyPlatform>>
           rule  == <<r.text, FALSE>>
           look  == IF rule \in rules THEN [found |-> {}, raised |-> FALSE, kept |-> listings]
                    ELSE Lookup(r)
           table == Merge(known[FALSE], look.found)
           vs    == IF look.raised THEN {} ELSE Chosen(table, r)
           record == [request |-> r, versions |-> vs, raised |-> look.raised]
           O(s)  == OffersIn(look.kept[key], s)
<1>1. w.prebuilt = FALSE
  BY DEF Steady
<1>2. /\ known' = [known EXCEPT ![FALSE] = table]
      /\ rules' = IF look.found = {} THEN rules ELSE rules \cup {rule}
      /\ listings' = look.kept /\ graph' = graph \cup EdgesFor(r, table, vs)
      /\ asked' = asked \cup {r}
      /\ answers' = [answers EXCEPT ![run] = @ \cup {record}]
      /\ UNCHANGED <<w, index, run, now, prev, news>>
  BY <1>1 DEF Resolve
<1>3. TypedAnswer(look)
  BY LookTyped
<1>4. \A s : Required(s)' <=> Required(s)
  BY <1>2 DEF Required
<1>5. \A s : Offered(s)' = O(s)
  BY <1>2 DEF Offered, Listing, OffersIn, SourceProvider, CooldownFor
<1>6. \A s : Listing = {} => Offered(s) = {}
  BY DEF Offered, OffersIn, VersionsOf
<1>7. \A s : Full(s) => Listing # {}
  BY <1>6 DEF Full
<1>8. /\ Listing # {} => look.kept[key] = Listing
      /\ VersionsOf(look.found) \subseteq O(r)
      /\ ~look.raised => /\ O(r) \cap r.admits # {}
                         /\ O(r) \cap r.admits \subseteq VersionsOf(known[FALSE]) \cup VersionsOf(look.found)
      /\ look.found # {} => ~look.raised
  <2>1. CASE rule \in rules
    <3>1. look = [found |-> {}, raised |-> FALSE, kept |-> listings]
      BY <2>1
    <3> HIDE DEF look
    <3>2. look.found = {} /\ look.raised = FALSE /\ look.kept = listings
      BY <3>1
    <3>3. O(r) = Offered(r) /\ look.kept[key] = Listing
      BY <3>2 DEF Offered, Listing
    <3>4. Full(r)
      BY <2>1 DEF FirstRunInv, RulesAreFull
    <3>5. VersionsOf(look.found) = {}
      BY <3>2 DEF VersionsOf
    <3> QED BY <3>2, <3>3, <3>4, <3>5 DEF Full
  <2>2. CASE rule \notin rules
    <3>1. FromGraph(r, FALSE) = {}
      BY DEF FromGraph, FirstRunInv
    <3>2. look = FromSource(r)
      BY <1>1, <2>2, <3>1 DEF Lookup
    <3> HIDE DEF look, O
    <3>3. /\ Listing # {} => look.kept[key] = Listing
          /\ VersionsOf(look.found) = O(r) \cap r.admits
          /\ look.raised = (O(r) \cap r.admits = {})
      BY <3>2, SourceOffers DEF O
    <3>4. look.found # {} => VersionsOf(look.found) # {}
      BY DEF VersionsOf
    <3> QED BY <3>3, <3>4
  <2> QED BY <2>1, <2>2
<1> HIDE DEF look, rule, O
<1>9. OneUrl(known[FALSE]) /\ known[FALSE] \in SUBSET Found
  BY DEF TypeInv
<1>10. VersionsOf(table) = VersionsOf(known[FALSE]) \cup VersionsOf(look.found)
  BY <1>3, <1>9, MergeTyped DEF TypedAnswer
<1> HIDE DEF table
<1>11. \A s : Required(s) => O(s) = O(r)
  BY OffersAlike DEF O
<1>12. \A s : Listing # {} => O(s) = Offered(s)
  BY <1>8 DEF O, Offered
<1>13. \A s : Required(s) => VersionsOf(table) \subseteq O(s)
  <2>1. \A s : Required(s) => VersionsOf(known[FALSE]) \subseteq O(s)
    <3>1. \A s : Required(s) => VersionsOf(known[FALSE]) \subseteq Offered(s)
      BY DEF FirstRunInv, KnownIsOffered
    <3> QED BY <1>6, <1>12, <3>1
  <2> QED BY <1>8, <1>10, <1>11, <2>1
<1> DEFINE Ample(s) == O(s) \cap s.admits # {} /\ O(s) \cap s.admits \subseteq VersionsOf(table)
<1>14. \A s : Full(s) => Ample(s) /\ O(s) = Offered(s)
  BY <1>7, <1>10, <1>12 DEF Full
<1>15. ~look.raised => Ample(r)
  BY <1>8, <1>10
<1>16. known'[FALSE] = table /\ answers'[1] = answers[1] \cup {record} /\ answers'[2] = answers[2]
  BY <1>2 DEF TypeInv, AnswersTypeOK
<1>17. \A s : Full(s)' <=> Ample(s)
  BY <1>5, <1>16 DEF Full
<1> HIDE DEF Ample
<1>18. \A s : Required(s) /\ <<s.text, FALSE>> \in rules' => Ample(s)
  <2> SUFFICES ASSUME NEW s, Required(s), <<s.text, FALSE>> \in rules'
               PROVE  Ample(s)
    OBVIOUS
  <2>1. CASE <<s.text, FALSE>> \in rules
    BY <2>1, <1>14 DEF FirstRunInv, RulesAreFull
  <2>2. CASE <<s.text, FALSE>> \notin rules
    <3>1. look.found # {} /\ s.text = r.text
      BY <1>2, <2>2 DEF rule
    <3>2. s.admits = r.admits
      BY <3>1 DEF FitWorld, TextsTell, Required
    <3>3. O(s) = O(r)
      BY <1>11
    <3> QED BY <1>8, <1>15, <3>1, <3>2, <3>3 DEF Ample
  <2> QED BY <2>1, <2>2
<1>19. record.request = r /\ record.versions = vs /\ record.raised = look.raised
  OBVIOUS
<1>20. ~look.raised => vs = Select(O(r) \cap r.admits)
  <2>1. Matching(table, r) = VersionsOf(table) \cap r.admits
    BY DEF Matching
  <2>2. ~look.raised => Matching(table, r) = O(r) \cap r.admits
    BY <1>13, <1>15, <2>1 DEF Ample
  <2> QED BY <2>2 DEF Chosen, Select
<1>21. \A v \in vs : v \in VersionsOf(table)
  BY DEF Chosen, Matching, Highest
<1> HIDE DEF vs, record
<1>22. \A a \in answers'[1] :
         ~a.raised => Ample(a.request) /\ a.versions = Select(O(a.request) \cap a.request.admits)
  <2> SUFFICES ASSUME NEW a \in answers'[1], ~a.raised
               PROVE  Ample(a.request) /\ a.versions = Select(O(a.request) \cap a.request.admits)
    OBVIOUS
  <2>1. CASE a = record
    BY <2>1, <1>15, <1>19, <1>20
  <2>2. CASE a \in answers[1]
    <3>1. Full(a.request) /\ a.versions = Select(Offered(a.request) \cap a.request.admits)
      BY <2>2, Zenon DEF FirstRunInv, AnswersAreOffered
    <3> QED BY <3>1, <1>14
  <2> QED BY <2>1, <2>2, <1>16
<1>23. \A e \in EdgesFor(r, table, vs) : /\ e.prebuilt = FALSE /\ e.parent = r.parent
                                         /\ e.version \in VersionsOf(table)
  BY <1>1 DEF EdgesFor, VersionsOf
<1>24. HasEdges(record, EdgesFor(r, table, vs))
  <2> SUFFICES ASSUME NEW v \in vs
               PROVE  \E e \in EdgesFor(r, table, vs) :
                        e.parent = r.parent /\ e.type = r.type /\ e.version = v
    BY <1>19 DEF HasEdges
  <2>1. PICK f \in table : f.version = v
    BY <1>21 DEF VersionsOf
  <2> DEFINE e == [parent |-> r.parent, type |-> r.type, prebuilt |-> w.prebuilt,
                   version |-> f.version, url |-> f.url]
  <2>2. e \in EdgesFor(r, table, vs)
    BY <2>1 DEF EdgesFor
  <2>3. e.parent = r.parent /\ e.type = r.type /\ e.version = v
    BY <2>1
  <2> QED BY <2>2, <2>3
<1>25. AnswersHaveEdges'
  <2>1. \A a \in answers'[1] : HasEdges(a, graph')
    BY <1>2, <1>16, <1>24 DEF FirstRunInv, AnswersHaveEdges, HasEdges
  <2> QED BY <2>1 DEF AnswersHaveEdges, HasEdges
<1>26. EdgesAreAnswers'
  <2>1. \A e \in graph' :
          /\ e.prebuilt = FALSE /\ e.version \in VersionsOf(table)
          /\ \E s : Required(s) /\ e.parent = s.parent
    BY <1>2, <1>10, <1>23 DEF FirstRunInv, EdgesAreAnswers
  <2> QED BY <2>1, <1>4, <1>16 DEF EdgesAreAnswers
<1>27. \A a \in answers'[1] : Required(a.request)
  BY <1>16, <1>19 DEF FirstRunInv, AnswersAreOffered
<1>28. AnswersAreOffered'
  <2> SUFFICES ASSUME NEW a \in answers'[1]
               PROVE  /\ Required(a.request)'
                      /\ ~a.raised =>
                           /\ Full(a.request)'
                           /\ a.versions = Select(Offered(a.request) \cap a.request.admits)'
    BY DEF AnswersAreOffered
  <2>1. Required(a.request)'
    BY <1>4, <1>27
  <2>2. Select(Offered(a.request) \cap a.request.admits)' = Select(O(a.request) \cap a.request.admits)
    BY <1>2, <1>5 DEF Select
  <2> QED BY <2>1, <2>2, <1>17, <1>22
<1>29. KnownIsOffered'
  BY <1>4, <1>5, <1>13, <1>16 DEF KnownIsOffered
<1>30. RulesAreFull'
  BY <1>4, <1>17, <1>18 DEF RulesAreFull
<1>31. \A s \in asked' : \E a \in answers'[1] : a.request = s
  BY <1>2, <1>16, <1>19 DEF FirstRunInv
<1>32. prev' = {} /\ answers'[2] = {}
  BY <1>2, <1>16 DEF FirstRunInv
<1> QED BY <1>25, <1>26, <1>28, <1>29, <1>30, <1>31, <1>32 DEF FirstRunInv

-----------------------------------------------------------------------------
(* The highest of a set stays the highest of what contains it.                 *)
LEMMA HighestExists ==
  ASSUME NEW S, S \subseteq Version, IsFiniteSet(S), S # {}
  PROVE  Highest(S) # {}
<1> DEFINE Above(v) == {u \in S : v < u}
           all      == {Above(v) : v \in S}
<1>1. S \subseteq Nat
  BY ProvidersAssumption
<1>2. all \subseteq FiniteSubsetsOf(S) /\ all # {}
  <2>1. \A v : Above(v) \subseteq S
    OBVIOUS
  <2>2. \A v : Above(v) \in FiniteSubsetsOf(S)
    BY <2>1, FS_Subset DEF FiniteSubsetsOf
  <2> HIDE DEF Above
  <2> QED BY <2>2
<1>3. \E x \in all : \A y \in all : ~(<<y, x>> \in StrictSubsetOrdering(S))
  <2> HIDE DEF all
  <2> QED BY <1>2, WFMin, FS_StrictSubsetOrderingWellFounded
<1>4. PICK v \in S : \A u \in S : ~(<<Above(u), Above(v)>> \in StrictSubsetOrdering(S))
  BY <1>3
<1>5. ASSUME NEW u \in S, v < u
      PROVE  FALSE
  <2>1. u \in Above(v) /\ u \notin Above(u)
    BY <1>1, <1>5
  <2>2. \A t \in S : u < t => v < t
    BY <1>1, <1>5
  <2>3. Above(u) \subseteq Above(v)
    BY <2>2
  <2>4. Above(u) \in SUBSET S /\ Above(v) \in SUBSET S
    OBVIOUS
  <2> HIDE DEF Above
  <2>5. <<Above(u), Above(v)>> \in StrictSubsetOrdering(S)
    BY <2>1, <2>3, <2>4 DEF StrictSubsetOrdering
  <2> QED BY <1>4, <2>5
<1>6. \A u \in S : u <= v
  BY <1>1, <1>5
<1> QED BY <1>6 DEF Highest

LEMMA HighestBetween ==
  ASSUME NEW S, S \subseteq Version, Highest(S) # {}, NEW M, M \subseteq S, Highest(S) \subseteq M
  PROVE  Highest(M) = Highest(S)
<1>1. S \subseteq Nat
  BY ProvidersAssumption
<1>2. PICK h : h \in Highest(S)
  OBVIOUS
<1>3. h \in M /\ h \in S /\ \A u \in S : u <= h
  BY <1>2 DEF Highest
<1>4. ASSUME NEW v \in M, \A u \in M : u <= v
      PROVE  v = h
  BY <1>1, <1>3, <1>4
<1>5. ASSUME NEW v \in S, \A u \in S : u <= v
      PROVE  v = h
  BY <1>1, <1>3, <1>5
<1> QED BY <1>3, <1>4, <1>5 DEF Highest

LEMMA SelectBetween ==
  ASSUME NEW S, S \subseteq Version, Select(S) # {}, NEW M, M \subseteq S, Select(S) \subseteq M
  PROVE  Select(M) = Select(S)
  BY HighestBetween DEF Select

(* The second run, of packages that are not on the command line: the previous  *)
(* graph holds the first answers, and nothing else is found.                  *)
Used == VersionsOf(prev)

AnswersAreUsed ==
  \A a \in answers[1] :
    /\ Required(a.request) /\ a.raised = FALSE /\ a.versions # {}
    /\ a.versions = Select(Used \cap a.request.admits)
    /\ HasEdges(a, prev)

UsedIsRequired ==
  \A e \in prev : e.prebuilt = FALSE /\ e.parent # CommandLine /\ e.version \in w.constraint.versions

SecondRunInv ==
  /\ AnswersAreUsed /\ UsedIsRequired
  /\ \A r \in w.below : \E a \in answers[1] : a.request = r
  /\ \A e \in graph : e.parent # CommandLine
  /\ VersionsOf(known[FALSE]) \subseteq Used
  /\ \A a \in answers[1] : <<a.request.text, FALSE>> \in rules => a.versions \subseteq VersionsOf(known[FALSE])
  /\ RouteKept

(* The graph of the first run is all that the second needs of it.               *)
LEMMA RouteStarts ==
  ASSUME TypeInv, FitWorld(w), Steady, FirstRunInv, IsFiniteSet(Version), w.top = <<>>, RunAgain
  PROVE  SecondRunInv'
<1>1. /\ prev' = graph /\ graph' = {} /\ rules' = {} /\ known' = [pre \in BOOLEAN |-> {}]
      /\ UNCHANGED <<w, answers>> /\ w.below \subseteq asked
      /\ \A a \in answers[1] : ~a.raised
  BY DEF RunAgain
<1>2. \A r : Required(r) <=> r \in w.below
  BY DEF Required
<1>3. AnswersAreUsed'
  <2> SUFFICES ASSUME NEW a \in answers[1]
               PROVE  /\ Required(a.request) /\ a.raised = FALSE /\ a.versions # {}
                      /\ a.versions = Select(VersionsOf(graph) \cap a.request.admits)
                      /\ HasEdges(a, graph)
    BY <1>1, Zenon DEF AnswersAreUsed, Used, Required, Select, HasEdges
  <2>1. Required(a.request) /\ a.raised = FALSE
    <3>1. a.raised \in BOOLEAN /\ ~a.raised
      BY <1>1 DEF TypeInv, AnswersTypeOK
    <3> QED BY <3>1, Zenon DEF FirstRunInv, AnswersAreOffered
  <2>2. Full(a.request) /\ a.versions = Select(Offered(a.request) \cap a.request.admits)
    BY <2>1 DEF FirstRunInv, AnswersAreOffered
  <2>3. HasEdges(a, graph)
    BY DEF FirstRunInv, AnswersHaveEdges
  <2> DEFINE S == Offered(a.request) \cap a.request.admits
             M == VersionsOf(graph) \cap a.request.admits
  <2>4. S # {} /\ S \subseteq Version
    <3>1. a.request \in Request
      BY DEF TypeInv, AnswersTypeOK
    <3>2. a.request.admits \subseteq Version
      BY <3>1 DEF Request
    <3> QED BY <2>2, <3>2 DEF Full
  <2>5. IsFiniteSet(S)
    BY <2>4, FS_Subset
  <2>6. M \subseteq S
    <3>1. VersionsOf(graph) \subseteq VersionsOf(known[FALSE])
      BY DEF FirstRunInv, EdgesAreAnswers, VersionsOf
    <3>2. VersionsOf(known[FALSE]) \subseteq Offered(a.request)
      BY <2>1 DEF FirstRunInv, KnownIsOffered
    <3> QED BY <3>1, <3>2
  <2>7. Select(S) \subseteq VersionsOf(graph)
    BY <2>2, <2>3 DEF HasEdges, VersionsOf
  <2>8. Select(S) \subseteq S
    BY DEF Select, Highest
  <2> HIDE DEF S, M
  <2>9. Select(S) # {}
    BY <2>4, <2>5, HighestExists DEF Select
  <2>10. Select(S) \subseteq M
    BY <2>7, <2>8 DEF S, M
  <2>11. Select(M) = Select(S)
    BY <2>4, <2>6, <2>9, <2>10, SelectBetween
  <2> QED BY <2>1, <2>2, <2>3, <2>9, <2>11 DEF S, M
<1>4. UsedIsRequired'
  <2> SUFFICES ASSUME NEW e \in graph
               PROVE  e.prebuilt = FALSE /\ e.parent # CommandLine /\ e.version \in w.constraint.versions
    BY <1>1 DEF UsedIsRequired
  <2>1. e.prebuilt = FALSE /\ e.version \in VersionsOf(known[FALSE]) /\ \E r : Required(r) /\ e.parent = r.parent
    BY DEF FirstRunInv, EdgesAreAnswers
  <2>2. PICK r : Required(r) /\ e.parent = r.parent
    BY <2>1
  <2>3. e.parent # CommandLine
    BY <1>2, <2>2 DEF FitWorld
  <2>4. e.version \in Offered(r)
    BY <2>1, <2>2 DEF FirstRunInv, KnownIsOffered
  <2>5. e.version \in w.constraint.versions
    BY <2>4 DEF Offered, OffersIn, VersionsOf
  <2> QED BY <2>1, <2>3, <2>5
<1>5. \A r \in w'.below : \E a \in answers'[1] : a.request = r
  BY <1>1 DEF FirstRunInv
<1>6. VersionsOf(known'[FALSE]) = {}
  BY <1>1 DEF VersionsOf
<1>7. answers'[2] = {}
  BY <1>1 DEF FirstRunInv
<1> QED BY <1>1, <1>3, <1>4, <1>5, <1>6, <1>7 DEF SecondRunInv, RouteKept

LEMMA FromVersionsTells ==
  ASSUME NEW edges, NEW r, NEW v
  PROVE  v \in VersionsOf(FromVersions(edges, r)) <=>
           \E e \in edges : e.version = v /\ v \in r.admits \cap w.constraint.versions
<1> DEFINE found(e) == [version |-> e.version, url |-> e.url]
           fit      == {e \in edges : e.version \in r.admits \cap w.constraint.versions}
<1>1. \A e : found(e).version = e.version
  OBVIOUS
<1> HIDE DEF found
<1>2. v \in {f.version : f \in {found(e) : e \in fit}} <=> \E e \in fit : e.version = v
  <2> HIDE DEF fit
  <2> QED BY <1>1
<1>3. FromVersions(edges, r) = {found(e) : e \in fit}
  BY DEF FromVersions, found
<1> QED BY <1>2, <1>3 DEF VersionsOf

(* What is required again is found in the previous graph, under its parent.      *)
LEMMA RouteFound ==
  ASSUME TypeInv, FitWorld(w), Steady, SecondRunInv, NEW r \in w.below,
         NEW a \in answers[1], a.request = r
  PROVE  LET old == FromGraph(r, FALSE)
         IN  old # {} /\ a.versions \subseteq VersionsOf(old) /\ VersionsOf(old) \subseteq Used
<1> DEFINE top  == {e \in graph : e.parent = CommandLine}
           mine == {e \in prev : e.parent = r.parent /\ e.type = r.type}
           same == {e \in mine : e.prebuilt = FALSE /\ e.version \notin VersionsOf(top)}
           old  == FromVersions(same, r)
<1>1. top = {}
  BY DEF SecondRunInv
<1>2. VersionsOf(top) = {} /\ FromVersions(top, r) = {}
  BY <1>1 DEF VersionsOf, FromVersions
<1>3. same = mine
  BY <1>2 DEF SecondRunInv, UsedIsRequired
<1>4. a.versions # {} /\ a.versions \subseteq r.admits /\ HasEdges(a, prev)
  <2>1. a.versions # {} /\ a.versions = Select(Used \cap r.admits) /\ HasEdges(a, prev)
    BY DEF SecondRunInv, AnswersAreUsed
  <2>2. \A S : Select(S) \subseteq S
    BY DEF Select, Highest
  <2> QED BY <2>1, <2>2
<1>5. \A e \in mine : e.version \in w.constraint.versions /\ e.version \in Used
  BY DEF SecondRunInv, UsedIsRequired, Used, VersionsOf
<1>6. \A v \in a.versions : \E e \in mine : e.version = v
  BY <1>4 DEF HasEdges
<1> HIDE DEF top, mine
<1>7. \A v : v \in VersionsOf(old) <=> \E e \in same : e.version = v /\ v \in r.admits \cap w.constraint.versions
  BY FromVersionsTells
<1> HIDE DEF same
<1>8. a.versions \subseteq VersionsOf(old) /\ VersionsOf(old) \subseteq Used
  BY <1>3, <1>4, <1>5, <1>6, <1>7
<1>9. old # {}
  BY <1>4, <1>8 DEF VersionsOf
<1>10. prev # {}
  BY <1>4 DEF HasEdges
<1>11. FromGraph(r, FALSE) = old
  <2>1. FromGraph(r, FALSE) =
          IF prev = {} THEN {}
          ELSE IF FromVersions(top, r) # {} THEN FromVersions(top, r)
          ELSE IF old # {} THEN old
          ELSE FromVersions({e \in prev : e.prebuilt = FALSE /\ e.version \notin VersionsOf(top \cup same)}, r)
    BY DEF FromGraph, top, mine, same
  <2> HIDE DEF old
  <2> QED BY <1>2, <1>9, <1>10, <2>1
<1> QED BY <1>8, <1>9, <1>11

LEMMA RouteResolve ==
  ASSUME TypeInv, FitWorld(w), Steady, SecondRunInv, run = 2, w.top = <<>>,
         NEW r \in w.below, Resolve(r)
  PROVE  SecondRunInv'
<1> DEFINE rule  == <<r.text, FALSE>>
           look  == IF rule \in rules THEN [found |-> {}, raised |-> FALSE, kept |-> listings]
                    ELSE Lookup(r)
           table == Merge(known[FALSE], look.found)
           vs    == IF look.raised THEN {} ELSE Chosen(table, r)
           record == [request |-> r, versions |-> vs, raised |-> look.raised]
<1>1. w.prebuilt = FALSE
  BY DEF Steady
<1>2. /\ known' = [known EXCEPT ![FALSE] = table]
      /\ rules' = IF look.found = {} THEN rules ELSE rules \cup {rule}
      /\ graph' = graph \cup EdgesFor(r, table, vs)
      /\ answers' = [answers EXCEPT ![run] = @ \cup {record}]
      /\ UNCHANGED <<w, prev>>
  BY <1>1 DEF Resolve
<1>3. r \in Request
  BY DEF TypeInv, World
<1>4. TypedAnswer(look)
  BY LookTyped
<1>5. PICK a \in answers[1] : a.request = r
  BY DEF SecondRunInv
<1>6. a.versions # {} /\ a.versions = Select(Used \cap r.admits)
  BY <1>5 DEF SecondRunInv, AnswersAreUsed
<1>7. /\ look.raised = FALSE /\ VersionsOf(look.found) \subseteq Used
      /\ a.versions \subseteq VersionsOf(known[FALSE]) \cup VersionsOf(look.found)
  <2>1. CASE rule \in rules
    <3>1. look = [found |-> {}, raised |-> FALSE, kept |-> listings]
      BY <2>1
    <3> HIDE DEF look
    <3>2. look.raised = FALSE /\ VersionsOf(look.found) = {}
      BY <3>1 DEF VersionsOf
    <3>3. a.versions \subseteq VersionsOf(known[FALSE])
      BY <2>1, <1>5 DEF SecondRunInv
    <3> QED BY <3>2, <3>3
  <2>2. CASE rule \notin rules
    <3>1. look = [found |-> FromGraph(r, FALSE), raised |-> FALSE, kept |-> listings]
      BY <1>1, <1>5, <2>2, RouteFound DEF Lookup
    <3> HIDE DEF look
    <3>2. look.raised = FALSE /\ look.found = FromGraph(r, FALSE)
      BY <3>1
    <3> QED BY <3>2, <1>5, RouteFound
  <2> QED BY <2>1, <2>2
<1> HIDE DEF look, rule
<1>8. VersionsOf(table) = VersionsOf(known[FALSE]) \cup VersionsOf(look.found)
  <2>1. OneUrl(known[FALSE]) /\ known[FALSE] \in SUBSET Found
    BY DEF TypeInv
  <2> QED BY <1>4, <2>1, MergeTyped DEF TypedAnswer
<1> HIDE DEF table
<1>9. a.versions \subseteq VersionsOf(table) /\ VersionsOf(table) \subseteq Used
  BY <1>7, <1>8 DEF SecondRunInv
<1>10. vs = a.versions
  <2> DEFINE S == Used \cap r.admits
             M == VersionsOf(table) \cap r.admits
  <2>1. S \subseteq Version
    BY <1>3 DEF Request
  <2>2. Select(S) \subseteq S
    BY DEF Select, Highest
  <2>3. M \subseteq S
    BY <1>9
  <2>4. vs = Select(M)
    BY <1>7 DEF Chosen, Matching, Select
  <2> HIDE DEF vs, S, M
  <2>5. Select(S) = a.versions
    BY <1>6 DEF S
  <2>6. Select(S) \subseteq M
    BY <1>9, <2>2, <2>5 DEF S, M
  <2>7. Select(M) = Select(S)
    BY <1>6, <2>1, <2>3, <2>5, <2>6, SelectBetween
  <2> QED BY <2>4, <2>5, <2>7
<1>11. record.request = r /\ record.versions = a.versions /\ record.raised = FALSE
  BY <1>7, <1>10
<1>12. known'[FALSE] = table /\ answers'[1] = answers[1] /\ answers'[2] = answers[2] \cup {record}
  BY <1>2 DEF TypeInv, AnswersTypeOK
<1> HIDE DEF record, vs
<1>13. AnswersAreUsed' /\ UsedIsRequired'
  <2>1. AnswersAreUsed'
    <3>1. AnswersAreUsed
      BY DEF SecondRunInv
    <3>2. w' = w /\ prev' = prev /\ answers'[1] = answers[1]
      BY <1>2, <1>12
    <3>3. \A s : Required(s)' <=> Required(s)
      BY <3>2 DEF Required
    <3> SUFFICES ASSUME NEW b \in answers'[1]
                 PROVE  /\ Required(b.request)' /\ b.raised = FALSE /\ b.versions # {}
                        /\ (b.versions = Select(Used \cap b.request.admits))'
                        /\ HasEdges(b, prev)'
      BY Zenon DEF AnswersAreUsed
    <3>4. /\ Required(b.request) /\ b.raised = FALSE /\ b.versions # {}
          /\ b.versions = Select(Used \cap b.request.admits)
          /\ HasEdges(b, prev)
      BY <3>1, <3>2, Zenon DEF AnswersAreUsed
    <3>5. (b.versions = Select(Used \cap b.request.admits))'
      BY <3>2, <3>4, Zenon DEF Select, Used
    <3>6. HasEdges(b, prev)'
      BY <3>2, <3>4, Zenon DEF HasEdges
    <3> QED BY <3>3, <3>4, <3>5, <3>6
  <2> QED BY <1>2, <2>1 DEF SecondRunInv, UsedIsRequired
<1>14. \A e \in graph' : e.parent # CommandLine
  <2>1. \A e \in EdgesFor(r, table, vs) : e.parent = r.parent
    BY DEF EdgesFor
  <2> QED BY <1>2, <2>1 DEF SecondRunInv, FitWorld
<1>15. \A b \in answers[1] : b.request.text = r.text => b.versions = a.versions
  <2> SUFFICES ASSUME NEW b \in answers[1], b.request.text = r.text
               PROVE  b.versions = a.versions
    OBVIOUS
  <2>1. Required(b.request) /\ b.versions = Select(Used \cap b.request.admits)
    BY DEF SecondRunInv, AnswersAreUsed
  <2>2. b.request.admits = r.admits
    BY <2>1 DEF FitWorld, TextsTell, Required
  <2> QED BY <1>6, <2>1, <2>2
<1>16. \A b \in answers[1] : <<b.request.text, FALSE>> \in rules' => b.versions \subseteq VersionsOf(table)
  <2> SUFFICES ASSUME NEW b \in answers[1], <<b.request.text, FALSE>> \in rules'
               PROVE  b.versions \subseteq VersionsOf(table)
    OBVIOUS
  <2>1. CASE <<b.request.text, FALSE>> \in rules
    BY <2>1, <1>8 DEF SecondRunInv
  <2>2. CASE <<b.request.text, FALSE>> \notin rules
    <3>1. b.request.text = r.text
      BY <1>2, <2>2 DEF rule
    <3> QED BY <3>1, <1>9, <1>15
  <2> QED BY <2>1, <2>2
<1>17. RouteKept'
  <2> SUFFICES ASSUME NEW c \in answers[1], NEW b \in answers'[2], c.request = b.request
               PROVE  ~b.raised /\ c.versions = b.versions
    BY <1>12, Zenon DEF RouteKept
  <2>1. CASE b = record
    BY <2>1, <1>11, <1>15
  <2>2. CASE b \in answers[2]
    BY <2>2, Zenon DEF SecondRunInv, RouteKept
  <2> QED BY <2>1, <2>2, <1>12
<1>18. \A s \in w'.below : \E b \in answers'[1] : b.request = s
  BY <1>2, <1>12 DEF SecondRunInv
<1>19. VersionsOf(known'[FALSE]) \subseteq VersionsOf(prev')
  BY <1>2, <1>9, <1>12 DEF Used
<1> QED BY <1>12, <1>13, <1>14, <1>16, <1>17, <1>18, <1>19 DEF SecondRunInv, Used

-----------------------------------------------------------------------------
(* Same text, same answer.                                                   *)
Agreed ==
  \A a, b \in answers[1] :
    a.request.text = b.request.text /\ ~a.raised /\ ~b.raised => a.versions = b.versions

AgreeInv ==
  /\ TypeInv /\ FitWorld(w)
  /\ Steady => (run = 1 => FirstRunInv) /\ (run = 2 => Agreed)

RouteInv == AgreeInv /\ (Steady /\ run = 2 /\ w.top = <<>> => SecondRunInv)

LEMMA OfferedAgree ==
  ASSUME FitWorld(w), Steady, FirstRunInv
  PROVE  Agreed
<1> SUFFICES ASSUME NEW a \in answers[1], NEW b \in answers[1],
                    a.request.text = b.request.text, ~a.raised, ~b.raised
             PROVE  a.versions = b.versions
  BY Zenon DEF Agreed
<1>1. /\ Required(a.request) /\ a.versions = Select(Offered(a.request) \cap a.request.admits)
      /\ Required(b.request) /\ b.versions = Select(Offered(b.request) \cap b.request.admits)
  BY Zenon DEF FirstRunInv, AnswersAreOffered
<1>2. a.request.admits = b.request.admits
  BY <1>1 DEF FitWorld, TextsTell, Required
<1>3. Offered(a.request) = Offered(b.request)
  BY <1>1, OffersAlike DEF Offered
<1> QED BY <1>1, <1>2, <1>3

(* Whoever resolves, it is a requirement of the world.                        *)
LEMMA Requests ==
  ASSUME TypeInv, ResolveTopLevel \/ ResolveBelow
  PROVE  \E r \in Request : Required(r) /\ Resolve(r) /\ (w.top = <<>> => r \in w.below)
<1>1. CASE ResolveTopLevel
  <2>1. PICK i \in DOMAIN w.top : Resolve(w.top[i])
    BY <1>1 DEF ResolveTopLevel, TopLevelLeft
  <2>2. w.top[i] \in Request /\ w.top # <<>>
    BY DEF TypeInv, World
  <2> QED BY <2>1, <2>2 DEF Required
<1>2. CASE ResolveBelow
  <2>1. PICK r \in w.below : Resolve(r)
    BY <1>2 DEF ResolveBelow
  <2> QED BY <2>1 DEF TypeInv, World, Required
<1> QED BY <1>1, <1>2

(* What a step leaves alone keeps both invariants.                             *)
LEMMA AgreeStays ==
  ASSUME TypeInv,
         UNCHANGED <<w, run, now, known, rules, listings, graph, prev, asked, answers>>
  PROVE  /\ Steady' <=> Steady
         /\ FirstRunInv => FirstRunInv'
         /\ SecondRunInv => SecondRunInv'
<1>1. Steady' <=> Steady
  BY DEF Steady, Required, CooldownFor
<1>2. \A s : (Required(s)' <=> Required(s)) /\ Offered(s)' = Offered(s)
  BY DEF Required, Offered, Listing, OffersIn, SourceProvider, CooldownFor
<1>3. \A s : Full(s)' <=> Full(s)
  BY <1>2 DEF Full
<1>4. \A S : Select(S)' = Select(S)
  BY Zenon DEF Select
<1>5. KnownIsOffered' <=> KnownIsOffered
  BY <1>2 DEF KnownIsOffered
<1>6. RulesAreFull' <=> RulesAreFull
  BY <1>2, <1>3 DEF RulesAreFull
<1>7. AnswersAreOffered => AnswersAreOffered'
  BY <1>2, <1>3 DEF AnswersAreOffered, Select
<1>8. FirstRunInv => FirstRunInv'
  <2>1. EdgesAreAnswers => EdgesAreAnswers'
    BY <1>2 DEF EdgesAreAnswers
  <2>2. AnswersHaveEdges => AnswersHaveEdges'
    BY DEF AnswersHaveEdges, HasEdges
  <2> QED BY <1>5, <1>6, <1>7, <2>1, <2>2 DEF FirstRunInv
<1>9. AnswersAreUsed => AnswersAreUsed'
  BY <1>2 DEF AnswersAreUsed, Used, Select, HasEdges
<1>10. SecondRunInv => SecondRunInv'
  BY <1>9 DEF SecondRunInv, UsedIsRequired, Used, RouteKept
<1> QED BY <1>1, <1>8, <1>10

LEMMA OtherAnswersStay ==
  ASSUME TypeInv, NEW r, Resolve(r)
  PROVE  UNCHANGED <<w, run>> /\ (run = 2 => answers'[1] = answers[1])
<1>1. UNCHANGED <<w, run>> /\ \E new : answers' = [answers EXCEPT ![run] = @ \cup {new}]
  BY Zenon DEF Resolve
<1> QED BY <1>1 DEF TypeInv, AnswersTypeOK

LEMMA AgreeStep == AgreeInv /\ [Next]_vars => AgreeInv'
<1> SUFFICES ASSUME AgreeInv, [Next]_vars
             PROVE  AgreeInv'
  OBVIOUS
<1>1. TypeInv /\ FitWorld(w) /\ TypeInv' /\ run \in 1..2
  BY TypeStep DEF AgreeInv, TypeInv
<1>2. w' = w
  BY DEF Next, ResolveTopLevel, ResolveBelow, Resolve, Publish, RunAgain, vars
<1>3. (Steady' <=> Steady) /\ FitWorld(w')
  BY <1>1, <1>2 DEF Steady, Required, CooldownFor
<1> SUFFICES ASSUME Steady
             PROVE  (run' = 1 => FirstRunInv') /\ (run' = 2 => Agreed')
  BY <1>1, <1>3 DEF AgreeInv
<1>4. (run = 1 => FirstRunInv) /\ (run = 2 => Agreed)
  BY DEF AgreeInv
<1>5. CASE ResolveTopLevel \/ ResolveBelow
  <2>1. PICK r \in Request : Required(r) /\ Resolve(r)
    BY <1>1, <1>5, Requests
  <2>2. run' = run /\ (run = 2 => answers'[1] = answers[1])
    BY <1>1, <2>1, OtherAnswersStay
  <2>3. CASE run = 1
    <3>1. Required(r) /\ Resolve(r) /\ FirstRunInv
      BY <1>4, <2>1, <2>3
    <3>2. FirstRunInv'
      BY <1>1, <2>3, <3>1, FirstRunResolve
    <3> QED BY <2>2, <2>3, <3>2
  <2>4. CASE run = 2
    <3>1. Agreed'
      BY <1>4, <2>2, <2>4, Zenon DEF Agreed
    <3> QED BY <2>2, <2>4, <3>1
  <2> QED BY <1>1, <2>3, <2>4
<1>6. CASE Publish \/ UNCHANGED vars
  <2>1. UNCHANGED <<w, run, now, known, rules, listings, graph, prev, asked, answers>>
    BY <1>6 DEF Publish, vars
  <2>2. Agreed => Agreed'
    BY <2>1, Zenon DEF Agreed
  <2> QED BY <1>1, <1>4, <2>1, <2>2, AgreeStays
<1>7. CASE RunAgain
  <2>1. run = 1 /\ run' = 2 /\ answers' = answers
    BY <1>7 DEF RunAgain
  <2>2. Agreed
    BY <1>1, <1>4, <2>1, OfferedAgree
  <2>3. Agreed'
    BY <2>1, <2>2, Zenon DEF Agreed
  <2> QED BY <2>1, <2>3
<1> QED BY <1>5, <1>6, <1>7 DEF Next

LEMMA RouteStep ==
  ASSUME IsFiniteSet(Version)
  PROVE  RouteInv /\ [Next]_vars => RouteInv'
<1> SUFFICES ASSUME RouteInv, [Next]_vars
             PROVE  RouteInv'
  OBVIOUS
<1>1. TypeInv /\ FitWorld(w) /\ AgreeInv /\ AgreeInv' /\ run \in 1..2
  BY AgreeStep DEF RouteInv, AgreeInv, TypeInv
<1>2. w' = w
  BY DEF Next, ResolveTopLevel, ResolveBelow, Resolve, Publish, RunAgain, vars
<1>3. Steady' <=> Steady
  BY <1>1, <1>2 DEF Steady, Required, CooldownFor
<1> SUFFICES ASSUME Steady, run' = 2, w.top = <<>>
             PROVE  SecondRunInv'
  BY <1>1, <1>2, <1>3 DEF RouteInv
<1>4. (run = 1 => FirstRunInv) /\ (run = 2 => SecondRunInv)
  BY DEF RouteInv, AgreeInv
<1>5. CASE ResolveTopLevel \/ ResolveBelow
  <2>1. PICK r \in w.below : Resolve(r)
    BY <1>1, <1>5, Requests
  <2>2. run = 2
    BY <1>1, <2>1, OtherAnswersStay
  <2> QED BY <1>1, <1>4, <2>1, <2>2, RouteResolve
<1>6. CASE Publish \/ UNCHANGED vars
  <2>1. UNCHANGED <<w, run, now, known, rules, listings, graph, prev, asked, answers>>
    BY <1>6 DEF Publish, vars
  <2> QED BY <1>1, <1>4, <2>1, AgreeStays
<1>7. CASE RunAgain
  <2>1. run = 1
    BY <1>7 DEF RunAgain
  <2> QED BY <1>1, <1>4, <1>7, <2>1, RouteStarts
<1> QED BY <1>5, <1>6, <1>7 DEF Next

LEMMA AgreeStart ==
  ASSUME NEW worlds \in SUBSET World, NEW indexes \in SUBSET [Server -> Page], NEW today \in Nat,
         \A x \in worlds : FitWorld(x), InitWith(worlds, indexes, today)
  PROVE  RouteInv
<1>1. TypeInv /\ FitWorld(w) /\ run = 1
  BY TypeStart DEF InitWith
<1>2. /\ prev = {} /\ graph = {} /\ rules = {} /\ asked = {}
      /\ answers[1] = {} /\ answers[2] = {} /\ known[FALSE] = {}
  BY DEF InitWith
<1>3. VersionsOf(known[FALSE]) = {}
  BY <1>2 DEF VersionsOf
<1>4. FirstRunInv
  BY <1>2, <1>3
  DEF FirstRunInv, KnownIsOffered, RulesAreFull, AnswersAreOffered, AnswersHaveEdges, EdgesAreAnswers
<1> QED BY <1>1, <1>4 DEF RouteInv, AgreeInv

(* One package, one truth: without limits on age, a requirement gets the same   *)
(* answer from every parent, in every order of the requests, however the index  *)
(* changes meanwhile (resolver_cache, _resolved_rules).                       *)
THEOREM AnswersDoAgree ==
  ASSUME NEW worlds \in SUBSET World, \A x \in worlds : FitWorld(x),
         NEW indexes \in SUBSET [Server -> Page], NEW today \in Nat
  PROVE  InitWith(worlds, indexes, today) /\ [][Next]_vars => []AnswersAgree
<1>1. InitWith(worlds, indexes, today) => AgreeInv
  BY AgreeStart DEF RouteInv
<1>2. AgreeInv => AnswersAgree
  <2> SUFFICES ASSUME AgreeInv, w.maxAge = None, w.cooldown = None, w.ownAge = None, ~w.prebuilt
               PROVE  Agreed
    BY Zenon DEF AnswersAgree, Agreed
  <2>1. w.prebuilt = FALSE /\ run \in 1..2
    BY DEF AgreeInv, TypeInv, World
  <2>2. \A r : CooldownFor(r) = None
    BY DEF CooldownFor, PackageCooldown
  <2>3. Steady
    BY <2>1, <2>2 DEF Steady
  <2> QED BY <2>1, <2>3, OfferedAgree DEF AgreeInv
<1> QED BY <1>1, <1>2, AgreeStep, PTL

(* "This will for sure ensure that bootstrap takes the same route as it did in  *)
(* the previous one" (_resolve_from_graph), for packages that are not on the    *)
(* command line and without a limit on age, whatever was uploaded in between.   *)
THEOREM SameRouteIsTaken ==
  ASSUME NEW worlds \in SUBSET World, \A x \in worlds : FitWorld(x), IsFiniteSet(Version),
         NEW indexes \in SUBSET [Server -> Page], NEW today \in Nat
  PROVE  InitWith(worlds, indexes, today) /\ [][Next]_vars => []SameRouteBelowTop
<1>1. InitWith(worlds, indexes, today) => RouteInv
  BY AgreeStart
<1>2. RouteInv => SameRouteBelowTop
  <2> SUFFICES ASSUME RouteInv, w.top = <<>>, w.maxAge = None, ~w.prebuilt
               PROVE  RouteKept
    BY Zenon DEF SameRouteBelowTop
  <2>1. w.prebuilt = FALSE /\ run \in 1..2 /\ FitWorld(w)
    BY DEF RouteInv, AgreeInv, TypeInv, World
  <2>2. \A r : Required(r) => r.type # "toplevel"
    BY <2>1 DEF Required, FitWorld, BelowIsBelow
  <2>3. Steady
    BY <2>1, <2>2 DEF Steady, CooldownFor, PackageCooldown
  <2>4. CASE run = 1
    BY <2>3, <2>4 DEF RouteInv, AgreeInv, FirstRunInv, RouteKept
  <2>5. CASE run = 2
    BY <2>3, <2>5 DEF RouteInv, SecondRunInv
  <2> QED BY <2>1, <2>4, <2>5
<1>3. RouteInv /\ [Next]_vars => RouteInv'
  BY RouteStep
<1> QED BY <1>1, <1>2, <1>3, PTL

-----------------------------------------------------------------------------
(* Several versions with a limit on age: what the first run knows of versions   *)
(* that are too old.                                                         *)
TooOld(v) ==
  \A f \in index[PyPI].files : f.version = v => f.upload # None /\ f.upload < now - w.maxAge

OldOnes(S) == {f \in S : TooOld(f.version)}
OldKnown   == OldOnes(known[FALSE])

Limited == run = 1 /\ w.multiple /\ w.maxAge # None /\ ~w.constraint.pin /\ ~w.prebuilt

FewOldInv ==
  Limited =>
    /\ prev = {} /\ IsFiniteSet(rules) /\ IsFiniteSet(OldKnown)
    /\ Cardinality(OldKnown) <= Cardinality(rules)

AtMostOne(S) == \A x, y \in S : x = y

LEMMA OneHighest ==
  ASSUME NEW S, S \subseteq Version
  PROVE  AtMostOne(Highest(S))
<1> SUFFICES ASSUME NEW u \in S, NEW v \in S, u <= v, v <= u
             PROVE  u = v
  BY DEF AtMostOne, Highest
<1>1. u \in Nat /\ v \in Nat
  BY ProvidersAssumption
<1> QED BY <1>1

LEMMA AnswerHasOne ==
  ASSUME NEW vs, AtMostOne({v \in vs : TooOld(v)}), NEW url, NEW raised, NEW kept
  PROVE  AtMostOne(OldOnes(Answer(vs, url, raised, kept).found))
  BY DEF AtMostOne, OldOnes, Answer

(* A lookup finds one version that is too old, if any: what is recent enough     *)
(* is not, and otherwise only the highest counts.                            *)
LEMMA SourceHasOne ==
  ASSUME CooldownInv, TypeInv, Limited, NEW r
  PROVE  AtMostOne(OldOnes(FromSource(r).found))
<1> DEFINE p       == SourceProvider(r)
           matches == FindMatches(p, index[PyPI], listings, r.admits, w.constraint, now)
           recent  == RecentEnough(matches, now - w.maxAge)
           out     == FindAllMatching(p, index[PyPI], listings, r.admits, w.constraint, now, w.maxAge, AgeFallback)
           q       == Query(p, r, w.maxAge, AgeFallback)
<1>1. p.server = PyPI /\ p.anyPlatform \in BOOLEAN
  <2>1. p.server = PyPI /\ p.anyPlatform = w.anyPlatform
    BY Zenon DEF SourceProvider, PyPIProvider
  <2> QED BY <2>1 DEF TypeInv, World
<1>2. matches \subseteq index[PyPI].files /\ index[PyPI].files \subseteq File
  <2>1. CandidateFiles(p, index[PyPI], listings) \subseteq index[PyPI].files
    BY <1>1, CandidatesListed DEF CooldownInv
  <2> QED BY <2>1, ProvidersAssumption DEF FindMatches, TypeInv, Page
<1> HIDE DEF p, matches
<1>3. \A v \in VersionsOf(recent) : ~TooOld(v)
  <2> SUFFICES ASSUME NEW f \in matches, f.upload = None \/ f.upload >= now - w.maxAge
               PROVE  ~TooOld(f.version)
    BY DEF RecentEnough, VersionsOf
  <2>1. f \in index[PyPI].files /\ f.upload \in Int \cup {None}
    BY <1>2 DEF File
  <2>2. now - w.maxAge \in Int
    BY DEF TypeInv, World, Limited
  <2>3. ~(f.upload # None /\ f.upload < now - w.maxAge)
    BY <2>1, <2>2
  <2> QED BY <2>1, <2>3 DEF TooOld
<1>4. VersionsOf(matches) \subseteq Version
  BY <1>2 DEF VersionsOf, File
<1>5. out.versions \in {{}, VersionsOf(recent), Highest(VersionsOf(matches))}
  <2>1. CASE matches = {}
    BY <2>1 DEF FindAllMatching, Raises, matches
  <2>2. CASE matches # {}
    <3>1. AgeFallback = "newest" /\ w.maxAge # None /\ ~w.constraint.pin
      BY DEF AgeFallback, Limited
    <3>2. out = IF recent # {} THEN Returns(VersionsOf(recent)) ELSE Returns(Highest(VersionsOf(matches)))
      BY <2>2, <3>1 DEF FindAllMatching, matches
    <3> HIDE DEF out, recent
    <3> QED BY <3>2 DEF Returns
  <2> QED BY <2>1, <2>2
<1>6. AtMostOne({v \in out.versions : TooOld(v)})
  <2> HIDE DEF recent, out
  <2>1. AtMostOne(Highest(VersionsOf(matches)))
    BY <1>4, OneHighest
  <2> QED BY <1>3, <1>5, <2>1 DEF AtMostOne
<1>7. AtMostOne(OldOnes(Answer(out.versions, PyPI, out.raised, q.kept).found))
  BY <1>6, AnswerHasOne
<1>8. AtMostOne(OldOnes(FromCacheServer(r, q.kept).found))
  <2> DEFINE best(sdists) == FindAllMatching(PyPICacheProvider(Cache, sdists), index[Cache], q.kept,
                                             r.admits, w.constraint, now, None, "all").versions
             vs == best(TRUE) \cup best(FALSE)
  <2>1. vs \subseteq Version
    <3>1. \A sdists \in BOOLEAN : /\ PyPICacheProvider(Cache, sdists).server = Cache
                                  /\ PyPICacheProvider(Cache, sdists).anyPlatform = FALSE
      BY Zenon DEF PyPICacheProvider, PyPIProvider
    <3>2. Cache \in Server
      BY ResolverAssumption
    <3>3. q.kept \in [Server \X BOOLEAN -> SUBSET File]
      <4>1. q.kept = KeepListing(p, index[p.server], listings)
        BY DEF Query
      <4>2. p.server \in Server
        BY <1>1, ProvidersAssumption
      <4>3. AgeFallback \in {"all", "newest", "none"}
        BY DEF AgeFallback
      <4> HIDE DEF q
      <4>4. index \in [Server -> Page] /\ listings \in [Server \X BOOLEAN -> SUBSET File]
        BY DEF TypeInv
      <4>5. KeepListing(p, index[p.server], listings) \in [Server \X BOOLEAN -> SUBSET File]
        BY <1>1, <4>2, <4>3, <4>4, QueryTyped
      <4> QED BY <4>1, <4>5
    <3> HIDE DEF q
    <3>4. \A sdists \in BOOLEAN : best(sdists) \subseteq Version
      <4> SUFFICES ASSUME NEW sdists \in BOOLEAN
                   PROVE  best(sdists) \subseteq Version
        OBVIOUS
      <4> DEFINE c == PyPICacheProvider(Cache, sdists)
      <4>1. c.server = Cache /\ c.server \in Server /\ c.anyPlatform \in BOOLEAN
        BY <3>1, <3>2
      <4>2. index \in [Server -> Page] /\ listings \in [Server \X BOOLEAN -> SUBSET File]
        BY DEF TypeInv
      <4> HIDE DEF c
      <4>3. FindAllMatching(c, index[c.server], q.kept, r.admits, w.constraint, now, None, "all").versions
              \subseteq Version
        BY <3>3, <4>1, <4>2, QueryTyped
      <4> QED BY <4>1, <4>3 DEF c
    <3> QED BY <3>4
  <2>2. FromCacheServer(r, q.kept)
          = Answer(Highest(vs), Cache, FALSE,
                   KeepListing(PyPICacheProvider(Cache, FALSE), index[Cache], q.kept))
    BY DEF FromCacheServer
  <2> HIDE DEF vs
  <2>3. AtMostOne({v \in Highest(vs) : TooOld(v)})
    BY <2>1, OneHighest DEF AtMostOne
  <2> QED BY <2>2, <2>3, AnswerHasOne
<1>9. FromSource(r) \in {FromCacheServer(r, q.kept), Answer(out.versions, PyPI, out.raised, q.kept)}
  <2>1. q.out = out
    BY <1>1 DEF Query
  <2>2. FromSource(r) \in {FromCacheServer(r, q.kept), Answer(q.out.versions, PyPI, q.out.raised, q.kept)}
    BY DEF FromSource, p
  <2> HIDE DEF q, out
  <2> QED BY <2>1, <2>2
<1> HIDE DEF q, out
<1> QED BY <1>7, <1>8, <1>9

LEMMA OneMore ==
  ASSUME NEW S, IsFiniteSet(S), NEW X, AtMostOne(X), NEW T, T \subseteq S \cup X
  PROVE  /\ IsFiniteSet(T) /\ Cardinality(T) <= Cardinality(S) + 1
         /\ X = {} => Cardinality(T) <= Cardinality(S)
<1>1. CASE X = {}
  <2>1. T \in SUBSET S
    BY <1>1
  <2>2. IsFiniteSet(T) /\ Cardinality(T) <= Cardinality(S)
    BY <2>1, FS_Subset
  <2> QED BY <2>2, FS_CardinalityType
<1>2. CASE X # {}
  <2>1. PICK x : X = {x}
    <3>1. PICK x : x \in X
      BY <1>2
    <3>2. X = {x}
      BY <3>1 DEF AtMostOne
    <3> QED BY <3>2
  <2>2. IsFiniteSet(S \cup {x}) /\ Cardinality(S \cup {x}) <= Cardinality(S) + 1
    <3>1. /\ IsFiniteSet(S \cup {x})
          /\ Cardinality(S \cup {x}) = IF x \in S THEN Cardinality(S) ELSE Cardinality(S) + 1
      BY FS_AddElement
    <3>2. Cardinality(S) \in Nat
      BY FS_CardinalityType
    <3> QED BY <3>1, <3>2
  <2>3. T \in SUBSET (S \cup {x})
    BY <2>1
  <2>4. IsFiniteSet(T) /\ Cardinality(T) <= Cardinality(S \cup {x})
    BY <2>2, <2>3, FS_Subset
  <2>5. Cardinality(T) \in Nat /\ Cardinality(S \cup {x}) \in Nat /\ Cardinality(S) \in Nat
    BY <2>2, <2>4, FS_CardinalityType
  <2> QED BY <1>2, <2>2, <2>4, <2>5
<1> QED BY <1>1, <1>2

LEMMA FewOldResolve ==
  ASSUME CooldownInv, TypeInv, FewOldInv, NEW r, Resolve(r)
  PROVE  FewOldInv'
<1> DEFINE rule  == <<r.text, FALSE>>
           look  == IF rule \in rules THEN [found |-> {}, raised |-> FALSE, kept |-> listings]
                    ELSE Lookup(r)
           table == Merge(known[FALSE], look.found)
<1>1. UNCHANGED <<w, index, run, now, prev>>
  BY DEF Resolve
<1>2. Limited' <=> Limited
  BY <1>1 DEF Limited
<1> SUFFICES ASSUME Limited
             PROVE  /\ prev' = {} /\ IsFiniteSet(rules') /\ IsFiniteSet(OldKnown')
                    /\ Cardinality(OldKnown') <= Cardinality(rules')
  BY <1>2 DEF FewOldInv
<1>3. w.prebuilt = FALSE
  BY DEF Limited, TypeInv, World
<1>4. /\ known' = [known EXCEPT ![FALSE] = table]
      /\ rules' = IF look.found = {} THEN rules ELSE rules \cup {rule}
  BY <1>3 DEF Resolve
<1>5. /\ prev = {} /\ IsFiniteSet(rules) /\ IsFiniteSet(OldKnown)
      /\ Cardinality(OldKnown) <= Cardinality(rules)
  BY DEF FewOldInv
<1>6. AtMostOne(OldOnes(look.found)) /\ (rule \in rules => look.found = {})
  <2>1. CASE rule \in rules
    <3>1. look.found = {}
      BY <2>1
    <3> HIDE DEF look
    <3> QED BY <3>1 DEF AtMostOne, OldOnes
  <2>2. CASE rule \notin rules
    <3>1. FromGraph(r, FALSE) = {}
      BY <1>5 DEF FromGraph
    <3>2. look = FromSource(r)
      BY <1>3, <2>2, <3>1 DEF Lookup
    <3> QED BY <2>2, <3>2, SourceHasOne
  <2> QED BY <2>1, <2>2
<1> HIDE DEF look, rule
<1>7. known'[FALSE] = table
  BY <1>4 DEF TypeInv
<1>8. OldKnown' = OldOnes(table)
  BY <1>1, <1>7 DEF OldKnown, OldOnes, TooOld
<1>9. OldOnes(table) \subseteq OldKnown \cup OldOnes(look.found)
  BY DEF OldKnown, OldOnes, Merge
<1> HIDE DEF table
<1>10. /\ IsFiniteSet(OldOnes(table))
       /\ Cardinality(OldOnes(table)) <= Cardinality(OldKnown) + 1
       /\ OldOnes(look.found) = {} => Cardinality(OldOnes(table)) <= Cardinality(OldKnown)
  BY <1>5, <1>6, <1>9, OneMore
<1>11. /\ Cardinality(OldOnes(table)) \in Nat /\ Cardinality(OldKnown) \in Nat
       /\ Cardinality(rules) \in Nat
  BY <1>5, <1>10, FS_CardinalityType
<1>12. CASE look.found = {}
  <2>1. OldOnes(look.found) = {}
    BY <1>12 DEF OldOnes
  <2> QED BY <1>1, <1>4, <1>5, <1>8, <1>10, <1>11, <1>12, <2>1
<1>13. CASE look.found # {}
  <2>1. rules' = rules \cup {rule} /\ rule \notin rules
    BY <1>4, <1>6, <1>13
  <2>2. IsFiniteSet(rules') /\ Cardinality(rules') = Cardinality(rules) + 1
    BY <1>5, <2>1, FS_AddElement
  <2> QED BY <1>1, <1>5, <1>8, <1>10, <1>11, <2>2
<1> QED BY <1>12, <1>13

LEMMA FewOldStep ==
  CooldownInv /\ TypeInv /\ FewOldInv /\ [Next]_vars => FewOldInv'
<1> SUFFICES ASSUME CooldownInv, TypeInv, FewOldInv, [Next]_vars
             PROVE  FewOldInv'
  OBVIOUS
<1>1. CASE ResolveTopLevel \/ ResolveBelow
  <2>1. PICK r \in Request : Resolve(r)
    BY <1>1, Requests
  <2> QED BY <2>1, FewOldResolve
<1>2. CASE Publish
  <2>1. UNCHANGED <<w, run, now, known, rules, prev>>
    BY <1>2 DEF Publish
  <2>2. \A t \in Server : index[t].files \subseteq index'[t].files
    BY <1>2, PublishGrows DEF TypeInv
  <2>3. OldKnown' \subseteq OldKnown
    BY <2>1, <2>2, ProvidersAssumption DEF OldKnown, OldOnes, TooOld
  <2> SUFFICES ASSUME Limited
               PROVE  /\ prev' = {} /\ IsFiniteSet(rules') /\ IsFiniteSet(OldKnown')
                      /\ Cardinality(OldKnown') <= Cardinality(rules')
    BY <2>1 DEF FewOldInv, Limited
  <2>4. /\ prev = {} /\ IsFiniteSet(rules) /\ IsFiniteSet(OldKnown)
        /\ Cardinality(OldKnown) <= Cardinality(rules)
    BY DEF FewOldInv
  <2>5. IsFiniteSet(OldKnown') /\ Cardinality(OldKnown') <= Cardinality(OldKnown)
    BY <2>3, <2>4, FS_Subset
  <2>6. /\ Cardinality(OldKnown') \in Nat /\ Cardinality(OldKnown) \in Nat
        /\ Cardinality(rules) \in Nat
    BY <2>4, <2>5, FS_CardinalityType
  <2> QED BY <2>1, <2>4, <2>5, <2>6
<1>3. CASE RunAgain
  BY <1>3 DEF RunAgain, FewOldInv, Limited
<1>4. CASE UNCHANGED vars
  <2>1. OldKnown' = OldKnown
    BY <1>4 DEF vars, OldKnown, OldOnes, TooOld
  <2> QED BY <1>4, <2>1 DEF vars, FewOldInv, Limited
<1> QED BY <1>1, <1>2, <1>3, <1>4 DEF Next

(* With several versions and a limit on age, each requirement brings in at most  *)
(* one version that is too old, however requests and uploads interleave         *)
(* (AgeFallback.NEWEST in find_all_matching_from_provider, _resolved_rules).   *)
THEOREM FewAreTooOld ==
  ASSUME NEW worlds \in SUBSET World, \A x \in worlds : FitWorld(x),
         NEW indexes \in SUBSET [Server -> Page], NEW today \in Nat
  PROVE  InitWith(worlds, indexes, today) /\ [][Next]_vars => []FewOldVersions
<1> DEFINE Inv == CooldownInv /\ TypeInv /\ FewOldInv
<1>1. InitWith(worlds, indexes, today) => Inv
  <2> SUFFICES ASSUME InitWith(worlds, indexes, today)
               PROVE  Inv
    OBVIOUS
  <2>1. CooldownInv /\ TypeInv
    BY CooldownStart, TypeStart DEF FitWorld
  <2>2. prev = {} /\ rules = {} /\ OldKnown = {}
    BY DEF InitWith, OldKnown, OldOnes
  <2>3. FewOldInv
    BY <2>2, FS_EmptySet DEF FewOldInv
  <2> QED BY <2>1, <2>3
<1>2. Inv => FewOldVersions
  <2> SUFFICES ASSUME FewOldInv, Limited
               PROVE  Cardinality(OldKnown) <= Cardinality(rules)
    BY DEF FewOldVersions, Limited, OldKnown, OldOnes, TooOld
  <2> QED BY DEF FewOldInv
<1>3. Inv /\ [Next]_vars => Inv'
  BY CooldownStep, TypeStep, FewOldStep
<1> QED BY <1>1, <1>2, <1>3, PTL
=============================================================================
