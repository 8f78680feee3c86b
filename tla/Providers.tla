----------------------------- MODULE Providers -----------------------------
(***************************************************************************)
(* Version providers (src/fromager/resolver.py): what a package index       *)
(* lists, which of it a provider lets through, and which of that a          *)
(* resolution returns.  Pure operators; RequirementResolver calls them.     *)
(*                                                                         *)
(* One package at a time: a page is what a server lists of it, a            *)
(* requirement is the set of versions its specifier admits.  Upload times   *)
(* are days.  Pre-releases, which a specifier may admit depending on the    *)
(* packaging library, are left out.                                        *)
(***************************************************************************)
EXTENDS Integers, FiniteSets

CONSTANTS
  Version,  \* numbers, a larger one is a later version
  Server,   \* the indexes
  PyPI,     \* pypi.org, the only index trusted to tell upload times
  None      \* an upload time, cooldown or age limit that is not there

ASSUME ProvidersAssumption ==
  Version \subseteq Nat /\ PyPI \in Server /\ None \notin Int

(* Why get_project_from_pypi skips a file.  "platform" is a wheel for another *)
(* platform, which a provider may be told to accept.                         *)
Fault == {"none", "unparsed", "kind", "yanked", "python", "version", "tags", "platform"}
File  == [version : Version, sdist : BOOLEAN, upload : Int \cup {None}, fault : Fault]
Page  == [status : {"active", "deprecated", "quarantined", "missing"}, files : SUBSET File]

(* A provider: the index it asks, the files it takes, whether it may be told *)
(* to accept other platforms, whether a missing upload time is held against  *)
(* a file, whether it keeps listings, and the minimum age.                   *)
Provider == [server : Server, sdists : BOOLEAN, wheels : BOOLEAN, anyPlatform : BOOLEAN,
             timestamps : BOOLEAN, caches : BOOLEAN, cooldown : Int \cup {None}]

(* PyPIProvider.__init__ with the defaults that settings leave in place.     *)
PyPIProvider(server, sdists, wheels, anyPlatform, cooldown) ==
  [server |-> server, sdists |-> sdists, wheels |-> wheels, anyPlatform |-> anyPlatform,
   timestamps |-> server = PyPI, caches |-> TRUE, cooldown |-> cooldown]

(* PyPICacheProvider: fully trusted, sdists or wheels but not both.          *)
PyPICacheProvider(server, sdists) ==
  [PyPIProvider(server, sdists, ~sdists, FALSE, None) EXCEPT !.timestamps = FALSE]

CacheKey(p) == <<p.server, p.anyPlatform>>

-----------------------------------------------------------------------------
(* An outcome: versions, or an exception, which is not the same as none.     *)
Raises      == [raised |-> TRUE,  versions |-> {}]
Returns(vs) == [raised |-> FALSE, versions |-> vs]

(* get_project_from_pypi: the files that can be candidates at all.           *)
ProjectFiles(page, anyPlatform) ==
  {f \in page.files : f.fault = "none" \/ (anyPlatform /\ f.fault = "platform")}

(* A missing or quarantined project is an exception.                         *)
Reachable(page) == page.status \in {"active", "deprecated"}

(* Mutant: every resolution lists the index again. *)
UncachedFiles(p, page, listings) ==
  IF Reachable(page) THEN ProjectFiles(page, p.anyPlatform) ELSE {}

(* _find_cached_candidates: the listing kept for this provider, unless it is  *)
(* empty, which counts as not cached.                                        *)
CandidateFiles(p, page, listings) ==
  IF p.caches /\ listings[CacheKey(p)] # {} THEN listings[CacheKey(p)]
  ELSE IF Reachable(page) THEN ProjectFiles(page, p.anyPlatform)
  ELSE {}

(* The listings after that call; an exception leaves an empty one.           *)
KeepListing(p, page, listings) ==
  IF p.caches THEN [listings EXCEPT ![CacheKey(p)] = CandidateFiles(p, page, listings)]
  ELSE listings

(* validate_candidate, is_satisfied_by: the requirement, the constraint, the *)
(* kinds of files.                                                           *)
IsSatisfiedBy(p, admitted, constraint, f) ==
  /\ f.version \in admitted \cap constraint.versions
  /\ IF f.sdist THEN p.sdists ELSE p.wheels

(* is_blocked_by_cooldown: too new, or of unknown age on an index that tells  *)
(* upload times.                                                             *)
IsBlockedByCooldown(p, f, now) ==
  /\ p.cooldown # None
  /\ IF f.upload = None THEN p.timestamps ELSE f.upload > now - p.cooldown

(* find_matches; nothing left is an exception.                               *)
FindMatches(p, page, listings, admitted, constraint, now) ==
  {f \in CandidateFiles(p, page, listings) :
     IsSatisfiedBy(p, admitted, constraint, f) /\ ~IsBlockedByCooldown(p, f, now)}

VersionsOf(files) == {f.version : f \in files}
Highest(vs)       == {v \in vs : \A u \in vs : u <= v}

(* The age filter: what was uploaded before the cutoff is too old.           *)
RecentEnough(files, cutoff) == {f \in files : f.upload = None \/ f.upload >= cutoff}

(* find_all_matching_from_provider.  The age filter does not apply to a       *)
(* package pinned by a constraint, and falls back to all, to the newest or to *)
(* no version when nothing is recent enough.                                 *)
FindAllMatching(p, page, listings, admitted, constraint, now, maxAge, fallback) ==
  LET matches == FindMatches(p, page, listings, admitted, constraint, now)
      recent  == RecentEnough(matches, now - maxAge)
  IN  CASE matches = {} -> Raises
        [] matches # {} /\ (maxAge = None \/ constraint.pin) -> Returns(VersionsOf(matches))
        [] OTHER ->
             IF recent # {} THEN Returns(VersionsOf(recent))
             ELSE CASE fallback = "all"    -> Returns(VersionsOf(matches))
                    [] fallback = "newest" -> Returns(Highest(VersionsOf(matches)))
                    [] fallback = "none"   -> Returns({})

-----------------------------------------------------------------------------
(* Mutant: every exact pin is exempt, not only those of the command line. *)
CooldownOfTopLevelPins(type, pin, global, own) ==
  IF pin THEN None
  ELSE IF own = None THEN global
  ELSE IF own = 0 THEN None
  ELSE own

(* resolve_package_cooldown: none for an exact pin of the command line, the   *)
(* package's own setting if it has one, where 0 disables it, else the global. *)
PackageCooldown(type, pin, global, own) ==
  IF type = "toplevel" /\ pin THEN None
  ELSE IF own = None THEN global
  ELSE IF own = 0 THEN None
  ELSE own
=============================================================================
