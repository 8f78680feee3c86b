--------------------------- MODULE MCBootstrapper ---------------------------
(***************************************************************************)
(* Small instances of Bootstrapper: sets of universes over three names.     *)
(***************************************************************************)
EXTENDS Bootstrapper

CONSTANT root

MCName  == 1..3
MCNames == 1..4

Any(n)       == [name |-> n, extras |-> FALSE, spec |-> Version]
WithExtra(n) == [Any(n) EXCEPT !.extras = TRUE]
Pinned(n, v) == [Any(n) EXCEPT !.spec = {v}]

(* Every version of a name has the same requirements, but for those given.   *)
PerName(f) == [p \in Pkg |-> f[p[1]]]

Needs(pairs) == PerName([n \in Name |-> {Any(x[2]) : x \in {x \in pairs : x[1] = n}}])

Nothing == Needs({})

Plain == [top |-> <<Any(1)>>, sdists |-> Name \X {1}, wheels |-> {}, cache |-> {},
          prebuilt |-> {}, exclusive |-> {}, system |-> Nothing, backend |-> Nothing,
          sdist |-> Nothing, install |-> Nothing, extra |-> Nothing]

(* Two packages are unrelated, one requires the other in either way, or each *)
(* installs the other; every combination over the three pairs of names.      *)
Relation(m, n) ==
  {[system |-> {}, install |-> {}],
   [system |-> {<<m, n>>}, install |-> {}], [system |-> {<<n, m>>}, install |-> {}],
   [system |-> {}, install |-> {<<m, n>>}], [system |-> {}, install |-> {<<n, m>>}],
   [system |-> {}, install |-> {<<m, n>>, <<n, m>>}]}

AllPlain ==
  {[Plain EXCEPT !.system  = Needs(x.system \cup y.system \cup z.system),
                 !.install = Needs(x.install \cup y.install \cup z.install)] :
     x \in Relation(1, 2), y \in Relation(2, 3), z \in Relation(1, 3)}

(* 1 needs 2, to be built and then, through the backend, with extras; 2 has   *)
(* an extra that installs 3; 3 asks for 2 again.                             *)
Extras ==
  [Plain EXCEPT !.system[<<1, 1>>] = {Any(2)}, !.backend[<<1, 1>>] = {WithExtra(2)},
                !.extra[<<2, 1>>] = {Any(3)}, !.sdist[<<1, 1>>] = {Any(3)}]

(* 1 needs a pinned version of 2, which its backend asks for unpinned.        *)
Versions ==
  [Plain EXCEPT !.sdists = Name \X Version,
                !.system[<<1, 2>>] = {Pinned(2, 1)}, !.backend[<<1, 2>>] = {Any(2), Any(3)},
                !.install[<<3, 2>>] = {Any(2)}, !.install[<<2, 1>>] = {Pinned(3, 1)}]

(* 1 asks its backend for what its build system asked for already.            *)
Shared ==
  [Plain EXCEPT !.system[<<1, 1>>] = {Any(2)}, !.backend[<<1, 1>>] = {Any(2), Any(3)},
                !.install[<<2, 1>>] = {Any(3)}]

(* 1 asks for 2 with an extra twice and, the second time, for 3 as well.       *)
Overlap ==
  [Plain EXCEPT !.system[<<1, 1>>] = {WithExtra(2)}, !.backend[<<1, 1>>] = {WithExtra(2), Any(3)}]

(* 2 is asked for with its extra only, by 1, which builds with it, and by 3,    *)
(* which its extra installs.                                                 *)
Extended ==
  [Plain EXCEPT !.system[<<1, 1>>] = {WithExtra(2)}, !.extra[<<2, 1>>] = {Any(3)},
                !.install[<<3, 1>>] = {WithExtra(2)}]

(* The same requirements with wheels from elsewhere.                         *)
Provisioned(w) ==
  {w, [w EXCEPT !.prebuilt = {2}, !.wheels = {<<2, 1>>}],
      [w EXCEPT !.cache = {<<2, 1>>, <<3, 1>>}, !.exclusive = {1}]}

Crafted == UNION {Provisioned(w) : w \in {Extras, Versions, Shared, Overlap, Extended}}

From(top, universes) == {[w EXCEPT !.top = top] : w \in universes}

(* What BuildHasItsRequirements is about.                                    *)
MCOverlap == From(<<Any(1)>>, Provisioned(Overlap) \cup Provisioned(Shared))

MCNormal ==
  From(<<Any(1)>>, AllPlain \cup Crafted) \cup From(<<Any(2), Any(1), Any(3)>>, AllPlain \cup Crafted)

(* One top-level requirement, or two of which one is a build requirement.     *)
MCSdistOnly ==
  From(<<Any(1)>>, AllPlain \cup Crafted) \cup From(<<Any(3), Any(2)>>, Crafted)

(* Some packages have a wheel on the index for test mode to fall back on, of   *)
(* the version that fails or of another; one requirement has no candidate.    *)
MCTest ==
  LET all == AllPlain \cup {Extras, Versions, Shared}
  IN  From(<<Any(1)>>, {[w EXCEPT !.wheels = {<<2, 1>>, <<1, 2>>}] : w \in all}
                         \cup {[Shared EXCEPT !.sdists = {<<1, 1>>, <<2, 1>>}]})
      \cup From(<<Any(2), Any(1)>>, {[w EXCEPT !.exclusive = {2}] : w \in all})

(* 1 and 2 are asked for, each needs 3 to be built, and 3 installs 4.          *)
MCMultiple ==
  {[Plain EXCEPT !.top = <<Any(1), Any(2)>>, !.system = Needs({<<1, 3>>, <<2, 3>>}),
                 !.install = Needs({<<3, 4>>})]}
=============================================================================
