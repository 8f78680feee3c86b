----------------------- MODULE MCRequirementResolver -----------------------
(***************************************************************************)
(* An instance for TLC: one package with three versions, on day 10.         *)
(***************************************************************************)
EXTENDS RequirementResolver, TLC

F(v, sdist, day, fault) == [version |-> v, sdist |-> sdist, upload |-> day, fault |-> fault]
On(files)  == [status |-> "active", files |-> files]
Empty      == [status |-> "missing", files |-> {}]

(* PyPI: releases in order; a backport after the next release; files that a   *)
(* provider skips; only wheels; nothing yet.                                 *)
PyPIPages ==
  { On({F(1, TRUE, 5, "none"), F(2, TRUE, 8, "none"), F(3, TRUE, 9, "none"), F(2, FALSE, 8, "none")}),
    On({F(1, TRUE, 5, "none"), F(2, TRUE, 10, "none"), F(3, TRUE, 6, "none")}),
    On({F(1, TRUE, 5, "none"), F(2, TRUE, None, "none"), F(3, TRUE, 8, "yanked"), F(3, FALSE, 8, "platform")}),
    On({F(1, FALSE, 7, "none"), F(2, FALSE, 9, "tags"), F(2, FALSE, 9, "none")}),
    [status |-> "quarantined", files |-> {F(1, TRUE, 5, "none")}],
    Empty }

Indexes ==
  {(PyPI :> p) @@ (Local :> l) @@ (Cache :> c) :
     p \in PyPIPages, l \in {Empty, On({F(1, FALSE, None, "none")})},
     c \in {On({F(1, FALSE, None, "none"), F(2, TRUE, None, "none")})}}

R(text, admits, type, parent) ==
  [text |-> text, admits |-> admits, pin |-> Cardinality(admits) = 1, type |-> type, parent |-> parent]

Tops ==
  { <<>>, <<R("==2", {2}, "toplevel", CommandLine)>>,
    <<R("", 1..3, "toplevel", CommandLine), R("==3", {3}, "toplevel", CommandLine)>> }

Belows ==
  { {R("", 1..3, "install", "a"), R("", 1..3, "build-system", "b"), R("<3", 1..2, "install", "b")},
    {R("", 1..3, "install", "a"), R(">=2", 2..3, "install", "b"), R("==3", {3}, "install", "b")} }

(* The options of a run: limits of age, several versions with or without a    *)
(* cache server, prebuilt wheels, constraints, settings of the package.       *)
Plain ==
  [multiple |-> FALSE, cacheServer |-> FALSE, prebuilt |-> FALSE, sdists |-> TRUE, wheels |-> FALSE,
   anyPlatform |-> FALSE, cooldown |-> None, ownAge |-> None, maxAge |-> None,
   constraint |-> [versions |-> 1..3, pin |-> FALSE]]

Options ==
  { Plain,
    [Plain EXCEPT !.multiple = TRUE],
    [Plain EXCEPT !.wheels = TRUE, !.anyPlatform = TRUE],
    [Plain EXCEPT !.cooldown = 2],
    [Plain EXCEPT !.cooldown = 4, !.ownAge = 1, !.multiple = TRUE],
    [Plain EXCEPT !.cooldown = 2, !.ownAge = 0],
    [Plain EXCEPT !.prebuilt = TRUE],
    [Plain EXCEPT !.prebuilt = TRUE, !.cooldown = 2],
    [Plain EXCEPT !.maxAge = 3],
    [Plain EXCEPT !.maxAge = 1, !.multiple = TRUE, !.cacheServer = TRUE],
    [Plain EXCEPT !.maxAge = 3, !.cooldown = 2, !.multiple = TRUE],
    [Plain EXCEPT !.constraint = [versions |-> {2}, pin |-> TRUE], !.maxAge = 1],
    [Plain EXCEPT !.constraint = [versions |-> 1..2, pin |-> FALSE], !.multiple = TRUE] }

Worlds ==
  {[multiple |-> o.multiple, cacheServer |-> o.cacheServer, prebuilt |-> o.prebuilt,
    sdists |-> o.sdists, wheels |-> o.wheels, anyPlatform |-> o.anyPlatform,
    cooldown |-> o.cooldown, ownAge |-> o.ownAge, maxAge |-> o.maxAge,
    constraint |-> o.constraint, top |-> t, below |-> b] : o \in Options, t \in Tops, b \in Belows}

(* The theorems are about such worlds. *)
ASSUME WorldsAssumption == \A x \in Worlds : FitWorld(x)

Spec == InitWith(Worlds, Indexes, 10) /\ [][Next]_vars
=============================================================================
