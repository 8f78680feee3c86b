------------------------- MODULE ConstraintsProofs -------------------------
(***************************************************************************)
(* What holds of the versions that write_constraints_file picks, for every   *)
(* graph and whatever its requirements admit.                               *)
(***************************************************************************)
EXTENDS ConstraintsFile, FiniteSetTheorems, TLAPS

(* A graph as it is read: finite, with edges that admit what they lead to; the *)
(* candidates are packages, with all that they install.                      *)
Readable ==
  /\ IsFiniteSet(graph.edges) /\ candidates \subseteq Package
  /\ \A e \in graph.edges :
       /\ e.child \in admits[e]
       /\ e.type = "install" /\ e.parent \in candidates => e.child \in candidates

ChoiceInit ==
  /\ Readable /\ writing = "no"
  /\ resolved = {} /\ conflicting = {} /\ todo = {} /\ progress = FALSE

ChoiceSpec == ChoiceInit /\ [][WriteConstraints]_constraintsVars

(* An edge of a parent of which another version was chosen.                  *)
Dropped(e) == \E q \in resolved : Name(q) = Name(e.parent) /\ q # e.parent

(* The edges from candidates that refuse a version, but for those dropped.     *)
Against(p) ==
  {e \in graph.edges :
     /\ e.type = "install" /\ e.parent \in candidates /\ ~Dropped(e)
     /\ Name(e.child) = Name(p) /\ p \notin admits[e]}

(* No edge that is not dropped refuses a chosen version, whether its parent was *)
(* chosen before, is chosen later or never; or one does, if only the command   *)
(* line asks for that version.                                               *)
ChosenFit == \A p \in resolved : Cardinality(Against(p)) <= OwnUsers(p)

(* A name was given up although a version that a package installs fits all    *)
(* consumers only if all of them are dropped.                                *)
GivenUpUnused ==
  \A n \in conflicting : \A p \in UsableByConsumers(n) :
    InstallEdges(p) = {} \/ \A e \in Consumers(n) : Dropped(e)

ChoiceInv == Readable /\ ConstraintsTypeOK /\ ChosenFit /\ GivenUpUnused

-----------------------------------------------------------------------------
(* The users of a name are finitely many consumers.                          *)
LEMMA UsersFinite ==
  ASSUME Readable, NEW n
  PROVE  IsFiniteSet(Users(n)) /\ Users(n) = {e \in Consumers(n) : ~Dropped(e)}
<1>1. Users(n) = {e \in Consumers(n) : ~Dropped(e)}
  BY DEF Users, Consumers, Dropped
<1>2. Users(n) \in SUBSET graph.edges
  BY <1>1 DEF Consumers, InstallEdges
<1> QED BY <1>1, <1>2, FS_Subset DEF Readable

(* As many users refuse a usable version as it counts itself.                 *)
LEMMA UsableRefused ==
  ASSUME Readable, NEW n, NEW p \in Usable(n)
  PROVE  /\ UsersOf(p) = {e \in Users(n) : p \in admits[e]}
         /\ IsFiniteSet(Users(n) \ UsersOf(p))
         /\ Cardinality(Users(n) \ UsersOf(p)) = OwnUsers(p)
<1>1. Name(p) = n /\ OwnUsers(p) \in Nat
  BY DEF Usable, Named, OwnUsers
<1>2. UsersOf(p) = {e \in Users(n) : p \in admits[e]}
  BY <1>1 DEF UsersOf
<1>3. IsFiniteSet(Users(n)) /\ UsersOf(p) \in SUBSET Users(n)
  BY <1>2, UsersFinite
<1>4. /\ IsFiniteSet(UsersOf(p)) /\ IsFiniteSet(Users(n) \ UsersOf(p))
      /\ Cardinality(UsersOf(p)) \in Nat /\ Cardinality(Users(n)) \in Nat
  BY <1>3, FS_Subset, FS_CardinalityType
<1>5. Users(n) \cap UsersOf(p) = UsersOf(p)
  BY <1>3
<1>6. Cardinality(Users(n) \ UsersOf(p)) = Cardinality(Users(n)) - Cardinality(UsersOf(p))
  BY <1>3, <1>5, FS_Difference
<1>7. Cardinality(UsersOf(p)) + OwnUsers(p) = Cardinality(Users(n))
  BY DEF Usable
<1> QED BY <1>1, <1>2, <1>4, <1>6, <1>7

(* A version that a package installs is usable if there are users and it fits  *)
(* them all.                                                                 *)
LEMMA UsableFits ==
  ASSUME Readable, NEW n, NEW p \in Named(n), InstallEdges(p) # {},
         Users(n) # {}, \A e \in Users(n) : p \in admits[e]
  PROVE  p \in Usable(n)
<1>1. Name(p) = n /\ OwnUsers(p) = 0
  BY DEF Named, OwnUsers
<1>2. UsersOf(p) = Users(n)
  BY <1>1 DEF UsersOf
<1>3. Cardinality(Users(n)) \in Nat /\ Cardinality(Users(n)) # 0
  BY UsersFinite, FS_CardinalityType, FS_EmptySet
<1> QED BY <1>1, <1>2, <1>3 DEF Usable

(* The highest of the usable versions is one, and only one.                  *)
LEMMA HighestIsOne ==
  ASSUME Readable, NEW n, NEW p \in Highest(Usable(n)), NEW q \in Highest(Usable(n))
  PROVE  p = q /\ p \in Named(n) /\ p \in Usable(n) /\ Name(p) = n
<1>1. p \in Usable(n) /\ q \in Usable(n) /\ q[2] <= p[2] /\ p[2] <= q[2]
  BY DEF Highest
<1>2. p \in candidates /\ q \in candidates /\ p[1] = n /\ q[1] = n
  BY <1>1 DEF Usable, Named, Name
<1>3. p \in Nat \X Nat /\ q \in Nat \X Nat
  BY <1>2, PackageAssumption DEF Readable
<1>4. p = q
  BY <1>1, <1>2, <1>3
<1> QED BY <1>1, <1>2, <1>4 DEF Usable, Name

-----------------------------------------------------------------------------
LEMMA ChooseSinglesKeeps ==
  ASSUME ChoiceInv, ChooseSingles
  PROVE  ChoiceInv'
<1>1. UNCHANGED <<graph, admits, candidates>> /\ resolved' = {p \in candidates : Single(Name(p))}
  BY DEF ChooseSingles
<1>2. todo' = {} /\ conflicting' = {} /\ progress' = TRUE /\ writing' = "choosing"
  BY DEF ChooseSingles
<1>3. Readable'
  BY <1>1 DEF Readable, ChoiceInv
<1>4. ConstraintsTypeOK'
  BY <1>1, <1>2 DEF ConstraintsTypeOK, ChoiceInv, Readable, Single, Named, Unresolved
<1>5. ChosenFit'
  <2> SUFFICES ASSUME NEW p \in resolved'
               PROVE  Cardinality(Against(p)') <= OwnUsers(p)'
    BY DEF ChosenFit
  <2>1. ASSUME NEW e \in graph.edges, e.type = "install", e.parent \in candidates,
               Name(e.child) = Name(p)
        PROVE  p \in admits[e]
    <3>1. e.child \in candidates /\ e.child \in admits[e]
      BY <2>1 DEF ChoiceInv, Readable
    <3>2. p = e.child
      BY <1>1, <2>1, <3>1 DEF Single, Named
    <3> QED BY <3>1, <3>2
  <2>2. Against(p)' = {}
    BY <1>1, <2>1 DEF Against
  <2>3. OwnUsers(p)' \in {0, 1}
    BY DEF OwnUsers
  <2> QED BY <2>2, <2>3, FS_EmptySet
<1>6. GivenUpUnused'
  BY <1>2 DEF GivenUpUnused
<1> QED BY <1>3, <1>4, <1>5, <1>6 DEF ChoiceInv

(* Choosing more drops more, and changes neither graph nor consumers.         *)
LEMMA DropsGrow ==
  ASSUME UNCHANGED <<graph, admits, candidates>>, resolved \subseteq resolved'
  PROVE  /\ \A e : Dropped(e) => Dropped(e)'
         /\ \A p : /\ InstallEdges(p)' = InstallEdges(p) /\ OwnUsers(p)' = OwnUsers(p)
                   /\ Against(p)' \subseteq Against(p)
         /\ \A n : /\ Consumers(n)' = Consumers(n)
                   /\ UsableByConsumers(n)' = UsableByConsumers(n)
<1>1. \A e : Dropped(e) => Dropped(e)'
  BY DEF Dropped
<1>2. \A n : Named(n)' = Named(n)
  BY DEF Named
<1>3. \A p : InstallEdges(p)' = InstallEdges(p)
  BY DEF InstallEdges
<1>4. ASSUME NEW n PROVE Consumers(n)' = Consumers(n)
  BY <1>2, <1>3, Zenon DEF Consumers
<1>5. ASSUME NEW p PROVE OwnUsers(p)' = OwnUsers(p)
  BY <1>3, Zenon DEF OwnUsers
<1>6. ASSUME NEW n PROVE UsableByConsumers(n)' = UsableByConsumers(n)
  BY <1>2, <1>4, Zenon DEF UsableByConsumers
<1>7. ASSUME NEW p PROVE Against(p)' \subseteq Against(p)
  BY <1>1 DEF Against
<1> QED BY <1>1, <1>3, <1>4, <1>5, <1>6, <1>7, Zenon

(* A chosen version stays as acceptable as it was.                            *)
LEMMA FitStays ==
  ASSUME UNCHANGED <<graph, admits, candidates>>, resolved \subseteq resolved',
         Readable, NEW p, Cardinality(Against(p)) <= OwnUsers(p)
  PROVE  Cardinality(Against(p)') <= OwnUsers(p)'
<1>1. Against(p)' \in SUBSET Against(p) /\ OwnUsers(p)' = OwnUsers(p)
  BY DropsGrow
<1>2. Against(p) \in SUBSET graph.edges
  BY DEF Against
<1>3. IsFiniteSet(Against(p))
  BY <1>2, FS_Subset DEF Readable
<1>4. IsFiniteSet(Against(p)') /\ Cardinality(Against(p)') <= Cardinality(Against(p))
  BY <1>1, <1>3, FS_Subset
<1>5. Cardinality(Against(p)') \in Nat /\ Cardinality(Against(p)) \in Nat
  BY <1>3, <1>4, FS_CardinalityType
<1> QED BY <1>1, <1>4, <1>5 DEF OwnUsers

LEMMA ResolveKeeps ==
  ASSUME ChoiceInv, NEW n \in todo, todo' = todo \ {n}, n \notin conflicting,
         resolved' = resolved \cup Highest(Usable(n)), progress' = TRUE,
         UNCHANGED <<graph, admits, candidates, conflicting, writing>>
  PROVE  ChoiceInv'
<1>1. Readable' /\ Readable
  BY DEF ChoiceInv, Readable
<1>2. \A p, q \in Highest(Usable(n)) : p = q /\ p \in candidates /\ Name(p) = n
  BY <1>1, HighestIsOne DEF Named
<1>3. n \in Unresolved /\ \A p \in resolved : Name(p) # n
  BY DEF ChoiceInv, ConstraintsTypeOK, Unresolved
<1>4. ConstraintsTypeOK'
  <2>1. resolved' \subseteq candidates' /\ candidates' \subseteq Package
    BY <1>2 DEF ChoiceInv, ConstraintsTypeOK
  <2>2. \A p, q \in resolved' : Name(p) = Name(q) => p = q
    BY <1>2, <1>3 DEF ChoiceInv, ConstraintsTypeOK
  <2>3. Unresolved \ {n} \subseteq Unresolved'
    BY <1>2 DEF Unresolved, Names
  <2>4. conflicting' \subseteq Unresolved' /\ todo' \subseteq Unresolved'
    BY <2>3 DEF ChoiceInv, ConstraintsTypeOK
  <2> QED BY <2>1, <2>2, <2>4 DEF ChoiceInv, ConstraintsTypeOK
<1>5. ASSUME NEW p \in Highest(Usable(n))
      PROVE  Cardinality(Against(p)') <= OwnUsers(p)'
  <2>1. Name(p) = n /\ p \in Usable(n)
    BY <1>1, HighestIsOne
  <2>2. ASSUME NEW e \in Against(p)
        PROVE  e \in Users(n) \ UsersOf(p)
    <3>1. /\ e \in graph.edges /\ e.type = "install" /\ e.parent \in candidates
          /\ ~Dropped(e) /\ Name(e.child) = n /\ p \notin admits[e]
      BY <2>1, <2>2 DEF Against
    <3>2. e.child \in Named(n)
      BY <3>1, <1>1 DEF Readable, Named
    <3>3. e \in Users(n)
      BY <3>1, <3>2, <1>1, UsersFinite DEF Consumers, InstallEdges
    <3> QED BY <3>1, <3>3 DEF UsersOf
  <2>3. Against(p) \in SUBSET (Users(n) \ UsersOf(p))
    BY <2>2
  <2>4. /\ IsFiniteSet(Users(n) \ UsersOf(p))
        /\ Cardinality(Users(n) \ UsersOf(p)) = OwnUsers(p)
    BY <1>1, <2>1, UsableRefused
  <2>5. Cardinality(Against(p)) <= OwnUsers(p)
    BY <2>3, <2>4, FS_Subset
  <2> QED BY <1>1, <2>5, FitStays
<1>6. ChosenFit'
  <2> SUFFICES ASSUME NEW p \in resolved'
               PROVE  Cardinality(Against(p)') <= OwnUsers(p)'
    BY DEF ChosenFit
  <2>1. CASE p \in resolved
    BY <2>1, <1>1, FitStays DEF ChoiceInv, ChosenFit
  <2> QED BY <2>1, <1>5
<1>7. GivenUpUnused'
  BY DropsGrow DEF ChoiceInv, GivenUpUnused
<1> QED BY <1>1, <1>4, <1>6, <1>7 DEF ChoiceInv

LEMMA GiveUpKeeps ==
  ASSUME ChoiceInv, NEW n \in todo, todo' = todo \ {n}, n \notin conflicting, Usable(n) = {},
         conflicting' = conflicting \cup {n},
         UNCHANGED <<graph, admits, candidates, resolved, progress, writing>>
  PROVE  ChoiceInv'
<1>1. Readable' /\ Readable
  BY DEF ChoiceInv, Readable
<1>2. ConstraintsTypeOK'
  BY DEF ChoiceInv, ConstraintsTypeOK, Unresolved, Names
<1>3. \A e : Dropped(e)' <=> Dropped(e)
  BY DEF Dropped
<1>4. ChosenFit'
  BY <1>1, FitStays DEF ChoiceInv, ChosenFit
<1>5. ASSUME NEW p \in UsableByConsumers(n), InstallEdges(p) # {}, NEW e \in Consumers(n)
      PROVE  Dropped(e)
  <2> SUFFICES ASSUME ~Dropped(e) PROVE FALSE
    OBVIOUS
  <2>1. p \in Named(n) /\ \A d \in Consumers(n) : p \in admits[d]
    BY DEF UsableByConsumers
  <2>2. e \in Users(n) /\ Users(n) \subseteq Consumers(n)
    BY <1>1, UsersFinite
  <2> QED BY <1>1, <1>5, <2>1, <2>2, UsableFits
<1>6. GivenUpUnused'
  BY <1>3, <1>5, DropsGrow DEF ChoiceInv, GivenUpUnused
<1> QED BY <1>1, <1>2, <1>4, <1>6 DEF ChoiceInv

LEMMA BookkeepingKeeps ==
  ASSUME ChoiceInv, UNCHANGED <<graph, admits, candidates, resolved, conflicting>>,
         todo' \subseteq Unresolved, progress' \in BOOLEAN,
         writing' \in {"unread", "no", "choosing", "done"}
  PROVE  ChoiceInv'
<1>1. Readable' /\ ConstraintsTypeOK'
  BY DEF ChoiceInv, Readable, ConstraintsTypeOK, Unresolved, Names
<1>2. ChosenFit'
  BY FitStays DEF ChoiceInv, ChosenFit
<1>3. GivenUpUnused'
  BY DropsGrow DEF ChoiceInv, GivenUpUnused
<1> QED BY <1>1, <1>2, <1>3 DEF ChoiceInv

LEMMA ChoiceStart == ChoiceInit => ChoiceInv
  BY DEF ChoiceInit, ChoiceInv, Readable, ConstraintsTypeOK, ChosenFit, GivenUpUnused, Unresolved

LEMMA ChoiceStep == ChoiceInv /\ [WriteConstraints]_constraintsVars => ChoiceInv'
<1> SUFFICES ASSUME ChoiceInv, [WriteConstraints]_constraintsVars
             PROVE  ChoiceInv'
  OBVIOUS
<1>1. CASE ChooseSingles
  BY <1>1, ChooseSinglesKeeps
<1>2. CASE StartPass
  BY <1>2, BookkeepingKeeps DEF StartPass, ChoiceInv, ConstraintsTypeOK
<1>3. CASE Consider
  <2>1. PICK n \in todo :
          /\ todo' = todo \ {n}
          /\ \/ n \in conflicting /\ UNCHANGED <<resolved, conflicting, progress>>
             \/ /\ n \notin conflicting /\ Usable(n) # {}
                /\ resolved' = resolved \cup Highest(Usable(n))
                /\ progress' = TRUE /\ UNCHANGED conflicting
             \/ /\ n \notin conflicting /\ Usable(n) = {}
                /\ conflicting' = conflicting \cup {n}
                /\ UNCHANGED <<resolved, progress>>
    BY <1>3 DEF Consider
  <2>2. UNCHANGED <<graph, admits, candidates, writing>>
    BY <1>3 DEF Consider
  <2>3. CASE n \in conflicting /\ UNCHANGED <<resolved, conflicting, progress>>
    BY <2>1, <2>2, <2>3, BookkeepingKeeps DEF ChoiceInv, ConstraintsTypeOK
  <2>4. CASE n \notin conflicting /\ resolved' = resolved \cup Highest(Usable(n))
             /\ progress' = TRUE /\ UNCHANGED conflicting
    BY <2>1, <2>2, <2>4, ResolveKeeps
  <2>5. CASE n \notin conflicting /\ Usable(n) = {} /\ conflicting' = conflicting \cup {n}
             /\ UNCHANGED <<resolved, progress>>
    BY <2>1, <2>2, <2>5, GiveUpKeeps
  <2> QED BY <2>1, <2>3, <2>4, <2>5
<1>4. CASE Finish
  BY <1>4, BookkeepingKeeps DEF Finish, ChoiceInv, ConstraintsTypeOK
<1>5. CASE UNCHANGED constraintsVars
  BY <1>5, BookkeepingKeeps DEF constraintsVars, ChoiceInv, ConstraintsTypeOK
<1> QED BY <1>1, <1>2, <1>3, <1>4, <1>5 DEF WriteConstraints

-----------------------------------------------------------------------------
(* One version of each name at most is chosen, and no name is both chosen and  *)
(* given up (write_constraints_file).                                        *)
THEOREM OneVersionEach == ChoiceSpec => []ConstraintsTypeOK
<1>1. ChoiceInv => ConstraintsTypeOK
  BY DEF ChoiceInv
<1> QED BY <1>1, ChoiceStart, ChoiceStep, PTL DEF ChoiceSpec

(* For every graph, and in every order of its names, no chosen package refuses  *)
(* a chosen version that some package installs, and one package at most refuses *)
(* one that only the command line asks for: a parent that is not settled when a *)
(* version is picked counts as a user (write_constraints_file).               *)
THEOREM ChoicesFit == ChoiceSpec => []InstallsFit
<1>1. ChoiceInv => InstallsFit
  <2> SUFFICES ASSUME ChoiceInv, NEW p \in resolved
               PROVE  Cardinality(Refusing(p)) <= OwnUsers(p)
    BY DEF InstallsFit
  <2>1. ASSUME NEW e, e.parent \in resolved
        PROVE  e.parent \in candidates /\ ~Dropped(e)
    BY <2>1 DEF ChoiceInv, ConstraintsTypeOK, Dropped
  <2>2. Refusing(p) \in SUBSET Against(p) /\ Against(p) \in SUBSET graph.edges
    BY <2>1 DEF Refusing, Against
  <2>3. IsFiniteSet(Against(p))
    BY <2>2, FS_Subset DEF ChoiceInv, Readable
  <2>4. /\ IsFiniteSet(Refusing(p))
        /\ Cardinality(Refusing(p)) <= Cardinality(Against(p))
    BY <2>2, <2>3, FS_Subset
  <2>5. Cardinality(Refusing(p)) \in Nat /\ Cardinality(Against(p)) \in Nat
    BY <2>3, <2>4, FS_CardinalityType
  <2>6. Cardinality(Against(p)) <= OwnUsers(p) /\ OwnUsers(p) \in Nat
    BY DEF ChoiceInv, ChosenFit, OwnUsers
  <2> QED BY <2>4, <2>5, <2>6
<1> QED BY <1>1, ChoiceStart, ChoiceStep, PTL DEF ChoiceSpec

(* If a name is given up of which explain-duplicates finds a version usable by  *)
(* all consumers, only the command line asks for that version, or of every      *)
(* consumer another version was chosen (write_constraints_file,                *)
(* show_explain_duplicates).                                                 *)
THEOREM ReportsAgree == ChoiceSpec => []ExplainAgrees
<1>1. ChoiceInv => ExplainAgrees
  <2> SUFFICES ASSUME ChoiceInv, NEW n \in conflicting, NEW p \in UsableByConsumers(n),
                      InstallEdges(p) # {}, NEW e \in Consumers(n)
               PROVE  e.parent \notin resolved /\ Name(e.parent) \notin Unresolved
    BY DEF ExplainAgrees
  <2>1. Dropped(e)
    BY DEF ChoiceInv, GivenUpUnused
  <2> QED BY <2>1 DEF Dropped, ChoiceInv, ConstraintsTypeOK, Unresolved
<1> QED BY <1>1, ChoiceStart, ChoiceStep, PTL DEF ChoiceSpec
=============================================================================
