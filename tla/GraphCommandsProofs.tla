------------------------ MODULE GraphCommandsProofs ------------------------
(***************************************************************************)
(* What holds of graph.json and of the commands that read it, for every      *)
(* graph that a bootstrap makes and whichever packages fail in it.           *)
(***************************************************************************)
EXTENDS GraphCommands, GraphStoreProofs, ConstraintsProofs

(* A graph that may be written, with what its requirements admit.             *)
Sound(e) ==
  /\ e.parent = ROOT => e.type = "toplevel"
  /\ e.child \in reqOf[e] /\ \A p \in reqOf[e] : Name(p) = Name(e.child)

Text == {g \in Graph : Rooted(g) /\ \A e \in g.edges : Sound(e)}

DiskState == {"none", "part", "whole"}
Ending    == {"no", "finalizing", "finalized", "aborted", "killed"}

TextsInv ==
  /\ \A e \in children : Sound(e)
  /\ pending \in Seq(Text)
  /\ disk \in [state : DiskState, graph : Text]
  /\ ended \in Ending

(* While packages may fail, the last text of the queue is the graph as it is;   *)
(* if the queue is empty, it is in the file or on its way.                    *)
LastText ==
  /\ pending # <<>> => pending[Len(pending)] = Loaded(Stored)
  /\ pending = <<>> => disk.state \in {"part", "whole"} /\ disk.graph = Loaded(Stored)

FollowInv ==
  /\ ended \in {"finalizing", "finalized"} => ~Removing
  /\ ~Removing /\ ended \notin {"aborted", "killed"} => LastText
  /\ ended = "finalized" => pending = <<>> /\ disk.state = "whole"

(* What a command has read, and that nothing is kept of the run before.         *)
ReadInv ==
  /\ graph \in Text /\ admits = [e \in graph.edges |-> reqOf[e]]
  /\ candidates = Walk(Along(graph, InstallType), {ROOT}) \ {ROOT}
  /\ pending = <<>> /\ disk.state = "none" /\ ended = "no"

UnreadInv ==
  /\ graph = EmptyGraph /\ candidates = {} /\ resolved = {} /\ conflicting = {} /\ todo = {}

GraphInv ==
  /\ StoreInv /\ TextsInv /\ ChoiceInv /\ customized \subseteq Package
  /\ writing = "unread" => FollowInv /\ UnreadInv
  /\ writing # "unread" => ReadInv

-----------------------------------------------------------------------------
LEMMA LoadedIsText ==
  ASSUME NEW g \in Graph, WellFormed(g), \A e \in g.edges : Sound(e)
  PROVE  Loaded(g) \in Text
<1>1. Rooted(Loaded(g))
  BY LoadedIsRooted
<1>2. Loaded(g).edges \subseteq g.edges
  BY DEF Loaded
<1> QED BY <1>1, <1>2 DEF Text, Rooted

(* A removal changes what is written only where edges go.                      *)
LEMMA RemovalIsSound ==
  ASSUME StoreInv, \A e \in children : Sound(e), UNCHANGED reqOf,
         (\E n : RemovePackage(n)) \/ RemoveNext
  PROVE  StoreInv' /\ (\A e \in children' : Sound(e)')
<1>1. StoreInv'
  BY RemovePackageKeeps, RemoveNextKeeps
<1>2. children' \subseteq children
  BY DEF RemovePackage, RemoveNext
<1> QED BY <1>1, <1>2 DEF Sound

LEMMA FailVersionKeeps ==
  ASSUME StoreInv, TextsInv, FollowInv, UNCHANGED reqOf, FailVersion
  PROVE  StoreInv' /\ TextsInv' /\ FollowInv'
<1>1. /\ (\E n : RemovePackage(n)) \/ RemoveNext
      /\ ended = "no" /\ UNCHANGED <<disk, ended>>
  BY DEF FailVersion
<1>2. StoreInv' /\ (\A e \in children' : Sound(e)')
  BY <1>1, RemovalIsSound DEF TextsInv
<1>3. (\A e : Sound(e)' <=> Sound(e)) /\ Text' = Text
  BY DEF Text, Sound
<1>4. Loaded(Stored)' \in Text
  <2>1. Stored' \in Graph /\ WellFormed(Stored') /\ Stored'.edges = children'
    BY <1>2 DEF StoreInv, StoreTypeOK, EdgesAgree, Stored, Graph, WellFormed
  <2>2. Loaded(Stored') \in Text
    BY <1>2, <1>3, <2>1, LoadedIsText
  <2> QED BY <2>2
<1>5. CASE UNCHANGED pending /\ Removing'
  BY <1>1, <1>2, <1>3, <1>5 DEF TextsInv, FollowInv
<1>6. CASE ~Removing' /\ pending' = Append(pending, Loaded(Stored)')
  <2>1. /\ pending' \in Seq(Text) /\ pending' # <<>>
        /\ pending'[Len(pending')] = Loaded(Stored)'
    BY <1>4, <1>6 DEF TextsInv
  <2> QED BY <1>1, <1>2, <1>3, <1>6, <2>1 DEF TextsInv, FollowInv, LastText
<1>7. CASE \E n : RemovePackage(n) /\ UNCHANGED pending
  <2>1. Removing'
    BY <1>7 DEF RemovePackage, Removing
  <2> QED BY <1>5, <1>7, <2>1
<1>8. CASE RemoveNext /\ pending' = IF Removing' THEN pending ELSE Append(pending, Loaded(Stored)')
  BY <1>5, <1>6, <1>8
<1> QED BY <1>7, <1>8 DEF FailVersion
LEMMA OpenFileKeeps ==
  ASSUME TextsInv, FollowInv, UNCHANGED reqOf, OpenFile
  PROVE  TextsInv' /\ FollowInv'
<1>1. /\ 1 \in DOMAIN pending /\ UNCHANGED <<nodes, children, queue, ended>>
      /\ disk' = [state |-> "part", graph |-> pending[1]]
      /\ pending' = [j \in 1..(Len(pending) - 1) |-> pending[j + 1]]
  BY DEF OpenFile, NextInQueue, storeVars
<1>2. /\ pending \in Seq(Text) /\ Len(pending) \in Nat \ {0} /\ pending # <<>> /\ pending[1] \in Text
  BY <1>1 DEF TextsInv
<1>3. /\ pending' \in Seq(Text) /\ Len(pending') = Len(pending) - 1
      /\ \A j \in 1..(Len(pending) - 1) : pending'[j] = pending[j + 1]
  <2>1. Len(pending) - 1 \in Nat /\ \A j \in 1..(Len(pending) - 1) : pending[j + 1] \in Text
    BY <1>2
  <2> QED BY <1>1, <2>1
<1>4. (\A e : Sound(e)' <=> Sound(e)) /\ Text' = Text /\ Loaded(Stored)' = Loaded(Stored)
  BY <1>1 DEF Text, Sound, Stored
<1>5. disk' \in [state : DiskState, graph : Text]
  BY <1>1, <1>2 DEF DiskState
<1>6. TextsInv'
  BY <1>1, <1>3, <1>4, <1>5 DEF TextsInv
<1>7. ASSUME LastText PROVE LastText'
  <2>1. pending[Len(pending)] = Loaded(Stored)
    BY <1>2, <1>7 DEF LastText
  <2>2. CASE Len(pending) = 1
    <3>1. pending' = <<>>
      BY <1>1, <1>3, <2>2
    <3> QED BY <1>1, <1>4, <2>1, <2>2, <3>1 DEF LastText
  <2>3. CASE Len(pending) # 1
    <3>1. PICK k : k = Len(pending) - 1
      OBVIOUS
    <3>2. k \in 1..(Len(pending) - 1) /\ k + 1 = Len(pending) /\ k # 0
      BY <1>2, <2>3, <3>1
    <3>3. pending'[Len(pending')] = pending[Len(pending)] /\ Len(pending') # 0
      BY <1>3, <3>1, <3>2
    <3>4. pending' # <<>>
      BY <3>3
    <3> QED BY <1>4, <2>1, <3>3, <3>4 DEF LastText
  <2> QED BY <2>2, <2>3
<1>8. FollowInv'
  BY <1>1, <1>2, <1>7 DEF FollowInv, Removing
<1> QED BY <1>6, <1>8

LEMMA OtherFileStepsKeep ==
  ASSUME StoreInv, TextsInv, FollowInv, UNCHANGED reqOf, FillFile \/ Finalize \/ Exit \/ Kill
  PROVE  TextsInv' /\ FollowInv'
<1>1. UNCHANGED <<nodes, children, queue>>
  BY DEF FillFile, Finalize, Exit, Kill, storeVars
<1>2. (\A e : Sound(e)' <=> Sound(e)) /\ Text' = Text /\ Loaded(Stored)' = Loaded(Stored)
  BY <1>1 DEF Text, Sound, Stored
<1>3. <<>> \in Seq(Text) /\ (Removing' <=> Removing)
  BY <1>1 DEF Removing
<1>4. CASE FillFile
  <2>1. disk' = [state |-> "whole", graph |-> disk.graph] /\ disk.state = "part" /\ UNCHANGED <<pending, ended>>
    BY <1>4 DEF FillFile, Writing, TextsInv
  <2>2. disk' \in [state : DiskState, graph : Text]
    BY <2>1 DEF TextsInv, DiskState
  <2>3. TextsInv'
    BY <1>1, <1>2, <2>1, <2>2 DEF TextsInv
  <2>4. LastText => LastText'
    BY <1>2, <2>1 DEF LastText
  <2> QED BY <1>3, <2>1, <2>3, <2>4 DEF FollowInv
<1>5. CASE Finalize
  <2>1. ~Removing /\ UNCHANGED disk
    BY <1>5 DEF Finalize
  <2>2. CASE ended = "no" /\ ended' = "finalizing" /\ pending' = Append(pending, Loaded(Stored))
    <3>1. Loaded(Stored) \in Text
      <4>1. Stored \in Graph /\ WellFormed(Stored) /\ Stored.edges = children
        BY StoredIsGraph DEF Stored
      <4> QED BY <4>1, LoadedIsText DEF TextsInv
    <3>2. /\ pending' \in Seq(Text) /\ pending' # <<>>
          /\ pending'[Len(pending')] = Loaded(Stored)
      BY <2>2, <3>1 DEF TextsInv
    <3>3. TextsInv'
      BY <1>1, <1>2, <2>1, <2>2, <3>2 DEF TextsInv, Ending
    <3> QED BY <1>2, <1>3, <2>1, <2>2, <3>2, <3>3 DEF FollowInv, LastText
  <2>3. CASE ended = "finalizing" /\ pending = <<>> /\ ~Writing /\ ended' = "finalized" /\ UNCHANGED pending
    <3>1. TextsInv'
      BY <1>1, <1>2, <2>1, <2>3 DEF TextsInv, Ending
    <3>2. LastText /\ LastText'
      BY <1>2, <2>1, <2>3 DEF FollowInv, LastText
    <3>3. disk.state = "whole"
      BY <2>3, <3>2 DEF LastText, Writing
    <3> QED BY <1>3, <2>1, <2>3, <3>1, <3>2, <3>3 DEF FollowInv
  <2> QED BY <1>5, <2>2, <2>3 DEF Finalize
<1>6. CASE Exit \/ Kill
  <2>1. UNCHANGED disk /\ pending' = <<>> /\ ended' \in {"aborted", "killed"}
    BY <1>6 DEF Exit, Kill
  <2>2. TextsInv'
    BY <1>1, <1>2, <1>3, <2>1 DEF TextsInv, Ending
  <2> QED BY <2>1, <2>2 DEF FollowInv
<1> QED BY <1>4, <1>5, <1>6
LEMMA FileNextKeeps ==
  ASSUME StoreInv, TextsInv, FollowInv, UNCHANGED reqOf, FileNext
  PROVE  StoreInv' /\ TextsInv' /\ FollowInv'
<1>1. CASE FailVersion
  BY <1>1, FailVersionKeeps
<1>2. CASE OpenFile
  BY <1>2, OpenFileKeeps, StoreStutters DEF OpenFile
<1>3. CASE FillFile \/ Finalize \/ Exit \/ Kill
  <2>1. UNCHANGED storeVars
    BY <1>3 DEF FillFile, Finalize, Exit, Kill
  <2> QED BY <1>3, <2>1, OtherFileStepsKeep, StoreStutters
<1> QED BY <1>1, <1>2, <1>3 DEF FileNext

-----------------------------------------------------------------------------
(* What packages and the command line install is finite, and closed.          *)
LEMMA InstalledIsClosed ==
  ASSUME NEW g \in Text
  PROVE  LET installs == Along(g, InstallType)
             kept     == Walk(installs, {ROOT})
         IN  /\ Arrows(installs) /\ Arrows(g.edges) /\ IsFiniteSet(g.edges)
             /\ kept \subseteq Vertex /\ ROOT \in kept /\ Closed(installs, kept)
             /\ kept \ {ROOT} \subseteq Package
             /\ \A C \in SUBSET Vertex : ROOT \in C /\ Closed(installs, C) => kept \subseteq C
             /\ \A e \in installs : e.parent \in kept => e.child \in kept \ {ROOT}
<1> DEFINE installs == Along(g, InstallType)
           kept     == Walk(installs, {ROOT})
<1>1. g.edges \in SUBSET Edge /\ installs \subseteq g.edges
  BY DEF Text, Graph, Along
<1>2. Arrows(installs) /\ Arrows(g.edges) /\ {ROOT} \in SUBSET Vertex
  BY <1>1 DEF Arrows, Edge, Vertex
<1>3. IsFiniteSet(g.edges)
  BY <1>1, EdgesFinite, FS_Subset
<1> HIDE DEF installs
<1>4. /\ kept \subseteq Vertex /\ ROOT \in kept /\ Closed(installs, kept)
      /\ \A C \in SUBSET Vertex : ROOT \in C /\ Closed(installs, C) => kept \subseteq C
  BY <1>2, WalkIsLeast
<1> HIDE DEF kept
<1>5. kept \ {ROOT} \subseteq Package
  BY <1>4 DEF Vertex
<1>6. \A e \in installs : e.parent \in kept => e.child \in kept \ {ROOT}
  BY <1>1, <1>4, RootAssumption DEF Closed, Edge
<1> QED BY <1>2, <1>3, <1>4, <1>5, <1>6 DEF installs, kept

LEMMA ReadKeeps ==
  ASSUME GraphInv, Read
  PROVE  GraphInv'
<1>1. /\ writing = "unread" /\ disk.state = "whole" /\ graph' = disk.graph
      /\ admits' = [e \in graph'.edges |-> reqOf[e]]
      /\ candidates' = Walk(Along(graph', InstallType), {ROOT}) \ {ROOT}
      /\ writing' = "no"
      /\ nodes' = {ROOT} /\ children' = {} /\ parents' = {} /\ queue' = <<>> /\ removals' = 0
      /\ before' = [graph |-> EmptyGraph, node |-> ROOT]
      /\ pending' = <<>> /\ disk' = [state |-> "none", graph |-> EmptyGraph] /\ ended' = "no"
      /\ UNCHANGED <<resolved, conflicting, todo, progress, reqOf, customized>>
  BY DEF Read
<1>2. resolved = {} /\ conflicting = {} /\ todo = {} /\ progress \in BOOLEAN
  BY <1>1 DEF GraphInv, UnreadInv, ChoiceInv, ConstraintsTypeOK
<1>3. EmptyGraph \in Graph /\ WellFormed(EmptyGraph) /\ Rooted(EmptyGraph)
      /\ EmptyGraph.nodes = {ROOT} /\ EmptyGraph.edges = {}
  BY EmptyIsRooted DEF Rooted, EmptyGraph
<1>4. StoreInv'
  <2>1. <<>> \in Seq(Package) /\ 0 \in 0..MaxRemovals
    BY StoreAssumption
  <2>2. StoreTypeOK'
    BY <1>1, <2>1 DEF StoreTypeOK
  <2>3. before'.graph = EmptyGraph
    BY <1>1
  <2>4. BeforeTypeOK' /\ EdgesAgree'
    BY <1>1, <1>3, <2>3 DEF BeforeTypeOK, EdgesAgree
  <2>5. Queued' = {}
    BY <1>1 DEF Queued, Elements
  <2>6. OrphansAreQueued' /\ ~Removing' /\ ~(removals' > 0)
    BY <1>1 DEF OrphansAreQueued, Removing
  <2> QED BY <2>2, <2>4, <2>5, <2>6 DEF StoreInv
<1>5. (\A e : Sound(e)' <=> Sound(e)) /\ Text' = Text
  BY <1>1 DEF Text, Sound
<1>6. graph' \in Text
  BY <1>1 DEF GraphInv, TextsInv
<1>7. TextsInv'
  <2>1. EmptyGraph \in Text
    BY <1>3 DEF Text
  <2>2. disk' \in [state : DiskState, graph : Text] /\ pending' \in Seq(Text) /\ ended' \in Ending
    BY <1>1, <2>1 DEF DiskState, Ending
  <2> QED BY <1>1, <1>5, <2>2 DEF TextsInv
<1>8. ChoiceInv'
  <2>1. /\ IsFiniteSet(graph'.edges) /\ candidates' \subseteq Package
        /\ \A e \in graph'.edges :
             e.type = "install" /\ e.parent \in candidates' => e.child \in candidates'
    BY <1>1, <1>6, InstalledIsClosed DEF Along, InstallType
  <2>2. \A e \in graph'.edges : e.child \in admits'[e]
    BY <1>1, <1>6 DEF Text, Sound
  <2>3. Readable'
    BY <2>1, <2>2 DEF Readable
  <2>4. ConstraintsTypeOK'
    BY <1>1, <1>2, <2>1 DEF ConstraintsTypeOK
  <2>5. ChosenFit' /\ GivenUpUnused'
    BY <1>1, <1>2 DEF ChosenFit, GivenUpUnused
  <2> QED BY <2>3, <2>4, <2>5 DEF ChoiceInv
<1>9. ReadInv'
  BY <1>1, <1>5, <1>6 DEF ReadInv
<1> QED BY <1>1, <1>4, <1>7, <1>8, <1>9 DEF GraphInv

LEMMA GraphStep == GraphInv /\ [Next]_vars => GraphInv'
<1> SUFFICES ASSUME GraphInv, [Next]_vars
             PROVE  GraphInv'
  OBVIOUS
<1>1. CASE Bootstrap
  <2>1. writing = "unread" /\ FileNext /\ UNCHANGED <<constraintsVars, reqOf, customized>>
    BY <1>1 DEF Bootstrap
  <2>2. StoreInv' /\ TextsInv' /\ FollowInv'
    BY <2>1, FileNextKeeps DEF GraphInv
  <2>3. ChoiceInv'
    BY <2>1, ChoiceStep DEF GraphInv
  <2>4. UnreadInv' /\ writing' = "unread" /\ UNCHANGED customized
    BY <2>1 DEF GraphInv, UnreadInv, constraintsVars
  <2> QED BY <2>2, <2>3, <2>4 DEF GraphInv
<1>2. CASE Read
  BY <1>2, ReadKeeps
<1>3. CASE ToConstraints
  <2>1. WriteConstraints /\ UNCHANGED <<storeVars, fileVars, reqOf, customized>>
    BY <1>3 DEF ToConstraints
  <2>2. /\ writing \in {"no", "choosing"} /\ writing' \in {"no", "choosing", "done"}
        /\ UNCHANGED <<graph, admits, candidates>>
    BY <2>1 DEF WriteConstraints, ChooseSingles, StartPass, AnotherPass, Consider, Finish
  <2>3. StoreInv'
    BY <2>1, StoreStutters DEF GraphInv
  <2>4. ChoiceInv'
    BY <2>1, ChoiceStep DEF GraphInv
  <2>5. (\A e : Sound(e)' <=> Sound(e)) /\ Text' = Text
    BY <2>1 DEF Text, Sound
  <2>6. TextsInv'
    BY <2>1, <2>5 DEF GraphInv, TextsInv, storeVars, fileVars
  <2>7. ReadInv'
    BY <2>1, <2>2, <2>5 DEF GraphInv, ReadInv, fileVars
  <2> QED BY <2>1, <2>2, <2>3, <2>4, <2>6, <2>7 DEF GraphInv
<1>4. CASE UNCHANGED vars
  <2>1. UNCHANGED <<storeVars, fileVars, constraintsVars, reqOf, customized>>
    BY <1>4 DEF vars
  <2>2. StoreInv'
    BY <2>1, StoreStutters DEF GraphInv
  <2>3. ChoiceInv'
    BY <2>1, ChoiceStep DEF GraphInv
  <2>4. (\A e : Sound(e)' <=> Sound(e)) /\ Text' = Text
    BY <2>1 DEF Text, Sound
  <2>5. TextsInv'
    BY <2>1, <2>4 DEF GraphInv, TextsInv, storeVars, fileVars
  <2>6. writing = "unread" => FollowInv' /\ UnreadInv'
    BY <2>1 DEF GraphInv, FollowInv, LastText, UnreadInv, Stored, Removing, storeVars, fileVars, constraintsVars
  <2>7. writing # "unread" => ReadInv'
    BY <2>1, <2>4 DEF GraphInv, ReadInv, fileVars, constraintsVars
  <2> QED BY <2>1, <2>2, <2>3, <2>5, <2>6, <2>7 DEF GraphInv, constraintsVars
<1> QED BY <1>1, <1>2, <1>3, <1>4 DEF Next

LEMMA GraphStart ==
  ASSUME NEW worlds, \A w \in worlds : World(w), InitWith(worlds)
  PROVE  GraphInv
<1>1. PICK w \in worlds :
        /\ StoreInit({w.graph}) /\ FileInit(w.over) /\ reqOf = w.reqOf /\ customized = w.customized
        /\ graph = EmptyGraph /\ admits = <<>> /\ candidates = {}
        /\ resolved = {} /\ conflicting = {} /\ todo = {} /\ progress = FALSE /\ writing = "unread"
  BY DEF InitWith
<1>2. Rooted(w.graph) /\ customized \subseteq Package /\ \A e \in w.graph.edges : Sound(e)
  BY <1>1 DEF World, Fitting, Sound
<1>3. /\ nodes = w.graph.nodes /\ children = w.graph.edges /\ parents = w.graph.edges
      /\ queue = <<>> /\ removals = 0 /\ before = [graph |-> w.graph, node |-> ROOT]
  BY <1>1 DEF StoreInit
<1>4. StoreInv
  BY <1>2, <1>3, StoreStarts
<1>5. Stored \in Text /\ Loaded(Stored) = Stored /\ Loaded(Stored) \in Text
  <2>1. w.graph \in Graph /\ Loaded(w.graph) = w.graph
    BY <1>2 DEF Rooted
  <2>2. Stored = w.graph
    BY <1>3, <2>1 DEF Stored, Graph
  <2> QED BY <1>2, <2>1, <2>2 DEF Text
<1>6. EmptyGraph \in Text /\ EmptyGraph.edges = {}
  <2>1. EmptyGraph.edges = {}
    BY DEF EmptyGraph
  <2> QED BY <2>1, EmptyIsRooted DEF Text, Rooted
<1>7. TextsInv /\ FollowInv
  <2>1. CASE w.over
    <3>1. pending = <<>> /\ ended = "finalized" /\ disk = [state |-> "whole", graph |-> Stored]
      BY <1>1, <2>1 DEF FileInit
    <3>2. TextsInv
      BY <1>2, <1>3, <1>5, <3>1 DEF TextsInv, DiskState, Ending
    <3>3. FollowInv
      BY <1>3, <1>5, <3>1 DEF FollowInv, LastText, Removing
    <3> QED BY <3>2, <3>3
  <2>2. CASE ~w.over
    <3>1. /\ pending = <<Loaded(Stored)>> /\ ended = "no"
          /\ disk = [state |-> "none", graph |-> EmptyGraph]
      BY <1>1, <2>2 DEF FileInit
    <3>2. /\ pending \in Seq(Text) /\ pending # <<>> /\ pending[Len(pending)] = Loaded(Stored)
      BY <1>5, <3>1
    <3>3. TextsInv
      BY <1>2, <1>3, <1>6, <3>1, <3>2 DEF TextsInv, DiskState, Ending
    <3>4. FollowInv
      BY <1>3, <3>1, <3>2 DEF FollowInv, LastText, Removing
    <3> QED BY <3>3, <3>4
  <2> QED BY <2>1, <2>2
<1>8. ChoiceInv
  <2>1. Readable
    BY <1>1, <1>6, FS_EmptySet DEF Readable
  <2> QED BY <1>1, <2>1 DEF ChoiceInv, ConstraintsTypeOK, ChosenFit, GivenUpUnused
<1> QED BY <1>1, <1>2, <1>4, <1>7, <1>8 DEF GraphInv, UnreadInv
-----------------------------------------------------------------------------
(* The graph, its file and what the commands keep have their types, and one     *)
(* version of a package at most is chosen (dependency_graph.py, commands/graph). *)
THEOREM GraphCommandsTypeCorrect ==
  ASSUME NEW worlds, \A w \in worlds : World(w)
  PROVE  InitWith(worlds) /\ [][Next]_vars => []TypeOK
<1>1. InitWith(worlds) => GraphInv
  BY GraphStart
<1>2. GraphInv => TypeOK
  <2> SUFFICES ASSUME GraphInv PROVE TypeOK
    OBVIOUS
  <2>1. \A i \in DOMAIN pending : ROOT \in pending[i].nodes
    BY DEF GraphInv, TextsInv, Text, WellFormed, Rooted
  <2>2. FileTypeOK
    BY <2>1 DEF GraphInv, TextsInv, FileTypeOK, DiskState, Ending
  <2> QED BY <2>2 DEF TypeOK, GraphInv, StoreInv, ChoiceInv
<1> QED BY <1>1, <1>2, GraphStep, PTL

(* A package that fails takes with it what only it led to, and nothing else,   *)
(* in whatever order the orphans are removed and however packages require each  *)
(* other (remove_dependency).                                                *)
THEOREM RemovalTakesOrphans ==
  ASSUME NEW worlds, \A w \in worlds : World(w)
  PROVE  InitWith(worlds) /\ [][Next]_vars => []RemovalCascades
<1>1. InitWith(worlds) => GraphInv
  BY GraphStart
<1>2. GraphInv => RemovalCascades
  BY InvCascades DEF GraphInv
<1> QED BY <1>1, <1>2, GraphStep, PTL

(* graph.json keeps the packages that why can trace to the command line, and    *)
(* all there are unless some require each other (_to_dict, from_dict, find_why). *)
THEOREM FileKeepsWhatWhyExplains ==
  ASSUME NEW worlds, \A w \in worlds : World(w)
  PROVE  InitWith(worlds) /\ [][Next]_vars => []KeptIsExplained
<1>1. InitWith(worlds) => GraphInv
  BY GraphStart
<1>2. GraphInv => KeptIsExplained
  BY InvExplains DEF GraphInv
<1> QED BY <1>1, <1>2, GraphStep, PTL

(* However many packages fail and however late the texts are written, with an   *)
(* empty queue graph.json is the graph as it is, and after finalize it is       *)
(* whole (_schedule_write, finalize, __exit__).                              *)
THEOREM FileIsUpToDate ==
  ASSUME NEW worlds, \A w \in worlds : World(w)
  PROVE  InitWith(worlds) /\ [][Next]_vars => []FileFollowsGraph
<1>1. InitWith(worlds) => GraphInv
  BY GraphStart
<1>2. GraphInv => FileFollowsGraph
  BY DEF GraphInv, FollowInv, LastText, ReadInv, FileFollowsGraph
<1> QED BY <1>1, <1>2, GraphStep, PTL

-----------------------------------------------------------------------------
(* No package that is required leads to ROOT.                                 *)
LEMMA RootIsNoChild ==
  ASSUME NEW edges \in SUBSET Edge, NEW S \in SUBSET Package
  PROVE  Walk(edges, S) \subseteq Package
<1>1. Arrows(edges) /\ Package \in SUBSET Vertex /\ Closed(edges, Package) /\ S \in SUBSET Vertex
  BY DEF Arrows, Closed, Edge, Vertex
<1> QED BY <1>1, WalkIsLeast

(* The subset of a graph for one target.                                     *)
SubsetOf(g, t, dependencies, dependents) == SubsetGraph(g, {t}, dependencies, dependents)

SubsetShape(g, t, down, up) ==
  LET sub  == SubsetOf(g, t, down, up)
      kept == SubsetNodes(g, {t}, down, up)
  IN  /\ sub.nodes = kept /\ ROOT \in kept /\ t \in kept /\ kept \subseteq Vertex
      /\ sub.edges \subseteq Edge
      /\ \A e \in sub.edges : e.parent \in kept /\ e.child \in kept
      /\ \A e \in sub.edges : e \in g.edges \/ (e.parent = ROOT /\ e.child = t)
      /\ \A e \in g.edges : e.parent \in kept /\ e.child \in kept /\ (e.parent = ROOT => up)
                              => e \in sub.edges
      /\ ~up => \E e \in sub.edges : e.parent = ROOT /\ e.child = t
      /\ down => Walk(g.edges, {t}) \subseteq kept
      /\ up => WalkUp(g.edges, {t}) \subseteq kept

LEMMA SubsetEdges ==
  ASSUME NEW g \in Text, NEW t \in g.nodes \ {ROOT}, NEW down \in BOOLEAN, NEW up \in BOOLEAN
  PROVE  SubsetShape(g, t, down, up)
<1> DEFINE sub  == SubsetOf(g, t, down, up)
           kept == SubsetNodes(g, {t}, down, up)
           root == [parent |-> ROOT, type |-> "toplevel", child |-> t]
<1>1. g.nodes \subseteq Vertex /\ g.edges \subseteq Edge /\ t \in Package
  BY DEF Text, Graph, Vertex
<1>2. Arrows(g.edges) /\ {t} \in SUBSET Vertex /\ t \in Vertex
  BY <1>1 DEF Arrows, Edge, Vertex
<1>3. Walk(g.edges, {t}) \subseteq Vertex /\ WalkUp(g.edges, {t}) \subseteq Vertex
  <2>1. Walk(g.edges, {t}) \subseteq Vertex
    BY <1>2, WalkIsLeast
  <2>2. WalkUp(g.edges, {t}) \subseteq Vertex
    BY <1>2, WalkUpIsLeast
  <2> QED BY <2>1, <2>2
<1>4. /\ kept \subseteq Vertex /\ ROOT \in kept /\ t \in kept
      /\ down => Walk(g.edges, {t}) \subseteq kept
      /\ up => WalkUp(g.edges, {t}) \subseteq kept
  BY <1>2, <1>3 DEF SubsetNodes, Vertex
<1>5. RootEdges({t}, up) = IF up THEN {} ELSE {root}
  BY DEF RootEdges
<1>6. /\ sub.nodes = kept
      /\ sub.edges = {e \in g.edges : /\ e.parent \in kept /\ e.child \in kept
                                      /\ e.parent = ROOT => up} \cup RootEdges({t}, up)
  BY DEF SubsetOf, SubsetGraph
<1>7. root \in Edge /\ root.parent = ROOT /\ root.child = t
  BY <1>1 DEF Edge, ReqType, InstallType
<1> HIDE DEF kept, root, sub
<1> QED BY <1>1, <1>4, <1>5, <1>6, <1>7 DEF SubsetShape, kept, sub

LEMMA SubsetsLoad ==
  ASSUME NEW g \in Text, NEW t \in g.nodes \ {ROOT}, NEW down \in BOOLEAN, NEW up \in BOOLEAN, down \/ up
  PROVE  Loaded(SubsetOf(g, t, down, up)) = SubsetOf(g, t, down, up)
<1> DEFINE sub   == SubsetOf(g, t, down, up)
           kept  == SubsetNodes(g, {t}, down, up)
           below == Walk(g.edges, {t})
           above == WalkUp(g.edges, {t})
           seen  == Walk(sub.edges, {ROOT})
<1>1. /\ sub.nodes = kept /\ ROOT \in kept /\ t \in kept /\ kept \subseteq Vertex
      /\ sub.edges \subseteq Edge
      /\ \A e \in sub.edges : e.parent \in kept /\ e.child \in kept
      /\ \A e \in sub.edges : e \in g.edges \/ (e.parent = ROOT /\ e.child = t)
      /\ \A e \in g.edges : e.parent \in kept /\ e.child \in kept /\ (e.parent = ROOT => up)
                              => e \in sub.edges
      /\ ~up => \E e \in sub.edges : e.parent = ROOT /\ e.child = t
      /\ down => below \subseteq kept
      /\ up => above \subseteq kept
  <2>1. SubsetShape(g, t, down, up)
    BY SubsetEdges
  <2> QED BY <2>1 DEF SubsetShape
<1>2. g.edges \subseteq Edge /\ t \in Package /\ ROOT \notin Package /\ {ROOT} \in SUBSET Vertex
      /\ {t} \in SUBSET Vertex /\ ROOT \in Vertex /\ t \in Vertex
  BY RootAssumption DEF Text, Graph, Vertex
<1>3. Arrows(g.edges) /\ Arrows(sub.edges)
  <2>1. \A es : es \subseteq Edge => Arrows(es)
    BY DEF Arrows, Edge, Vertex
  <2> HIDE DEF sub
  <2> QED BY <1>1, <1>2, <2>1
<1>4. /\ below \subseteq Package /\ t \in below /\ Closed(g.edges, below)
      /\ \A C \in SUBSET Vertex : t \in C /\ Closed(g.edges, C) => below \subseteq C
  <2>1. below \subseteq Package
    BY <1>2, RootIsNoChild
  <2> QED BY <1>2, <1>3, <2>1, WalkIsLeast
<1>5. t \in above /\ \A e \in g.edges : e.child \in above => e.parent \in above
  BY <1>2, <1>3, WalkUpIsLeast
<1>6. /\ seen \subseteq Vertex /\ ROOT \in seen /\ Closed(sub.edges, seen)
      /\ \A C \in SUBSET Vertex : ROOT \in C /\ Closed(sub.edges, C) => seen \subseteq C
  <2> HIDE DEF sub
  <2> QED BY <1>2, <1>3, WalkIsLeast
<1>7. kept = {ROOT} \cup {t} \cup (IF down THEN below ELSE {}) \cup (IF up THEN above ELSE {})
  BY DEF SubsetNodes
<1>8. Loaded(sub) = [nodes |-> seen, edges |-> {e \in sub.edges : e.parent \in seen}]
  BY DEF Loaded
<1>9. sub = [nodes |-> sub.nodes, edges |-> sub.edges]
  BY DEF SubsetOf, SubsetGraph
<1>10. g.nodes = Walk(g.edges, {ROOT}) /\ g.nodes \subseteq Vertex
       /\ \A e \in g.edges : e.parent \in g.nodes
  <2>1. Loaded(g) = g /\ Loaded(g).nodes = Walk(g.edges, {ROOT}) /\ WellFormed(g)
    BY DEF Text, Rooted, Loaded
  <2> QED BY <2>1 DEF Text, Graph, Vertex, WellFormed
<1>11. above \subseteq g.nodes
  <2>1. \A C \in SUBSET Vertex :
          t \in C /\ (\A e \in g.edges : e.child \in C => e.parent \in C) => above \subseteq C
    BY <1>2, <1>3, WalkUpIsLeast
  <2> HIDE DEF above
  <2> QED BY <1>10, <2>1
<1> HIDE DEF sub, kept, below, above, seen
<1>12. ASSUME up PROVE above \subseteq seen
  <2> DEFINE C == {x \in Vertex : x \in above => x \in seen}
  <2>1. ASSUME NEW e \in g.edges, e.parent \in C, e.child \in above PROVE e.child \in seen
    <3>1. e.parent \in above /\ e.parent \in seen
      BY <1>5, <2>1
    <3>2. e \in sub.edges
      BY <1>1, <1>12, <2>1, <3>1
    <3> QED BY <1>6, <3>1, <3>2 DEF Closed
  <2>2. Closed(g.edges, C)
    BY <1>3, <2>1 DEF Closed, Arrows
  <2>3. C \in SUBSET Vertex /\ {ROOT} \subseteq C
    BY <1>2, <1>6
  <2>4. Walk(g.edges, {ROOT}) \subseteq C
    <3> HIDE DEF C
    <3> QED BY <1>2, <1>3, <2>2, <2>3, WalkIsLeast
  <2> QED BY <1>10, <1>11, <2>4
<1>13. t \in seen
  BY <1>1, <1>5, <1>6, <1>12 DEF Closed
<1>14. ASSUME down PROVE below \subseteq seen
  <2>1. Closed(g.edges, below \cap seen)
    <3> SUFFICES ASSUME NEW e \in g.edges, e.parent \in below, e.parent \in seen
                 PROVE  e.child \in below /\ e.child \in seen
      BY DEF Closed
    <3>1. e.child \in below /\ e.parent # ROOT
      BY <1>2, <1>4 DEF Closed
    <3>2. e \in sub.edges
      BY <1>1, <1>14, <3>1
    <3> QED BY <1>6, <3>1, <3>2 DEF Closed
  <2>2. t \in below \cap seen /\ below \cap seen \in SUBSET Vertex
    BY <1>4, <1>6, <1>13
  <2> QED BY <1>4, <2>1, <2>2
<1>15. seen = kept
  <2>1. Closed(sub.edges, kept)
    BY <1>1 DEF Closed
  <2>2. seen \subseteq kept
    BY <1>1, <1>6, <2>1
  <2>3. kept \subseteq seen
    BY <1>6, <1>7, <1>12, <1>13, <1>14
  <2> QED BY <2>2, <2>3
<1>16. {e \in sub.edges : e.parent \in seen} = sub.edges
  BY <1>1, <1>15
<1> QED BY <1>1, <1>8, <1>9, <1>15, <1>16 DEF sub
LEMMA SubsetsBuild ==
  ASSUME NEW g \in Text, NEW t \in g.nodes \ {ROOT}, NEW up \in BOOLEAN
  PROVE  BuildRequirementsOf(SubsetOf(g, t, TRUE, up), t) = BuildRequirementsOf(g, t)
<1> DEFINE sub    == SubsetOf(g, t, TRUE, up)
           kept   == SubsetNodes(g, {t}, TRUE, up)
           below  == Walk(g.edges, {t})
           direct == Children(g, t, BuildType)
           inSub  == Walk(Along(sub, InstallType), direct)
           inAll  == Walk(Along(g, InstallType), direct)
<1>1. /\ t \in kept /\ sub.edges \subseteq Edge /\ below \subseteq kept
      /\ \A e \in sub.edges : e \in g.edges \/ (e.parent = ROOT /\ e.child = t)
      /\ \A e \in g.edges : e.parent \in kept /\ e.child \in kept /\ (e.parent = ROOT => up)
                              => e \in sub.edges
  <2>1. SubsetShape(g, t, TRUE, up)
    BY SubsetEdges
  <2> QED BY <2>1 DEF SubsetShape
<1>2. g.edges \subseteq Edge /\ t \in Package /\ ROOT \notin Package
  BY RootAssumption DEF Text, Graph
<1>3. below \subseteq Package /\ t \in below /\ Closed(g.edges, below)
  <2>1. Arrows(g.edges) /\ {t} \in SUBSET Vertex
    BY <1>2 DEF Arrows, Edge, Vertex
  <2>2. below \subseteq Package
    BY <1>2, RootIsNoChild
  <2> QED BY <2>1, <2>2, WalkIsLeast
<1>4. \A e \in g.edges : e.parent \in below => e.child \in below /\ e \in sub.edges
  BY <1>1, <1>2, <1>3 DEF Closed
<1> HIDE DEF sub, kept, below
<1>5. Children(sub, t, BuildType) = direct
  <2>1. \A e \in sub.edges : e.parent = t => e \in g.edges
    BY <1>1, <1>2
  <2>2. \A e \in g.edges : e.parent = t => e \in sub.edges
    BY <1>3, <1>4
  <2>3. {e \in sub.edges : e.parent = t /\ e.type \in BuildType}
          = {e \in g.edges : e.parent = t /\ e.type \in BuildType}
    BY <2>1, <2>2
  <2> QED BY <2>3 DEF Children
<1>6. direct \subseteq below /\ direct \subseteq Package
  BY <1>3, <1>4 DEF Children
<1>7. /\ Along(sub, InstallType) \subseteq Edge /\ Along(g, InstallType) \subseteq Edge
      /\ Arrows(Along(sub, InstallType)) /\ Arrows(Along(g, InstallType)) /\ direct \in SUBSET Vertex
  BY <1>1, <1>2, <1>6 DEF Along, Arrows, Edge, Vertex
<1> HIDE DEF direct
<1>8. /\ inSub \subseteq Vertex /\ direct \subseteq inSub /\ Closed(Along(sub, InstallType), inSub)
      /\ \A C \in SUBSET Vertex : direct \subseteq C /\ Closed(Along(sub, InstallType), C) => inSub \subseteq C
  BY <1>7, WalkIsLeast
<1>9. /\ inAll \subseteq Package /\ direct \subseteq inAll /\ Closed(Along(g, InstallType), inAll)
      /\ \A C \in SUBSET Vertex : direct \subseteq C /\ Closed(Along(g, InstallType), C) => inAll \subseteq C
  <2>1. inAll \subseteq Package
    BY <1>6, <1>7, RootIsNoChild
  <2> QED BY <1>7, <2>1, WalkIsLeast
<1>10. BuildRequirementsOf(sub, t) = inSub /\ BuildRequirementsOf(g, t) = inAll
  BY <1>5 DEF BuildRequirementsOf, direct
<1> HIDE DEF inSub, inAll
<1>11. inSub \subseteq inAll
  <2>1. Closed(Along(sub, InstallType), inAll)
    BY <1>1, <1>2, <1>9 DEF Closed, Along
  <2>2. inAll \in SUBSET Vertex
    BY <1>9 DEF Vertex
  <2> QED BY <1>8, <1>9, <2>1, <2>2
<1>12. inAll \subseteq inSub
  <2>1. Closed(Along(g, InstallType), inSub \cap below)
    BY <1>4, <1>8 DEF Closed, Along
  <2>2. inSub \cap below \in SUBSET Vertex
    BY <1>8
  <2> QED BY <1>6, <1>8, <1>9, <2>1, <2>2
<1> QED BY <1>10, <1>11, <1>12 DEF sub

(* The graph of a target with what it requires, what requires it, or both, can   *)
(* be written and read without loss and, if it holds what the target requires,  *)
(* the target is built with what it was (extract_package_subset).             *)
THEOREM SubsetsAreUsable ==
  ASSUME NEW worlds, \A w \in worlds : World(w)
  PROVE  InitWith(worlds) /\ [][Next]_vars => []SubsetIsUsable
<1>1. InitWith(worlds) => GraphInv
  BY GraphStart
<1>2. GraphInv => SubsetIsUsable
  <2> SUFFICES ASSUME GraphInv, Ready, NEW t \in graph.nodes \ {ROOT},
                      NEW mode \in {"dependencies", "dependents", "both"}
               PROVE  LET sub == SubsetGraph(graph, {t}, mode # "dependents", mode # "dependencies")
                      IN  /\ Loaded(sub) = sub
                          /\ mode # "dependents" =>
                               BuildRequirementsOf(sub, t) = BuildRequirementsOf(graph, t)
    BY DEF SubsetIsUsable
  <2>1. graph \in Text
    BY DEF GraphInv, ReadInv, Ready
  <2>2. CASE mode = "dependencies"
    <3>1. Loaded(SubsetOf(graph, t, TRUE, FALSE)) = SubsetOf(graph, t, TRUE, FALSE)
      BY <2>1, SubsetsLoad
    <3>2. BuildRequirementsOf(SubsetOf(graph, t, TRUE, FALSE), t) = BuildRequirementsOf(graph, t)
      BY <2>1, SubsetsBuild
    <3>3. (mode # "dependents") = TRUE /\ (mode # "dependencies") = FALSE
      BY <2>2
    <3> QED BY <3>1, <3>2, <3>3 DEF SubsetOf
  <2>3. CASE mode = "dependents"
    <3>1. Loaded(SubsetOf(graph, t, FALSE, TRUE)) = SubsetOf(graph, t, FALSE, TRUE)
      BY <2>1, SubsetsLoad
    <3>2. (mode # "dependents") = FALSE /\ (mode # "dependencies") = TRUE
      BY <2>3
    <3> QED BY <3>1, <3>2 DEF SubsetOf
  <2>4. CASE mode = "both"
    <3>1. Loaded(SubsetOf(graph, t, TRUE, TRUE)) = SubsetOf(graph, t, TRUE, TRUE)
      BY <2>1, SubsetsLoad
    <3>2. BuildRequirementsOf(SubsetOf(graph, t, TRUE, TRUE), t) = BuildRequirementsOf(graph, t)
      BY <2>1, SubsetsBuild
    <3>3. (mode # "dependents") = TRUE /\ (mode # "dependencies") = TRUE
      BY <2>4
    <3> QED BY <3>1, <3>2, <3>3 DEF SubsetOf
  <2> QED BY <2>2, <2>3, <2>4
<1> QED BY <1>1, <1>2, GraphStep, PTL

-----------------------------------------------------------------------------
(* What lies below a package is the least set with what it leads to directly    *)
(* that is closed.                                                           *)
Below(edges, n) == UNION {Walk(edges, {e.child}) : e \in {e \in edges : e.parent = n}}

LEMMA BelowIsLeast ==
  ASSUME NEW edges, Arrows(edges), NEW n
  PROVE  /\ Below(edges, n) \subseteq Vertex
         /\ \A e \in edges : e.parent = n => e.child \in Below(edges, n)
         /\ Closed(edges, Below(edges, n))
         /\ \A C \in SUBSET Vertex :
              (\A e \in edges : e.parent = n => e.child \in C) /\ Closed(edges, C)
                => Below(edges, n) \subseteq C
<1>1. \A m \in Vertex :
        /\ Walk(edges, {m}) \subseteq Vertex /\ m \in Walk(edges, {m}) /\ Closed(edges, Walk(edges, {m}))
        /\ \A C \in SUBSET Vertex : m \in C /\ Closed(edges, C) => Walk(edges, {m}) \subseteq C
  <2> TAKE m \in Vertex
  <2>1. {m} \in SUBSET Vertex
    OBVIOUS
  <2> QED BY <2>1, WalkIsLeast
<1>2. \A x : x \in Below(edges, n) <=> \E e \in edges : e.parent = n /\ x \in Walk(edges, {e.child})
  BY DEF Below
<1>3. \A e \in edges : e.child \in Vertex
  BY DEF Arrows
<1>4. Closed(edges, Below(edges, n))
  <2> SUFFICES ASSUME NEW d \in edges, d.parent \in Below(edges, n) PROVE d.child \in Below(edges, n)
    BY DEF Closed
  <2>1. PICK e \in edges : e.parent = n /\ d.parent \in Walk(edges, {e.child})
    BY <1>2
  <2>2. d.child \in Walk(edges, {e.child})
    BY <1>1, <1>3, <2>1 DEF Closed
  <2> QED BY <1>2, <2>1, <2>2
<1>5. ASSUME NEW C \in SUBSET Vertex, \A e \in edges : e.parent = n => e.child \in C, Closed(edges, C)
      PROVE  Below(edges, n) \subseteq C
  <2> SUFFICES ASSUME NEW e \in edges, e.parent = n PROVE Walk(edges, {e.child}) \subseteq C
    BY <1>2
  <2>1. e.child \in Vertex /\ e.child \in C
    BY <1>3, <1>5
  <2> QED BY <1>1, <1>5, <2>1
<1> QED BY <1>1, <1>2, <1>3, <1>4, <1>5

(* Leaving out packages, and following the search from each one that is shown   *)
(* until it meets the next, keeps what lies below what.                       *)
LEMMA ReducedBelow ==
  ASSUME NEW g, g.edges \subseteq Edge, customized \subseteq Package, NEW kept \in SUBSET Vertex,
         Closed(g.edges, kept), NEW n \in kept \cap customized
  PROVE  LET reduced == UNION {{[parent |-> m, child |-> d] : d \in CustomizedDependencies(g, m)} :
                                 m \in kept \cap customized}
         IN  Below(reduced, n) = Below(g.edges, n) \cap customized
<1> DEFINE reduced == UNION {{[parent |-> m, child |-> d] : d \in CustomizedDependencies(g, m)} :
                               m \in kept \cap customized}
           plain   == {e \in g.edges : e.child \notin customized}
           all     == Below(g.edges, n)
           shown   == Below(reduced, n)
<1>1. Arrows(g.edges) /\ Arrows(plain) /\ customized \subseteq Vertex /\ kept \cap customized \subseteq Vertex
  BY DEF Arrows, Edge, Vertex
<1>2. \A m \in Vertex :
        /\ m \in Walk(plain, {m}) /\ Walk(plain, {m}) \subseteq Vertex /\ Closed(plain, Walk(plain, {m}))
        /\ \A C \in SUBSET Vertex : m \in C /\ Closed(plain, C) => Walk(plain, {m}) \subseteq C
  <2> HIDE DEF plain
  <2> TAKE m \in Vertex
  <2>1. {m} \in SUBSET Vertex
    OBVIOUS
  <2> QED BY <1>1, <2>1, WalkIsLeast
<1>3. \A m, d : d \in CustomizedDependencies(g, m) <=>
        d \in customized /\ \E e \in g.edges : e.parent \in Walk(plain, {m}) /\ e.child = d
  BY DEF CustomizedDependencies
<1>4. /\ \A e \in reduced : e.parent \in kept \cap customized /\ e.child \in CustomizedDependencies(g, e.parent)
      /\ \A m \in kept \cap customized : \A d \in CustomizedDependencies(g, m) :
           \E e \in reduced : e.parent = m /\ e.child = d
  <2> DEFINE pair(m, d) == [parent |-> m, child |-> d]
  <2>1. \A m, d : pair(m, d).parent = m /\ pair(m, d).child = d
    OBVIOUS
  <2>2. reduced = UNION {{pair(m, d) : d \in CustomizedDependencies(g, m)} : m \in kept \cap customized}
    OBVIOUS
  <2> HIDE DEF pair, reduced
  <2> QED BY <2>1, <2>2
<1>5. \A e \in plain : e \in g.edges /\ e.child \notin customized
  OBVIOUS
<1>6. \A e \in g.edges : e.child \notin customized => e \in plain
  OBVIOUS
<1> HIDE DEF reduced, plain
<1>7. Arrows(reduced)
  BY <1>1, <1>3, <1>4 DEF Arrows
<1>8. /\ all \subseteq Vertex /\ Closed(g.edges, all)
      /\ \A e \in g.edges : e.parent = n => e.child \in all
      /\ \A C \in SUBSET Vertex :
           (\A e \in g.edges : e.parent = n => e.child \in C) /\ Closed(g.edges, C) => all \subseteq C
  BY <1>1, BelowIsLeast
<1>9. /\ shown \subseteq Vertex /\ Closed(reduced, shown)
      /\ \A e \in reduced : e.parent = n => e.child \in shown
      /\ \A C \in SUBSET Vertex :
           (\A e \in reduced : e.parent = n => e.child \in C) /\ Closed(reduced, C) => shown \subseteq C
  BY <1>7, BelowIsLeast
<1> HIDE DEF all, shown
<1>10. shown \subseteq all \cap customized
  <2>1. \A m \in kept \cap customized : m \in all \cup {n} => Walk(plain, {m}) \subseteq all \cup {n}
    <3>1. all \cup {n} \in SUBSET Vertex
      BY <1>1, <1>8
    <3>2. Closed(plain, all \cup {n})
      BY <1>5, <1>8 DEF Closed
    <3> QED BY <1>1, <1>2, <3>1, <3>2
  <2>2. ASSUME NEW e \in reduced, e.parent \in all \cup {n} PROVE e.child \in all \cap customized
    <3>1. PICK d \in g.edges : d.parent \in Walk(plain, {e.parent}) /\ d.child = e.child
      BY <1>3, <1>4
    <3>2. d.parent \in all \cup {n} /\ e.child \in customized
      BY <1>3, <1>4, <2>1, <2>2, <3>1
    <3> QED BY <1>8, <3>1, <3>2 DEF Closed
  <2>3. Closed(reduced, all \cap customized)
    BY <2>2 DEF Closed
  <2>4. all \cap customized \in SUBSET Vertex
    BY <1>8
  <2> QED BY <1>9, <2>2, <2>3, <2>4
<1>11. all \cap customized \subseteq shown
  <2> DEFINE Leads(m) == m \in kept \cap customized /\ m \in shown \cup {n}
             C == {x \in kept : IF x \in customized THEN x \in shown
                                ELSE \E m : Leads(m) /\ x \in Walk(plain, {m})}
  <2>1. ASSUME NEW x \in C \cup {n} PROVE x \in kept /\ \E m : Leads(m) /\ x \in Walk(plain, {m})
    <3>1. CASE x \in customized
      <4>1. Leads(x) /\ x \in Walk(plain, {x})
        BY <1>1, <1>2, <2>1, <3>1
      <4> QED BY <2>1, <4>1
    <3>2. CASE x \notin customized
      BY <2>1, <3>2
    <3> QED BY <3>1, <3>2
  <2>2. ASSUME NEW e \in g.edges, e.parent \in C \cup {n} PROVE e.child \in C
    <3>1. PICK m : Leads(m) /\ e.parent \in Walk(plain, {m})
      BY <2>1, <2>2
    <3>2. e.child \in kept
      BY <2>1, <2>2 DEF Closed
    <3>3. CASE e.child \in customized
      <4>1. e.child \in CustomizedDependencies(g, m)
        BY <1>3, <3>1, <3>3
      <4>2. PICK d \in reduced : d.parent = m /\ d.child = e.child
        BY <1>4, <3>1, <4>1
      <4>3. e.child \in shown
        BY <1>9, <3>1, <4>2 DEF Closed
      <4> QED BY <3>2, <3>3, <4>3
    <3>4. CASE e.child \notin customized
      <4>1. e.child \in Walk(plain, {m})
        BY <1>1, <1>2, <1>6, <3>1, <3>4 DEF Closed
      <4> QED BY <3>1, <3>2, <3>4, <4>1
    <3> QED BY <3>3, <3>4
  <2>3. C \in SUBSET Vertex /\ \A x \in C \cap customized : x \in shown
    OBVIOUS
  <2> HIDE DEF C
  <2>4. Closed(g.edges, C)
    BY <2>2 DEF Closed
  <2>5. all \subseteq C
    BY <1>8, <2>2, <2>3, <2>4
  <2> QED BY <2>3, <2>5
<1> QED BY <1>10, <1>11 DEF all, shown, reduced

(* to-dot --overrides-only leaves packages out, never a dependency, direct or   *)
(* not, between two that it shows (reduce_graph).                             *)
THEOREM ReducedGraphsKeepPaths ==
  ASSUME NEW worlds, \A w \in worlds : World(w)
  PROVE  InitWith(worlds) /\ [][Next]_vars => []ReductionKeepsPaths
<1>1. InitWith(worlds) => GraphInv
  BY GraphStart
<1>2. GraphInv => ReductionKeepsPaths
  <2> SUFFICES ASSUME GraphInv, Ready, NEW installOnly \in BOOLEAN,
                      NEW n \in customized \cap (IF installOnly THEN candidates ELSE graph.nodes)
               PROVE  Below(ReducedGraph(graph, installOnly), n)
                        = Below(Relevant(graph, installOnly).edges, n) \cap customized
    BY DEF ReductionKeepsPaths, Below
  <2> DEFINE rel  == Relevant(graph, installOnly)
             kept == IF installOnly THEN Walk(rel.edges, {ROOT}) ELSE graph.nodes
  <2>1. /\ graph \in Text /\ candidates = Walk(Along(graph, InstallType), {ROOT}) \ {ROOT}
        /\ customized \subseteq Package
    BY DEF GraphInv, ReadInv, Ready
  <2>2. rel.edges = IF installOnly THEN Along(graph, InstallType) ELSE graph.edges
    BY <2>1 DEF Relevant, Text, Graph
  <2>3. rel.edges \subseteq Edge
    BY <2>1, <2>2 DEF Text, Graph, Along
  <2>4. kept \in SUBSET Vertex /\ Closed(rel.edges, kept)
    <3>1. CASE installOnly
      <4>1. kept = Walk(Along(graph, InstallType), {ROOT}) /\ rel.edges = Along(graph, InstallType)
        BY <2>2, <3>1
      <4> QED BY <2>1, <4>1, InstalledIsClosed
    <3>2. CASE ~installOnly
      BY <2>1, <2>2, <3>2 DEF Text, Rooted, WellFormed, Graph, Vertex, Closed
    <3> QED BY <3>1, <3>2
  <2>5. n \in kept \cap customized
    BY <2>1, <2>2
  <2>6. ReducedGraph(graph, installOnly)
          = UNION {{[parent |-> m, child |-> d] : d \in CustomizedDependencies(rel, m)} :
                     m \in kept \cap customized}
    BY DEF ReducedGraph
  <2> HIDE DEF rel, kept
  <2>7. Below(UNION {{[parent |-> m, child |-> d] : d \in CustomizedDependencies(rel, m)} :
                       m \in kept \cap customized}, n)
          = Below(rel.edges, n) \cap customized
    BY <2>1, <2>3, <2>4, <2>5, ReducedBelow
  <2> QED BY <2>6, <2>7 DEF rel
<1> QED BY <1>1, <1>2, GraphStep, PTL
=============================================================================
