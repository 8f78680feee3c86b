----------------------------- MODULE GraphFile -----------------------------
(***************************************************************************)
(* How bootstrap keeps graph.json                                          *)
(* (src/fromager/bootstrapper/_bootstrapper.py): the main thread serializes  *)
(* the graph after each change, a pool of one thread writes the texts, and  *)
(* the run ends well (finalize), with an exception (__exit__) or killed.     *)
(* Errors of the file system are left out.                                  *)
(***************************************************************************)
EXTENDS GraphStore

VARIABLES
  pending, \* texts in the queue of the write pool
  disk,    \* graph.json: nothing, a part or the whole of a text
  ended    \* "no", "finalizing", "finalized", "aborted" or "killed"

fileVars == <<pending, disk, ended>>

Writing == disk.state = "part" /\ ended # "killed"

FileTypeOK ==
  /\ \A i \in DOMAIN pending : ROOT \in pending[i].nodes
  /\ disk.state \in {"none", "part", "whole"}
  /\ ended \in {"no", "finalizing", "finalized", "aborted", "killed"}

(* The last call of add_to_graph has left its text in the queue; or the run     *)
(* has ended, without a failure.                                             *)
FileInit(over) ==
  IF over
  THEN pending = <<>> /\ ended = "finalized" /\ disk = [state |-> "whole", graph |-> Stored]
  ELSE pending = <<Loaded(Stored)>> /\ ended = "no" /\ disk = [state |-> "none", graph |-> EmptyGraph]

(* A version failed (_handle_phase_error): its removal, and one more text.    *)
FailVersion ==
  /\ ended = "no"
  /\ \/ (\E n \in nodes \ {ROOT} : RemovePackage(n)) /\ UNCHANGED pending
     \/ /\ RemoveNext
        /\ pending' = IF Removing' THEN pending ELSE Append(pending, Loaded(Stored)')
  /\ UNCHANGED <<disk, ended>>

(* Mutant: a pool of several threads. *)
AnyInQueue == DOMAIN pending

NextInQueue == DOMAIN pending \cap {1}

(* write_text: the file is opened, which empties it, and filled.             *)
OpenFile ==
  /\ ~Writing /\ \E i \in NextInQueue :
       /\ disk' = [state |-> "part", graph |-> pending[i]]
       /\ pending' = [j \in 1..(Len(pending) - 1) |-> IF j < i THEN pending[j] ELSE pending[j + 1]]
  /\ UNCHANGED <<storeVars, ended>>

FillFile ==
  /\ Writing /\ disk' = [disk EXCEPT !.state = "whole"]
  /\ UNCHANGED <<storeVars, pending, ended>>

(* finalize: a last text, and the queue is drained.                          *)
Finalize ==
  /\ ~Removing
  /\ \/ ended = "no" /\ ended' = "finalizing" /\ pending' = Append(pending, Loaded(Stored))
     \/ ended = "finalizing" /\ pending = <<>> /\ ~Writing /\ ended' = "finalized" /\ UNCHANGED pending
  /\ UNCHANGED <<storeVars, disk>>

(* __exit__ after an exception: what is queued is dropped, what is being       *)
(* written goes on.                                                          *)
Exit ==
  /\ ended = "no" /\ ~Removing /\ ended' = "aborted" /\ pending' = <<>>
  /\ UNCHANGED <<storeVars, disk>>

Kill ==
  /\ ended \in {"no", "finalizing"} /\ ended' = "killed" /\ pending' = <<>>
  /\ UNCHANGED <<storeVars, disk>>

FileNext == FailVersion \/ OpenFile \/ FillFile \/ Finalize \/ Exit \/ Kill

-----------------------------------------------------------------------------
(* Whenever the queue is empty, graph.json is the graph as it is, not one from   *)
(* before the last failure, unless the run was cut short; and after finalize it *)
(* is complete (_write_graph_async, _schedule_write, finalize, __exit__).       *)
FileFollowsGraph ==
  /\ pending = <<>> /\ disk.state = "whole" /\ ~Removing /\ ended \notin {"aborted", "killed"} =>
       disk.graph = Loaded(Stored)
  /\ ended = "finalized" => disk.state = "whole"
=============================================================================
