---------------------------- MODULE MCWorkspace ----------------------------
(***************************************************************************)
(* An instance for TLC: three runs, two recipes, build tags up to 2, two     *)
(* requirement files, two tries of two requests.                            *)
(***************************************************************************)
EXTENDS Workspace
=============================================================================
