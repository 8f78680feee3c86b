--------------------------- MODULE BuildSchedule ---------------------------
(***************************************************************************)
(* What a parallel build promises, whatever its rounds and its threads: a   *)
(* package starts only when everything its build environment installs has   *)
(* been built, a package marked exclusive builds alone, and after a failure *)
(* nothing new starts.                                                      *)
(***************************************************************************)
CONSTANTS
  Package,    \* the packages that may have to be built
  Exclusive   \* those that must not share the machine with another build

VARIABLES
  preds,     \* preds[n]: the packages the build environment of n installs
  building,  \* packages being built, or waiting for a free thread
  built,     \* packages whose wheel exists
  failed     \* packages whose build raised

vars == <<preds, building, built, failed>>

TypeOK ==
  /\ DOMAIN preds \subseteq Package
  /\ \A n \in DOMAIN preds : preds[n] \subseteq Package
  /\ building \subseteq Package
  /\ built \subseteq Package
  /\ failed \subseteq Package

Init ==
  /\ DOMAIN preds \subseteq Package
  /\ \A n \in DOMAIN preds : preds[n] \subseteq Package
  /\ building = {}
  /\ built = {}
  /\ failed = {}

(* A set of packages starts: each one new and with its environment built.   *)
Start(S) ==
  /\ failed = {}
  /\ S # {}
  /\ S \subseteq DOMAIN preds \ (building \cup built)
  /\ \A n \in S : preds[n] \subseteq built
  /\ \/ (S \cup building) \cap Exclusive = {}
     \/ building = {} /\ \E n \in S : S = {n}
  /\ building' = building \cup S
  /\ UNCHANGED <<preds, built, failed>>

Finish(n) ==
  /\ n \in building
  /\ building' = building \ {n}
  /\ built' = built \cup {n}
  /\ UNCHANGED <<preds, failed>>

Fail(n) ==
  /\ n \in building
  /\ building' = building \ {n}
  /\ failed' = failed \cup {n}
  /\ UNCHANGED <<preds, built>>

Next ==
  \/ \E S \in SUBSET Package : Start(S)
  \/ \E n \in Package : Finish(n) \/ Fail(n)

Spec == Init /\ [][Next]_vars
=============================================================================
