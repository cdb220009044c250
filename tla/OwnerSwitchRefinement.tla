------------------------ MODULE OwnerSwitchRefinement ------------------------
(***************************************************************************)
(* The owner switch implements OwnerMount: the owner is the active one     *)
(* while the coordinator is ready, and the runs between an assertion of    *)
(* their lease and the next await are at work.                             *)
(***************************************************************************)
EXTENDS OwnerSwitch

Mounted == INSTANCE OwnerMount WITH
  owner <- IF state = "ready" THEN activeOwnerId ELSE Nobody,
  working <- {r \in Runs : run[r].phase = "busy"}

\* An owner is mounted only when no run of an earlier owner is at work, and
\* runs go to work only under a mounted owner (transitionTo, beginRun and
\* assertCurrent together).
ImplementsOwnerMount == Mounted!Spec
=============================================================================
