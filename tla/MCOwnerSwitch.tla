---------------------------- MODULE MCOwnerSwitch ----------------------------
(* Small instances of OwnerSwitch: chats of one conversation, and a managed  *)
(* change of the model configuration with a run id of its own.              *)
EXTENDS OwnerSwitchRefinement, TLC

CONSTANTS change, tab, other

MCConversation == [r \in Runs |-> IF r = change THEN other ELSE tab]

Symmetry ==
  Permutations(Calls) \cup Permutations(Owners) \cup Permutations(Chats)
=============================================================================
