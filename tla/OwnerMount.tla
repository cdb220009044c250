----------------------------- MODULE OwnerMount ------------------------------
(***************************************************************************)
(* What an owner switch promises: one owner at a time has the context, and *)
(* the next one gets it when nobody works in it any more.  Work that goes  *)
(* on after its owner left has no owner's context around it.               *)
(***************************************************************************)
CONSTANTS Owners, Nobody, Runs

VARIABLES owner, working

vars == <<owner, working>>

Init == owner = Nobody /\ working = {}

Open(o) ==
  /\ owner = Nobody /\ working = {}
  /\ owner' = o
  /\ UNCHANGED working

Close ==
  /\ owner # Nobody
  /\ owner' = Nobody
  /\ UNCHANGED working

Join(r) ==
  /\ owner # Nobody
  /\ working' = working \cup {r}
  /\ UNCHANGED owner

Leave(r) ==
  /\ working' = working \ {r}
  /\ UNCHANGED owner

Next ==
  \/ \E o \in Owners : Open(o)
  \/ Close
  \/ \E r \in Runs : Join(r) \/ Leave(r)

Spec == Init /\ [][Next]_vars
=============================================================================
