---------------------------- MODULE AtomicConfig ----------------------------
(***************************************************************************)
(* What a model-configuration transaction promises its callers: the        *)
(* managed files change by whole operations only, one after the other, and *)
(* an operation that took effect is replaced by later ones alone.          *)
(* ModelConfig implements it (src/main/model-configuration-coordinator.ts).*)
(***************************************************************************)
EXTENDS Naturals

CONSTANTS Files,       \* managed files
          Initially,   \* their first contents
          Operations,  \* operation numbers
          Changes      \* what one operation writes: sets of <<file, stage>>

VARIABLE store

Init == store = Initially

\* Operation o installs all of change c at once.
Commit(o, c) ==
  /\ \A f \in Files : store[f][1] < o
  /\ store' = [f \in Files |->
                 IF \E w \in c : w[1] = f
                   THEN <<o, (CHOOSE w \in c : w[1] = f)[2]>>
                   ELSE store[f]]

Next == \E o \in Operations, c \in Changes : Commit(o, c)

Spec == Init /\ [][Next]_store
=============================================================================
