------------------------------ MODULE MCGateway ------------------------------
(***************************************************************************)
(* Instances of Gateway for TLC.                                           *)
(***************************************************************************)
EXTENDS Gateway, TLC

\* A launch and a drain with one trouble of any kind; a restart with two
\* launches; a recovery on its own; and one that waits for a restart.
MCBudgets ==
  {[calls |-> {"ready", "drain"},      launches |-> 1, troubles |-> 1],
   [calls |-> {"restart"},             launches |-> 2, troubles |-> 0],
   [calls |-> {"recovery"},            launches |-> 1, troubles |-> 0],
   [calls |-> {"recovery", "restart"}, launches |-> 0, troubles |-> 0]}

Symmetry == Permutations(Pids)
=============================================================================
