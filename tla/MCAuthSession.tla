---------------------------- MODULE MCAuthSession ----------------------------
(***************************************************************************)
(* Instances of AuthSession for TLC.                                       *)
(***************************************************************************)
EXTENDS AuthSession

\* Two sign-ins of an app that goes on, with a secure storage that can be
\* used, and one sign-in with every fault.
Everything ==
  {[sessions |-> 2, faults |-> AllFaults \ {"locked", "crash"}],
   [sessions |-> 1, faults |-> AllFaults]}

Quiet == {[sessions |-> 2, faults |-> {}]}
=============================================================================
