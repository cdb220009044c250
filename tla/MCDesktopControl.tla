-------------------------- MODULE MCDesktopControl --------------------------
(* Two accounts on one computer and two health checks for the first.       *)
EXTENDS DesktopControl, TLC

CONSTANTS alice, bob, c1, c2

MCOwner == (c1 :> alice) @@ (c2 :> alice)
=============================================================================
