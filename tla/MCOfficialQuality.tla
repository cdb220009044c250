------------------------- MODULE MCOfficialQuality -------------------------
(***************************************************************************)
(* Two accounts that share the device, for TLC.                            *)
(***************************************************************************)
EXTENDS OfficialQuality, TLC

CONSTANTS alice, bob

MCAccounts == {alice, bob}
B(events, choices, published, exits) ==
    [events |-> events, choices |-> choices, published |-> published,
     exits |-> exits]
MCBudgets == {B(3, 2, 1, 0), B(2, 3, 1, 0), B(2, 2, 3, 0), B(1, 3, 2, 1),
              B(2, 2, 2, 1)}
Symmetry == Permutations(MCAccounts)
=============================================================================
