--------------------------- MODULE MCWriteAuthority ---------------------------
(***************************************************************************)
(* Four calls over two profiles for TLC: a catalog-wide write, one of each *)
(* profile, and one of both profiles and the catalog.                      *)
(***************************************************************************)
EXTENDS WriteAuthorityRefinement, TLC

CONSTANTS catalog, one, two, both

MCCalls == {catalog, one, two, both}
MCScopeProfiles ==
  (catalog :> {}) @@ (one :> {1}) @@ (two :> {2}) @@ (both :> {1, 2})
MCScopeGlobal == [c \in MCCalls |-> c \in {catalog, both}]
=============================================================================
