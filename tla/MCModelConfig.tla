--------------------------- MODULE MCModelConfig ---------------------------
(***************************************************************************)
(* Instances of ModelConfig for TLC: two profiles that share the catalog,  *)
(* with the request kinds that tell the coordinator's code paths apart.    *)
(***************************************************************************)
EXTENDS ModelConfigRefinement, TLC

CONSTANTS alice, bob, shared, r0, r1

MCProfiles == {alice, bob}
MCRoutes   == {r0, r1}

\* A save that activates a new route.
Save == [kind |-> "mutate", moves |-> TRUE,
         writes |-> {<<"credential", "env">>, <<"model_library", "models">>,
                     <<"activation", "config">>}]

\* A managed write under the global scope that changes the shared catalog and
\* then a route, and one that strays out of its profile scope.
Migrate == [kind |-> "managed_global", moves |-> TRUE,
            writes |-> {<<"model_library", "models">>, <<"activation", "config">>}]
Trespass == [kind |-> "managed_profile", moves |-> FALSE,
             writes |-> {<<"provider", "providers">>,
                         <<"model_library", "models">>}]

SaveRequests   == {Save, Trespass}
GlobalRequests == {Migrate}
MoveRequests   == {Save}
MCMissing == {<<shared, "modelDefinitions">>, <<alice, "providers">>,
              <<bob, "providers">>}
Symmetry == Permutations(MCProfiles)
=============================================================================
