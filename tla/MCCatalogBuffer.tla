-------------------------- MODULE MCCatalogBuffer --------------------------
(* Two metrics, one with variants, as constants of CatalogBuffer for TLC,  *)
(* and two without for the run with Redis and liveness.                    *)
EXTENDS CatalogBuffer, TLC

MCMetrics == {"lat", "up"}
MCKind == [m \in MCMetrics |-> IF m = "lat" THEN "summary" ELSE "gauge"]
MCRequests == {<<"lat">>, <<"up", "lat", "up">>}

TwoGauges == {"cpu", "mem"}
TwoKinds == [m \in TwoGauges |-> "gauge"]
TwoRequests == {<<"cpu">>, <<"cpu", "mem">>}

Symmetry == Permutations(Exports)
=============================================================================
