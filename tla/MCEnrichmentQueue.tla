------------------------- MODULE MCEnrichmentQueue -------------------------
(* EnrichmentQueue on small instances. *)
EXTENDS EnrichmentQueue, TLC

CONSTANTS f1, f2, w1, w2

TwoFindings == {f1, f2}
TwoWorkers  == {w1, w2}
OneFinding  == {f1}
OneWorker   == {w1}

Symmetry == Permutations(TwoFindings) \union Permutations(TwoWorkers)
============================================================================
