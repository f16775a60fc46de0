--------------------------- MODULE MCFindingTriage ---------------------------
(* Instances of FindingTriage for TLC. *)
EXTENDS FindingTriage, TLC

CONSTANTS f1, r1, r2

OneFinding == {f1}
TwoRequests == {r1, r2}
=============================================================================
