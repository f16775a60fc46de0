------------------------------ MODULE MCNvdSync ------------------------------
(* Instances of NvdSync for TLC. *)
EXTENDS NvdSync, TLC

CONSTANTS ticker, manual

BothCallers == {ticker, manual}
=============================================================================
