--------------------------- MODULE MCRolloutStatus ---------------------------
(* Small instances of RolloutStatus: the values are in the cfg file.       *)
EXTENDS RolloutStatus
==============================================================================
