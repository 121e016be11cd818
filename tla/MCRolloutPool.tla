---------------------------- MODULE MCRolloutPool ----------------------------
(* Small instances of RolloutPool: the values are in the cfg files.        *)
EXTENDS RolloutPool
==============================================================================
