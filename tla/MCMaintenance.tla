---------------------------- MODULE MCMaintenance ----------------------------
(* Small instances of Maintenance: three types with targets in the first   *)
(* and the third one; the other values are in the cfg files.               *)
EXTENDS Maintenance

ThreeNoneTwo == <<1, 1, 1, 3, 3>>
==============================================================================
