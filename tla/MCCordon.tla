------------------------------ MODULE MCCordon ------------------------------
(* Small instances of Cordon: the values are in the cfg files.             *)
EXTENDS Cordon
==============================================================================
