-------------------------- MODULE MCPostgresRestart --------------------------
(* Small instances of PostgresRestart: the values are in the cfg files.    *)
EXTENDS PostgresRestart
==============================================================================
