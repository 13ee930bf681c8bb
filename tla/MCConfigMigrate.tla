-------------------------- MODULE MCConfigMigrate ---------------------------
(* Instances of ConfigMigrate for TLC. *)
EXTENDS ConfigMigrate
=============================================================================
