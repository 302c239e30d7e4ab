---------------------------- MODULE MCConfigStore ----------------------------
(* Two keys, one of them overridden on the device. *)
EXTENDS ConfigStore
=============================================================================
