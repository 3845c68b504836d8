--------------------------- MODULE MCRegistryRace ----------------------------
(* Three connection threads that register and leave. *)
EXTENDS RegistryRace

MCSockets == {4}
=============================================================================
