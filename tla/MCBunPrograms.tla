---------------------------- MODULE MCBunPrograms ----------------------------
(* Instances of BunPrograms for TLC. *)
EXTENDS BunPrograms

RemoteOnly == {"crashpad_remote"}
=============================================================================
