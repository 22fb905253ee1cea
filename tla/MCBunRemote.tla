----------------------------- MODULE MCBunRemote -----------------------------
(* Small instances of BunRemote for TLC. *)
EXTENDS BunRemote

BothBackends       == {"libunwind", "libunwindstack"}
LibunwindOnly      == {"libunwind"}
LibunwindstackOnly == {"libunwindstack"}
=============================================================================
