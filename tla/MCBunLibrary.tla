----------------------------- MODULE MCBunLibrary -----------------------------
(* Small instances of BunLibrary for TLC. *)
EXTENDS BunLibrary, TLC

CONSTANTS t1, t2

TwoThreads == {t1, t2}
OneDir     == {"/data/cache"}

AnyCall == {"malloc", "backtrace_create_state", "memfd_create", "mkstemp",
            "fcntl", "unlink", "open", "sigaction"}

ThreadSymmetry == Permutations(TwoThreads)
=============================================================================
