----------------------------- MODULE MCBunUnwind -----------------------------
(* Small instances of BunUnwind for TLC. *)
EXTENDS BunUnwind, TLC

CONSTANTS t1, t2, h1, h2

TwoThreads == {t1, t2}
OneHandle  == {h1}
TwoHandles == {h1, h2}

ThreadSymmetry == Permutations(TwoThreads)
=============================================================================
