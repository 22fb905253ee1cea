--------------------------- MODULE BunLibraryProofs ---------------------------
(***************************************************************************)
(* Proofs about BunLibrary, for any finite number of threads, any number   *)
(* of calls and signals, and whichever library and system calls may fail.  *)
(***************************************************************************)
EXTENDS BunLibrary, FiniteSetTheorems, TLAPS

InitLabels == {"init_get", "init_create", "init_bind"}

(* A set of threads is finite.  When one thread joins or leaves it, its    *)
(* cardinality changes by one.                                             *)
LEMMA ThreadsFinite ==
  ASSUME NEW S \in SUBSET Threads
  PROVE  IsFiniteSet(S) /\ Cardinality(S) \in Nat
  BY LibraryAssumption, FS_Subset, FS_CardinalityType

LEMMA OneJoins ==
  ASSUME NEW S \in SUBSET Threads, NEW t \in Threads, t \notin S
  PROVE  Cardinality(S \cup {t}) = Cardinality(S) + 1
  BY ThreadsFinite, FS_AddElement

LEMMA OneLeaves ==
  ASSUME NEW S \in SUBSET Threads, NEW t \in S
  PROVE  /\ Cardinality(S \ {t}) = Cardinality(S) - 1
         /\ Cardinality(S) > 0
  <1>1. IsFiniteSet(S) /\ Cardinality(S) \in Nat
    BY ThreadsFinite
  <1>2. Cardinality(S) # 0
    BY <1>1, FS_EmptySet
  <1>3. Cardinality(S \ {t}) = IF t \in S THEN Cardinality(S) - 1 ELSE Cardinality(S)
    BY <1>1, FS_RemoveElement
  <1> QED BY <1>1, <1>2, <1>3

(* What a handle that was cleared and then set up by one backend holds. *)
LEMMA FreshHandle ==
  ASSUME NEW h, NEW b \in Backends
  PROVE  /\ Memset(h) = [f \in Fields |-> Null]
         /\ Sets(b, [f \in Fields |-> Null]) = Of(b)
         /\ Sets(b, Memset(h)) = Of(b)
  BY DEF Memset, Sets, Of

(* A handle is of one backend only. *)
LEMMA BackendsDiffer ==
  /\ \A b, c \in Backends : Of(b) = Of(c) => b = c
  /\ \A b \in Backends : /\ Of(b) \in [Fields -> Backends \cup {Null, "freed"}]
                         /\ Of(b)["unwind"] = b
  <1>1. \A b \in Backends : Of(b)["unwind"] = b
    BY DEF Of, Provides, Fields, Backends
  <1>2. \A b \in Backends : Of(b) \in [Fields -> Backends \cup {Null, "freed"}]
    BY DEF Of
  <1> QED BY <1>1, <1>2

-----------------------------------------------------------------------------
(* What a step that has nothing to do with a part leaves alone.            *)

LEMMA HandlesKept ==
  ASSUME TypeOK, HandlesInv, NEW t \in Threads, NEW to, Goto(t, to),
         to \notin InitLabels \/ pc[t] \in InitLabels,
         UNCHANGED handles
  PROVE  HandlesInv'
  <1>1. InitPending'
    BY DEF TypeOK, HandlesInv, InitPending, InitLabels, Goto, handles
  <1>2. EntryPointsMatch'
    BY DEF HandlesInv, EntryPointsMatch, handles
  <1> QED BY <1>1, <1>2 DEF HandlesInv

LEMMA StateKept ==
  ASSUME TypeOK, StateInv, NEW t \in Threads, NEW to, Goto(t, to),
         to \notin {"init_bind", "unwind_get", "unwind_create"},
         UNCHANGED singleton,
         \A u \in Threads : usable'[u] /\ handle'[u] = Of("libbacktrace")
                              => usable[u] /\ handle[u] = Of("libbacktrace")
  PROVE  StateInv'
  BY DEF TypeOK, StateInv, StateAwaited, StatePrecomputed, Goto, singleton

LEMMA FilesKept ==
  ASSUME TypeOK, DescriptorsAccounted, NEW t \in Threads, NEW to, Goto(t, to),
         ~Making(t), to \notin {"fcntl", "unlink"},
         files' = files
  PROVE  DescriptorsAccounted'
  <1>1. {u \in Threads : Making(u)}' = {u \in Threads : Making(u)}
    BY DEF TypeOK, Making, Goto
  <1> QED BY <1>1 DEF DescriptorsAccounted

LEMMA PathKept ==
  ASSUME TypeOK, PathInv, NEW t \in Threads, NEW to, Goto(t, to),
         to \notin {"tmp_get", "mkstemp"},
         UNCHANGED <<cacheDir, withdrawn, path>>
  PROVE  PathInv'
  BY DEF TypeOK, PathInv, TmpDirTested, TmpPathNotNull, Goto

LEMMA SignalsKept ==
  ASSUME TypeOK, SignalsInv, NEW t \in Threads, NEW to, Goto(t, to),
         to # "sigaction",
         UNCHANGED signals
  PROVE  SignalsInv'
  BY DEF TypeOK, SignalsInv, SignalsSoFar, EverySignalHandled, Goto, signals

(* The type of what a step leaves alone, and of the label it goes to.      *)
LEMMA GotoType ==
  ASSUME TypeOK, NEW t \in Threads, NEW to \in Labels, Goto(t, to)
  PROVE  pc' \in [Threads -> Labels]
  BY DEF TypeOK, Goto

LEMMA EnterType ==
  ASSUME TypeOK, NEW t \in Threads, NEW to, Enter(t, to)
  PROVE  calls' \in 0..MaxCalls /\ pc[t] = "idle" /\ Goto(t, to)
  <1>1. calls \in 0..MaxCalls /\ calls < MaxCalls /\ calls' = calls + 1
    BY DEF TypeOK, Enter
  <1>2. calls' \in 0..MaxCalls
    BY <1>1, LibraryAssumption
  <1> QED BY <1>2 DEF Enter

-----------------------------------------------------------------------------
LEMMA InitLibrary == Init => LibraryInv
  <1> SUFFICES ASSUME Init PROVE LibraryInv
    OBVIOUS
  <1>1. TypeOK
    <2>1. handle \in [Threads -> [Fields -> Backends \cup {Null, "freed"}]]
      BY DEF Init
    <2>2. next \in [Threads -> 1..(Signals + 1)] /\ calls \in 0..MaxCalls
      BY LibraryAssumption DEF Init
    <2> QED BY <2>1, <2>2 DEF Init, TypeOK, Labels
  <1>2. HandlesInv
    BY DEF Init, HandlesInv, InitPending, EntryPointsMatch
  <1>3. StateInv
    BY DEF Init, StateInv, StateAwaited, StatePrecomputed
  <1>4. DescriptorsAccounted
    <2>1. {t \in Threads : Making(t)} = {}
      BY DEF Init, Making
    <2>2. /\ files.open = 0 /\ files.handed = 0 /\ files.names = 0 /\ files.spoiled = 0
          /\ Cardinality({t \in Threads : Making(t)}) = 0
      BY <2>1, FS_EmptySet DEF Init
    <2> QED BY <2>2 DEF DescriptorsAccounted
  <1>5. PathInv
    BY DEF Init, PathInv, TmpDirTested, TmpPathNotNull
  <1>6. SignalsInv
    BY DEF Init, SignalsInv, SignalsSoFar, EverySignalHandled
  <1> QED BY <1>1, <1>2, <1>3, <1>4, <1>5, <1>6 DEF LibraryInv

LEMMA StutterLibrary ==
  ASSUME LibraryInv, UNCHANGED vars
  PROVE  LibraryInv'
  <1> USE DEF vars, handles, singleton, disk, signals
  <1>1. TypeOK'
    BY DEF LibraryInv, TypeOK
  <1>2. HandlesInv'
    BY DEF LibraryInv, HandlesInv, InitPending, EntryPointsMatch
  <1>3. StateInv' /\ PathInv' /\ SignalsInv'
    BY DEF LibraryInv, StateInv, StateAwaited, StatePrecomputed, PathInv, TmpDirTested,
           TmpPathNotNull, SignalsInv, SignalsSoFar, EverySignalHandled
  <1>4. DescriptorsAccounted'
    BY DEF LibraryInv, DescriptorsAccounted, Making
  <1> QED BY <1>1, <1>2, <1>3, <1>4 DEF LibraryInv

-----------------------------------------------------------------------------
(* Handles.  A step of a handle leaves files, paths and signals alone.     *)
LEMMA HandleStepKeeps ==
  ASSUME LibraryInv, NEW t \in Threads, NEW to, Goto(t, to),
         pc[t] \notin {"fcntl", "unlink"},
         to \in {"idle", "init_get", "init_create", "init_bind", "unwind_get",
                 "unwind_create"},
         UNCHANGED <<disk, signals>>
  PROVE  /\ DescriptorsAccounted' /\ PathInv' /\ SignalsInv'
         /\ pc' \in [Threads -> Labels]
         /\ cacheDir' \in CacheDirs \cup {Null} /\ withdrawn' \in [Threads -> BOOLEAN]
         /\ path' \in [Threads -> CacheDirs \cup {Null, TmpDir}]
         /\ files' \in [open : Nat, handed : Nat, names : Nat, spoiled : Nat]
         /\ table' \in [1..Signals -> Threads \cup {Null}]
         /\ next' \in [Threads -> 1..(Signals + 1)]
         /\ registered' \in BOOLEAN
  <1>1. TypeOK /\ UNCHANGED <<cacheDir, withdrawn, path, files, table, next, registered>>
    BY DEF LibraryInv, disk, signals
  <1>2. DescriptorsAccounted'
    BY <1>1, FilesKept DEF LibraryInv, Making
  <1>3. PathInv'
    BY <1>1, PathKept DEF LibraryInv
  <1>4. SignalsInv'
    BY <1>1, SignalsKept DEF LibraryInv
  <1>5. pc' \in [Threads -> Labels]
    BY <1>1, GotoType DEF Labels
  <1> QED BY <1>1, <1>2, <1>3, <1>4, <1>5 DEF TypeOK

(* bun_handle_init fails: the handle is cleared and stays unusable.        *)
LEMMA InitFailsInv ==
  ASSUME LibraryInv, NEW t \in Threads, ~usable[t],
         NEW to \in {"idle", "init_get"}, Enter(t, to),
         handle' = [handle EXCEPT ![t] = Memset(@)],
         UNCHANGED <<usable, singleton, disk, signals>>
  PROVE  LibraryInv'
  <1> DEFINE h == [f \in Fields |-> Null]
  <1>1. TypeOK /\ calls' \in 0..MaxCalls /\ pc[t] = "idle" /\ Goto(t, to)
    BY EnterType DEF LibraryInv
  <1>2. DescriptorsAccounted' /\ PathInv' /\ SignalsInv'
    BY <1>1, HandleStepKeeps
  <1>6. handle' = [handle EXCEPT ![t] = h] /\ h \in [Fields -> Backends \cup {Null, "freed"}]
    BY DEF Memset
  <1> HIDE DEF h
  <1>3. TypeOK'
    <2>1. handle' \in [Threads -> [Fields -> Backends \cup {Null, "freed"}]]
      BY <1>1, <1>6 DEF TypeOK
    <2> QED BY <1>1, <2>1, HandleStepKeeps DEF TypeOK, singleton
  <1>4. HandlesInv'
    <2>1. InitPending'
      BY <1>1, <1>6 DEF LibraryInv, HandlesInv, InitPending, TypeOK, Goto, h
    <2>2. EntryPointsMatch'
      BY <1>1, <1>6 DEF LibraryInv, HandlesInv, EntryPointsMatch, TypeOK
    <2> QED BY <2>1, <2>2 DEF HandlesInv
  <1>5. StateInv'
    <2>1. \A u \in Threads : usable'[u] /\ handle'[u] = Of("libbacktrace")
                                => usable[u] /\ handle[u] = Of("libbacktrace")
      BY <1>1, <1>6 DEF TypeOK
    <2> QED BY <1>1, <2>1, StateKept DEF LibraryInv
  <1> QED BY <1>2, <1>3, <1>4, <1>5 DEF LibraryInv

LEMMA InitNoneInv ==
  ASSUME LibraryInv, NEW t \in Threads, InitNone(t)
  PROVE  LibraryInv'
  BY InitFailsInv DEF InitNone

LEMMA InitLibbacktraceInv ==
  ASSUME LibraryInv, NEW t \in Threads, InitLibbacktrace(t)
  PROVE  LibraryInv'
  BY InitFailsInv DEF InitLibbacktrace

(* bun_handle_init succeeds: the handle is of the backend it was set up    *)
(* for, since it was cleared before.                                       *)
LEMMA HandleSet ==
  ASSUME LibraryInv, NEW t \in Threads, Goto(t, "idle"), NEW b \in Backends,
         handle' = [handle EXCEPT ![t] = Of(b)],
         usable' = [usable EXCEPT ![t] = TRUE]
  PROVE  /\ HandlesInv'
         /\ handle' \in [Threads -> [Fields -> Backends \cup {Null, "freed"}]]
         /\ usable' \in [Threads -> BOOLEAN]
         /\ \A u \in Threads : usable'[u] /\ handle'[u] = Of("libbacktrace")
              => (u = t /\ b = "libbacktrace") \/ (usable[u] /\ handle[u] = Of("libbacktrace"))
  <1>1. TypeOK
    BY DEF LibraryInv
  <1>2. /\ handle' \in [Threads -> [Fields -> Backends \cup {Null, "freed"}]]
        /\ usable' \in [Threads -> BOOLEAN]
    BY <1>1, BackendsDiffer DEF TypeOK
  <1>3. InitPending'
    BY <1>1 DEF LibraryInv, HandlesInv, InitPending, TypeOK, Goto
  <1>4. EntryPointsMatch'
    BY <1>1 DEF LibraryInv, HandlesInv, EntryPointsMatch, TypeOK
  <1>5. \A u \in Threads : usable'[u] /\ handle'[u] = Of("libbacktrace")
          => (u = t /\ b = "libbacktrace") \/ (usable[u] /\ handle[u] = Of("libbacktrace"))
    BY <1>1, BackendsDiffer DEF TypeOK, Backends
  <1> QED BY <1>2, <1>3, <1>4, <1>5 DEF HandlesInv

LEMMA InitAtOnceInv ==
  ASSUME LibraryInv, NEW t \in Threads, ~usable[t], Enter(t, "idle"),
         NEW b \in Backends, b # "libbacktrace",
         handle' = [handle EXCEPT ![t] = Sets(b, Memset(@))],
         usable' = [usable EXCEPT ![t] = TRUE],
         UNCHANGED <<singleton, disk, signals>>
  PROVE  LibraryInv'
  <1>1. TypeOK /\ calls' \in 0..MaxCalls /\ pc[t] = "idle" /\ Goto(t, "idle")
    BY EnterType DEF LibraryInv
  <1>2. handle' = [handle EXCEPT ![t] = Of(b)]
    BY FreshHandle
  <1>3. DescriptorsAccounted' /\ PathInv' /\ SignalsInv'
    BY <1>1, HandleStepKeeps
  <1>4. HandlesInv'
    BY <1>1, <1>2, HandleSet
  <1>5. TypeOK'
    BY <1>1, <1>2, HandleSet, HandleStepKeeps DEF TypeOK, singleton
  <1>6. StateInv'
    <2>1. \A u \in Threads : usable'[u] /\ handle'[u] = Of("libbacktrace")
                                => usable[u] /\ handle[u] = Of("libbacktrace")
      BY <1>1, <1>2, HandleSet
    <2> QED BY <1>1, <2>1, StateKept DEF LibraryInv
  <1> QED BY <1>3, <1>4, <1>5, <1>6 DEF LibraryInv

LEMMA InitLibunwindInv ==
  ASSUME LibraryInv, NEW t \in Threads, InitLibunwind(t)
  PROVE  LibraryInv'
  <1>1. ~usable[t] /\ Enter(t, "idle") /\ UNCHANGED <<singleton, disk, signals>>
    BY DEF InitLibunwind
  <1>2. CASE handle' = [handle EXCEPT ![t] = Memset(@)] /\ UNCHANGED usable
    BY <1>1, <1>2, InitFailsInv
  <1>3. CASE /\ handle' = [handle EXCEPT ![t] = Sets("libunwind", Memset(@))]
             /\ usable' = [usable EXCEPT ![t] = TRUE]
    BY <1>1, <1>3, InitAtOnceInv DEF Backends
  <1> QED BY <1>2, <1>3 DEF InitLibunwind

LEMMA InitLibunwindstackInv ==
  ASSUME LibraryInv, NEW t \in Threads, InitLibunwindstack(t)
  PROVE  LibraryInv'
  BY InitAtOnceInv DEF InitLibunwindstack, Backends

LEMMA BindLibbacktraceInv ==
  ASSUME LibraryInv, NEW t \in Threads, BindLibbacktrace(t)
  PROVE  LibraryInv'
  <1>1. /\ pc[t] = "init_bind" /\ Goto(t, "idle")
        /\ handle' = [handle EXCEPT ![t] = Sets("libbacktrace", @)]
        /\ usable' = [usable EXCEPT ![t] = TRUE]
        /\ UNCHANGED <<singleton, disk, signals, calls>>
    BY DEF BindLibbacktrace
  <1>2. TypeOK /\ ~usable[t] /\ handle[t] = [f \in Fields |-> Null]
    BY <1>1 DEF LibraryInv, HandlesInv, InitPending
  <1>4. "libbacktrace" \in Backends
    BY DEF Backends
  <1>3. handle' = [handle EXCEPT ![t] = Of("libbacktrace")]
    BY <1>1, <1>2, <1>4, FreshHandle
  <1>5. DescriptorsAccounted' /\ PathInv' /\ SignalsInv'
    BY <1>1, HandleStepKeeps
  <1>6. HandlesInv'
    BY <1>1, <1>3, <1>4, HandleSet
  <1>7. TypeOK'
    BY <1>1, <1>2, <1>3, <1>4, HandleSet, HandleStepKeeps DEF TypeOK, singleton
  <1>8. StateInv'
    <2>1. creations' = creations /\ state' = state
      BY <1>1 DEF singleton
    <2>2. creations.failed = 0 => state # Null
      BY <1>1 DEF LibraryInv, StateInv, StateAwaited
    <2>3. StateAwaited'
      BY <1>1, <1>2, <2>1 DEF LibraryInv, StateInv, StateAwaited, TypeOK, Goto
    <2>4. StatePrecomputed'
      BY <1>1, <1>2, <1>3, <2>1, <2>2 DEF LibraryInv, StateInv, StatePrecomputed, TypeOK, Goto
    <2> QED BY <2>3, <2>4 DEF StateInv
  <1> QED BY <1>5, <1>6, <1>7, <1>8 DEF LibraryInv

(* bun_unwind with a usable libbacktrace handle finds the state that its   *)
(* initialisation created.                                                 *)
LEMMA UnwindLibbacktraceInv ==
  ASSUME LibraryInv, NEW t \in Threads, UnwindLibbacktrace(t)
  PROVE  LibraryInv'
  <1>1. /\ usable[t] /\ handle[t]["unwind"] = "libbacktrace" /\ Enter(t, "unwind_get")
        /\ UNCHANGED <<handles, singleton, disk, signals>>
    BY DEF UnwindLibbacktrace
  <1>2. TypeOK /\ calls' \in 0..MaxCalls /\ pc[t] = "idle" /\ Goto(t, "unwind_get")
    BY <1>1, EnterType DEF LibraryInv
  <1>3. DescriptorsAccounted' /\ PathInv' /\ SignalsInv'
    BY <1>1, <1>2, HandleStepKeeps
  <1>4. HandlesInv'
    BY <1>1, <1>2, HandlesKept DEF LibraryInv, InitLabels
  <1>5. TypeOK'
    BY <1>1, <1>2, HandleStepKeeps DEF TypeOK, handles, singleton
  <1>6. StateInv'
    <2>1. UNCHANGED <<handle, usable, creations, state>>
      BY <1>1 DEF handles, singleton
    <2>2. handle[t] = Of("libbacktrace")
      BY <1>1, BackendsDiffer DEF LibraryInv, HandlesInv, EntryPointsMatch
    <2>3. creations.failed = 0 => state # Null
      BY <1>1, <2>2 DEF LibraryInv, StateInv, StatePrecomputed
    <2>4. StateAwaited'
      BY <1>2, <2>1, <2>3 DEF LibraryInv, StateInv, StateAwaited, TypeOK, Goto
    <2>5. StatePrecomputed'
      BY <1>2, <2>1 DEF LibraryInv, StateInv, StatePrecomputed, TypeOK, Goto
    <2> QED BY <2>4, <2>5 DEF StateInv
  <1> QED BY <1>3, <1>4, <1>5, <1>6 DEF LibraryInv

(* The test of get_backtrace_state: a bun_unwind that is due to find the   *)
(* state does not go on to create it.                                      *)
LEMMA GetStateInv ==
  ASSUME LibraryInv, NEW t \in Threads, GetState(t)
  PROVE  LibraryInv'
  <1> DEFINE to == IF state = Null THEN Getting[pc[t]] ELSE Got[pc[t]]
  <1>1. /\ pc[t] \in {"init_get", "unwind_get"} /\ Goto(t, to)
        /\ UNCHANGED <<handles, singleton, disk, signals, calls>>
    BY DEF GetState, Getting
  <1>2. /\ pc[t] = "init_get" => to = IF state = Null THEN "init_create" ELSE "init_bind"
        /\ pc[t] = "unwind_get" => to = IF state = Null THEN "unwind_create" ELSE "idle"
    BY DEF Getting, Got
  <1> HIDE DEF to
  <1>3. TypeOK /\ to \in {"idle", "init_create", "init_bind", "unwind_create"}
    BY <1>1, <1>2 DEF LibraryInv
  <1>4. DescriptorsAccounted' /\ PathInv' /\ SignalsInv'
    BY <1>1, <1>3, HandleStepKeeps
  <1>5. HandlesInv'
    BY <1>1, <1>2, HandlesKept DEF LibraryInv, InitLabels
  <1>6. TypeOK'
    BY <1>1, <1>3, HandleStepKeeps DEF TypeOK, handles, singleton
  <1>7. StateInv'
    <2>1. UNCHANGED <<handle, usable, creations, state>>
      BY <1>1 DEF handles, singleton
    <2>2. creations.failed = 0 => to # "unwind_create"
      BY <1>1, <1>2 DEF LibraryInv, StateInv, StateAwaited
    <2>3. StateAwaited'
      BY <1>1, <1>2, <1>3, <2>1 DEF LibraryInv, StateInv, StateAwaited, TypeOK, Goto
    <2>4. StatePrecomputed'
      BY <1>1, <1>3, <2>1, <2>2 DEF LibraryInv, StateInv, StatePrecomputed, TypeOK, Goto
    <2> QED BY <2>3, <2>4 DEF StateInv
  <1> QED BY <1>4, <1>5, <1>6, <1>7 DEF LibraryInv

(* The store of get_backtrace_state: a bun_unwind gets here only after a   *)
(* failed creation, so it is never counted as late without one.            *)
LEMMA CreateStateInv ==
  ASSUME LibraryInv, NEW t \in Threads, CreateState(t)
  PROVE  LibraryInv'
  <1> DEFINE to == Got[pc[t]]
  <1>1. /\ pc[t] \in {"init_create", "unwind_create"} /\ Goto(t, to)
        /\ UNCHANGED <<handles, disk, signals, calls>>
    BY DEF CreateState
  <1>2. to = IF pc[t] = "init_create" THEN "init_bind" ELSE "idle"
    BY <1>1 DEF Got
  <1> HIDE DEF to
  <1>3. /\ TypeOK /\ UNCHANGED <<handle, usable>>
        /\ creations \in [early : Nat, late : Nat, failed : Nat]
    BY <1>1 DEF LibraryInv, TypeOK, handles
  <1>4. DescriptorsAccounted' /\ PathInv' /\ SignalsInv'
    BY <1>1, <1>2, HandleStepKeeps
  <1>5. HandlesInv'
    BY <1>1, <1>2, HandlesKept DEF LibraryInv, InitLabels
  <1>6. CASE /\ state' = t
             /\ creations' = IF pc[t] = "init_create"
                             THEN [creations EXCEPT !.early = @ + 1]
                             ELSE [creations EXCEPT !.late = @ + 1]
    <2>1. state' # Null /\ state' \in Threads \cup {Null}
      BY <1>6, LibraryAssumption
    <2>2. /\ creations' \in [early : Nat, late : Nat, failed : Nat]
          /\ creations'.failed = creations.failed
      BY <1>3, <1>6
    <2>3. TypeOK'
      BY <1>1, <1>2, <1>3, <2>1, <2>2, HandleStepKeeps DEF TypeOK, handles
    <2>4. StateAwaited'
      BY <2>1 DEF StateAwaited
    <2>5. StatePrecomputed'
      <3>1. SUFFICES ASSUME creations.failed = 0
                     PROVE  creations'.late = 0 /\ \A u \in Threads : pc'[u] # "unwind_create"
        BY <2>1, <2>2 DEF StatePrecomputed
      <3>2. creations.late = 0 /\ \A u \in Threads : pc[u] # "unwind_create"
        BY <3>1 DEF LibraryInv, StateInv, StatePrecomputed
      <3>3. pc[t] = "init_create"
        BY <1>1, <3>2
      <3>4. creations'.late = 0
        BY <1>3, <1>6, <3>2, <3>3
      <3> QED BY <1>1, <1>2, <1>3, <3>2, <3>4 DEF TypeOK, Goto
    <2> QED BY <1>4, <1>5, <2>3, <2>4, <2>5 DEF LibraryInv, StateInv
  <1>7. CASE state' = Null /\ creations' = [creations EXCEPT !.failed = @ + 1]
    <2>1. /\ creations' \in [early : Nat, late : Nat, failed : Nat]
          /\ creations'.failed # 0 /\ state' \in Threads \cup {Null}
      BY <1>3, <1>7
    <2>2. TypeOK'
      BY <1>1, <1>2, <1>3, <2>1, HandleStepKeeps DEF TypeOK, handles
    <2>3. StateInv'
      BY <2>1 DEF StateInv, StateAwaited, StatePrecomputed
    <2> QED BY <1>4, <1>5, <2>2, <2>3 DEF LibraryInv
  <1> QED BY <1>6, <1>7 DEF CreateState

(* bun_handle_deinit leaves a handle that is not usable.                   *)
LEMMA HandleDeinitInv ==
  ASSUME LibraryInv, NEW t \in Threads, HandleDeinit(t)
  PROVE  LibraryInv'
  <1> DEFINE h == [handle[t] EXCEPT !["backend_context"] =
                     IF handle[t]["destroy"] = "libunwind" THEN "freed" ELSE @]
  <1>1. /\ usable[t] /\ Enter(t, "idle")
        /\ usable' = [usable EXCEPT ![t] = FALSE]
        /\ UNCHANGED <<singleton, disk, signals>>
        /\ handle' = [handle EXCEPT ![t] = h]
    BY DEF HandleDeinit
  <1>2. TypeOK /\ calls' \in 0..MaxCalls /\ pc[t] = "idle" /\ Goto(t, "idle")
    BY <1>1, EnterType DEF LibraryInv
  <1>3. DescriptorsAccounted' /\ PathInv' /\ SignalsInv'
    BY <1>1, <1>2, HandleStepKeeps
  <1>4. h \in [Fields -> Backends \cup {Null, "freed"}]
    BY <1>2 DEF TypeOK, Fields
  <1> HIDE DEF h
  <1>5. StateInv'
    <2>1. \A u \in Threads : usable'[u] /\ handle'[u] = Of("libbacktrace")
                                => usable[u] /\ handle[u] = Of("libbacktrace")
      BY <1>1, <1>2 DEF TypeOK
    <2> QED BY <1>1, <1>2, <2>1, StateKept DEF LibraryInv
  <1>6. TypeOK'
    <2>1. handle' \in [Threads -> [Fields -> Backends \cup {Null, "freed"}]]
      BY <1>1, <1>2, <1>4 DEF TypeOK
    <2> QED BY <1>1, <1>2, <2>1, HandleStepKeeps DEF TypeOK, singleton
  <1>7. InitPending'
    BY <1>1, <1>2 DEF LibraryInv, HandlesInv, InitPending, TypeOK, Goto
  <1>8. EntryPointsMatch'
    BY <1>1, <1>2 DEF LibraryInv, HandlesInv, EntryPointsMatch, TypeOK
  <1> QED BY <1>3, <1>5, <1>6, <1>7, <1>8 DEF LibraryInv, HandlesInv

-----------------------------------------------------------------------------
(* Files and signals.  Their steps leave handles and the state alone.      *)
LEMMA OtherStepKeeps ==
  ASSUME LibraryInv, NEW t \in Threads, NEW to, Goto(t, to),
         to \in Labels \ (InitLabels \cup {"unwind_get", "unwind_create"}),
         UNCHANGED <<handles, singleton>>
  PROVE  /\ HandlesInv' /\ StateInv'
         /\ pc' \in [Threads -> Labels]
         /\ handle' \in [Threads -> [Fields -> Backends \cup {Null, "freed"}]]
         /\ usable' \in [Threads -> BOOLEAN]
         /\ state' \in Threads \cup {Null}
         /\ creations' \in [early : Nat, late : Nat, failed : Nat]
  <1>1. TypeOK /\ UNCHANGED <<handle, usable, state, creations>>
    BY DEF LibraryInv, handles, singleton
  <1>2. HandlesInv'
    BY <1>1, HandlesKept DEF LibraryInv
  <1>3. StateInv'
    BY <1>1, StateKept DEF LibraryInv, InitLabels
  <1>4. pc' \in [Threads -> Labels]
    BY <1>1, GotoType
  <1> QED BY <1>1, <1>2, <1>3, <1>4 DEF TypeOK

(* One thread goes on to, or comes from, the calls between mkstemp and the *)
(* end of unlink.                                                          *)
LEMMA MakingMoves ==
  ASSUME TypeOK, NEW t \in Threads, NEW to, Goto(t, to)
  PROVE  LET S == {u \in Threads : Making(u)}
         IN  /\ Cardinality(S) \in Nat
             /\ ~Making(t) /\ to \in {"fcntl", "unlink"} =>
                  Cardinality(S') = Cardinality(S) + 1
             /\ Making(t) /\ to \notin {"fcntl", "unlink"} =>
                  Cardinality(S') = Cardinality(S) - 1 /\ Cardinality(S) > 0
             /\ (Making(t) <=> to \in {"fcntl", "unlink"}) =>
                  Cardinality(S') = Cardinality(S)
  <1> DEFINE S == {u \in Threads : Making(u)}
  <1>1. Cardinality(S) \in Nat
    BY ThreadsFinite
  <1>2. ASSUME ~Making(t), to \in {"fcntl", "unlink"}
        PROVE  Cardinality(S') = Cardinality(S) + 1
    <2>1. S' = S \cup {t} /\ t \notin S
      BY <1>2 DEF TypeOK, Making, Goto
    <2> QED BY <2>1, OneJoins
  <1>3. ASSUME Making(t), to \notin {"fcntl", "unlink"}
        PROVE  Cardinality(S') = Cardinality(S) - 1 /\ Cardinality(S) > 0
    <2>1. S' = S \ {t} /\ t \in S
      BY <1>3 DEF TypeOK, Making, Goto
    <2> QED BY <2>1, OneLeaves
  <1>4. ASSUME Making(t) <=> to \in {"fcntl", "unlink"}
        PROVE  Cardinality(S') = Cardinality(S)
    <2>1. S' = S
      BY <1>4 DEF TypeOK, Making, Goto
    <2> QED BY <2>1
  <1> QED BY <1>1, <1>2, <1>3, <1>4

LEMMA CacheDirSetInv ==
  ASSUME LibraryInv, NEW t \in Threads, NEW d \in CacheDirs \cup {Null},
         CacheDirSet(t, d)
  PROVE  LibraryInv'
  <1>1. /\ Enter(t, "idle") /\ cacheDir' = d
        /\ withdrawn' = [u \in Threads |-> withdrawn[u] \/ (d = Null /\ pc[u] = "tmp_get")]
        /\ UNCHANGED <<handles, singleton, path, files, signals>>
    BY DEF CacheDirSet
  <1>2. TypeOK /\ calls' \in 0..MaxCalls /\ pc[t] = "idle" /\ Goto(t, "idle")
    BY <1>1, EnterType DEF LibraryInv
  <1>3. HandlesInv' /\ StateInv'
    BY <1>1, <1>2, OtherStepKeeps DEF Labels, InitLabels
  <1>4. TypeOK'
    <2>1. withdrawn' \in [Threads -> BOOLEAN]
      BY <1>1 DEF TypeOK
    <2> QED BY <1>1, <1>2, <2>1, OtherStepKeeps DEF TypeOK, Labels, InitLabels, signals
  <1>5. DescriptorsAccounted'
    BY <1>1, <1>2, FilesKept DEF LibraryInv, Making
  <1>6. PathInv'
    <2>1. \A u \in Threads : /\ withdrawn[u] => withdrawn'[u]
                             /\ d = Null /\ pc[u] = "tmp_get" => withdrawn'[u]
      BY <1>1
    <2>2. TmpDirTested'
      BY <1>1, <1>2, <2>1 DEF LibraryInv, PathInv, TmpDirTested, TypeOK, Goto
    <2>3. TmpPathNotNull'
      BY <1>1, <1>2, <2>1 DEF LibraryInv, PathInv, TmpPathNotNull, TypeOK, Goto
    <2> QED BY <2>2, <2>3 DEF PathInv
  <1>7. SignalsInv'
    BY <1>1, <1>2, SignalsKept DEF LibraryInv
  <1> QED BY <1>3, <1>4, <1>5, <1>6, <1>7 DEF LibraryInv

(* A step of bun_memfd_create that leaves the cache directory alone.       *)
FileLabels == {"idle", "tmp_test", "tmp_get", "mkstemp", "fcntl", "unlink", "real", "open"}

LEMMA FileStepInv ==
  ASSUME LibraryInv, NEW t \in Threads, NEW to \in FileLabels, Goto(t, to),
         calls' \in 0..MaxCalls,
         UNCHANGED <<handles, singleton, cacheDir, signals>>,
         withdrawn' = withdrawn \/ withdrawn' = [withdrawn EXCEPT ![t] = FALSE],
         path' \in [Threads -> CacheDirs \cup {Null, TmpDir}],
         files' \in [open : Nat, handed : Nat, names : Nat, spoiled : Nat],
         PathInv', DescriptorsAccounted'
  PROVE  LibraryInv'
  <1>1. TypeOK /\ to \in Labels \ (InitLabels \cup {"unwind_get", "unwind_create"})
    BY DEF LibraryInv, FileLabels, Labels, InitLabels
  <1>2. HandlesInv' /\ StateInv'
    BY <1>1, OtherStepKeeps
  <1>3. SignalsInv'
    BY <1>1, SignalsKept DEF LibraryInv, FileLabels
  <1>4. TypeOK'
    <2>1. withdrawn' \in [Threads -> BOOLEAN]
      BY <1>1 DEF TypeOK
    <2> QED BY <1>1, <2>1, OtherStepKeeps DEF TypeOK, signals
  <1> QED BY <1>2, <1>3, <1>4 DEF LibraryInv

LEMMA MemfdCreateInv ==
  ASSUME LibraryInv, NEW t \in Threads, MemfdCreate(t)
  PROVE  LibraryInv'
  <1>1. UNCHANGED <<handles, singleton, cacheDir, withdrawn, path, signals>>
    BY DEF MemfdCreate
  <1>2. TypeOK /\ files \in [open : Nat, handed : Nat, names : Nat, spoiled : Nat]
        /\ path' \in [Threads -> CacheDirs \cup {Null, TmpDir}]
    BY <1>1 DEF LibraryInv, TypeOK
  <1>3. CASE Enter(t, "tmp_test") /\ UNCHANGED files
    <2>1. calls' \in 0..MaxCalls /\ pc[t] = "idle" /\ Goto(t, "tmp_test")
      BY <1>2, <1>3, EnterType
    <2>2. DescriptorsAccounted' /\ PathInv'
      BY <1>1, <1>2, <1>3, <2>1, FilesKept, PathKept DEF LibraryInv, Making
    <2> QED BY <1>1, <1>2, <1>3, <2>1, <2>2, FileStepInv DEF FileLabels
  <1>4. CASE Enter(t, "idle") /\ files' = [files EXCEPT !.open = @ + 1, !.handed = @ + 1]
    <2>1. calls' \in 0..MaxCalls /\ pc[t] = "idle" /\ Goto(t, "idle")
      BY <1>2, <1>4, EnterType
    <2>2. files' = [open |-> files.open + 1, handed |-> files.handed + 1,
                    names |-> files.names, spoiled |-> files.spoiled]
      BY <1>2, <1>4
    <2>3. files' \in [open : Nat, handed : Nat, names : Nat, spoiled : Nat]
      BY <1>2, <2>2
    <2>4. DescriptorsAccounted'
      <3> DEFINE n == Cardinality({u \in Threads : Making(u)})
      <3>1. n' = n /\ n \in Nat
        BY <1>2, <2>1, MakingMoves DEF Making
      <3>2. files.open = files.handed + n /\ files.names = files.spoiled + n
        BY DEF LibraryInv, DescriptorsAccounted
      <3> HIDE DEF n
      <3>3. files'.open = files'.handed + n' /\ files'.names = files'.spoiled + n'
        BY <1>2, <2>2, <3>1, <3>2
      <3> QED BY <3>3 DEF DescriptorsAccounted, n
    <2>5. PathInv'
      BY <1>1, <1>2, <2>1, PathKept DEF LibraryInv
    <2> QED BY <1>1, <1>2, <2>1, <2>3, <2>4, <2>5, FileStepInv DEF FileLabels
  <1> QED BY <1>3, <1>4 DEF MemfdCreate

(* tmp_path: the two reads of the cache directory. *)
LEMMA TmpTestInv ==
  ASSUME LibraryInv, NEW t \in Threads, TmpTest(t)
  PROVE  LibraryInv'
  <1>1. /\ pc[t] = "tmp_test"
        /\ UNCHANGED <<handles, singleton, cacheDir, files, signals, calls>>
        /\ withdrawn' = [withdrawn EXCEPT ![t] = FALSE]
    BY DEF TmpTest
  <1>2. TypeOK /\ calls' \in 0..MaxCalls
        /\ files' \in [open : Nat, handed : Nat, names : Nat, spoiled : Nat]
    BY <1>1 DEF LibraryInv, TypeOK
  <1>5. \A u \in Threads : u # t => withdrawn'[u] = withdrawn[u]
    BY <1>1, <1>2 DEF TypeOK
  <1>3. CASE cacheDir = Null
    <2>1. path' = [path EXCEPT ![t] = TmpDir] /\ Goto(t, "mkstemp")
      BY <1>3 DEF TmpTest
    <2>2. DescriptorsAccounted'
      BY <1>1, <1>2, <2>1, FilesKept DEF LibraryInv, Making
    <2>3. path' \in [Threads -> CacheDirs \cup {Null, TmpDir}]
      BY <1>2, <2>1 DEF TypeOK
    <2>4. PathInv'
      <3>1. TmpDir # Null
        BY LibraryAssumption
      <3>2. TmpDirTested'
        BY <1>1, <1>2, <1>5, <2>1 DEF LibraryInv, PathInv, TmpDirTested, TypeOK, Goto
      <3>3. TmpPathNotNull'
        BY <1>1, <1>2, <1>5, <2>1, <3>1 DEF LibraryInv, PathInv, TmpPathNotNull, TypeOK, Goto
      <3> QED BY <3>2, <3>3 DEF PathInv
    <2> QED BY <1>1, <1>2, <2>1, <2>2, <2>3, <2>4, FileStepInv DEF FileLabels
  <1>4. CASE cacheDir # Null
    <2>1. UNCHANGED path /\ Goto(t, "tmp_get")
      BY <1>4 DEF TmpTest
    <2>2. DescriptorsAccounted'
      BY <1>1, <1>2, <2>1, FilesKept DEF LibraryInv, Making
    <2>3. path' \in [Threads -> CacheDirs \cup {Null, TmpDir}]
      BY <1>2, <2>1 DEF TypeOK
    <2>4. PathInv'
      BY <1>1, <1>2, <1>4, <1>5, <2>1
         DEF LibraryInv, PathInv, TmpDirTested, TmpPathNotNull, TypeOK, Goto
    <2> QED BY <1>1, <1>2, <2>1, <2>2, <2>3, <2>4, FileStepInv DEF FileLabels
  <1> QED BY <1>3, <1>4

LEMMA TmpGetInv ==
  ASSUME LibraryInv, NEW t \in Threads, TmpGet(t)
  PROVE  LibraryInv'
  <1>1. /\ pc[t] = "tmp_get" /\ path' = [path EXCEPT ![t] = cacheDir] /\ Goto(t, "mkstemp")
        /\ UNCHANGED <<handles, singleton, cacheDir, withdrawn, files, signals, calls>>
    BY DEF TmpGet
  <1>2. TypeOK /\ calls' \in 0..MaxCalls
        /\ files' \in [open : Nat, handed : Nat, names : Nat, spoiled : Nat]
        /\ path' \in [Threads -> CacheDirs \cup {Null, TmpDir}]
    BY <1>1 DEF LibraryInv, TypeOK
  <1>3. DescriptorsAccounted'
    BY <1>1, <1>2, FilesKept DEF LibraryInv, Making
  <1>4. PathInv'
    BY <1>1, <1>2 DEF LibraryInv, PathInv, TmpDirTested, TmpPathNotNull, TypeOK, Goto
  <1> QED BY <1>1, <1>2, <1>3, <1>4, FileStepInv DEF FileLabels

(* The system calls on the temporary file, each of which may fail.         *)
LEMMA MkstempInv ==
  ASSUME LibraryInv, NEW t \in Threads, Mkstemp(t)
  PROVE  LibraryInv'
  <1>1. /\ pc[t] = "mkstemp"
        /\ UNCHANGED <<handles, singleton, cacheDir, withdrawn, path, signals, calls>>
    BY DEF Mkstemp
  <1>2. TypeOK /\ calls' \in 0..MaxCalls
        /\ files \in [open : Nat, handed : Nat, names : Nat, spoiled : Nat]
        /\ path' \in [Threads -> CacheDirs \cup {Null, TmpDir}]
    BY <1>1 DEF LibraryInv, TypeOK
  <1>3. CASE Goto(t, "real") /\ UNCHANGED files
    <2>1. DescriptorsAccounted' /\ PathInv'
      BY <1>1, <1>2, <1>3, FilesKept, PathKept DEF LibraryInv, Making
    <2> QED BY <1>1, <1>2, <1>3, <2>1, FileStepInv DEF FileLabels
  <1>4. CASE /\ Goto(t, "fcntl")
             /\ files' = [files EXCEPT !.open = @ + 1, !.names = @ + 1]
    <2>1. files' = [open |-> files.open + 1, handed |-> files.handed,
                    names |-> files.names + 1, spoiled |-> files.spoiled]
      BY <1>2, <1>4
    <2>2. files' \in [open : Nat, handed : Nat, names : Nat, spoiled : Nat]
      BY <1>2, <2>1
    <2>3. DescriptorsAccounted'
      <3> DEFINE n == Cardinality({u \in Threads : Making(u)})
      <3>1. n' = n + 1 /\ n \in Nat
        BY <1>1, <1>2, <1>4, MakingMoves DEF Making
      <3>2. files.open = files.handed + n /\ files.names = files.spoiled + n
        BY DEF LibraryInv, DescriptorsAccounted
      <3> HIDE DEF n
      <3>3. files'.open = files'.handed + n' /\ files'.names = files'.spoiled + n'
        BY <1>2, <2>1, <3>1, <3>2
      <3> QED BY <3>3 DEF DescriptorsAccounted, n
    <2>4. PathInv'
      BY <1>1, <1>2, <1>4, PathKept DEF LibraryInv
    <2> QED BY <1>1, <1>2, <1>4, <2>2, <2>3, <2>4, FileStepInv DEF FileLabels
  <1> QED BY <1>3, <1>4 DEF Mkstemp

(* The error path of open_tmp_file: the descriptor is closed, the file     *)
(* stays.                                                                  *)
LEMMA TmpFileSpoiled ==
  ASSUME LibraryInv, NEW t \in Threads, pc[t] \in {"fcntl", "unlink"}, Goto(t, "real"),
         files' = [open |-> files.open - 1, handed |-> files.handed,
                   names |-> files.names, spoiled |-> files.spoiled + 1],
         UNCHANGED <<handles, singleton, cacheDir, withdrawn, path, signals, calls>>
  PROVE  LibraryInv'
  <1>1. TypeOK /\ calls' \in 0..MaxCalls
        /\ files \in [open : Nat, handed : Nat, names : Nat, spoiled : Nat]
        /\ path' \in [Threads -> CacheDirs \cup {Null, TmpDir}]
    BY DEF LibraryInv, TypeOK
  <1> DEFINE n == Cardinality({u \in Threads : Making(u)})
  <1>2. n' = n - 1 /\ n \in Nat /\ n > 0
    <2>1. TypeOK /\ Making(t) /\ Goto(t, "real") /\ "real" \notin {"fcntl", "unlink"}
      BY <1>1 DEF Making
    <2> QED BY <2>1, MakingMoves
  <1>3. files.open = files.handed + n /\ files.names = files.spoiled + n
    BY DEF LibraryInv, DescriptorsAccounted
  <1> HIDE DEF n
  <1>4. files' \in [open : Nat, handed : Nat, names : Nat, spoiled : Nat]
    <2>1. files.open - 1 \in Nat
      BY <1>1, <1>2, <1>3
    <2> QED BY <1>1, <2>1
  <1>5. DescriptorsAccounted'
    <2>1. files'.open = files'.handed + n' /\ files'.names = files'.spoiled + n'
      BY <1>1, <1>2, <1>3
    <2> QED BY <2>1 DEF DescriptorsAccounted, n
  <1>6. PathInv'
    BY <1>1, PathKept DEF LibraryInv
  <1> QED BY <1>1, <1>4, <1>5, <1>6, FileStepInv DEF FileLabels

LEMMA FcntlInv ==
  ASSUME LibraryInv, NEW t \in Threads, Fcntl(t)
  PROVE  LibraryInv'
  <1>1. /\ pc[t] = "fcntl" /\ Making(t)
        /\ UNCHANGED <<handles, singleton, cacheDir, withdrawn, path, signals, calls>>
    BY DEF Fcntl, Making
  <1>2. CASE Goto(t, "unlink") /\ UNCHANGED files
    <2>1. TypeOK /\ calls' \in 0..MaxCalls
          /\ files' \in [open : Nat, handed : Nat, names : Nat, spoiled : Nat]
          /\ path' \in [Threads -> CacheDirs \cup {Null, TmpDir}]
      BY <1>1, <1>2 DEF LibraryInv, TypeOK
    <2>2. DescriptorsAccounted'
      BY <1>1, <1>2, <2>1, MakingMoves DEF LibraryInv, DescriptorsAccounted
    <2>3. PathInv'
      BY <1>1, <1>2, <2>1, PathKept DEF LibraryInv
    <2> QED BY <1>1, <1>2, <2>1, <2>2, <2>3, FileStepInv DEF FileLabels
  <1>3. CASE /\ files' = [files EXCEPT !.open = @ - 1, !.spoiled = @ + 1]
             /\ Goto(t, "real")
    <2>1. files' = [open |-> files.open - 1, handed |-> files.handed,
                    names |-> files.names, spoiled |-> files.spoiled + 1]
      BY <1>3 DEF LibraryInv, TypeOK
    <2> QED BY <1>1, <1>3, <2>1, TmpFileSpoiled
  <1> QED BY <1>2, <1>3 DEF Fcntl

LEMMA UnlinkInv ==
  ASSUME LibraryInv, NEW t \in Threads, Unlink(t)
  PROVE  LibraryInv'
  <1>1. /\ pc[t] = "unlink" /\ Making(t)
        /\ UNCHANGED <<handles, singleton, cacheDir, withdrawn, path, signals, calls>>
    BY DEF Unlink, Making
  <1>2. CASE /\ files' = [files EXCEPT !.names = @ - 1, !.handed = @ + 1]
             /\ Goto(t, "idle")
    <2>1. TypeOK /\ calls' \in 0..MaxCalls
          /\ files \in [open : Nat, handed : Nat, names : Nat, spoiled : Nat]
          /\ path' \in [Threads -> CacheDirs \cup {Null, TmpDir}]
      BY <1>1 DEF LibraryInv, TypeOK
    <2>2. files' = [open |-> files.open, handed |-> files.handed + 1,
                    names |-> files.names - 1, spoiled |-> files.spoiled]
      BY <1>2, <2>1
    <2> DEFINE n == Cardinality({u \in Threads : Making(u)})
    <2>3. n' = n - 1 /\ n \in Nat /\ n > 0
      BY <1>1, <1>2, <2>1, MakingMoves
    <2>4. files.open = files.handed + n /\ files.names = files.spoiled + n
      BY DEF LibraryInv, DescriptorsAccounted
    <2> HIDE DEF n
    <2>5. files' \in [open : Nat, handed : Nat, names : Nat, spoiled : Nat]
      <3>1. files.names - 1 \in Nat
        BY <2>1, <2>3, <2>4
      <3> QED BY <2>1, <2>2, <3>1
    <2>6. DescriptorsAccounted'
      <3>1. files'.open = files'.handed + n' /\ files'.names = files'.spoiled + n'
        BY <2>1, <2>2, <2>3, <2>4
      <3> QED BY <3>1 DEF DescriptorsAccounted, n
    <2>7. PathInv'
      BY <1>1, <1>2, <2>1, PathKept DEF LibraryInv
    <2> QED BY <1>1, <1>2, <2>1, <2>5, <2>6, <2>7, FileStepInv DEF FileLabels
  <1>3. CASE /\ files' = [files EXCEPT !.open = @ - 1, !.spoiled = @ + 1]
             /\ Goto(t, "real")
    <2>1. files' = [open |-> files.open - 1, handed |-> files.handed,
                    names |-> files.names, spoiled |-> files.spoiled + 1]
      BY <1>3 DEF LibraryInv, TypeOK
    <2> QED BY <1>1, <1>3, <2>1, TmpFileSpoiled
  <1> QED BY <1>2, <1>3 DEF Unlink

(* open_real_file *)
LEMMA RealPathInv ==
  ASSUME LibraryInv, NEW t \in Threads, RealPath(t)
  PROVE  LibraryInv'
  <1>1. /\ pc[t] = "real" /\ path' = [path EXCEPT ![t] = cacheDir] /\ Goto(t, "open")
        /\ UNCHANGED <<handles, singleton, cacheDir, withdrawn, files, signals, calls>>
    BY DEF RealPath
  <1>2. TypeOK /\ calls' \in 0..MaxCalls
        /\ files' \in [open : Nat, handed : Nat, names : Nat, spoiled : Nat]
        /\ path' \in [Threads -> CacheDirs \cup {Null, TmpDir}]
    BY <1>1 DEF LibraryInv, TypeOK
  <1>3. DescriptorsAccounted'
    BY <1>1, <1>2, FilesKept DEF LibraryInv, Making
  <1>4. PathInv'
    BY <1>1, <1>2 DEF LibraryInv, PathInv, TmpDirTested, TmpPathNotNull, TypeOK, Goto
  <1> QED BY <1>1, <1>2, <1>3, <1>4, FileStepInv DEF FileLabels

LEMMA OpenRealInv ==
  ASSUME LibraryInv, NEW t \in Threads, OpenReal(t)
  PROVE  LibraryInv'
  <1>1. /\ pc[t] = "open" /\ Goto(t, "idle")
        /\ UNCHANGED <<handles, singleton, cacheDir, withdrawn, path, signals, calls>>
    BY DEF OpenReal
  <1>2. TypeOK /\ calls' \in 0..MaxCalls
        /\ files \in [open : Nat, handed : Nat, names : Nat, spoiled : Nat]
        /\ path' \in [Threads -> CacheDirs \cup {Null, TmpDir}]
    BY <1>1 DEF LibraryInv, TypeOK
  <1>3. PathInv'
    BY <1>1, <1>2, PathKept DEF LibraryInv
  <1>4. CASE UNCHANGED files
    <2>1. DescriptorsAccounted'
      BY <1>1, <1>2, <1>4, FilesKept DEF LibraryInv, Making
    <2> QED BY <1>1, <1>2, <1>3, <1>4, <2>1, FileStepInv DEF FileLabels
  <1>5. CASE files' = [files EXCEPT !.open = @ + 1, !.handed = @ + 1]
    <2>1. files' = [open |-> files.open + 1, handed |-> files.handed + 1,
                    names |-> files.names, spoiled |-> files.spoiled]
      BY <1>2, <1>5
    <2>2. files' \in [open : Nat, handed : Nat, names : Nat, spoiled : Nat]
      BY <1>2, <2>1
    <2>3. DescriptorsAccounted'
      <3> DEFINE n == Cardinality({u \in Threads : Making(u)})
      <3>1. n' = n /\ n \in Nat
        BY <1>1, <1>2, MakingMoves DEF Making
      <3>2. files.open = files.handed + n /\ files.names = files.spoiled + n
        BY DEF LibraryInv, DescriptorsAccounted
      <3> HIDE DEF n
      <3>3. files'.open = files'.handed + n' /\ files'.names = files'.spoiled + n'
        BY <1>2, <2>1, <3>1, <3>2
      <3> QED BY <3>3 DEF DescriptorsAccounted, n
    <2> QED BY <1>1, <1>2, <1>3, <2>2, <2>3, FileStepInv DEF FileLabels
  <1> QED BY <1>4, <1>5 DEF OpenReal

-----------------------------------------------------------------------------
(* bun_register_signal_handler *)
LEMMA RegisterInv ==
  ASSUME LibraryInv, NEW t \in Threads, Register(t)
  PROVE  LibraryInv'
  <1>1. /\ Enter(t, "sigaction") /\ next' = [next EXCEPT ![t] = 1]
        /\ UNCHANGED <<handles, singleton, disk, table, registered>>
    BY DEF Register
  <1>2. TypeOK /\ calls' \in 0..MaxCalls /\ pc[t] = "idle" /\ Goto(t, "sigaction")
    BY <1>1, EnterType DEF LibraryInv
  <1>3. HandlesInv' /\ StateInv'
    BY <1>1, <1>2, OtherStepKeeps DEF Labels, InitLabels
  <1>4. UNCHANGED <<cacheDir, withdrawn, path, files>>
    BY <1>1 DEF disk
  <1>5. DescriptorsAccounted' /\ PathInv'
    BY <1>2, <1>4, FilesKept, PathKept DEF LibraryInv, Making
  <1>6. next' \in [Threads -> 1..(Signals + 1)]
    BY <1>1, <1>2, LibraryAssumption DEF TypeOK
  <1>7. TypeOK'
    BY <1>1, <1>2, <1>4, <1>6, OtherStepKeeps DEF TypeOK, Labels, InitLabels
  <1>8. SignalsInv'
    BY <1>1, <1>2 DEF LibraryInv, SignalsInv, SignalsSoFar, EverySignalHandled, TypeOK, Goto
  <1> QED BY <1>3, <1>5, <1>7, <1>8 DEF LibraryInv

(* A sigaction adds a handler and takes none away, so a registration that  *)
(* reaches the last signal finds all of them set.                          *)
LEMMA SigActionInv ==
  ASSUME LibraryInv, NEW t \in Threads, SigAction(t)
  PROVE  LibraryInv'
  <1>1. /\ pc[t] = "sigaction" /\ next[t] <= Signals
        /\ UNCHANGED <<handles, singleton, disk, calls>>
    BY DEF SigAction
  <1>2. TypeOK /\ UNCHANGED <<cacheDir, withdrawn, path, files>> /\ calls' \in 0..MaxCalls
        /\ next[t] \in 1..Signals
    BY <1>1, LibraryAssumption DEF LibraryInv, TypeOK, disk
  <1>3. PICK to \in {"idle", "sigaction"} : Goto(t, to)
    <2>1. CASE UNCHANGED pc
      BY <1>1, <1>2, <2>1 DEF Goto, TypeOK
    <2> QED BY <2>1 DEF SigAction
  <1>4. HandlesInv' /\ StateInv'
    BY <1>1, <1>3, OtherStepKeeps DEF Labels, InitLabels
  <1>5. DescriptorsAccounted' /\ PathInv'
    BY <1>1, <1>2, <1>3, FilesKept, PathKept DEF LibraryInv, Making
  <1>6. CASE Goto(t, "idle") /\ UNCHANGED signals
    <2>1. SignalsInv'
      BY <1>2, <1>6, SignalsKept DEF LibraryInv
    <2>2. TypeOK'
      BY <1>1, <1>2, <1>3, <1>6, OtherStepKeeps DEF TypeOK, Labels, InitLabels, signals
    <2> QED BY <1>4, <1>5, <2>1, <2>2 DEF LibraryInv
  <1>7. CASE /\ table' = [table EXCEPT ![next[t]] = t]
             /\ next' = [next EXCEPT ![t] = @ + 1]
             /\ IF next[t] = Signals
                THEN registered' = TRUE /\ Goto(t, "idle")
                ELSE UNCHANGED <<pc, registered>>
    <2>1. /\ table' \in [1..Signals -> Threads \cup {Null}]
          /\ next' \in [Threads -> 1..(Signals + 1)]
          /\ registered' \in BOOLEAN
      <3>1. next[t] + 1 \in 1..(Signals + 1)
        BY <1>2, LibraryAssumption
      <3> QED BY <1>2, <1>7, <3>1 DEF TypeOK
    <2>2. TypeOK'
      BY <1>1, <1>2, <1>3, <2>1, OtherStepKeeps DEF TypeOK, Labels, InitLabels
    <2>3. /\ \A s \in 1..Signals : table[s] # Null => table'[s] # Null
          /\ table'[next[t]] # Null
      BY <1>2, <1>7, LibraryAssumption DEF TypeOK
    <2>4. \A s \in 1..next[t] : table'[s] # Null
      <3>1. \A s \in 1..(next[t] - 1) : table[s] # Null
        BY <1>1 DEF LibraryInv, SignalsInv, SignalsSoFar
      <3> QED BY <1>2, <2>3, <3>1, LibraryAssumption
    <2>5. SignalsSoFar'
      <3> SUFFICES ASSUME NEW u \in Threads, pc'[u] = "sigaction",
                          NEW s \in 1..(next'[u] - 1)
                   PROVE  table'[s] # Null
        BY DEF SignalsSoFar
      <3>1. CASE u = t
        BY <1>2, <1>7, <2>4, <3>1 DEF TypeOK
      <3>2. CASE u # t
        <4>1. pc[u] = "sigaction" /\ next'[u] = next[u] /\ next[u] \in 1..(Signals + 1)
          BY <1>2, <1>3, <1>7, <3>2 DEF TypeOK, Goto
        <4>2. table[s] # Null /\ s \in 1..Signals
          BY <4>1, LibraryAssumption DEF LibraryInv, SignalsInv, SignalsSoFar
        <4> QED BY <2>3, <4>2
      <3> QED BY <3>1, <3>2
    <2>6. EverySignalHandled'
      <3>1. CASE next[t] = Signals
        BY <2>4, <3>1 DEF EverySignalHandled
      <3>2. CASE next[t] # Signals
        BY <1>7, <2>3, <3>2 DEF LibraryInv, SignalsInv, EverySignalHandled
      <3> QED BY <3>1, <3>2
    <2> QED BY <1>4, <1>5, <2>2, <2>5, <2>6 DEF LibraryInv, SignalsInv
  <1> QED BY <1>6, <1>7 DEF SigAction

-----------------------------------------------------------------------------
(* The invariant of the library: in every state, whichever calls failed    *)
(* and however the threads interleaved, handles, libbacktrace's state,     *)
(* descriptors, paths and signal handlers are as LibraryInv says.          *)
THEOREM LibraryInvariant == Spec => []LibraryInv
  <1>1. Init => LibraryInv
    BY InitLibrary
  <1>2. LibraryInv /\ [Next]_vars => LibraryInv'
    <2> SUFFICES ASSUME LibraryInv, [Next]_vars PROVE LibraryInv'
      OBVIOUS
    <2>1. ASSUME NEW t \in Threads, HandleStep(t) PROVE LibraryInv'
      <3>1. CASE InitNone(t) BY <3>1, InitNoneInv
      <3>2. CASE InitLibunwind(t) BY <3>2, InitLibunwindInv
      <3>3. CASE InitLibunwindstack(t) BY <3>3, InitLibunwindstackInv
      <3>4. CASE InitLibbacktrace(t) BY <3>4, InitLibbacktraceInv
      <3>5. CASE BindLibbacktrace(t) BY <3>5, BindLibbacktraceInv
      <3>6. CASE UnwindLibbacktrace(t) BY <3>6, UnwindLibbacktraceInv
      <3>7. CASE GetState(t) BY <3>7, GetStateInv
      <3>8. CASE CreateState(t) BY <3>8, CreateStateInv
      <3>9. CASE HandleDeinit(t) BY <3>9, HandleDeinitInv
      <3> QED BY <2>1, <3>1, <3>2, <3>3, <3>4, <3>5, <3>6, <3>7, <3>8, <3>9 DEF HandleStep
    <2>2. ASSUME NEW t \in Threads, FileStep(t) PROVE LibraryInv'
      <3>1. CASE \E d \in CacheDirs \cup {Null} : CacheDirSet(t, d) BY <3>1, CacheDirSetInv
      <3>2. CASE MemfdCreate(t) BY <3>2, MemfdCreateInv
      <3>3. CASE TmpTest(t) BY <3>3, TmpTestInv
      <3>4. CASE TmpGet(t) BY <3>4, TmpGetInv
      <3>5. CASE Mkstemp(t) BY <3>5, MkstempInv
      <3>6. CASE Fcntl(t) BY <3>6, FcntlInv
      <3>7. CASE Unlink(t) BY <3>7, UnlinkInv
      <3>8. CASE RealPath(t) BY <3>8, RealPathInv
      <3>9. CASE OpenReal(t) BY <3>9, OpenRealInv
      <3> QED BY <2>2, <3>1, <3>2, <3>3, <3>4, <3>5, <3>6, <3>7, <3>8, <3>9 DEF FileStep
    <2>3. ASSUME NEW t \in Threads, SignalStep(t) PROVE LibraryInv'
      BY <2>3, RegisterInv, SigActionInv DEF SignalStep
    <2>4. CASE UNCHANGED vars
      BY <2>4, StutterLibrary
    <2> QED BY <2>1, <2>2, <2>3, <2>4 DEF Next
  <1> QED BY <1>1, <1>2, PTL DEF Spec

(* No count of descriptors or directory entries of the library falls below *)
(* zero, and no loop over the signals leaves the array.                    *)
THEOREM LibraryTypeCorrect == Spec => []TypeOK
  <1>1. LibraryInv => TypeOK
    BY DEF LibraryInv
  <1> QED BY <1>1, LibraryInvariant, PTL

(* However often a handle is initialised, deinitialised and initialised    *)
(* for another backend, bun_handle_init leaves nothing of the earlier      *)
(* backend in it: the memset comes before the backend sets its fields.     *)
THEOREM EntryPointsAlwaysMatch == Spec => []EntryPointsMatch
  <1>1. LibraryInv => EntryPointsMatch
    BY DEF LibraryInv, HandlesInv
  <1> QED BY <1>1, LibraryInvariant, PTL

(* bun_unwind, which may run in a signal handler, never creates the        *)
(* libbacktrace state as long as no creation failed, although              *)
(* get_backtrace_state takes no lock.                                      *)
THEOREM StateIsPrecomputed == Spec => []StatePrecomputed
  <1>1. LibraryInv => StatePrecomputed
    BY DEF LibraryInv, StateInv
  <1> QED BY <1>1, LibraryInvariant, PTL

(* Whichever system call of bun_memfd_create fails, no descriptor leaks.   *)
THEOREM DescriptorsAreAccounted == Spec => []DescriptorsAccounted
  <1>1. LibraryInv => DescriptorsAccounted
    BY DEF LibraryInv
  <1> QED BY <1>1, LibraryInvariant, PTL

(* After a bun_register_signal_handler that returned true every signal has *)
(* a handler, whatever concurrent and failing registrations do.            *)
THEOREM SignalsStayHandled == Spec => []EverySignalHandled
  <1>1. LibraryInv => EverySignalHandled
    BY DEF LibraryInv, SignalsInv
  <1> QED BY <1>1, LibraryInvariant, PTL

(* tmp_path returns NULL only to a call between whose two reads of the     *)
(* cache directory another thread took it back.                            *)
THEOREM TmpPathIsSet == Spec => []TmpPathNotNull
  <1>1. LibraryInv => TmpPathNotNull
    BY DEF LibraryInv, PathInv
  <1> QED BY <1>1, LibraryInvariant, PTL
=============================================================================
