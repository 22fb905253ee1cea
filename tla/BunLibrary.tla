------------------------------ MODULE BunLibrary ------------------------------
(***************************************************************************)
(* What libbun keeps outside the buffer: the handles of src/bun.c and the  *)
(* backends behind them, libbacktrace's shared state, and the cache        *)
(* directory, descriptors and signal handlers of src/bun_utils.c.  Threads *)
(* of one process call these functions, which take no lock.                *)
(*                                                                         *)
(* Each thread has a bun_handle of its own and uses it as bun.h asks: it   *)
(* unwinds with, and deinitialises once, only a handle whose               *)
(* initialisation succeeded, and does not call a NULL entry point.         *)
(***************************************************************************)
EXTENDS Integers, FiniteSets

CONSTANTS Threads,
          Null,
          CacheDirs,   (* what the program passes to bun_cache_dir_set     *)
          TmpDir,      (* "/tmp", or "/data/local/tmp"                     *)
          Failing,     (* the library and system calls that may fail       *)
          Signals,     (* the signals handled are 1..Signals               *)
          MaxCalls     (* bound: calls of the functions modelled here      *)

Backends == {"libunwind", "libbacktrace", "libunwindstack"}
Fields == {"unwind", "unwind_context", "unwind_remote", "destroy", "backend_context"}

ASSUME LibraryAssumption ==
  /\ IsFiniteSet(Threads)
  /\ Signals \in Nat \ {0} /\ MaxCalls \in Nat
  /\ Null \notin CacheDirs \cup Threads \cup Backends \cup {TmpDir, "freed"}

VARIABLES
  pc,          (* where each thread is                                     *)
  handle,      (* each thread's bun_handle: whose each field is, or Null   *)
  usable,      (* bun_handle_init returned true, and no deinit since       *)
  state,       (* libbacktrace: `static struct backtrace_state *state`     *)
  creations,   (* how often state was created: by init, late, in vain      *)
  cacheDir,    (* bun_internal_cache_dir                                   *)
  withdrawn,   (* bun_cache_dir_set(NULL) since the thread's first read    *)
  path,        (* directory of the path a thread builds                    *)
  files,       (* descriptors and directory entries of bun_memfd_create    *)
  table,       (* the thread whose handler serves each signal              *)
  next,        (* the next signal each thread sets                         *)
  registered,  (* bun_register_signal_handler returned true to somebody    *)
  calls        (* number of calls so far                                   *)

handles == <<handle, usable>>
singleton == <<state, creations>>
disk == <<cacheDir, withdrawn, path, files>>
signals == <<table, next, registered>>
vars == <<pc, handles, singleton, disk, signals, calls>>

(* The fields of bun_handle that the initialiser of each backend sets. *)
Provides(b) ==
  CASE b = "libunwind" -> {"unwind", "unwind_remote", "destroy", "backend_context"}
    [] b = "libbacktrace" -> {"unwind", "destroy"}
    [] b = "libunwindstack" -> {"unwind", "unwind_context", "unwind_remote", "destroy"}

(* Mutant of Memset: the handle is not cleared. *)
MemsetNot(h) == h

(* memset of the whole handle to 0, before any backend is asked.           *)
Memset(h) == [f \in Fields |-> Null]

(* The initialiser of backend b sets its own fields only. *)
Sets(b, h) == [f \in Fields |-> IF f \in Provides(b) THEN b ELSE h[f]]

Init ==
  /\ pc = [t \in Threads |-> "idle"]
  /\ handle = [t \in Threads |-> [f \in Fields |-> Null]]
  /\ usable = [t \in Threads |-> FALSE]
  /\ state = Null
  /\ creations = [early |-> 0, late |-> 0, failed |-> 0]
  /\ cacheDir = Null
  /\ withdrawn = [t \in Threads |-> FALSE]
  /\ path = [t \in Threads |-> TmpDir]
  /\ files = [open |-> 0, handed |-> 0, names |-> 0, spoiled |-> 0]
  /\ table = [s \in 1..Signals |-> Null]
  /\ next = [t \in Threads |-> 1]
  /\ registered = FALSE
  /\ calls = 0

Fails(f) == f \in Failing

Goto(t, to) == pc' = [pc EXCEPT ![t] = to]

(* A call begins, and is at `to` after its first step. *)
Enter(t, to) ==
  /\ pc[t] = "idle" /\ calls < MaxCalls
  /\ calls' = calls + 1
  /\ Goto(t, to)

-----------------------------------------------------------------------------
(* Handles. *)

(* bun_handle_init for a backend the build does not have. *)
InitNone(t) ==
  /\ ~usable[t]
  /\ Enter(t, "idle")
  /\ handle' = [handle EXCEPT ![t] = Memset(@)]
  /\ UNCHANGED <<usable, singleton, disk, signals>>

(* bun_internal_initialize_libunwind: without a context it sets nothing.   *)
InitLibunwind(t) ==
  /\ ~usable[t]
  /\ Enter(t, "idle")
  /\ \/ /\ handle' = [handle EXCEPT ![t] = Sets("libunwind", Memset(@))]
        /\ usable' = [usable EXCEPT ![t] = TRUE]
     \/ /\ Fails("malloc")
        /\ handle' = [handle EXCEPT ![t] = Memset(@)]
        /\ UNCHANGED usable
  /\ UNCHANGED <<singleton, disk, signals>>

InitLibunwindstack(t) ==
  /\ ~usable[t]
  /\ Enter(t, "idle")
  /\ handle' = [handle EXCEPT ![t] = Sets("libunwindstack", Memset(@))]
  /\ usable' = [usable EXCEPT ![t] = TRUE]
  /\ UNCHANGED <<singleton, disk, signals>>

(* bun_internal_initialize_libbacktrace calls get_backtrace_state ...      *)
InitLibbacktrace(t) ==
  /\ ~usable[t]
  /\ Enter(t, "init_get")
  /\ handle' = [handle EXCEPT ![t] = Memset(@)]
  /\ UNCHANGED <<usable, singleton, disk, signals>>

(* ... ignores what it returned, and sets its fields.                      *)
BindLibbacktrace(t) ==
  /\ pc[t] = "init_bind"
  /\ handle' = [handle EXCEPT ![t] = Sets("libbacktrace", @)]
  /\ usable' = [usable EXCEPT ![t] = TRUE]
  /\ Goto(t, "idle")
  /\ UNCHANGED <<singleton, disk, signals, calls>>

(* bun_unwind with libbacktrace, which needs the state again.  The other   *)
(* backends use nothing of this module to unwind locally.                  *)
UnwindLibbacktrace(t) ==
  /\ usable[t] /\ handle[t]["unwind"] = "libbacktrace"
  /\ Enter(t, "unwind_get")
  /\ UNCHANGED <<handles, singleton, disk, signals>>

(* Where a thread goes in get_backtrace_state, and where after it. *)
Getting == [init_get |-> "init_create", unwind_get |-> "unwind_create"]
Got == [init_get |-> "init_bind", unwind_get |-> "idle",
        init_create |-> "init_bind", unwind_create |-> "idle"]

(* Mutant of GetState: the test is left out, so each call creates a state. *)
GetStateAnew(t) ==
  /\ pc[t] \in DOMAIN Getting
  /\ Goto(t, Getting[pc[t]])
  /\ UNCHANGED <<handles, singleton, disk, signals, calls>>

(* get_backtrace_state: test the shared pointer ...                        *)
GetState(t) ==
  /\ pc[t] \in DOMAIN Getting
  /\ Goto(t, IF state = Null THEN Getting[pc[t]] ELSE Got[pc[t]])
  /\ UNCHANGED <<handles, singleton, disk, signals, calls>>

(* ... and store what backtrace_create_state returned, which another       *)
(* thread may have stored before.                                          *)
CreateState(t) ==
  /\ pc[t] \in {"init_create", "unwind_create"}
  /\ \/ /\ state' = t
        /\ creations' = IF pc[t] = "init_create"
                        THEN [creations EXCEPT !.early = @ + 1]
                        ELSE [creations EXCEPT !.late = @ + 1]
     \/ /\ Fails("backtrace_create_state")
        /\ state' = Null
        /\ creations' = [creations EXCEPT !.failed = @ + 1]
  /\ Goto(t, Got[pc[t]])
  /\ UNCHANGED <<handles, disk, signals, calls>>

(* bun_handle_deinit: libunwind's destroy_handle frees the context, the    *)
(* other backends have nothing to free.  The handle keeps its contents.    *)
HandleDeinit(t) ==
  /\ usable[t]
  /\ Enter(t, "idle")
  /\ usable' = [usable EXCEPT ![t] = FALSE]
  /\ handle' = [handle EXCEPT ![t]["backend_context"] =
                   IF handle[t]["destroy"] = "libunwind" THEN "freed" ELSE @]
  /\ UNCHANGED <<singleton, disk, signals>>

-----------------------------------------------------------------------------
(* bun_memfd_create and its fallbacks. *)

(* bun_cache_dir_set; NULL takes the override back, maybe between the two  *)
(* reads of tmp_path in another thread.                                    *)
CacheDirSet(t, d) ==
  /\ Enter(t, "idle")
  /\ cacheDir' = d
  /\ withdrawn' = [u \in Threads |-> withdrawn[u] \/ (d = Null /\ pc[u] = "tmp_get")]
  /\ UNCHANGED <<handles, singleton, path, files, signals>>

(* The memfd_create system call, or what stands in for it if it fails. *)
MemfdCreate(t) ==
  /\ \/ /\ Enter(t, "idle")
        /\ files' = [files EXCEPT !.open = @ + 1, !.handed = @ + 1]
     \/ Fails("memfd_create") /\ Enter(t, "tmp_test") /\ UNCHANGED files
  /\ UNCHANGED <<handles, singleton, cacheDir, withdrawn, path, signals>>

(* Mutant of TmpTest: tmp_path returns the cache directory untested. *)
TmpTestNot(t) ==
  /\ pc[t] = "tmp_test"
  /\ withdrawn' = [withdrawn EXCEPT ![t] = FALSE]
  /\ Goto(t, "tmp_get")
  /\ UNCHANGED <<handles, singleton, cacheDir, path, files, signals, calls>>

(* tmp_path tests the cache directory ...                                  *)
TmpTest(t) ==
  /\ pc[t] = "tmp_test"
  /\ IF cacheDir = Null
     THEN path' = [path EXCEPT ![t] = TmpDir] /\ Goto(t, "mkstemp")
     ELSE Goto(t, "tmp_get") /\ UNCHANGED path
  /\ withdrawn' = [withdrawn EXCEPT ![t] = FALSE]
  /\ UNCHANGED <<handles, singleton, cacheDir, files, signals, calls>>

(* ... and gets it again to return it.                                     *)
TmpGet(t) ==
  /\ pc[t] = "tmp_get"
  /\ path' = [path EXCEPT ![t] = cacheDir]
  /\ Goto(t, "mkstemp")
  /\ UNCHANGED <<handles, singleton, cacheDir, withdrawn, files, signals, calls>>

(* asprintf and mkstemp; one failure path. *)
Mkstemp(t) ==
  /\ pc[t] = "mkstemp"
  /\ \/ /\ files' = [files EXCEPT !.open = @ + 1, !.names = @ + 1]
        /\ Goto(t, "fcntl")
     \/ Fails("mkstemp") /\ Goto(t, "real") /\ UNCHANGED files
  /\ UNCHANGED <<handles, singleton, cacheDir, withdrawn, path, signals, calls>>

(* Mutant of Fcntl: the error path does not close the descriptor. *)
FcntlKeepsOpen(t) ==
  /\ pc[t] = "fcntl"
  /\ \/ Goto(t, "unlink") /\ UNCHANGED files
     \/ /\ Fails("fcntl")
        /\ files' = [files EXCEPT !.spoiled = @ + 1]
        /\ Goto(t, "real")
  /\ UNCHANGED <<handles, singleton, cacheDir, withdrawn, path, signals, calls>>

(* fcntl(fd, F_SETFD, ...): its failure closes the file and leaves it.     *)
Fcntl(t) ==
  /\ pc[t] = "fcntl"
  /\ \/ Goto(t, "unlink") /\ UNCHANGED files
     \/ /\ Fails("fcntl")
        /\ files' = [files EXCEPT !.open = @ - 1, !.spoiled = @ + 1]
        /\ Goto(t, "real")
  /\ UNCHANGED <<handles, singleton, cacheDir, withdrawn, path, signals, calls>>

(* unlink, and the descriptor is the caller's; or the same error path.     *)
Unlink(t) ==
  /\ pc[t] = "unlink"
  /\ \/ /\ files' = [files EXCEPT !.names = @ - 1, !.handed = @ + 1]
        /\ Goto(t, "idle")
     \/ /\ Fails("unlink")
        /\ files' = [files EXCEPT !.open = @ - 1, !.spoiled = @ + 1]
        /\ Goto(t, "real")
  /\ UNCHANGED <<handles, singleton, cacheDir, withdrawn, path, signals, calls>>

(* open_real_file builds its path from the cache directory alone ...       *)
RealPath(t) ==
  /\ pc[t] = "real"
  /\ path' = [path EXCEPT ![t] = cacheDir]
  /\ Goto(t, "open")
  /\ UNCHANGED <<handles, singleton, cacheDir, withdrawn, files, signals, calls>>

(* ... and opens it with O_TMPFILE.  The second open, with O_CREAT, always *)
(* fails, because the path ends in a slash: bun_memfd_create returns -1,   *)
(* as it does if asprintf failed.                                          *)
OpenReal(t) ==
  /\ pc[t] = "open"
  /\ \/ files' = [files EXCEPT !.open = @ + 1, !.handed = @ + 1]
     \/ Fails("open") /\ UNCHANGED files
  /\ Goto(t, "idle")
  /\ UNCHANGED <<handles, singleton, cacheDir, withdrawn, path, signals, calls>>

-----------------------------------------------------------------------------
(* bun_register_signal_handler *)
Register(t) ==
  /\ Enter(t, "sigaction")
  /\ next' = [next EXCEPT ![t] = 1]
  /\ UNCHANGED <<handles, singleton, disk, table, registered>>

(* Mutant of SigAction: the loop ends one signal early. *)
SigActionShort(t) ==
  /\ pc[t] = "sigaction" /\ next[t] <= Signals
  /\ \/ /\ table' = [table EXCEPT ![next[t]] = t]
        /\ next' = [next EXCEPT ![t] = @ + 1]
        /\ IF next[t] >= Signals - 1
           THEN registered' = TRUE /\ Goto(t, "idle")
           ELSE UNCHANGED <<pc, registered>>
     \/ Fails("sigaction") /\ Goto(t, "idle") /\ UNCHANGED signals
  /\ UNCHANGED <<handles, singleton, disk, calls>>

(* Mutant of SigAction: the loop also reads behind the last signal. *)
SigActionLong(t) ==
  /\ pc[t] = "sigaction"
  /\ \/ /\ table' = [table EXCEPT ![next[t]] = t]
        /\ next' = [next EXCEPT ![t] = @ + 1]
        /\ IF next[t] = Signals + 1
           THEN registered' = TRUE /\ Goto(t, "idle")
           ELSE UNCHANGED <<pc, registered>>
     \/ Fails("sigaction") /\ Goto(t, "idle") /\ UNCHANGED signals
  /\ UNCHANGED <<handles, singleton, disk, calls>>

(* sigaction for the next signal: true after the last, false on a failure. *)
SigAction(t) ==
  /\ pc[t] = "sigaction" /\ next[t] <= Signals
  /\ \/ /\ table' = [table EXCEPT ![next[t]] = t]
        /\ next' = [next EXCEPT ![t] = @ + 1]
        /\ IF next[t] = Signals
           THEN registered' = TRUE /\ Goto(t, "idle")
           ELSE UNCHANGED <<pc, registered>>
     \/ Fails("sigaction") /\ Goto(t, "idle") /\ UNCHANGED signals
  /\ UNCHANGED <<handles, singleton, disk, calls>>

-----------------------------------------------------------------------------
HandleStep(t) ==
  \/ InitNone(t) \/ InitLibunwind(t) \/ InitLibunwindstack(t)
  \/ InitLibbacktrace(t) \/ BindLibbacktrace(t) \/ UnwindLibbacktrace(t)
  \/ GetState(t) \/ CreateState(t) \/ HandleDeinit(t)

FileStep(t) ==
  \/ \E d \in CacheDirs \cup {Null} : CacheDirSet(t, d)
  \/ MemfdCreate(t) \/ TmpTest(t) \/ TmpGet(t) \/ Mkstemp(t) \/ Fcntl(t)
  \/ Unlink(t) \/ RealPath(t) \/ OpenReal(t)

SignalStep(t) == Register(t) \/ SigAction(t)

Next == \E t \in Threads : HandleStep(t) \/ FileStep(t) \/ SignalStep(t)

Spec == Init /\ [][Next]_vars

-----------------------------------------------------------------------------
Labels == {"idle", "init_get", "init_create", "init_bind", "unwind_get",
           "unwind_create", "tmp_test", "tmp_get", "mkstemp", "fcntl", "unlink",
           "real", "open", "sigaction"}

(* Every variable keeps the shape of its C counterpart; no count of        *)
(* descriptors or directory entries falls below zero, and the loop over    *)
(* the signals stays within their table.                                   *)
TypeOK ==
  /\ pc \in [Threads -> Labels]
  /\ handle \in [Threads -> [Fields -> Backends \cup {Null, "freed"}]]
  /\ usable \in [Threads -> BOOLEAN]
  /\ state \in Threads \cup {Null}
  /\ creations \in [early : Nat, late : Nat, failed : Nat]
  /\ cacheDir \in CacheDirs \cup {Null}
  /\ withdrawn \in [Threads -> BOOLEAN]
  /\ path \in [Threads -> CacheDirs \cup {Null, TmpDir}]
  /\ files \in [open : Nat, handed : Nat, names : Nat, spoiled : Nat]
  /\ table \in [1..Signals -> Threads \cup {Null}]
  /\ next \in [Threads -> 1..(Signals + 1)]
  /\ registered \in BOOLEAN
  /\ calls \in 0..MaxCalls

(* The contents of a handle of backend b, and of no other. *)
Of(b) == [f \in Fields |-> IF f \in Provides(b) THEN b ELSE Null]

(* However often a handle is initialised, deinitialised and initialised    *)
(* again for another backend, one that bun_handle_init accepted holds what *)
(* one backend set and nothing an earlier one left behind: no entry point  *)
(* of another backend, and no backend_context that was freed.              *)
EntryPointsMatch ==
  \A t \in Threads : usable[t] => \E b \in Backends : handle[t] = Of(b)

(* The purpose of get_backtrace_state in the initialising of libbacktrace  *)
(* handles: bun_unwind, which may run in a signal handler, never creates   *)
(* the state, not even if threads race for it, unless a creation failed.   *)
StatePrecomputed ==
  creations.failed = 0 =>
    /\ creations.late = 0
    /\ \A t \in Threads : pc[t] # "unwind_create"
    /\ \A t \in Threads : usable[t] /\ handle[t] = Of("libbacktrace") => state # Null

(* On every path of bun_memfd_create, one descriptor is handed out or none *)
(* stays open, and a directory entry outlives the call only if fcntl or    *)
(* unlink failed on it: a descriptor that was handed out has no name.      *)
Making(t) == pc[t] \in {"fcntl", "unlink"}
DescriptorsAccounted ==
  LET making == Cardinality({t \in Threads : Making(t)}) IN
  /\ files.open = files.handed + making
  /\ files.names = files.spoiled + making

(* Once bun_register_signal_handler returned true, none of its signals     *)
(* goes back to its old handler, whatever other registrations do.          *)
EverySignalHandled ==
  registered => \A s \in 1..Signals : table[s] # Null

(* mkstemp gets a directory on every path: tmp_path, which reads the       *)
(* shared cache directory twice, returns NULL only to a call between whose *)
(* two reads another thread called bun_cache_dir_set(NULL).                *)
TmpPathNotNull ==
  \A t \in Threads : pc[t] = "mkstemp" /\ path[t] = Null => withdrawn[t]

-----------------------------------------------------------------------------
(* A thread that initialises a libbacktrace handle has cleared it before.  *)
InitPending ==
  \A t \in Threads : pc[t] \in {"init_get", "init_create", "init_bind"} =>
    ~usable[t] /\ handle[t] = [f \in Fields |-> Null]

(* As long as no creation failed, whoever is past a successful             *)
(* get_backtrace_state, in this call or in the initialisation of the       *)
(* handle it unwinds with, finds the state.                                *)
StateAwaited ==
  creations.failed = 0 =>
    \A t \in Threads : pc[t] \in {"init_bind", "unwind_get"} => state # Null

(* tmp_path goes on to return a cache directory that it saw, unless it is  *)
(* withdrawn meanwhile.                                                    *)
TmpDirTested ==
  \A t \in Threads : pc[t] = "tmp_get" /\ cacheDir = Null => withdrawn[t]

(* A registration has set the signals before the one it is at, and no      *)
(* other registration takes a handler away.                                *)
SignalsSoFar ==
  \A t \in Threads : pc[t] = "sigaction" =>
    \A s \in 1..(next[t] - 1) : table[s] # Null

HandlesInv == InitPending /\ EntryPointsMatch
StateInv   == StateAwaited /\ StatePrecomputed
PathInv    == TmpDirTested /\ TmpPathNotNull
SignalsInv == SignalsSoFar /\ EverySignalHandled

(* The inductive invariant behind the properties above: each with what     *)
(* threads in the middle of a call may rely on.                            *)
LibraryInv ==
  /\ TypeOK
  /\ HandlesInv
  /\ StateInv
  /\ DescriptorsAccounted
  /\ PathInv
  /\ SignalsInv
=============================================================================
