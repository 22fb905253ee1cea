# A TLA+ verification of libbun

libbun collects stack traces, usually from a crash handler, and leaves them as
a compact stream in a fixed buffer that another program reads: a crash
uploader, a minidump, or a monitor process that shares the memory. This
directory holds TLA+ models of its core, the TLC configurations that check them
on small instances, and TLAPS proofs of their main properties. Paths below are
relative to the repository, so `src/bun_stream.c` is the stream code.

## Inventory

| Component | State | Operations | Hard behaviour |
|---|---|---|---|
| Stream (`src/bun_stream.c`, `include/bun/stream.h`) | `bun_buffer`; payload header (magic, size, tid, backend); cursors of writer and reader with an overflow flag | `bun_buffer_init`, `bun_writer_init`, `bun_frame_write`, `bun_reader_init`, `bun_frame_read`, register append/get, print | reader and writer share memory without a lock; lengths at the end of the buffer; wrapping `size_t` differences |
| Write-once protocol (`bun_writer_init`) | `write_count`, `handle` in front of the payload | test and set of the handle, `atomic_fetch_add` | threads and nested signal handlers race; non-atomic check-then-set; `uint32_t` copied to `int` |
| Backends (`src/backend/*`) | `bun_writer` on the stack; a `backtrace_state` singleton; an address space | `unwind`, `unwind_context`, `unwind_remote`, `destroy` | result of `bun_writer_init` ignored; walks without a bound of their own |
| Handle and dispatch (`src/bun.c`) | function pointers, flags | `bun_handle_init`, `_deinit`, `bun_unwind*` | pointers a backend leaves NULL; deinit twice |
| Remote unwinding (`bun_waitpid`, the two `*_unwind_remote`) | the tracing relation, wait statuses, a timeout | attach, wait, walk, detach | late stops, kills, foreign signals, statuses collected by the host, interrupted calls |
| Utilities (`src/bun_utils.c`) | cache directory; descriptors; the process's signal handlers | `bun_cache_dir_set`, `bun_memfd_create` and its file fallbacks, `bun_register_signal_handler` | partial failure; threads that change the directory meanwhile |
| Text (`bun_cpp_utils.cpp`, `register_to_string.c`) | none | demangling, register names | none |
| `tools/stream_parser` | a file in memory | load, parse, print | clears the header it is about to read |
| BCD (`external/bcd`) | monitor process, sessions, event loop | attach, kv, backtrace, fatal, detach | timeouts against late acknowledgements, partial I/O, signals and vfork |
| Example programs (`examples/`) | a BCD configuration, a shared buffer, Crashpad | start-up, crash, `FirstChanceHandler`, dump; in the monitor `monitor_init`, `request_handler` | order of the start-up; a slow or dead monitor; a pid kept where the buffer keeps its counter |
| Tests | | clients of all the above | |

How they interact: a client initialises a handle (which selects a backend) and
a buffer; `bun_unwind` calls the backend, which initialises a writer on the
buffer, sets the header fields and calls `bun_frame_write` for each frame.
`bun_unwind_remote` does the same for another thread, which it first stops with
ptrace. A reader, often in another process, runs `bun_reader_init` and then
`bun_frame_read` until it returns false. BCD's monitor calls a client's request
handler, which is where examples call the remote unwinder.

What makes each part correct: the reader never leaves the payload and obtains
what was written; a write-once buffer is given to one call, whose report is
then final; a remote unwind reads only stopped targets, lets them go, and
returns; handles, descriptors and signal handlers stay in order whichever call
fails; a program that crashes gets its dump, with what the monitor reported if it
answered, and does not leave its monitor behind. The code keeps some of this only
with exceptions, which the properties state and the findings show.

## Modules

| Module | Models | State and actions |
|---|---|---|
| `BunLayout` | cursor arithmetic of `src/bun_stream.c` | no state: `WouldWrite`, `Serialize`, `Parse`, `SafeAccess`, ... |
| `BunStream` | one buffer, its writer, a concurrent reader | `BufferInit`, `WriterInit`, `FrameStore` and `FrameCount` (the two halves of `bun_frame_write`), `ReaderInit`, `FrameRead`, `FrameReadGarbage` |
| `BunUnwind` | threads calling `bun_unwind` on one buffer | one action per shared access of `bun_writer_init` (`CheckHandle`, `BindHandle`, `CheckFlags`, `FetchAdd`, `OpenWriter`, `WriteHeader`, or `Refused`), then the loop of the backend (`StoreFrame`, `OverrunFaults`, `LoadSize`, `StoreSize`) until `BufferFull`, `EndOfStack` or `BackendFails` |
| `BunRemote` | `bun_unwind_remote` of libunwind and libunwindstack | the tracer (`Attach`, `Wait...`, `SigInfo`, `GetRegs`, `BlockingWait`, `Prepare` or `PrepareFaults`, `Walk`, `Detach`) and its environment (`TakeSignal`, `SendSignal`, `Kill`, `HostCollects`) |
| `BunWriteOnce` | what write-once promises the callers of `bun_unwind` | abstract: `Acquire`, `Publish`, `Spoil` |
| `BunLibrary` | `src/bun.c`, the initialisers of the backends, `src/bun_utils.c` | threads that call `bun_handle_init` and `_deinit`, `bun_cache_dir_set`, `bun_memfd_create`, `bun_register_signal_handler`, one action per access to shared state or fallible call |
| `BunPrograms` | `examples/` and what they use of BCD | the client (start-up stages, `Trap`, the handler, `Dump`), its monitor (`MonitorInit`, `Listen`, `Receive`, the unwind from `CallRemote` and `AttachToClient` to `FinishReport` with `AttachFails`, `SeeEnd`, `TimeOut`, `GiveUp` and `PrepareFails`, `Answer`, `Leave`), and the kernel and others (`TakeStop`, `Die`, `Killed`) |
| `MCBunStream`, `MCBunUnwind`, `MCBunRemote`, `MCBunLibrary`, `MCBunPrograms` | constants for TLC | |
| `BunStreamProofs`, `BunUnwindProofs`, `BunWriteOnceProofs`, `BunRemoteProofs`, `BunLibraryProofs`, `BunProgramsProofs` | theorems | |

**BunLayout.** A cursor is `[cursor, size, overflow]`, as in `struct
bun_writer_reader_base`, with offsets for pointers. A frame is the two string
lengths and the number of registers: nothing else decides a branch of the code.
`SizeT` is `sizeof(size_t)`. An unsigned difference that wraps is `SizeMax`,
larger than every length. The header is 24 bytes, the private part before it
16, on both widths (the code asserts 40 in all).

**BunStream.** The payload bytes are the sequence of frames stored since the
last `bun_writer_init`, each with its start and end. A reader at the start of
one parses that frame; anywhere else (a writer started over under it) the
lengths it meets are arbitrary. A frame is stored in one step and counted in
the next, because `header->size += would_write` is what the reader looks at. The
stores of the frame and of the size are taken to become visible in program
order: the compiler may not move the size store above copies through `char *`,
and x86 keeps store order. On weaker hardware a concurrent reader needs a
barrier that the code does not have; that is outside the model.

**BunUnwind.** A call of `bun_unwind` is numbered; a slot of the payload
remembers the call that stored it, so that mixed reports are visible. A nested
signal handler behaves like a thread that runs while another pauses. Slots are
equal, but the length test is not exact, as `BunStream` shows: when the slots are
used up, a backend in `Overruns` (one that stores registers) may be granted one
more frame, which ends past the payload; from then on `buffer_available` has
wrapped, every frame is accepted and a store may fault. A refused `bun_writer_init`
leaves the caller's `bun_writer` uninitialised, and no backend notices: the model
lets its two pointers be those of any earlier writer or reader of this buffer, at
any frame, or point elsewhere, and lets the call fault. `spoiled` records that such
a call goes on with a pointer into the buffer. A non-NULL handle is assumed, as
`bun_unwind` dereferences it. `won`, `refused`, `spoiled` and `result` are history.

**BunRemote.** ptrace, waitpid and signals are external and modelled from their
use: a traced target traps on any signal, PTRACE_ATTACH queues a SIGSTOP or traps
a target that job control had stopped, PTRACE_DETACH and PTRACE_GETREGS fail
unless the target is trapped, a collected exit makes the target unknown to the
tracer (ECHILD). What the walk writes belongs to `BunUnwind`. The non-blocking
`waitpid` of `bun_waitpid` is not interrupted; the blocking one of libunwindstack
is when `Interrupts` is TRUE. Regs::RemoteGet of libunwindstack returns NULL for a
target that is not in its ptrace-stop, and the tracer dies of it (`PrepareFaults`).

**BunWriteOnce.** An observer who looks only at finished calls: one call gets
the buffer, publishes at most one report made of its own frames, and the report
stays until a refused call goes on with pointers into the buffer (`Spoil`), after
which nothing is promised. `BunUnwind` is mapped onto it at its end: the owner is
the call in `won`, and a report exists when that call has returned a size and the
buffer is not spoiled.

**BunLibrary.** Each thread owns one handle and uses it as `bun.h` asks. A field
of a handle is the name of the backend that set it. `Memset` is the clearing in
`bun_handle_init`; the initialiser of a backend then sets its own fields only
(`Sets`), and `bun_handle_deinit` leaves all of them, a freed context included.
Descriptors and directory entries are counts. `Failing` names the library and
system calls that may fail. The `static` state of libbacktrace is tested in one
step and stored in another, as is the cache directory in `tmp_path`; a signal is
registered per step. `creations`, `withdrawn` (whether the directory was taken back
between a thread's two reads) and `registered` are history.

**BunPrograms.** A program is the list of its start-up stages in the order of its
`main`; the stages are actions shared by the programs. `backend` is the default of
the build, or the one the program was edited to name. The shared buffer is its
first word, where the monitor stores its pid, and the state of the report: none, a
header without frames (`begun`), frames being stored (`partial`), the frames up to
a refused one (`cut`), all of them (`full`). A wait of the client ends with the
answer or without it at any moment, which stands for the timeout. `trace` is the
SIGSTOP of PTRACE_ATTACH: pending at the client, or the client is stopped by it.
libunwindstack stores the header before it attaches, libunwind after; the wait of
libunwind may time out, and then PTRACE_DETACH fails and the SIGSTOP stays; the
preparation may fail, a frame may be refused. libbacktrace has no `unwind_remote`:
the monitor calls a null pointer and dies. `BunRemote` has the unwind in detail,
with signals from others. Crashpad and the kernel's ptrace permission are
external. BCD is vendored; only what the programs use of it is modelled.

## Runs

| Run | Checks | Shows |
|---|---|---|
| `stream64` | `TypeOK` `ReaderInBounds` `HeaderTrailsStores` `ReadsPrefix` `StreamInv` | 64-bit: the reader stays in bounds and reads a prefix, at every point of a concurrent write |
| `stream_plain` | `NoFrameLost` `WriterInBounds` | without registers and up to 13 frames, every frame that lies whole in the payload is read and no store leaves the payload; a last frame of a tight buffer whose register count was refused is counted although it does not lie whole in the payload, and is never read |
| `stream_frame_lost` | `NoFrameLost`, violated | the 14th small frame is not read |
| `stream_overrun` | `WriterInBounds`, violated | with registers, a store ends past the payload |
| `unwind_once` | `TypeOK` `WriteOnceExclusive` `ReportIntact` `UnwindInv` `UnwindReturns` `ImplementsWriteOnce` | one call gets the buffer; its report stays until a refused call goes on with a pointer into the buffer; a call that got the buffer returns even on an endless stack, unless one of its frames ended past the payload; and the code implements `BunWriteOnce` |
| `unwind_refused` | `RefusedReturnsZero`, violated | a refused call may report a size |
| `remote_safe` | `TypeOK` `StoppedWhileRead` `TargetReleased` `RemoteInv` `PollingReturns` | no running target is walked; targets that were seen to stop are let go; the tracer faults only over a dead target; the timeout bounds the remote unwind of libunwind unless the target was collected |
| `remote_reaped` | `RemoteReturns`, violated | ECHILD is retried for ever |
| `remote_interrupted` | `StoppedWhileRead`, violated | an uninitialised wait status lets libunwindstack go on with a running target |
| `library` | `TypeOK` `EntryPointsMatch` `StatePrecomputed` `DescriptorsAccounted` `EverySignalHandled` `TmpPathNotNull` | whichever call fails and however two threads interleave: a usable handle holds what one backend set and nothing of an earlier one; `bun_unwind` never creates the libbacktrace state unless a creation failed; descriptors and files are accounted for; registered signals stay handled; `tmp_path` returns NULL only in the race between its two reads |
| `programs` | `TypeOK` `TracerAuthorised` `DumpHoldsReport` `DumpNotTorn` `ProgramsInv` `AnsweredReportFinal` `CrashIsDumped` `MonitorFollows` | the five programs with each backend, a monitor that may be slow, fail at each step or be killed, and a client that may be killed: the monitor is authorised before it is needed; after an answer the report is final, and whole exactly if the unwind returned a size; a client that gave up waiting dumps no half-written frames unless the monitor died, and a bare header only with libunwindstack; a crash ends in a dump, except as below; no monitor outlives its client |
| `programs_handler_lost` | `RequestsReachHandler`, violated | `example_crashpad_remote.cpp` sets its handlers before `bcd_config_init` clears them |

The violated properties state what a doc or comment of the repository says;
`PROJECT.json` quotes it under "findings". On a 64-bit build a frame with strings
of S and F bytes and R registers reserves S+F+26+10R bytes and stores
S+F+28+10R: the source of the first two.

`CrashIsDumped` names three exceptions, each a way the code really loses the dump or
one that nobody can help: the client is killed; the monitor is gone when the client
writes its request, and SIGPIPE ends it; or the client is *stranded*, stopped by the
SIGSTOP of an attach whose stop nobody awaits any more, because `bun_waitpid` timed
out first (its PTRACE_DETACH then fails) or the monitor died.

**Bounds.** Stream: two kinds of frame (bare, and one with a symbol and a register or with two strings), at most
three frames and two writers on one buffer, and buffer sizes that put the end of
the payload at each byte around the end of the first, second and third frame, so
every outcome of the length test and of the bounded stores occurs (`stream_plain`
has a tight and an ample buffer); `MaxFrames` is
13 and 14 where the lag of the header is at issue, since 14 frames lag by 28
bytes, the length of a bare frame. Unwind: two threads, two handles of which
one stores registers, two slots with one more past the end, two calls: a winner and
a loser that may overlap, follow each other in one thread, or meet a stale writer at
every frame; with a `SignLimit` of 3 the counter cannot turn negative. A refused
call may have any stale writer from the start, so a longer history adds none.
Remote: three calls, two foreign
signals, a timeout of 2 ms (four polls), so that a leaked attachment meets the next
call. Library: two threads and five calls, so that every pair of operations can
overlap and a handle can be initialised, deinitialised and initialised again for
another backend; three signals, so that a registration has a first, a middle and a
last step; every call may fail. Programs: no bound; a program makes one request
and at most two dumps of its own accord.

Builds with a `size_t` of 4 bytes are covered by the stream theorems and not by a
run. Handles that are not write-once take the branch of `CheckFlags` that no run
takes: two threads then share the payload, about which the code promises nothing.

**Deadlock** is checked in the stream runs, where a reader can always start over.
The other runs end when the bounded calls are used up or the process died; that
nobody waits for ever is stated by the liveness properties instead.

**Fairness.** `BunUnwind`: weak fairness per thread, since `bun_unwind` takes no
lock and waits for nothing. `BunRemote`: weak fairness of the tracer alone; the
kernel and the target owe it nothing. `PollingReturns` is about libunwind only:
libunwindstack blocks until its target stops. `BunPrograms`: weak fairness of the
client, whose every wait has a timeout; the monitor is only assumed not to stop for
good while the client is stopped (its steps there are system calls that return) or
after the client has gone (its reads then return at once); the kernel is assumed to
deliver nothing. Safety needs
none.

## Proofs

TLAPS checks every theorem for all values of the constants.

`BunStreamProofs` proves `StreamInvariant`, that `StreamInv` is inductive, and from
it `TypeCorrect`, `ReaderStaysInBounds`, `HeaderNeverAhead` and
`ReaderGetsPrefix`. The properties are not inductive alone: `ReadsPrefix` needs
the reader to stand at a frame boundary (`ReaderAtBoundary`) and the frames to
form a chain from the header to the writer's cursor (`FramesChained`); the chain
needs to know what a frame occupies when one of its stores was refused, and that
after a refusal nothing fits any more (`OverflowIsFinal`). `HeaderTrailsStores`
rests on the fact that a frame reserves less than it stores. Assumptions:
`SizeT` is 4 or 8, fewer than 65536 registers, no length reaches `SizeMax`. Two
theorems give the exact conditions under which the code is free of the two
stream findings, on 64-bit builds: `PlainWriterInBounds` (no registers) and
`ShallowStacksComplete` (at most 13 frames; about the frames that lie whole in the
payload).

`BunUnwindProofs` proves `WriteOnceInvariant` for any number of threads, handles
and slots, assuming that every handle used on the buffer is write-once and that at
most `SignLimit` calls are made. The key is that `write_count` is bounded by the
number of calls that can no longer reach `atomic_fetch_add` (`Counted`), so the
`int` it is copied to is never negative and every caller after the first is
refused; then at most one call ever initialises a writer (`SingleWriter`). Whatever
a refused call has in its writer, it leads nowhere or the buffer is marked spoiled
(`WritersPlaced`), so until then every store to the payload is the owner's, and it is
in order at each point of its loop (`PayloadInOrder`), frames past the end included.
`WriteOnceHolds`, `ReportStaysIntact` and `UnwindTypeCorrect` follow.

`BunWriteOnceProofs` proves `UnwindImplementsWriteOnce`, under the same assumptions:
every behaviour of `BunUnwind` is one of `BunWriteOnce` under the mapping. The
initial state maps to the initial one; the step in which
`bun_writer_init` returns true is `Acquire`; the return of the winner with a size is `Publish`; a refused
call that goes on with a pointer into the buffer is `Spoil`; every other step leaves the mapped state alone. The
invariant of `BunUnwindProofs` is what shows the last, since a step of
another thread could otherwise change the size, the tid or a slot of the report.

`BunRemoteProofs` proves `RemoteInvariant`, and from it `RemoteTypeCorrect`,
`TargetStoppedWhileRead` and `TargetIsReleased`, for both backends and any timeout, assuming that waitpid is
not interrupted. `KernelAgrees` ties wait statuses to the state of the target;
`TracerAgrees` says that a tracer that lost its target while waiting lost it to a
collected exit, that a target seen stopped can only die, and that the tracer faults
over missing registers only if its target died.

`BunLibraryProofs` proves `LibraryInvariant`, and from it `LibraryTypeCorrect`,
`EntryPointsAlwaysMatch`, `StateIsPrecomputed`, `DescriptorsAreAccounted`, `SignalsStayHandled` and `TmpPathIsSet`, for any finite
set of threads, any set of failing calls and any number of calls and signals. The
only further assumption is that NULL is none of the directories, threads and
backends. `LibraryInv` adds to the properties what the threads in the middle of a
call know: one that initialises has an unusable handle that the memset cleared
(`InitPending`); one past a successful `get_backtrace_state` finds the state set if
no creation failed (`StateAwaited`), which is where the unlocked test and store
could go wrong; one about to return the cache directory found one, unless it was
withdrawn since (`TmpDirTested`); one that registers has set the signals before its own
(`SignalsSoFar`). The counts of descriptors are tied to cardinalities of sets of
threads: a step moves one thread into or out of such a set, and the lemmas on
finite sets give the change by one.

`BunProgramsProofs` proves `ProgramsInvariant`, and from it `ProgramsTypeCorrect`,
`TracerIsAuthorised`, `DumpsHoldReports`, `DumpsAreNotTorn` and the action
property `AnsweredReportIsFinal`, for every selection of programs and every backend,
whether or not calls fail and the client or the monitor is killed. None of these is inductive. The argument has four
parts. `OnCourse` gives the labels each program can be at (from the order of its
stages, lemma `StageOrder`), and `MonitorForked` what the earlier stages have
established at each: handlers set before the fork, the pid stored before BCD_OP_CF,
read after it. `OneRequest` says that one request is under way at most, in the
socket, at the monitor or as an acknowledgement, so an answer found while waiting
for the trace is that of the trace. `ReportSettles` says that the report changes
only while the monitor serves the request, is whole exactly if the unwind returned a
size, and has no half-written frames when it is answered. `ClientHeld` says that the
client is stopped for as long as the monitor stores frames, so it cannot dump them
half-written, although its timeout may end at any moment.
`HandlersAreReached` is the counterpart of the finding about
`example_crashpad_remote.cpp`: without that program, every request reaches the
request handler.

Only model-checked: the liveness properties (`UnwindReturns`, `PollingReturns`,
`RemoteReturns`, `CrashIsDumped`, `MonitorFollows`), which are out of the
prover's reach, and the violations. Every invariant of a passing run is a theorem, and so is `LibraryInv`, on which
those of the library rest.

## Not modelled

- Conversions to text (demangling, register names, `bun_reader_print`): no state and
  no control that another part depends on.
- `bun_frame_register_append` and `_get`: one bounded store or load in a frame
  that only its owner sees. A frame of the models has a number of registers.
- Register conversion of libunwindstack: tables of constants per architecture.
- The libraries that walk the stack, Crashpad, the kernel: external, modelled by
  what the code sees of them.
- `tools/stream_parser`: sequential, without state of its own. That it clears the
  header of the data it has just loaded is recorded under "hazards".
- The helpers of the tests, such as the poisoned allocator that bcd-poison arms with
  SIGPWR: test support.
- Of BCD: key-value and argument packets, `bcd_fatal`, `bcd_detach`, its event
  loop and its children. No program here uses them, or they are beneath the steps of
  the monitor.
- Memory that is never given back: the address space of each libunwind handle and the
  context of each failed remote unwind. A hazard says where.
- In `BunPrograms`, signals that others send to the client (they are in `BunRemote`),
  and Crashpad's own attach, which fails while a monitor still traces the client.
- Weak memory: see `BunStream` above.
- cmake files.

## Plan

1. Done: `BunLayout`, `BunStream`, `BunUnwind`, `BunRemote`, with proofs.
2. Done: `BunWriteOnce` and the refinement, with its proof; `BunLibrary`;
   `BunPrograms`.
3. Done: the invariants of `BunLibrary` and `BunPrograms` as theorems.
4. Next, action properties of the other components: that nothing but a new
   `bun_writer_init` takes a counted frame from a reader, and that a remote unwind
   changes the tracing relation only between its attach and its return.
5. Buffers shared by write-once and other handles: which of the two kinds may
   come first for the promise of the write-once ones to hold.
