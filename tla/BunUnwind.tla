------------------------------ MODULE BunUnwind ------------------------------
(***************************************************************************)
(* Threads, or signal handlers nested in them, that call bun_unwind on one *)
(* shared bun_buffer: bun_writer_init of src/bun_stream.c store by store,  *)
(* then the loop of the backend that fills the payload.                    *)
(*                                                                         *)
(* The three backends have the same shape: bun_writer_init, whose result   *)
(* none of them looks at, bun_header_backend_set, bun_header_tid_set, a    *)
(* bun_frame_write per stack frame, and header->size as the result.  The   *)
(* payload is abstracted to equal slots, each marked with the call that    *)
(* stored its frame; header->size counts the header as 1.  Whether one     *)
(* more frame is accepted when the slots are full, and what follows, is    *)
(* taken from BunStream: would_write is short of the stored length, so a   *)
(* frame that ends past the payload may be accepted, and from then on the  *)
(* unsigned room left is huge and nothing is refused.                      *)
(***************************************************************************)
EXTENDS Integers, FiniteSets

CONSTANTS Threads,
          Handles,      (* the bun_handle objects                          *)
          WriteOnce,    (* those with BUN_HANDLE_WRITE_ONCE in flags       *)
          SetsTid,      (* those whose backend calls bun_header_tid_set    *)
          Overruns,     (* those whose backend's frames may be accepted    *)
                        (* although they end past the payload: frames with *)
                        (* registers (libunwind, libunwindstack), on a     *)
                        (* 32-bit build all frames                         *)
          Null,
          SignLimit,    (* INT_MAX + 1: write_count is a uint32_t, its     *)
                        (* previous value is kept in an int                *)
          Slots,        (* frames the payload has room for                 *)
          MaxPast,      (* bound: frames stored past the payload           *)
          MaxCalls      (* bound: calls of bun_unwind on the buffer        *)

ASSUME HandlesAssumption ==
  WriteOnce \cup SetsTid \cup Overruns \subseteq Handles /\ Null \notin Handles
ASSUME LimitsAssumption == SignLimit \in Nat /\ SignLimit > 0
ASSUME UnwindBoundsAssumption ==
  Slots \in Nat /\ MaxPast \in Nat /\ MaxCalls \in Nat

VARIABLES
  handle,      (* buffer_payload->handle                                   *)
  writeCount,  (* buffer_payload->write_count                              *)
  hdr,         (* magic, size, tid and backend of the payload header       *)
  slot,        (* the call that stored the frame in each slot, or 0        *)
  pc,          (* where each thread is                                     *)
  id,          (* the number of each thread's call                         *)
  by,          (* the thread and the handle of each call                   *)
  writer,      (* the bun_writer of each thread's call                     *)
  load,        (* header->size as loaded by header->size += would_write    *)
  calls,       (* number of calls so far                                   *)
  won,         (* calls whose bun_writer_init returned true                *)
  refused,     (* calls whose bun_writer_init returned false               *)
  result,      (* what each call returned, -1 before it does               *)
  spoiled,     (* a refused call went on with a pointer into this buffer   *)
  crashed      (* the process died                                         *)

locals == <<id, by, calls>>
shared == <<handle, writeCount, hdr, slot>>
history == <<won, refused, result, spoiled, crashed>>
vars == <<shared, pc, locals, writer, load, history>>

CallIds == 1..MaxCalls

(* A bun_writer: does data.buffer point to this payload's header, does     *)
(* data.cursor point into this payload, and how many frames precede the    *)
(* cursor.                                                                 *)
Writer == [header : BOOLEAN, cursor : BOOLEAN, used : 0..(Slots + MaxPast)]

NoWriter == [header |-> FALSE, cursor |-> FALSE, used |-> 0]

Init ==
  /\ handle = Null
  /\ writeCount = 0
  /\ hdr = [magic |-> FALSE, size |-> 0, tid |-> Null, backend |-> Null]
  /\ slot = [i \in 1..Slots |-> 0]
  /\ pc = [t \in Threads |-> "idle"]
  /\ id = [t \in Threads |-> 0]
  /\ by = [c \in CallIds |-> [thread |-> Null, handle |-> Null]]
  /\ writer = [t \in Threads |-> NoWriter]
  /\ load = [t \in Threads |-> 0]
  /\ calls = 0
  /\ won = {}
  /\ refused = {}
  /\ result = [c \in CallIds |-> -1]
  /\ spoiled = FALSE
  /\ crashed = FALSE

At(t, label) == ~crashed /\ pc[t] = label
Goto(t, to) == pc' = [pc EXCEPT ![t] = to]

(* The handle of the thread's current call. *)
Arg(t) == by[id[t]].handle

-----------------------------------------------------------------------------
(* bun_unwind(h, buffer); it dereferences h, so h is not NULL. *)
Call(t, h) ==
  /\ At(t, "idle") /\ calls < MaxCalls
  /\ calls' = calls + 1
  /\ id' = [id EXCEPT ![t] = calls + 1]
  /\ by' = [by EXCEPT ![calls + 1] = [thread |-> t, handle |-> h]]
  /\ Goto(t, "check")
  /\ UNCHANGED <<shared, writer, load, history>>

(* Mutant of CheckHandle: an unset handle is not set. *)
CheckHandleUnbound(t) ==
  /\ At(t, "check")
  /\ Goto(t, IF handle \in {Null, Arg(t)} THEN "flags" ELSE "refused")
  /\ UNCHANGED <<shared, locals, writer, load, history>>

(* bun_writer_init: the buffer's handle is tested ...                      *)
CheckHandle(t) ==
  /\ At(t, "check")
  /\ Goto(t, CASE handle = Null -> "bind"
               [] handle = Arg(t) -> "flags"
               [] OTHER -> "refused")
  /\ UNCHANGED <<shared, locals, writer, load, history>>

(* ... and set, in another step ...                                        *)
BindHandle(t) ==
  /\ At(t, "bind")
  /\ handle' = Arg(t)
  /\ Goto(t, "flags")
  /\ UNCHANGED <<writeCount, hdr, slot, locals, writer, load, history>>

(* Mutant of CheckFlags: BUN_HANDLE_WRITE_ONCE is not tested. *)
CheckFlagsIgnored(t) ==
  /\ At(t, "flags")
  /\ Goto(t, "open")
  /\ UNCHANGED <<shared, locals, writer, load, history>>

(* ... and read again for its flags.                                       *)
CheckFlags(t) ==
  /\ At(t, "flags")
  /\ Goto(t, IF handle \in WriteOnce THEN "count" ELSE "open")
  /\ UNCHANGED <<shared, locals, writer, load, history>>

(* The uint32_t previous value of write_count, as an int. *)
Signed(n) == IF n < SignLimit THEN n ELSE n - 2 * SignLimit

(* Mutant of FetchAdd: the previous value is compared with 1, as if        *)
(* atomic_fetch_add returned the new one.                                  *)
FetchAddNew(t) ==
  /\ At(t, "count")
  /\ writeCount' = (writeCount + 1) % (2 * SignLimit)
  /\ Goto(t, IF Signed(writeCount) > 1 THEN "refused" ELSE "open")
  /\ UNCHANGED <<handle, hdr, slot, locals, writer, load, history>>

(* atomic_fetch_add on write_count; last > 0 refuses the writer. *)
FetchAdd(t) ==
  /\ At(t, "count")
  /\ writeCount' = (writeCount + 1) % (2 * SignLimit)
  /\ Goto(t, IF Signed(writeCount) > 0 THEN "refused" ELSE "open")
  /\ UNCHANGED <<handle, hdr, slot, locals, writer, load, history>>

(* The writer is set up; the magic is the first store to the header ...    *)
OpenWriter(t) ==
  /\ At(t, "open")
  /\ writer' = [writer EXCEPT ![t] = [header |-> TRUE, cursor |-> TRUE, used |-> 0]]
  /\ hdr' = [hdr EXCEPT !.magic = TRUE]
  /\ Goto(t, "header")
  /\ UNCHANGED <<handle, writeCount, slot, locals, load, history>>

(* ... and its other fields follow.                                        *)
WriteHeader(t) ==
  /\ At(t, "header")
  /\ hdr' = [hdr EXCEPT !.size = 1, !.tid = t, !.backend = Null]
  /\ won' = won \cup {id[t]}
  /\ Goto(t, "backend")
  /\ UNCHANGED <<handle, writeCount, slot, locals, writer, load,
                 refused, result, spoiled, crashed>>

(* What may be on the stack where a bun_writer was not initialised: the    *)
(* pointers of any earlier writer or reader of this memory, each at any    *)
(* frame, or pointers to memory that is not this buffer's.                 *)
StaleWriters == {w \in Writer : w.cursor \/ w.used = 0}

(* bun_writer_init returned false and the backend carries on with its      *)
(* uninitialised bun_writer, which may fault as soon as it is used.        *)
Refused(t) ==
  /\ At(t, "refused")
  /\ refused' = refused \cup {id[t]}
  /\ \/ \E w \in StaleWriters :
          /\ writer' = [writer EXCEPT ![t] = w]
          /\ spoiled' = (spoiled \/ w.header \/ w.cursor)
          /\ Goto(t, "backend")
          /\ UNCHANGED crashed
     \/ crashed' = TRUE /\ UNCHANGED <<pc, writer, spoiled>>
  /\ UNCHANGED <<shared, locals, load, won, result>>

-----------------------------------------------------------------------------
(* bun_header_backend_set and bun_header_tid_set through the writer; the   *)
(* backend is identified by the handle that selected it.                   *)
SetBackend(t) ==
  /\ At(t, "backend")
  /\ hdr' = IF writer[t].header
            THEN [hdr EXCEPT !.backend = Arg(t),
                             !.tid = IF Arg(t) \in SetsTid THEN t ELSE @]
            ELSE hdr
  /\ Goto(t, "walk")
  /\ UNCHANGED <<handle, writeCount, slot, locals, writer, load, history>>

(* would_write <= buffer_available.  A payload that is exactly full may    *)
(* take one more frame that ends past it; beyond the end the difference    *)
(* wraps; in a refused call data.size is as arbitrary as the pointers.     *)
Accepts(t) ==
  \/ writer[t].used # Slots
  \/ Arg(t) \in Overruns
  \/ id[t] \in refused

(* The frame goes to the next slot, unless it lies past the payload or the *)
(* cursor points elsewhere.                                                *)
Store(t) ==
  /\ slot' = IF writer[t].cursor /\ writer[t].used < Slots
             THEN [slot EXCEPT ![writer[t].used + 1] = id[t]]
             ELSE slot
  /\ writer' = [writer EXCEPT ![t].used = @ + 1]
  /\ Goto(t, "load")

(* Mutant of StoreFrame: a full payload does not end the call; the backend *)
(* starts over.                                                            *)
StoreFrameRestarting(t) ==
  /\ At(t, "walk")
  /\ IF writer[t].used < Slots
     THEN Store(t)
     ELSE Goto(t, "backend") /\ UNCHANGED <<slot, writer>>
  /\ UNCHANGED <<handle, writeCount, hdr, locals, load, history>>

(* Mutant of StoreFrame: the room left is not compared. *)
StoreFrameUnchecked(t) ==
  /\ At(t, "walk") /\ Store(t)
  /\ UNCHANGED <<handle, writeCount, hdr, locals, load, history>>

(* The stores of bun_frame_write for the next frame of the stack. *)
StoreFrame(t) ==
  /\ At(t, "walk") /\ Accepts(t)
  /\ writer[t].used < Slots + MaxPast
  /\ Store(t)
  /\ UNCHANGED <<handle, writeCount, hdr, locals, load, history>>

(* A store past the payload may meet memory that is not mapped. *)
OverrunFaults(t) ==
  /\ At(t, "walk") /\ Accepts(t) /\ writer[t].used >= Slots
  /\ crashed' = TRUE
  /\ UNCHANGED <<shared, pc, locals, writer, load, won, refused, result, spoiled>>

(* header->size += would_write is not atomic: the load ...                 *)
LoadSize(t) ==
  /\ At(t, "load")
  /\ load' = IF writer[t].header THEN [load EXCEPT ![t] = hdr.size] ELSE load
  /\ Goto(t, "store")
  /\ UNCHANGED <<shared, locals, writer, history>>

(* ... and the store.                                                      *)
StoreSize(t) ==
  /\ At(t, "store")
  /\ hdr' = IF writer[t].header THEN [hdr EXCEPT !.size = load[t] + 1] ELSE hdr
  /\ Goto(t, "walk")
  /\ UNCHANGED <<handle, writeCount, slot, locals, writer, load, history>>

(* The call returns n, and its locals are gone. *)
Return(t, n) ==
  /\ result' = [result EXCEPT ![id[t]] = n]
  /\ writer' = [writer EXCEPT ![t] = NoWriter]
  /\ load' = [load EXCEPT ![t] = 0]
  /\ Goto(t, "idle")
  /\ UNCHANGED <<shared, locals, won, refused, spoiled, crashed>>

(* bun_frame_write returned 0, and so does the backend: only at the exact  *)
(* end of the payload is there no room.                                    *)
BufferFull(t) == At(t, "walk") /\ writer[t].used = Slots /\ Return(t, 0)

(* unw_step, backtrace_full or unwinder.frames() reached the end. *)
EndOfStack(t) == At(t, "walk") /\ Return(t, hdr.size)

(* LocalMaps::Parse failed, or backtrace_full stopped with an error. *)
BackendFails(t) == At(t, "walk") /\ Return(t, 0)

Step(t) ==
  \/ CheckHandle(t) \/ BindHandle(t) \/ CheckFlags(t) \/ FetchAdd(t)
  \/ OpenWriter(t) \/ WriteHeader(t) \/ Refused(t) \/ SetBackend(t)
  \/ StoreFrame(t) \/ OverrunFaults(t) \/ LoadSize(t) \/ StoreSize(t)
  \/ BufferFull(t) \/ EndOfStack(t) \/ BackendFails(t)

Next == \E t \in Threads : Step(t) \/ \E h \in Handles : Call(t, h)

(* A thread that is inside libbun is scheduled: bun_unwind never blocks. *)
Spec == Init /\ [][Next]_vars /\ \A t \in Threads : WF_vars(Step(t))

-----------------------------------------------------------------------------
(* Every variable keeps the shape of its C counterpart. *)
TypeOK ==
  /\ handle \in Handles \cup {Null}
  /\ writeCount \in 0..(2 * SignLimit - 1)
  /\ hdr \in [magic : BOOLEAN, size : Nat, tid : Threads \cup {Null},
              backend : Handles \cup {Null}]
  /\ slot \in [1..Slots -> 0..MaxCalls]
  /\ pc \in [Threads -> {"idle", "check", "bind", "flags", "count", "open",
                         "header", "refused", "backend", "walk", "load",
                         "store"}]
  /\ id \in [Threads -> 0..MaxCalls]
  /\ by \in [CallIds -> [thread : Threads \cup {Null}, handle : Handles \cup {Null}]]
  /\ writer \in [Threads -> Writer]
  /\ load \in [Threads -> Nat]
  /\ calls \in 0..MaxCalls
  /\ won \subseteq CallIds
  /\ refused \subseteq CallIds
  /\ result \in [CallIds -> Nat \cup {-1}]
  /\ spoiled \in BOOLEAN
  /\ crashed \in BOOLEAN

(* BUN_HANDLE_WRITE_ONCE: however the steps of bun_writer_init interleave, *)
(* it returns true to at most one of the calls made on the buffer.         *)
WriteOnceExclusive ==
  \A c, d \in won : c = d

(* The payload a call reports is the one it wrote: once bun_unwind has     *)
(* returned a size from a writer it initialised, header->tid, backend and  *)
(* size and the frames they count stay that call's own, whatever all       *)
(* threads do with the buffer, its own included, until a refused call goes *)
(* on with a pointer into the buffer.                                      *)
ReportIntact ==
  ~spoiled =>
    \A c \in won : result[c] > 0 =>
      /\ hdr.magic /\ hdr.tid = by[c].thread /\ hdr.backend = by[c].handle
      /\ hdr.size = result[c]
      /\ \A i \in 1..Slots : i < hdr.size => slot[i] = c

-----------------------------------------------------------------------------
(* Places before, between and after the outcome of atomic_fetch_add. *)
BeforeCount == {"check", "bind", "flags", "count"}
Opening == {"open", "header"}
Writing == {"backend", "walk", "load", "store"}

(* The calls that cannot reach atomic_fetch_add any more. *)
Counted ==
  {c \in 1..calls : \A t \in Threads : id[t] = c => pc[t] \notin BeforeCount}

(* Each call has a number of its own, and no result before it returns. *)
CallsDistinct ==
  /\ \A t \in Threads :
       /\ id[t] <= calls
       /\ pc[t] # "idle" => /\ id[t] > 0 /\ result[id[t]] = -1
                            /\ by[id[t]].thread = t /\ Arg(t) \in Handles
  /\ \A t, u \in Threads : id[t] = id[u] /\ id[t] > 0 => t = u
  /\ \A c \in CallIds : c > calls => result[c] = -1

(* One call passes atomic_fetch_add; a call is in the backend's loop       *)
(* because bun_writer_init returned true to it or although it did not.     *)
SingleWriter ==
  /\ \A t \in Threads : pc[t] \in Opening => won = {} /\ writeCount > 0
  /\ \A t, u \in Threads : pc[t] \in Opening /\ pc[u] \in Opening => t = u
  /\ won # {} => writeCount > 0
  /\ won \subseteq 1..calls
  /\ \A t \in Threads :
       /\ pc[t] \in BeforeCount \cup {"refused"} => id[t] \notin won
       /\ pc[t] \in Writing => id[t] \in won \/ id[t] \in refused

(* Where the bun_writer of a thread points: an initialised one to this     *)
(* buffer, and that of a refused call only once the buffer is spoiled.     *)
WritersPlaced ==
  \A t \in Threads :
    /\ pc[t] = "header" \/ (pc[t] \in Writing /\ id[t] \in won) =>
         writer[t].header /\ writer[t].cursor
    /\ pc[t] \in Writing /\ id[t] \notin won =>
         spoiled \/ (~writer[t].header /\ ~writer[t].cursor)
    /\ pc[t] = "header" => hdr.magic /\ writer[t].used = 0

(* The payload at each point of the loop of the call that owns it. *)
OwnPayload(t) ==
  /\ hdr.magic /\ hdr.tid = t
  /\ \A i \in 1..Slots : i <= writer[t].used => slot[i] = id[t]
  /\ pc[t] = "backend" => hdr.size = 1 /\ writer[t].used = 0
  /\ pc[t] \in {"walk", "load", "store"} => hdr.backend = Arg(t)
  /\ pc[t] = "walk" => hdr.size = writer[t].used + 1
  /\ pc[t] \in {"load", "store"} => hdr.size = writer[t].used
  /\ pc[t] = "store" => load[t] = writer[t].used

PayloadInOrder ==
  ~spoiled => \A t \in Threads :
                pc[t] \in Writing /\ id[t] \in won => OwnPayload(t)

(* The inductive invariant behind WriteOnceExclusive and ReportIntact,     *)
(* when every handle carries BUN_HANDLE_WRITE_ONCE: write_count is bounded *)
(* by the calls that have passed it, so the int it is copied to is not     *)
(* negative, only the first of them ever initialises a writer, and until a *)
(* refused call spoils the buffer its payload is in order at every step.   *)
UnwindInv ==
  /\ TypeOK
  /\ CallsDistinct
  /\ \A t \in Threads : pc[t] \in {"flags", "count"} => handle # Null
  /\ writeCount <= Cardinality(Counted)
  /\ SingleWriter
  /\ WriteOnceExclusive
  /\ WritersPlaced
  /\ PayloadInOrder
  /\ ReportIntact

-----------------------------------------------------------------------------
(* A call refused by bun_writer_init reports an error, as the doc of       *)
(* unwind_fn says: a result of 0.                                          *)
RefusedReturnsZero ==
  \A c \in refused : result[c] \in {-1, 0}

(* bun_unwind terminates even on a stack without end, because              *)
(* bun_frame_write refuses the frame that no longer fits: every call       *)
(* returns, unless a frame ended past the payload, after which nothing is  *)
(* refused, or the call was itself refused, and its uninitialised          *)
(* bun_writer bounds nothing.                                              *)
UnwindReturns ==
  \A t \in Threads :
    pc[t] # "idle" ~> \/ pc[t] = "idle" \/ crashed
                      \/ writer[t].used > Slots
                      \/ id[t] \in refused

-----------------------------------------------------------------------------
(* The refinement mapping.  The owner is the call whose bun_writer_init    *)
(* returned true; its report is what the payload holds once that call has  *)
(* returned a size, until a refused call spoils the buffer.                *)
Reported == ~spoiled /\ \E c \in won : result[c] > 0

ReportInBuffer ==
  IF Reported
  THEN [size |-> hdr.size, tid |-> hdr.tid, backend |-> hdr.backend,
        frames |-> {slot[i] : i \in {j \in 1..Slots : j < hdr.size}}]
  ELSE Null

Buffer == INSTANCE BunWriteOnce
            WITH Calls <- CallIds, NoReport <- Null, owners <- won,
                 report <- ReportInBuffer, final <- spoiled

(* With write-once handles, bun_unwind on a shared buffer implements       *)
(* BunWriteOnce: every step of every thread is a step of the abstract      *)
(* buffer or invisible to it, a refused call that goes on with pointers    *)
(* into the buffer being the step that ends its promise.                   *)
ImplementsWriteOnce == Buffer!Spec
=============================================================================
