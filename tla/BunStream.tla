------------------------------ MODULE BunStream ------------------------------
(***************************************************************************)
(* One buffer of libbun, the writer that fills it and a reader of the same *)
(* memory (a crash handler or the process that shares the mapping), from   *)
(* src/bun_stream.c.                                                       *)
(*                                                                         *)
(* bun_frame_write is two steps, because a reader of shared memory can run *)
(* between them: the stores of the frame, and header->size += would_write. *)
(* The bytes of the payload are abstracted to the sequence of frames       *)
(* stored since the last bun_writer_init, each with the offset it starts   *)
(* at; anything else a reader may meet is garbage of arbitrary lengths.    *)
(***************************************************************************)
EXTENDS BunLayout, Sequences

CONSTANTS Capacities,   (* sizes the client passes to bun_buffer_init      *)
          Frames,       (* frames the unwinder hands to bun_frame_write    *)
          MaxFrames,    (* bound: frames stored by one writer              *)
          MaxEpochs     (* bound: calls of bun_writer_init                 *)

ASSUME CapacitiesAssumption == Capacities \subseteq Nat
ASSUME FramesAssumption ==
  /\ Frames \subseteq [symbol : Nat, filename : Nat, regs : Nat]
  /\ \A f \in Frames : f.regs < 65536 /\ WouldWrite(f) <= SizeMax
ASSUME BoundsAssumption == MaxFrames \in Nat /\ MaxEpochs \in Nat

VARIABLES
  size,     (* buffer->size; 0 before bun_buffer_init                      *)
  hdr,      (* the payload header: is the magic there, header->size        *)
  writer,   (* writer->data and the frame not yet added to header->size    *)
  stored,   (* the frames in memory since the last bun_writer_init         *)
  reader,   (* reader->data                                                *)
  got,      (* the frames bun_frame_read returned to this reader           *)
  epoch,    (* number of bun_writer_init calls                             *)
  seen      (* the epoch the reader was initialised in                     *)

vars == <<size, hdr, writer, stored, reader, got, epoch, seen>>

(* A cursor whose base pointer is not set. *)
NoCursor == [live |-> FALSE, cursor |-> 0, size |-> 0, overflow |-> FALSE]

(* The result of deserialising bytes that are not a frame of the writer. *)
Garbage == [symbol |-> -1, filename |-> -1, regs |-> -1]

Cursor == [live : BOOLEAN, cursor : Nat, size : Nat, overflow : BOOLEAN]

Init ==
  /\ size = 0
  /\ hdr = [magic |-> FALSE, size |-> 0]
  /\ writer = NoCursor
  /\ stored = << >>
  /\ reader = NoCursor
  /\ got = << >>
  /\ epoch = 0
  /\ seen = 0

-----------------------------------------------------------------------------
(* A frame is stored but header->size does not count it yet. *)
Pending == stored # << >> /\ ~stored[Len(stored)].counted

(* The cursor bun_writer_init and bun_reader_init set up. *)
FreshCursor == [live |-> TRUE, cursor |-> HeaderSize,
                size |-> PayloadSize(size), overflow |-> FALSE]

(* Mutant of BufferInit: the size is not compared with the 40 bytes. *)
BufferInitUnchecked(n) ==
  /\ size = 0
  /\ size' = n
  /\ hdr' = [magic |-> FALSE, size |-> 0]
  /\ UNCHANGED <<writer, stored, reader, got, epoch, seen>>

(* bun_buffer_init; the client prepares the memory once. *)
BufferInit(n) ==
  /\ size = 0
  /\ n >= BufferHeaderSize
  /\ size' = n
  /\ hdr' = [magic |-> FALSE, size |-> 0]
  /\ UNCHANGED <<writer, stored, reader, got, epoch, seen>>

(* bun_writer_init on a buffer without BUN_HANDLE_WRITE_ONCE: the header   *)
(* is rewritten and the payload starts over.                               *)
WriterInit ==
  /\ size > 0 /\ epoch < MaxEpochs /\ ~Pending
  /\ writer' = FreshCursor
  /\ hdr' = [magic |-> TRUE, size |-> HeaderSize]
  /\ stored' = << >>
  /\ epoch' = epoch + 1
  /\ UNCHANGED <<size, reader, got, seen>>

(* Mutant of FrameStore: header->size is updated before the stores. *)
FrameStoreCountFirst(f) ==
  /\ writer.live /\ ~Pending /\ Len(stored) < MaxFrames
  /\ Fits(writer, f)
  /\ writer' = Serialize(writer, f)
  /\ stored' = Append(stored, [frame |-> f, at |-> writer.cursor,
                               next |-> writer'.cursor, counted |-> FALSE])
  /\ hdr' = [hdr EXCEPT !.size = @ + WouldWrite(f)]
  /\ UNCHANGED <<size, reader, got, epoch, seen>>

(* bun_frame_write up to the last memcpy. *)
FrameStore(f) ==
  /\ writer.live /\ ~Pending /\ Len(stored) < MaxFrames
  /\ Fits(writer, f)
  /\ writer' = Serialize(writer, f)
  /\ stored' = Append(stored, [frame |-> f, at |-> writer.cursor,
                               next |-> writer'.cursor, counted |-> FALSE])
  /\ UNCHANGED <<size, hdr, reader, got, epoch, seen>>

(* header->size += would_write, the last store of bun_frame_write. *)
FrameCount ==
  /\ Pending
  /\ hdr' = [hdr EXCEPT !.size = @ + WouldWrite(stored[Len(stored)].frame)]
  /\ stored' = [stored EXCEPT ![Len(stored)].counted = TRUE]
  /\ UNCHANGED <<size, writer, reader, got, epoch, seen>>

-----------------------------------------------------------------------------
(* bun_reader_init *)
ReaderInit ==
  /\ size > 0
  /\ PayloadSize(size) >= HeaderSize
  /\ hdr.magic
  /\ reader' = FreshCursor
  /\ got' = << >>
  /\ seen' = epoch
  /\ UNCHANGED <<size, hdr, writer, stored, epoch>>

(* The two early returns of bun_frame_read do not apply: the cursor is not *)
(* at the end of the payload, nor at or past header->size.                 *)
Readable ==
  /\ reader.live
  /\ UDiff(reader.size, reader.cursor) # 0
  /\ hdr.size - reader.cursor > 0

(* Mutant of Deliver: a failed read does not restore the cursor. *)
DeliverWithoutRestore(parsed, f) ==
  /\ reader' = parsed
  /\ got' = IF parsed.overflow THEN got ELSE Append(got, f)
  /\ UNCHANGED <<size, hdr, writer, stored, epoch, seen>>

(* bun_frame_read returns what the loads gave, or restores the cursor. *)
Deliver(parsed, f) ==
  /\ IF parsed.overflow
     THEN reader' = [parsed EXCEPT !.cursor = reader.cursor] /\ got' = got
     ELSE reader' = parsed /\ got' = Append(got, f)
  /\ UNCHANGED <<size, hdr, writer, stored, epoch, seen>>

(* bun_frame_read at the start of a frame of the current writer. *)
FrameRead ==
  /\ Readable
  /\ \E i \in 1..Len(stored) :
       /\ stored[i].at = reader.cursor
       /\ Deliver(Parse(reader, stored[i].frame), stored[i].frame)

(* Deserialising arbitrary bytes under the reader's cursor: two strings of *)
(* n characters in all and k registers.                                    *)
GarbageParse(n, k) == Parse(reader, [symbol |-> n, filename |-> 0, regs |-> k])

(* bun_frame_read anywhere else: the buffer was given to a new writer      *)
(* under this reader, so lengths and register count are whatever the bytes *)
(* say; a count too large for the payload is refused like reader.size.     *)
FrameReadGarbage ==
  /\ Readable
  /\ \A i \in 1..Len(stored) : stored[i].at # reader.cursor
  /\ \E n, k \in 0..reader.size : Deliver(GarbageParse(n, k), Garbage)

Next ==
  \/ \E n \in Capacities : BufferInit(n)
  \/ WriterInit
  \/ \E f \in Frames : FrameStore(f)
  \/ FrameCount
  \/ ReaderInit
  \/ FrameRead
  \/ FrameReadGarbage

Spec == Init /\ [][Next]_vars

-----------------------------------------------------------------------------
(* Every variable keeps the shape its C counterpart has. *)
TypeOK ==
  /\ size \in Nat
  /\ hdr \in [magic : BOOLEAN, size : Nat]
  /\ writer \in Cursor
  /\ stored \in Seq([frame : Frames, at : Nat, next : Nat, counted : BOOLEAN])
  /\ reader \in Cursor
  /\ got \in Seq(Frames \cup {Garbage})
  /\ epoch \in Nat
  /\ seen \in Nat

(* No load of bun_frame_read leaves the payload, whatever bytes it meets:  *)
(* the cursor of a live reader stays between the header and data.size.     *)
ReaderInBounds ==
  reader.live => reader.cursor \in HeaderSize..reader.size

(* header->size never runs ahead of the bytes the writer has stored, so    *)
(* that bun_frame_read is never invited to deserialise a frame that        *)
(* bun_frame_write has not finished.                                       *)
HeaderTrailsStores ==
  writer.live =>
    hdr.size <= IF Pending THEN stored[Len(stored)].at ELSE writer.cursor

(* What a reader obtains from bun_frame_read is a prefix of what the       *)
(* current writer stored with bun_frame_write: no frame invented, skipped, *)
(* repeated or taken before it is complete.                                *)
ReadsPrefix ==
  reader.live /\ seen = epoch =>
    /\ Len(got) <= Len(stored)
    /\ \A i \in 1..Len(got) : got[i] = stored[i].frame

-----------------------------------------------------------------------------
(* The offset at which the first k stored frames end. *)
EndOf(k) == IF k = 0 THEN HeaderSize ELSE stored[k].next

(* A cursor that is set up covers the payload of an accepted buffer. *)
CoversPayload(c) == size >= BufferHeaderSize /\ c.size = PayloadSize(size)

(* The frames follow each other from the header to the writer's cursor; a  *)
(* frame that ends within the payload is stored whole; only the last can   *)
(* be missing from header->size.                                           *)
FramesChained ==
  /\ \A i \in 1..Len(stored) :
       /\ stored[i].at = EndOf(i - 1)
       /\ stored[i].at + WouldWrite(stored[i].frame) <= stored[i].next
       /\ stored[i].at + FrameLength(stored[i].frame) <= writer.size
            => stored[i].next = stored[i].at + FrameLength(stored[i].frame)
       /\ i < Len(stored) => stored[i].counted
  /\ \A i, j \in 1..Len(stored) : i < j => stored[i].next <= stored[j].at

(* Once write_le_16 or write_le_64 was refused, no frame fits any more. *)
OverflowIsFinal ==
  writer.overflow =>
    /\ writer.cursor <= writer.size
    /\ writer.size - writer.cursor < 2 + U64 + SizeT + SizeT

(* A reader of the current writer's frames stands at a frame boundary. *)
ReaderAtBoundary ==
  reader.live /\ seen = epoch =>
    Len(got) <= Len(stored) /\ reader.cursor = EndOf(Len(got))

(* Cursors exist only on an initialised buffer, and a reader only after a  *)
(* writer.                                                                 *)
Lifecycle ==
  /\ size > 0 => size >= BufferHeaderSize
  /\ hdr.magic => writer.live
  /\ reader.live => writer.live /\ CoversPayload(reader)
  /\ seen <= epoch
  /\ IF writer.live
     THEN CoversPayload(writer) /\ writer.cursor = EndOf(Len(stored))
     ELSE stored = << >>

(* The inductive invariant behind the properties above: how the header of  *)
(* the payload, the writer's cursor, the frames in memory and the cursor   *)
(* of a reader fit together at every step of bun_frame_write.              *)
StreamInv ==
  /\ TypeOK
  /\ Lifecycle
  /\ FramesChained
  /\ OverflowIsFinal
  /\ HeaderTrailsStores
  /\ ReaderInBounds
  /\ ReadsPrefix
  /\ ReaderAtBoundary

-----------------------------------------------------------------------------
(* bun_frame_read returns false with no bun_frame_write under way: it      *)
(* takes one of its early returns, or the overflow flag that an earlier    *)
(* read left set refuses every further load.  The caller sees no           *)
(* difference.                                                             *)
Drained ==
  /\ reader.live /\ seen = epoch /\ ~Pending
  /\ reader.overflow \/ ~Readable

(* Frame i lies whole in the payload.  bun_frame_write also accepts a last *)
(* frame that is one or two bytes longer than the room left: it is counted *)
(* in header->size, and no bun_frame_read ever returns it.                 *)
LiesWhole(i) == stored[i].at + FrameLength(stored[i].frame) <= writer.size

(* When bun_frame_read returns false, every accepted frame that lies whole *)
(* in the payload has been read.                                           *)
NoFrameLost ==
  Drained => \A i \in 1..Len(stored) : LiesWhole(i) => i <= Len(got)

(* The stores of bun_frame_write stay within bun_buffer_payload_size. *)
WriterInBounds == writer.live => writer.cursor <= writer.size
=============================================================================
