------------------------------ MODULE BunLayout ------------------------------
(***************************************************************************)
(* The stream format of libbun as arithmetic on cursors (src/bun_stream.c):*)
(* how many bytes bun_frame_write reserves, how far its stores move the    *)
(* cursor, and which of bun_frame_read's bounded accesses succeed.         *)
(*                                                                         *)
(* A cursor is a record [cursor, size, overflow]: the offset from the      *)
(* payload (writer.data.cursor - writer.data.buffer), data.size and        *)
(* data.overflow.  A frame is abstracted to what decides its layout: the   *)
(* lengths of its two strings and its number of registers.                 *)
(***************************************************************************)
EXTENDS Integers

CONSTANTS SizeT,    (* sizeof(size_t) of the build: 8, or 4 on 32-bit      *)
          SizeMax   (* SIZE_MAX: larger than any length the program handles *)

ASSUME SizeTAssumption == SizeT \in {4, 8}
ASSUME SizeMaxAssumption == SizeMax \in Nat /\ SizeMax >= 8

U16 == 2
U64 == 8

(* REGISTER_SIZE *)
RegisterSize == U16 + U64

(* sizeof(struct bun_payload_header) *)
HeaderSize == 24

(* BUN_BUFFER_PAYLOAD_HEADER_SIZE: write_count, handle and the header *)
BufferHeaderSize == 40

(* bun_buffer_payload_size: what remains of a buffer of n bytes after the  *)
(* private fields that precede the payload header.                         *)
PayloadSize(n) == n - (BufferHeaderSize - HeaderSize)

(* The size_t difference a - b.  For b > a the C value is SIZE_MAX + 1 -   *)
(* (b - a); no length comes near it, so it is abstracted to SizeMax.       *)
UDiff(a, b) == IF b <= a THEN a - b ELSE SizeMax

-----------------------------------------------------------------------------
(* Mutant of SafeAccess: the bytes left are counted from the base pointer. *)
SafeAccessFromBase(c, n) == ~c.overflow /\ n <= c.size

(* is_safe_access *)
SafeAccess(c, n) == ~c.overflow /\ n <= UDiff(c.size, c.cursor)

(* One bounded access of n bytes: read_le_16/64 and write_le_16/64 move    *)
(* the cursor, or set the overflow flag and leave it.                      *)
Bounded(c, n) == IF SafeAccess(c, n)
                 THEN [c EXCEPT !.cursor = @ + n]
                 ELSE [c EXCEPT !.overflow = TRUE]

(* strcpy and memcpy followed by the cursor increment: no check. *)
Unbounded(c, n) == [c EXCEPT !.cursor = @ + n]

(* addr, line_no and offset, in this order, by both writer and reader. *)
ThreeWords(c) == Bounded(Bounded(Bounded(c, U64), U64), U64)

-----------------------------------------------------------------------------
(* Mutants of WouldWrite: without the two terminators; without the         *)
(* strings.                                                                *)
WouldWriteNoTerminators(f) == f.symbol + f.filename + U64 + SizeT + SizeT
                                + f.regs * RegisterSize
WouldWriteNoStrings(f) == 2 + U64 + SizeT + SizeT + f.regs * RegisterSize

(* would_write in bun_frame_write: sizeof(addr), sizeof(line_no),          *)
(* sizeof(register_count), two terminators, the strings, the registers.    *)
WouldWrite(f) == f.symbol + f.filename + 2 + U64 + SizeT + SizeT
                   + f.regs * RegisterSize

(* The bytes bun_frame_write stores when none of them is refused: three    *)
(* words, two terminated strings, a 16-bit count and the registers.        *)
FrameLength(f) == f.symbol + f.filename + 2 + 3 * U64 + U16
                    + f.regs * RegisterSize

(* would_write > buffer_available, the early return of bun_frame_write. *)
Fits(w, f) == WouldWrite(f) <= UDiff(w.size, w.cursor)

(* The writer after the stores of bun_frame_write. *)
Serialize(w, f) ==
  LET strings == Unbounded(Unbounded(ThreeWords(w), f.symbol + 1), f.filename + 1)
  IN  Unbounded(Bounded(strings, U16), f.regs * RegisterSize)

-----------------------------------------------------------------------------
(* Mutant of StringRead: the terminator is not stepped over. *)
StringReadNoTerminator(r, len) ==
  IF ~r.overflow /\ len < UDiff(r.size, r.cursor)
  THEN [r EXCEPT !.cursor = @ + len]
  ELSE [r EXCEPT !.overflow = TRUE]

(* safe_strlen on a string of length len, and the step over its terminator: *)
(* strnlen reaches max_length when the terminator is outside the buffer.    *)
StringRead(r, len) == IF ~r.overflow /\ len < UDiff(r.size, r.cursor)
                      THEN [r EXCEPT !.cursor = @ + len + 1]
                      ELSE [r EXCEPT !.overflow = TRUE]

(* The reader after the loads of bun_frame_read when the bytes under its   *)
(* cursor hold frame f.  The overflow flag is sticky, so the goto error    *)
(* after each load is the same as carrying on with a failed cursor.        *)
Parse(r, f) ==
  LET strings == StringRead(StringRead(ThreeWords(r), f.symbol), f.filename)
  IN  Bounded(Bounded(strings, U16), f.regs * RegisterSize)
=============================================================================
