----------------------------- MODULE MCBunStream -----------------------------
(* Small instances of BunStream for TLC. *)
EXTENDS BunStream

(* Larger than every length in the instances below. *)
MCSizeMax == 100000

(* A frame without strings or registers, the smallest bun_frame_write      *)
(* accepts; one with a symbol and a register; one with a file name.        *)
Bare  == [symbol |-> 0, filename |-> 0, regs |-> 0]
Named == [symbol |-> 1, filename |-> 0, regs |-> 1]
Filed == [symbol |-> 2, filename |-> 3, regs |-> 0]

MixedFrames == {Bare, Named}
BareFrames  == {Bare}
PlainFrames == {Bare, Filed}

(* Offsets from BUN_BUFFER_PAYLOAD_HEADER_SIZE at which the last frame is  *)
(* refused, accepted with 0, 1 or 2 bytes to spare, or short of its last   *)
(* two bytes; 8 and 39 are refused by bun_buffer_init.                     *)
EdgeCapacities == {8, 39, 40, 65, 66, 67, 68, 77, 78, 79, 96, 107, 122}

(* Room for every frame of the run. *)
AmpleCapacity == {440}

(* Both. *)
TightAndAmple == EdgeCapacities \cup AmpleCapacity
=============================================================================
