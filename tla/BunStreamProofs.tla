--------------------------- MODULE BunStreamProofs ---------------------------
(***************************************************************************)
(* Proofs about BunStream for every buffer size, every set of frames and   *)
(* both widths of size_t.                                                  *)
(***************************************************************************)
EXTENDS BunStream, SequenceTheorems, TLAPS

(* The record of one stored frame. *)
StoredFrame == [frame : Frames, at : Nat, next : Nat, counted : BOOLEAN]

-----------------------------------------------------------------------------
(* Sizes of a frame are natural numbers, and bun_frame_write reserves at   *)
(* least its fixed part.                                                   *)
LEMMA FrameSizes ==
  ASSUME NEW f \in Frames
  PROVE  /\ f.symbol \in Nat /\ f.filename \in Nat /\ f.regs \in Nat
         /\ WouldWrite(f) \in Nat /\ FrameLength(f) \in Nat
         /\ 2 + U64 + SizeT + SizeT <= WouldWrite(f)
         /\ WouldWrite(f) < FrameLength(f) /\ FrameLength(f) >= 28
         /\ WouldWrite(f) <= SizeMax
  BY FramesAssumption, SizeTAssumption
     DEF WouldWrite, FrameLength, U16, U64, RegisterSize

(* What one bounded access does to a cursor. *)
LEMMA BoundedAccess ==
  ASSUME NEW c \in Cursor, NEW n \in Nat
  PROVE  /\ Bounded(c, n) \in Cursor
         /\ Bounded(c, n).live = c.live
         /\ Bounded(c, n).size = c.size
         /\ SafeAccess(c, n) =>
              Bounded(c, n).cursor = c.cursor + n /\ ~Bounded(c, n).overflow
         /\ ~SafeAccess(c, n) =>
              Bounded(c, n).cursor = c.cursor /\ Bounded(c, n).overflow
  <1>1. CASE SafeAccess(c, n)
    <2>1. Bounded(c, n) = [c EXCEPT !.cursor = @ + n]
      BY <1>1 DEF Bounded
    <2>2. ~c.overflow
      BY <1>1 DEF SafeAccess
    <2> QED BY <1>1, <2>1, <2>2 DEF Cursor
  <1>2. CASE ~SafeAccess(c, n)
    <2>1. Bounded(c, n) = [c EXCEPT !.overflow = TRUE]
      BY <1>2 DEF Bounded
    <2> QED BY <1>2, <2>1 DEF Cursor
  <1> QED BY <1>1, <1>2

(* What an unchecked copy does to a cursor. *)
LEMMA UnboundedAccess ==
  ASSUME NEW c \in Cursor, NEW n \in Nat
  PROVE  /\ Unbounded(c, n) \in Cursor
         /\ Unbounded(c, n).live = c.live
         /\ Unbounded(c, n).size = c.size
         /\ Unbounded(c, n).overflow = c.overflow
         /\ Unbounded(c, n).cursor = c.cursor + n
  BY DEF Unbounded, Cursor

(* What reading a string does to a cursor. *)
LEMMA StringAccess ==
  ASSUME NEW c \in Cursor, NEW n \in Nat
  PROVE  /\ StringRead(c, n) \in Cursor
         /\ StringRead(c, n).live = c.live
         /\ StringRead(c, n).size = c.size
         /\ c.overflow => StringRead(c, n).overflow
         /\ ~StringRead(c, n).overflow =>
              StringRead(c, n).cursor = c.cursor + n + 1
         /\ ~StringRead(c, n).overflow /\ c.cursor <= c.size =>
              StringRead(c, n).cursor <= c.size
  <1>1. CASE ~c.overflow /\ n < UDiff(c.size, c.cursor)
    <2>1. StringRead(c, n) = [c EXCEPT !.cursor = @ + n + 1]
      BY <1>1 DEF StringRead
    <2>2. c.cursor <= c.size => c.cursor + n + 1 <= c.size
      BY <1>1 DEF UDiff, Cursor
    <2> QED BY <1>1, <2>1, <2>2 DEF Cursor
  <1>2. CASE ~(~c.overflow /\ n < UDiff(c.size, c.cursor))
    <2>1. StringRead(c, n) = [c EXCEPT !.overflow = TRUE]
      BY <1>2 DEF StringRead
    <2> QED BY <1>2, <2>1 DEF Cursor
  <1> QED BY <1>1, <1>2

(* Three words move the cursor by 24 bytes, or set the overflow flag when  *)
(* fewer are left; a cursor past the end sees a wrapped, huge distance.    *)
LEMMA WordsAccess ==
  ASSUME NEW c \in Cursor
  PROVE  /\ ThreeWords(c) \in Cursor
         /\ ThreeWords(c).live = c.live
         /\ ThreeWords(c).size = c.size
         /\ c.overflow => ThreeWords(c).overflow
         /\ ~ThreeWords(c).overflow => ThreeWords(c).cursor = c.cursor + 24
         /\ ~ThreeWords(c).overflow /\ c.cursor <= c.size =>
              c.cursor + 24 <= c.size
         /\ ~c.overflow /\ ThreeWords(c).overflow =>
              /\ c.cursor + 24 > c.size /\ c.cursor <= c.size
              /\ c.cursor + 16 <= c.size =>
                   ThreeWords(c).cursor = c.cursor + 16
  <1> DEFINE a == Bounded(c, 8)
             b == Bounded(a, 8)
             d == Bounded(b, 8)
  <1>1. a \in Cursor /\ b \in Cursor /\ d \in Cursor
    BY BoundedAccess
  <1>2. ThreeWords(c) = d
    BY DEF ThreeWords, U64
  <1>3. \A x \in Cursor : SafeAccess(x, 8) <=>
          ~x.overflow /\ (x.cursor <= x.size => x.cursor + 8 <= x.size)
    BY SizeMaxAssumption DEF SafeAccess, UDiff, Cursor
  <1>4. \A x \in Cursor : x.cursor \in Nat /\ x.size \in Nat
                            /\ x.overflow \in BOOLEAN
    BY DEF Cursor
  <1> HIDE DEF a, b, d
  <1>5. /\ a.live = c.live /\ a.size = c.size
        /\ SafeAccess(c, 8) => a.cursor = c.cursor + 8 /\ ~a.overflow
        /\ ~SafeAccess(c, 8) => a.cursor = c.cursor /\ a.overflow
    BY BoundedAccess DEF a
  <1>6. /\ b.live = a.live /\ b.size = a.size
        /\ SafeAccess(a, 8) => b.cursor = a.cursor + 8 /\ ~b.overflow
        /\ ~SafeAccess(a, 8) => b.cursor = a.cursor /\ b.overflow
    BY BoundedAccess, <1>1 DEF b
  <1>7. /\ d.live = b.live /\ d.size = b.size
        /\ SafeAccess(b, 8) => d.cursor = b.cursor + 8 /\ ~d.overflow
        /\ ~SafeAccess(b, 8) => d.cursor = b.cursor /\ d.overflow
    BY BoundedAccess, <1>1 DEF d
  <1> QED BY <1>1, <1>2, <1>3, <1>4, <1>5, <1>6, <1>7

(* bun_frame_write moves the cursor at least as far as it adds to          *)
(* header->size, by the whole frame when the whole frame fits, and sets    *)
(* the overflow flag only when no further frame fits.                      *)
LEMMA StoreEffect ==
  ASSUME NEW w \in Cursor, NEW f \in Frames, ~w.overflow, Fits(w, f)
  PROVE  LET s == Serialize(w, f)
         IN  /\ s \in Cursor /\ s.live = w.live /\ s.size = w.size
             /\ w.cursor + WouldWrite(f) <= s.cursor
             /\ w.cursor + FrameLength(f) <= w.size =>
                  s.cursor = w.cursor + FrameLength(f)
             /\ s.overflow => /\ s.cursor <= s.size
                              /\ s.size - s.cursor < 2 + U64 + SizeT + SizeT
             /\ SizeT = 8 =>
                  IF s.overflow
                  THEN s.cursor + 2 = w.cursor + FrameLength(f)
                  ELSE s.cursor = w.cursor + FrameLength(f)
             /\ SizeT = 8 /\ f.regs = 0 /\ w.cursor <= w.size =>
                  s.cursor <= s.size
  <1> DEFINE R == f.regs * RegisterSize
             a == ThreeWords(w)
             b == Unbounded(a, f.symbol + 1)
             c == Unbounded(b, f.filename + 1)
             d == Bounded(c, U16)
             s == Serialize(w, f)
  <1>1. /\ f.symbol \in Nat /\ f.filename \in Nat /\ f.regs \in Nat
        /\ f.symbol + 1 \in Nat /\ f.filename + 1 \in Nat
        /\ R \in Nat /\ (f.regs = 0 => R = 0) /\ (f.regs # 0 => R >= 10)
    BY FrameSizes DEF RegisterSize, U16, U64
  <1>2. s = Unbounded(d, R)
    BY DEF Serialize
  <1>3. a \in Cursor /\ b \in Cursor /\ c \in Cursor /\ d \in Cursor /\ s \in Cursor
    <2>1. a \in Cursor
      BY WordsAccess
    <2> HIDE DEF R, a, b, c, d, s
    <2>2. b \in Cursor
      BY <1>1, <2>1, UnboundedAccess DEF b
    <2>3. c \in Cursor
      BY <1>1, <2>2, UnboundedAccess DEF c
    <2>4. d \in Cursor
      BY <2>3, BoundedAccess DEF d, U16
    <2> QED BY <1>1, <1>2, <2>1, <2>2, <2>3, <2>4, UnboundedAccess
  <1>4. /\ WouldWrite(f) = f.symbol + f.filename + 10 + SizeT + SizeT + R
        /\ FrameLength(f) = f.symbol + f.filename + 28 + R
    BY <1>1, SizeTAssumption DEF WouldWrite, FrameLength, U16, U64
  <1>5. \A x \in Cursor : SafeAccess(x, 2) <=>
          ~x.overflow /\ (x.cursor <= x.size => x.cursor + 2 <= x.size)
    BY SizeMaxAssumption DEF SafeAccess, UDiff, Cursor
  <1>6. \A x \in Cursor : x.cursor \in Nat /\ x.size \in Nat
                            /\ x.overflow \in BOOLEAN
    BY DEF Cursor
  <1>7. w.cursor <= w.size => w.cursor + WouldWrite(f) <= w.size
    BY <1>6, FrameSizes DEF Fits, UDiff
  <1> HIDE DEF R, b, c, d, s
  <1>8. /\ a.live = w.live /\ a.size = w.size
        /\ ~a.overflow => a.cursor = w.cursor + 24
        /\ a.overflow => /\ w.cursor + 24 > w.size /\ w.cursor <= w.size
                         /\ w.cursor + 16 <= w.size => a.cursor = w.cursor + 16
    BY WordsAccess
  <1> HIDE DEF a
  <1>9. /\ c.live = a.live /\ c.size = a.size /\ c.overflow = a.overflow
        /\ c.cursor = a.cursor + f.symbol + 1 + f.filename + 1
    <2>1. /\ b.live = a.live /\ b.size = a.size /\ b.overflow = a.overflow
          /\ b.cursor = a.cursor + (f.symbol + 1)
      BY <1>1, <1>3, UnboundedAccess DEF b
    <2>2. /\ c.live = b.live /\ c.size = b.size /\ c.overflow = b.overflow
          /\ c.cursor = b.cursor + (f.filename + 1)
      BY <1>1, <1>3, UnboundedAccess DEF c
    <2> QED BY <1>1, <1>3, <1>6, <2>1, <2>2
  <1>10. /\ d.live = c.live /\ d.size = c.size
         /\ SafeAccess(c, 2) => d.cursor = c.cursor + 2 /\ ~d.overflow
         /\ ~SafeAccess(c, 2) => d.cursor = c.cursor /\ d.overflow
    BY <1>3, BoundedAccess DEF d, U16
  <1>11. /\ s.live = d.live /\ s.size = d.size /\ s.overflow = d.overflow
         /\ s.cursor = d.cursor + R
    BY <1>1, <1>2, <1>3, UnboundedAccess
  <1>12. CASE a.overflow
    <2>1. d.overflow /\ d.cursor = c.cursor
      BY <1>3, <1>5, <1>9, <1>10, <1>12
    <2>2. SizeT = 4 /\ f.regs = 0 /\ R = 0 /\ w.cursor + 16 <= w.size
      BY <1>1, <1>4, <1>6, <1>7, <1>8, <1>12, SizeTAssumption
    <2>3. s.cursor = w.cursor + 18 + f.symbol + f.filename
      BY <1>1, <1>3, <1>6, <1>8, <1>9, <1>11, <1>12, <2>1, <2>2
    <2> QED BY <1>1, <1>3, <1>4, <1>6, <1>7, <1>8, <1>9, <1>10, <1>11, <1>12,
               <2>1, <2>2, <2>3 DEF s, U64
  <1>13. CASE ~a.overflow
    <2>1. c.cursor = w.cursor + f.symbol + f.filename + 26
      BY <1>1, <1>3, <1>6, <1>8, <1>9, <1>13
    <2>2. CASE SafeAccess(c, 2)
      <3>1. s.cursor = w.cursor + FrameLength(f) /\ ~s.overflow
        BY <1>1, <1>3, <1>4, <1>6, <1>10, <1>11, <2>1, <2>2
      <3> QED BY <1>1, <1>3, <1>4, <1>5, <1>6, <1>7, <1>8, <1>9, <1>10, <1>11,
                 <2>1, <2>2, <3>1, SizeTAssumption DEF s
    <2>3. CASE ~SafeAccess(c, 2)
      <3>1. /\ c.cursor <= c.size /\ c.cursor + 2 > c.size
            /\ s.cursor = c.cursor + R /\ s.overflow
        BY <1>1, <1>3, <1>5, <1>6, <1>9, <1>10, <1>11, <1>13, <2>3
      <3>2. R = 0
        BY <1>1, <1>3, <1>4, <1>6, <1>7, <1>8, <1>9, <2>1, <3>1, SizeTAssumption
      <3> QED BY <1>1, <1>3, <1>4, <1>6, <1>7, <1>8, <1>9, <1>10, <1>11,
                 <2>1, <3>1, <3>2, SizeTAssumption DEF s, U64
    <2> QED BY <2>2, <2>3
  <1> QED BY <1>12, <1>13

(* bun_frame_read, on a frame of any lengths, either fails or steps over   *)
(* exactly that frame without leaving the payload.                         *)
LEMMA ParseEffect ==
  ASSUME NEW r \in Cursor, r.cursor <= r.size,
         NEW f \in [symbol : Nat, filename : Nat, regs : Nat]
  PROVE  LET p == Parse(r, f)
         IN  /\ p \in Cursor /\ p.live = r.live /\ p.size = r.size
             /\ ~p.overflow => /\ p.cursor = r.cursor + FrameLength(f)
                               /\ p.cursor <= p.size
             /\ r.overflow => p.overflow
  <1> DEFINE R == f.regs * RegisterSize
             a == ThreeWords(r)
             b == StringRead(a, f.symbol)
             c == StringRead(b, f.filename)
             d == Bounded(c, U16)
             p == Parse(r, f)
  <1>1. f.symbol \in Nat /\ f.filename \in Nat /\ f.regs \in Nat /\ R \in Nat
    BY DEF RegisterSize, U16, U64
  <1>2. p = Bounded(d, R)
    BY DEF Parse
  <1>3. a \in Cursor /\ b \in Cursor /\ c \in Cursor /\ d \in Cursor /\ p \in Cursor
    <2>1. a \in Cursor
      BY WordsAccess
    <2> HIDE DEF R, a, b, c, d, p
    <2>2. b \in Cursor
      BY <1>1, <2>1, StringAccess DEF b
    <2>3. c \in Cursor
      BY <1>1, <2>2, StringAccess DEF c
    <2>4. d \in Cursor
      BY <2>3, BoundedAccess DEF d, U16
    <2> QED BY <1>1, <1>2, <2>1, <2>2, <2>3, <2>4, BoundedAccess
  <1>4. FrameLength(f) = f.symbol + f.filename + 28 + R
    BY <1>1 DEF FrameLength, U16, U64
  <1>5. \A x \in Cursor, n \in Nat : SafeAccess(x, n) =>
          ~x.overflow /\ (x.cursor <= x.size => x.cursor + n <= x.size)
    BY DEF SafeAccess, UDiff, Cursor
  <1>6. \A x \in Cursor : x.cursor \in Nat /\ x.size \in Nat
                            /\ x.overflow \in BOOLEAN
    BY DEF Cursor
  <1>7. /\ a.live = r.live /\ a.size = r.size
        /\ r.overflow => a.overflow
        /\ ~a.overflow => a.cursor = r.cursor + 24 /\ a.cursor <= a.size
    BY <1>6, WordsAccess
  <1> HIDE DEF R, a, b, c, d, p
  <1>8. /\ b.live = a.live /\ b.size = a.size
        /\ a.overflow => b.overflow
        /\ ~b.overflow => b.cursor = a.cursor + f.symbol + 1
        /\ ~b.overflow /\ a.cursor <= a.size => b.cursor <= b.size
    BY <1>1, <1>3, StringAccess DEF b
  <1>9. /\ c.live = b.live /\ c.size = b.size
        /\ b.overflow => c.overflow
        /\ ~c.overflow => c.cursor = b.cursor + f.filename + 1
        /\ ~c.overflow /\ b.cursor <= b.size => c.cursor <= c.size
    BY <1>1, <1>3, StringAccess DEF c
  <1>10. /\ d.live = c.live /\ d.size = c.size
         /\ SafeAccess(c, 2) => d.cursor = c.cursor + 2 /\ ~d.overflow
         /\ ~SafeAccess(c, 2) => d.cursor = c.cursor /\ d.overflow
    BY <1>3, BoundedAccess DEF d, U16
  <1>11. /\ p.live = d.live /\ p.size = d.size
         /\ SafeAccess(d, R) => p.cursor = d.cursor + R /\ ~p.overflow
         /\ ~SafeAccess(d, R) => p.cursor = d.cursor /\ p.overflow
    BY <1>1, <1>2, <1>3, BoundedAccess
  <1>12. r.overflow => p.overflow
    BY <1>1, <1>3, <1>5, <1>7, <1>8, <1>9, <1>10, <1>11
  <1>13. ASSUME ~p.overflow
         PROVE  p.cursor = r.cursor + FrameLength(f) /\ p.cursor <= p.size
    <2>1. SafeAccess(d, R) /\ SafeAccess(c, 2) /\ ~c.overflow /\ ~b.overflow
            /\ ~a.overflow
      BY <1>1, <1>3, <1>5, <1>8, <1>9, <1>10, <1>11, <1>13
    <2>2. c.cursor = r.cursor + f.symbol + f.filename + 26 /\ c.cursor <= c.size
      BY <1>1, <1>3, <1>6, <1>7, <1>8, <1>9, <2>1
    <2>3. d.cursor = c.cursor + 2 /\ d.cursor <= d.size
      BY <1>3, <1>5, <1>6, <1>10, <2>1, <2>2
    <2>4. p.cursor = d.cursor + R /\ p.cursor <= p.size
      BY <1>1, <1>3, <1>5, <1>6, <1>11, <2>1, <2>3
    <2> QED BY <1>1, <1>3, <1>4, <1>6, <2>2, <2>3, <2>4
  <1> QED BY <1>3, <1>7, <1>8, <1>9, <1>10, <1>11, <1>12, <1>13 DEF p

(* bun_frame_read does not fail on a frame that lies whole in the payload. *)
LEMMA ParseWhole ==
  ASSUME NEW r \in Cursor, ~r.overflow,
         NEW f \in [symbol : Nat, filename : Nat, regs : Nat],
         r.cursor + FrameLength(f) <= r.size
  PROVE  ~Parse(r, f).overflow
  <1> DEFINE R == f.regs * RegisterSize
             a == ThreeWords(r)
             b == StringRead(a, f.symbol)
             c == StringRead(b, f.filename)
             d == Bounded(c, U16)
             p == Parse(r, f)
  <1>1. f.symbol \in Nat /\ f.filename \in Nat /\ f.regs \in Nat /\ R \in Nat
    BY DEF RegisterSize, U16, U64
  <1>2. p = Bounded(d, R)
    BY DEF Parse
  <1>3. FrameLength(f) = f.symbol + f.filename + 28 + R
    BY <1>1 DEF FrameLength, U16, U64
  <1>4. \A x \in Cursor : x.cursor \in Nat /\ x.size \in Nat
                            /\ x.overflow \in BOOLEAN
    BY DEF Cursor
  <1>5. a \in Cursor /\ a.size = r.size /\ ~a.overflow /\ a.cursor = r.cursor + 24
    BY <1>1, <1>3, <1>4, WordsAccess
  <1> HIDE DEF R, a, b, c, d, p
  <1>6. ASSUME NEW x \in Cursor, NEW n \in Nat, ~x.overflow, x.cursor + n < x.size
        PROVE  /\ StringRead(x, n) \in Cursor /\ StringRead(x, n).size = x.size
               /\ ~StringRead(x, n).overflow
               /\ StringRead(x, n).cursor = x.cursor + n + 1
    <2>1. n < UDiff(x.size, x.cursor)
      BY <1>4, <1>6 DEF UDiff
    <2>2. StringRead(x, n) = [x EXCEPT !.cursor = @ + n + 1]
      BY <1>6, <2>1 DEF StringRead
    <2> QED BY <1>6, <2>2 DEF Cursor
  <1>7. ASSUME NEW x \in Cursor, NEW n \in Nat, ~x.overflow, x.cursor + n <= x.size
        PROVE  /\ Bounded(x, n) \in Cursor /\ Bounded(x, n).size = x.size
               /\ ~Bounded(x, n).overflow /\ Bounded(x, n).cursor = x.cursor + n
    <2>1. SafeAccess(x, n)
      BY <1>4, <1>7 DEF SafeAccess, UDiff
    <2> QED BY <2>1, BoundedAccess
  <1>8. /\ b \in Cursor /\ b.size = r.size /\ ~b.overflow
        /\ b.cursor = r.cursor + 24 + f.symbol + 1
    <2>1. a.cursor + f.symbol < a.size
      BY <1>1, <1>3, <1>4, <1>5
    <2> QED BY <1>1, <1>5, <1>6, <2>1 DEF b
  <1>9. /\ c \in Cursor /\ c.size = r.size /\ ~c.overflow
        /\ c.cursor = r.cursor + 24 + f.symbol + 1 + f.filename + 1
    <2>1. b.cursor + f.filename < b.size
      BY <1>1, <1>3, <1>4, <1>8
    <2> QED BY <1>1, <1>6, <1>8, <2>1 DEF c
  <1>10. /\ d \in Cursor /\ d.size = r.size /\ ~d.overflow
         /\ d.cursor = c.cursor + 2
    <2>1. c.cursor + 2 <= c.size
      BY <1>1, <1>3, <1>4, <1>9
    <2> QED BY <1>7, <1>9, <2>1 DEF d, U16
  <1>11. d.cursor + R <= d.size
    BY <1>1, <1>3, <1>4, <1>9, <1>10
  <1> QED BY <1>1, <1>2, <1>7, <1>10, <1>11 DEF p

-----------------------------------------------------------------------------
(* The types of TypeOK, field by field. *)
LEMMA Types ==
  ASSUME TypeOK
  PROVE  /\ size \in Nat /\ hdr.size \in Nat /\ hdr.magic \in BOOLEAN
         /\ writer \in Cursor /\ reader \in Cursor
         /\ writer.cursor \in Nat /\ writer.size \in Nat
         /\ reader.cursor \in Nat /\ reader.size \in Nat
         /\ writer.live \in BOOLEAN /\ writer.overflow \in BOOLEAN
         /\ reader.live \in BOOLEAN /\ reader.overflow \in BOOLEAN
         /\ epoch \in Nat /\ seen \in Nat
         /\ stored \in Seq(StoredFrame) /\ Len(stored) \in Nat
         /\ got \in Seq(Frames \cup {Garbage}) /\ Len(got) \in Nat
         /\ \A i \in 1..Len(stored) :
              /\ stored[i].frame \in Frames
              /\ stored[i].at \in Nat /\ stored[i].next \in Nat
              /\ stored[i].counted \in BOOLEAN
  <1>1. \A x \in StoredFrame : /\ x.frame \in Frames /\ x.counted \in BOOLEAN
                               /\ x.at \in Nat /\ x.next \in Nat
    BY DEF StoredFrame
  <1>2. stored \in Seq(StoredFrame)
    BY DEF TypeOK, StoredFrame
  <1>3. Len(stored) \in Nat /\ \A i \in 1..Len(stored) : stored[i] \in StoredFrame
    BY <1>2
  <1>4. \A x \in Cursor : /\ x.cursor \in Nat /\ x.size \in Nat
                           /\ x.live \in BOOLEAN /\ x.overflow \in BOOLEAN
    BY DEF Cursor
  <1>5. hdr.size \in Nat /\ hdr.magic \in BOOLEAN
    BY DEF TypeOK
  <1> QED BY <1>1, <1>2, <1>3, <1>4, <1>5 DEF TypeOK

(* A fresh cursor on an accepted buffer. *)
LEMMA FreshCursorType ==
  ASSUME size \in Nat, size >= BufferHeaderSize
  PROVE  /\ FreshCursor \in Cursor /\ FreshCursor.live
         /\ FreshCursor.cursor = HeaderSize /\ ~FreshCursor.overflow
         /\ FreshCursor.size = PayloadSize(size)
         /\ HeaderSize <= PayloadSize(size)
  BY DEF FreshCursor, Cursor, PayloadSize, HeaderSize, BufferHeaderSize

LEMMA InitInv == Init => StreamInv
  <1> SUFFICES ASSUME Init PROVE StreamInv
    OBVIOUS
  <1>1. TypeOK
    BY DEF Init, TypeOK, NoCursor, Cursor
  <1>2. ~writer.live /\ ~reader.live /\ ~writer.overflow /\ stored = << >>
    BY DEF Init, NoCursor
  <1> QED BY <1>1, <1>2 DEF Init, StreamInv, Lifecycle, FramesChained,
             OverflowIsFinal, HeaderTrailsStores, ReaderInBounds, ReadsPrefix,
             ReaderAtBoundary

(* bun_buffer_init runs before any cursor exists. *)
LEMMA BufferInitInv ==
  ASSUME StreamInv, NEW n \in Capacities, BufferInit(n)
  PROVE  StreamInv'
  <1>1. ~writer.live /\ ~reader.live /\ stored = << >>
    BY DEF StreamInv, Lifecycle, CoversPayload, BufferInit, BufferHeaderSize
  <1>2. TypeOK'
    BY CapacitiesAssumption DEF StreamInv, TypeOK, BufferInit
  <1>3. /\ UNCHANGED <<writer, stored, reader, got, epoch, seen>>
        /\ ~hdr'.magic /\ size' >= BufferHeaderSize
    BY DEF BufferInit
  <1> QED BY <1>1, <1>2, <1>3 DEF StreamInv, Lifecycle, FramesChained,
             OverflowIsFinal, HeaderTrailsStores, ReaderInBounds, ReadsPrefix,
             ReaderAtBoundary

(* bun_writer_init starts an empty payload; every older reader is stale. *)
LEMMA WriterInitInv ==
  ASSUME StreamInv, WriterInit
  PROVE  StreamInv'
  <1>1. /\ size \in Nat /\ epoch \in Nat /\ seen \in Nat
        /\ size >= BufferHeaderSize
    BY Types DEF StreamInv, Lifecycle, WriterInit
  <1>2. /\ writer' \in Cursor /\ writer'.live /\ writer'.cursor = HeaderSize
        /\ ~writer'.overflow /\ writer'.size = PayloadSize(size)
    BY <1>1, FreshCursorType DEF WriterInit
  <1>3. /\ stored' = << >> /\ hdr'.size = HeaderSize /\ epoch' = epoch + 1
        /\ UNCHANGED <<size, reader, got, seen>>
    BY DEF WriterInit
  <1>4. TypeOK'
    BY <1>1, <1>2 DEF StreamInv, TypeOK, WriterInit, HeaderSize
  <1>5. seen' # epoch' /\ seen' <= epoch'
    BY <1>1, <1>3 DEF StreamInv, Lifecycle
  <1>6. Len(stored') = 0
    BY <1>3
  <1>7. Lifecycle'
    BY <1>1, <1>2, <1>3, <1>5, <1>6 DEF StreamInv, Lifecycle, CoversPayload, EndOf
  <1>8. FramesChained' /\ OverflowIsFinal'
    BY <1>2, <1>6 DEF FramesChained, OverflowIsFinal
  <1>9. HeaderTrailsStores'
    BY <1>2, <1>3 DEF HeaderTrailsStores, Pending, HeaderSize
  <1>10. ReaderInBounds' /\ ReadsPrefix' /\ ReaderAtBoundary'
    BY <1>3, <1>5 DEF StreamInv, ReaderInBounds, ReadsPrefix, ReaderAtBoundary
  <1> QED BY <1>4, <1>7, <1>8, <1>9, <1>10 DEF StreamInv

(* bun_reader_init starts at the first frame of the current writer. *)
LEMMA ReaderInitInv ==
  ASSUME StreamInv, ReaderInit
  PROVE  StreamInv'
  <1>1. size \in Nat /\ epoch \in Nat /\ Len(stored) \in Nat
    BY Types DEF StreamInv
  <1>2. writer.live /\ size >= BufferHeaderSize
    BY DEF ReaderInit, StreamInv, Lifecycle, CoversPayload
  <1>3. /\ reader' \in Cursor /\ reader'.live /\ reader'.cursor = HeaderSize
        /\ reader'.size = PayloadSize(size) /\ HeaderSize <= PayloadSize(size)
    BY <1>1, <1>2, FreshCursorType DEF ReaderInit
  <1>4. /\ got' = << >> /\ seen' = epoch
        /\ UNCHANGED <<size, hdr, writer, stored, epoch>>
    BY DEF ReaderInit
  <1>5. TypeOK'
    BY <1>1, <1>3, <1>4 DEF StreamInv, TypeOK
  <1>6. Lifecycle'
    BY <1>1, <1>2, <1>3, <1>4 DEF StreamInv, Lifecycle, CoversPayload, EndOf
  <1>7. FramesChained' /\ OverflowIsFinal' /\ HeaderTrailsStores'
    BY <1>4 DEF StreamInv, FramesChained, OverflowIsFinal, HeaderTrailsStores,
                EndOf, Pending
  <1>8. ReaderInBounds'
    BY <1>1, <1>3 DEF ReaderInBounds, HeaderSize, PayloadSize, BufferHeaderSize
  <1>9. ReadsPrefix' /\ ReaderAtBoundary'
    BY <1>1, <1>3, <1>4 DEF ReadsPrefix, ReaderAtBoundary, EndOf
  <1> QED BY <1>5, <1>6, <1>7, <1>8, <1>9 DEF StreamInv

(* The stores of bun_frame_write extend the chain by one frame that        *)
(* header->size does not count yet.                                        *)
LEMMA FrameStoreInv ==
  ASSUME StreamInv, NEW f \in Frames, FrameStore(f)
  PROVE  StreamInv'
  <1> DEFINE n == Len(stored)
             e == [frame |-> f, at |-> writer.cursor,
                   next |-> writer'.cursor, counted |-> FALSE]
  <1>1. /\ writer \in Cursor /\ writer.cursor \in Nat /\ writer.size \in Nat
        /\ stored \in Seq(StoredFrame) /\ n \in Nat /\ hdr.size \in Nat
        /\ \A i \in 1..n : stored[i].at \in Nat /\ stored[i].next \in Nat
    BY Types DEF StreamInv
  <1>2. /\ writer.live /\ ~Pending /\ Fits(writer, f)
        /\ writer' = Serialize(writer, f) /\ stored' = Append(stored, e)
        /\ UNCHANGED <<size, hdr, reader, got, epoch, seen>>
    BY DEF FrameStore
  <1>3. WouldWrite(f) \in Nat /\ 2 + U64 + SizeT + SizeT <= WouldWrite(f)
    BY FrameSizes
  <1>4. ~writer.overflow
    BY <1>1, <1>2, <1>3, SizeTAssumption
       DEF StreamInv, OverflowIsFinal, Fits, UDiff, U64
  <1>5. /\ writer' \in Cursor /\ writer'.live /\ writer'.size = writer.size
        /\ writer.cursor + WouldWrite(f) <= writer'.cursor
        /\ writer.cursor + FrameLength(f) <= writer.size =>
             writer'.cursor = writer.cursor + FrameLength(f)
        /\ writer'.overflow =>
             /\ writer'.cursor <= writer'.size
             /\ writer'.size - writer'.cursor < 2 + U64 + SizeT + SizeT
    BY <1>1, <1>2, <1>4, StoreEffect
  <1>6. writer'.cursor \in Nat
    BY <1>5 DEF Cursor
  <1>7. e \in StoredFrame
    BY <1>1, <1>6 DEF StoredFrame
  <1>8. /\ stored' \in Seq(StoredFrame) /\ stored' # << >> /\ Len(stored') = n + 1
        /\ \A i \in 1..n : stored'[i] = stored[i]
        /\ stored'[n + 1] = e
    BY <1>1, <1>2, <1>7, AppendProperties
  <1>9. /\ stored'[n + 1].frame = f /\ stored'[n + 1].at = writer.cursor
        /\ stored'[n + 1].next = writer'.cursor /\ ~stored'[n + 1].counted
    BY <1>8
  <1>10. writer.cursor = EndOf(n)
    BY <1>2 DEF StreamInv, Lifecycle
  <1> HIDE DEF n, e
  <1>11. TypeOK'
    BY <1>2, <1>5, <1>8 DEF StreamInv, TypeOK, StoredFrame
  <1>12. Lifecycle'
    BY <1>1, <1>2, <1>5, <1>8, <1>9 DEF StreamInv, Lifecycle, CoversPayload, EndOf
  <1>13. FramesChained'
    <2>1. \A i \in 1..n : stored[i].counted
      BY <1>1, <1>2, SMTT(30) DEF StreamInv, FramesChained, Pending, n
    <2>2. \A i \in 1..(n + 1) : (EndOf(i - 1))' = EndOf(i - 1)
      BY <1>1, <1>8 DEF EndOf
    <2>3. \A i \in 1..n : stored[i].next <= writer.cursor
      <3> SUFFICES ASSUME NEW i \in 1..n PROVE stored[i].next <= writer.cursor
        OBVIOUS
      <3>1. CASE i = n
        BY <1>1, <1>10, <3>1 DEF EndOf
      <3>2. CASE i < n
        <4>1. stored[i].next <= stored[n].at /\ n \in 1..n
          BY <1>1, <3>2 DEF StreamInv, FramesChained, n
        <4>2. stored[n].at + WouldWrite(stored[n].frame) <= stored[n].next
          BY <4>1 DEF StreamInv, FramesChained, n
        <4>3. WouldWrite(stored[n].frame) \in Nat
          BY <4>1, FrameSizes, Types DEF StreamInv, n
        <4> QED BY <1>1, <1>10, <4>1, <4>2, <4>3 DEF EndOf
      <3> QED BY <1>1, <3>1, <3>2
    <2>4. ASSUME NEW i \in 1..(n + 1)
          PROVE  /\ stored'[i].at = (EndOf(i - 1))'
                 /\ stored'[i].at + WouldWrite(stored'[i].frame) <= stored'[i].next
                 /\ stored'[i].at + FrameLength(stored'[i].frame) <= writer'.size
                      => stored'[i].next = stored'[i].at + FrameLength(stored'[i].frame)
                 /\ i < n + 1 => stored'[i].counted
      <3>1. CASE i = n + 1
        BY <1>1, <1>5, <1>9, <1>10, <2>2, <3>1
      <3>2. CASE i \in 1..n
        BY <1>5, <1>8, <2>1, <2>2, <3>2 DEF StreamInv, FramesChained, n
      <3> QED BY <1>1, <3>1, <3>2
    <2>5. ASSUME NEW i \in 1..(n + 1), NEW j \in 1..(n + 1), i < j
          PROVE  stored'[i].next <= stored'[j].at
      <3>1. i \in 1..n
        BY <1>1, <2>5
      <3>2. CASE j = n + 1
        BY <1>8, <1>9, <2>3, <3>1, <3>2
      <3>3. CASE j \in 1..n
        BY <1>8, <2>5, <3>1, <3>3 DEF StreamInv, FramesChained, n
      <3> QED BY <1>1, <3>2, <3>3
    <2> QED BY <1>8, <2>4, <2>5 DEF FramesChained
  <1>14. OverflowIsFinal'
    BY <1>5 DEF OverflowIsFinal
  <1>15. HeaderTrailsStores'
    BY <1>2, <1>8, <1>9 DEF StreamInv, HeaderTrailsStores, Pending
  <1>16. ReaderInBounds' /\ ReadsPrefix' /\ ReaderAtBoundary'
    <2>1. Len(got) \in Nat
      BY Types DEF StreamInv
    <2> QED BY <1>1, <1>2, <1>8, <2>1 DEF StreamInv, ReaderInBounds, ReadsPrefix,
                                   ReaderAtBoundary, EndOf, n
  <1> QED BY <1>11, <1>12, <1>13, <1>14, <1>15, <1>16 DEF StreamInv

(* header->size += would_write makes the last frame readable, and leaves   *)
(* header->size at or before the writer's cursor.                          *)
LEMMA FrameCountInv ==
  ASSUME StreamInv, FrameCount
  PROVE  StreamInv'
  <1> DEFINE n == Len(stored)
             e == [stored[n] EXCEPT !.counted = TRUE]
  <1>1. /\ stored \in Seq(StoredFrame) /\ n \in Nat /\ hdr.size \in Nat
        /\ \A i \in 1..n : /\ stored[i] \in StoredFrame
                            /\ stored[i].frame \in Frames
                            /\ stored[i].at \in Nat /\ stored[i].next \in Nat
    BY Types DEF StreamInv
  <1>2. /\ n \in 1..n /\ Pending
        /\ hdr' = [hdr EXCEPT !.size = @ + WouldWrite(stored[n].frame)]
        /\ stored' = [stored EXCEPT ![n] = e]
        /\ UNCHANGED <<size, writer, reader, got, epoch, seen>>
    BY <1>1 DEF FrameCount, Pending
  <1>3. e \in StoredFrame
    BY <1>1, <1>2 DEF StoredFrame
  <1>4. /\ e.frame = stored[n].frame /\ e.at = stored[n].at
        /\ e.next = stored[n].next /\ e.counted
    BY <1>1, <1>2 DEF StoredFrame
  <1> HIDE DEF n, e
  <1>5. /\ stored' \in Seq(StoredFrame) /\ Len(stored') = n
        /\ \A i \in 1..n : stored'[i] = IF i = n THEN e ELSE stored[i]
    <2>1. Len(stored) = n
      BY DEF n
    <2> QED BY <1>1, <1>2, <1>3, <2>1, ExceptSeq
  <1>6. \A i \in 1..n : /\ stored'[i].frame = stored[i].frame
                        /\ stored'[i].at = stored[i].at
                        /\ stored'[i].next = stored[i].next
                        /\ stored'[i].counted
    BY <1>1, <1>2, <1>4, <1>5 DEF StreamInv, FramesChained, n
  <1>7. \A i \in 0..n : (EndOf(i))' = EndOf(i)
    BY <1>1, <1>6 DEF EndOf
  <1>8. WouldWrite(stored[n].frame) \in Nat
    BY <1>1, <1>2, FrameSizes
  <1>9. /\ hdr'.size = hdr.size + WouldWrite(stored[n].frame)
        /\ hdr'.size \in Nat /\ hdr'.magic = hdr.magic
    BY <1>1, <1>2, <1>8 DEF StreamInv, TypeOK
  <1>10. TypeOK'
    <2>1. hdr' \in [magic : BOOLEAN, size : Nat]
      BY <1>1, <1>2, <1>8 DEF StreamInv, TypeOK
    <2> QED BY <1>2, <1>5, <2>1 DEF StreamInv, TypeOK, StoredFrame
  <1>11. ~Pending'
    BY <1>1, <1>2, <1>5, <1>6 DEF Pending
  <1>12. writer.live /\ writer.cursor = stored[n].next
    BY <1>1, <1>2 DEF StreamInv, Lifecycle, EndOf, n
  <1>13. Lifecycle'
    BY <1>1, <1>2, <1>5, <1>7, <1>9, <1>12 DEF StreamInv, Lifecycle, CoversPayload, n
  <1>14. FramesChained'
    <2>1. ASSUME NEW i \in 1..n
          PROVE  /\ stored'[i].at = (EndOf(i - 1))'
                 /\ stored'[i].at + WouldWrite(stored'[i].frame) <= stored'[i].next
                 /\ stored'[i].at + FrameLength(stored'[i].frame) <= writer'.size
                      => stored'[i].next = stored'[i].at + FrameLength(stored'[i].frame)
      <3>1. /\ stored[i].at = EndOf(i - 1)
            /\ stored[i].at + WouldWrite(stored[i].frame) <= stored[i].next
            /\ stored[i].at + FrameLength(stored[i].frame) <= writer.size
                 => stored[i].next = stored[i].at + FrameLength(stored[i].frame)
        BY DEF StreamInv, FramesChained, n
      <3>2. (EndOf(i - 1))' = EndOf(i - 1)
        BY <1>1, <1>7
      <3>3. /\ stored'[i].frame = stored[i].frame /\ stored'[i].at = stored[i].at
            /\ stored'[i].next = stored[i].next /\ writer' = writer
        BY <1>2, <1>6
      <3> QED BY <3>1, <3>2, <3>3
    <2>2. \A i, j \in 1..n : i < j => stored'[i].next <= stored'[j].at
      BY <1>6 DEF StreamInv, FramesChained, n
    <2> QED BY <1>5, <1>6, <2>1, <2>2 DEF FramesChained
  <1>15. OverflowIsFinal'
    BY <1>2 DEF StreamInv, OverflowIsFinal
  <1>16. HeaderTrailsStores'
    <2>1. hdr.size <= stored[n].at
      BY <1>2, <1>12 DEF StreamInv, HeaderTrailsStores, n
    <2>2. stored[n].at + WouldWrite(stored[n].frame) <= stored[n].next
      BY <1>2 DEF StreamInv, FramesChained, n
    <2>3. hdr'.size <= writer'.cursor
      BY <1>1, <1>2, <1>8, <1>9, <1>12, <2>1, <2>2
    <2> QED BY <1>11, <2>3 DEF HeaderTrailsStores
  <1>17. ReaderInBounds'
    BY <1>2 DEF StreamInv, ReaderInBounds
  <1>18. ReadsPrefix' /\ ReaderAtBoundary'
    <2>1. Len(got) \in Nat
      BY Types DEF StreamInv
    <2>2. ASSUME reader.live, seen = epoch
          PROVE  Len(got) <= n /\ reader.cursor = EndOf(Len(got))
                   /\ \A i \in 1..Len(got) : got[i] = stored[i].frame
      BY <2>2 DEF StreamInv, ReadsPrefix, ReaderAtBoundary, n
    <2> QED BY <1>1, <1>2, <1>5, <1>6, <1>7, <2>1, <2>2
               DEF ReadsPrefix, ReaderAtBoundary
  <1> QED BY <1>10, <1>13, <1>14, <1>15, <1>16, <1>17, <1>18 DEF StreamInv

(* Whatever the bytes under the cursor are, bun_frame_read keeps the       *)
(* reader inside the payload, and either leaves it where it was or moves   *)
(* it over one frame and reports that frame.                               *)
LEMMA DeliverInv ==
  ASSUME StreamInv, Readable,
         NEW f \in [symbol : Nat, filename : Nat, regs : Nat],
         NEW g \in Frames \cup {Garbage},
         Deliver(Parse(reader, f), g)
  PROVE  /\ TypeOK' /\ Lifecycle' /\ FramesChained' /\ OverflowIsFinal'
         /\ HeaderTrailsStores' /\ ReaderInBounds'
         /\ UNCHANGED <<size, hdr, writer, stored, epoch, seen>>
         /\ reader.live
         /\ \/ reader'.cursor = reader.cursor /\ got' = got
            \/ /\ reader'.cursor = reader.cursor + FrameLength(f)
               /\ reader'.cursor <= reader.size /\ got' = Append(got, g)
  <1> DEFINE p == Parse(reader, f)
  <1>1. /\ reader \in Cursor /\ reader.cursor \in Nat /\ reader.size \in Nat
        /\ got \in Seq(Frames \cup {Garbage})
    BY Types DEF StreamInv
  <1>2. reader.live /\ HeaderSize <= reader.cursor /\ reader.cursor <= reader.size
    BY <1>1 DEF Readable, StreamInv, ReaderInBounds, HeaderSize
  <1>3. /\ p \in Cursor /\ p.live /\ p.size = reader.size
        /\ ~p.overflow => /\ p.cursor = reader.cursor + FrameLength(f)
                          /\ p.cursor <= p.size
    BY <1>1, <1>2, ParseEffect
  <1>4. UNCHANGED <<size, hdr, writer, stored, epoch, seen>>
    BY DEF Deliver
  <1> HIDE DEF p
  <1>5. /\ reader' \in Cursor /\ reader'.live /\ reader'.size = reader.size
        /\ got' \in Seq(Frames \cup {Garbage})
        /\ \/ reader'.cursor = reader.cursor /\ got' = got
           \/ /\ reader'.cursor = reader.cursor + FrameLength(f)
              /\ reader'.cursor <= reader.size /\ got' = Append(got, g)
    <2>1. CASE p.overflow
      <3>1. reader' = [p EXCEPT !.cursor = reader.cursor] /\ got' = got
        BY <2>1 DEF Deliver, p
      <3> QED BY <1>1, <1>3, <3>1 DEF Cursor
    <2>2. CASE ~p.overflow
      <3>1. reader' = p /\ got' = Append(got, g)
        BY <2>2 DEF Deliver, p
      <3> QED BY <1>1, <1>3, <2>2, <3>1
    <2> QED BY <2>1, <2>2
  <1>6. FrameLength(f) \in Nat
    BY DEF FrameLength, U16, U64, RegisterSize
  <1>7. reader'.cursor \in HeaderSize..reader'.size
    BY <1>1, <1>2, <1>5, <1>6 DEF HeaderSize
  <1>8. TypeOK'
    BY <1>4, <1>5 DEF StreamInv, TypeOK
  <1>9. Lifecycle'
    BY <1>2, <1>4, <1>5 DEF StreamInv, Lifecycle, CoversPayload, EndOf
  <1>10. FramesChained' /\ OverflowIsFinal' /\ HeaderTrailsStores'
    BY <1>4 DEF StreamInv, FramesChained, OverflowIsFinal, HeaderTrailsStores,
                EndOf, Pending
  <1>11. ReaderInBounds'
    BY <1>7 DEF ReaderInBounds
  <1> QED BY <1>2, <1>4, <1>5, <1>8, <1>9, <1>10, <1>11

(* A reader of the current writer that stands where frame i starts has     *)
(* read the i - 1 frames before it.                                        *)
LEMMA NextFrame ==
  ASSUME StreamInv, reader.live, seen = epoch,
         NEW i \in 1..Len(stored), stored[i].at = reader.cursor
  PROVE  i = Len(got) + 1
  <1> DEFINE k == Len(got)
             n == Len(stored)
  <1>1. /\ n \in Nat /\ k \in Nat
        /\ \A j \in 1..n : /\ stored[j].at \in Nat /\ stored[j].next \in Nat
                            /\ stored[j].frame \in Frames
    BY Types DEF StreamInv
  <1>2. k <= n /\ reader.cursor = EndOf(k)
    BY DEF StreamInv, ReaderAtBoundary
  <1>3. \A j \in 1..n : stored[j].at < stored[j].next
    <2> SUFFICES ASSUME NEW j \in 1..n PROVE stored[j].at < stored[j].next
      OBVIOUS
    <2>1. stored[j].at + WouldWrite(stored[j].frame) <= stored[j].next
      BY DEF StreamInv, FramesChained
    <2>2. WouldWrite(stored[j].frame) \in Nat /\ WouldWrite(stored[j].frame) > 0
      BY <1>1, FrameSizes, SizeTAssumption DEF U64
    <2> QED BY <1>1, <2>1, <2>2
  <1>4. \A j, l \in 1..n : j < l => stored[j].next <= stored[l].at
    BY DEF StreamInv, FramesChained
  <1>5. stored[1].at = HeaderSize /\ 1 \in 1..n
    BY <1>1 DEF StreamInv, FramesChained, EndOf
  <1>6. CASE k = 0
    BY <1>1, <1>2, <1>3, <1>4, <1>5, <1>6 DEF EndOf
  <1>7. CASE k # 0
    <2>1. k \in 1..n /\ reader.cursor = stored[k].next
      BY <1>1, <1>2, <1>7 DEF EndOf
    <2>2. k < i
      BY <1>1, <1>3, <1>4, <2>1
    <2>3. k + 1 \in 1..n /\ stored[k + 1].at = stored[k].next
      <3>1. k + 1 \in 1..n
        BY <1>1, <2>2
      <3>2. stored[k + 1].at = EndOf((k + 1) - 1)
        BY <3>1 DEF StreamInv, FramesChained
      <3> QED BY <1>1, <1>7, <3>1, <3>2 DEF EndOf
    <2> QED BY <1>1, <1>3, <1>4, <2>1, <2>2, <2>3
  <1> QED BY <1>6, <1>7

(* bun_frame_read at a frame boundary delivers the frame after the ones    *)
(* already delivered.                                                      *)
LEMMA FrameReadInv ==
  ASSUME StreamInv, FrameRead
  PROVE  StreamInv'
  <1>1. PICK i \in 1..Len(stored) :
          /\ stored[i].at = reader.cursor
          /\ Deliver(Parse(reader, stored[i].frame), stored[i].frame)
    BY DEF FrameRead
  <1> DEFINE f == stored[i].frame
             k == Len(got)
             n == Len(stored)
  <1>2. /\ n \in Nat /\ k \in Nat /\ f \in Frames
        /\ got \in Seq(Frames \cup {Garbage})
        /\ writer.size \in Nat /\ reader.size \in Nat
        /\ \A j \in 1..n : /\ stored[j].at \in Nat /\ stored[j].next \in Nat
                            /\ stored[j].frame \in Frames
    BY Types DEF StreamInv
  <1>3. f \in [symbol : Nat, filename : Nat, regs : Nat]
    BY <1>2, FramesAssumption
  <1>4. Readable
    BY DEF FrameRead
  <1>5. /\ TypeOK' /\ Lifecycle' /\ FramesChained' /\ OverflowIsFinal'
        /\ HeaderTrailsStores' /\ ReaderInBounds'
        /\ UNCHANGED <<size, hdr, writer, stored, epoch, seen>>
        /\ reader.live
        /\ \/ reader'.cursor = reader.cursor /\ got' = got
           \/ /\ reader'.cursor = reader.cursor + FrameLength(f)
              /\ reader'.cursor <= reader.size /\ got' = Append(got, f)
    BY <1>1, <1>2, <1>3, <1>4, DeliverInv
  <1>6. ASSUME seen = epoch
        PROVE  /\ Len(got') <= n /\ reader'.cursor = EndOf(Len(got'))
               /\ \A j \in 1..Len(got') : got'[j] = stored[j].frame
    <2>1. /\ k <= n /\ reader.cursor = EndOf(k)
          /\ \A j \in 1..k : got[j] = stored[j].frame
      BY <1>5, <1>6 DEF StreamInv, ReadsPrefix, ReaderAtBoundary
    <2>2. i = k + 1
      BY <1>1, <1>5, <1>6, NextFrame
    <2>3. CASE reader'.cursor = reader.cursor /\ got' = got
      BY <2>1, <2>3
    <2>4. CASE /\ reader'.cursor = reader.cursor + FrameLength(f)
               /\ reader'.cursor <= reader.size /\ got' = Append(got, f)
      <3>1. /\ Len(got') = k + 1 /\ got'[k + 1] = f
            /\ \A j \in 1..k : got'[j] = got[j]
        BY <1>2, <2>4, AppendProperties
      <3>2. reader.size = writer.size
        BY <1>5 DEF StreamInv, Lifecycle, CoversPayload
      <3>3. stored[i].next = stored[i].at + FrameLength(f)
        BY <1>1, <1>2, <2>4, <3>2 DEF StreamInv, FramesChained
      <3>4. Len(got') <= n /\ reader'.cursor = EndOf(Len(got'))
        BY <1>1, <1>2, <2>2, <2>4, <3>1, <3>3 DEF EndOf
      <3>5. ASSUME NEW j \in 1..Len(got') PROVE got'[j] = stored[j].frame
        BY <1>2, <2>1, <2>2, <3>1
      <3> QED BY <3>4, <3>5
    <2> QED BY <1>5, <2>3, <2>4
  <1>7. ReadsPrefix' /\ ReaderAtBoundary'
    BY <1>5, <1>6 DEF ReadsPrefix, ReaderAtBoundary, EndOf
  <1> QED BY <1>5, <1>7 DEF StreamInv

(* Only a stale reader meets bytes that are not a frame: a reader of the   *)
(* current writer always stands where a counted frame starts.              *)
LEMMA GarbageIsStale ==
  ASSUME StreamInv, FrameReadGarbage
  PROVE  seen # epoch
  <1> SUFFICES ASSUME seen = epoch PROVE FALSE
    OBVIOUS
  <1> DEFINE k == Len(got)
             n == Len(stored)
  <1>7. /\ n \in Nat /\ k \in Nat /\ reader.size \in Nat /\ reader.cursor \in Nat
        /\ hdr.size \in Nat
        /\ \A j \in 1..n : /\ stored[j].at \in Nat /\ stored[j].next \in Nat
                            /\ stored[j].frame \in Frames
    BY Types DEF StreamInv
  <1>8. Readable /\ reader.live
    BY DEF FrameReadGarbage, Readable
  <1>1. k <= n /\ reader.cursor = EndOf(k)
    BY <1>8 DEF StreamInv, ReaderAtBoundary
  <1>2. reader.cursor < hdr.size
    BY <1>7, <1>8 DEF Readable
  <1>3. k = n
    <2> SUFFICES ASSUME k # n PROVE FALSE
      OBVIOUS
    <2>1. k + 1 \in 1..n
      BY <1>7, <1>1
    <2>2. stored[k + 1].at = EndOf((k + 1) - 1)
      BY <2>1 DEF StreamInv, FramesChained
    <2>3. stored[k + 1].at = reader.cursor
      BY <1>7, <1>1, <2>2
    <2> QED BY <2>1, <2>3 DEF FrameReadGarbage
  <1>4. writer.live /\ writer.cursor = EndOf(n)
    BY <1>8 DEF StreamInv, Lifecycle
  <1>5. CASE Pending
    <2>1. n \in 1..n
      BY <1>7, <1>5 DEF Pending
    <2>2. hdr.size <= stored[n].at
      BY <1>4, <1>5 DEF StreamInv, HeaderTrailsStores
    <2>3. stored[n].at + WouldWrite(stored[n].frame) <= stored[n].next
      BY <2>1 DEF StreamInv, FramesChained
    <2>4. WouldWrite(stored[n].frame) \in Nat
      BY <1>7, <2>1, FrameSizes
    <2>5. reader.cursor = stored[n].next
      BY <1>7, <1>1, <1>3, <2>1 DEF EndOf
    <2> QED BY <1>7, <1>2, <2>1, <2>2, <2>3, <2>4, <2>5
  <1>6. CASE ~Pending
    BY <1>7, <1>1, <1>2, <1>3, <1>4, <1>6 DEF StreamInv, HeaderTrailsStores
  <1> QED BY <1>5, <1>6

(* bun_frame_read on such bytes stays in bounds and delivers garbage.      *)
LEMMA FrameReadGarbageInv ==
  ASSUME StreamInv, FrameReadGarbage
  PROVE  StreamInv'
  <1>1. PICK m, l \in 0..reader.size : Deliver(GarbageParse(m, l), Garbage)
    BY DEF FrameReadGarbage
  <1> DEFINE f == [symbol |-> m, filename |-> 0, regs |-> l]
             k == Len(got)
             n == Len(stored)
  <1>2. /\ n \in Nat /\ k \in Nat /\ reader.size \in Nat /\ reader.cursor \in Nat
        /\ hdr.size \in Nat
        /\ \A j \in 1..n : /\ stored[j].at \in Nat /\ stored[j].next \in Nat
                            /\ stored[j].frame \in Frames
    BY Types DEF StreamInv
  <1>3. f \in [symbol : Nat, filename : Nat, regs : Nat]
    BY <1>2
  <1>4. Readable /\ Deliver(Parse(reader, f), Garbage)
    BY <1>1 DEF FrameReadGarbage, GarbageParse
  <1>5. /\ TypeOK' /\ Lifecycle' /\ FramesChained' /\ OverflowIsFinal'
        /\ HeaderTrailsStores' /\ ReaderInBounds'
        /\ UNCHANGED <<size, hdr, writer, stored, epoch, seen>>
        /\ reader.live
    BY <1>3, <1>4, DeliverInv
  <1>6. seen # epoch
    BY GarbageIsStale
  <1>7. ReadsPrefix' /\ ReaderAtBoundary'
    BY <1>5, <1>6 DEF ReadsPrefix, ReaderAtBoundary
  <1> QED BY <1>5, <1>7 DEF StreamInv

(* The invariant holds of every behaviour of the stream. *)
THEOREM StreamInvariant == Spec => []StreamInv
  <1>1. Init => StreamInv
    BY InitInv
  <1>2. StreamInv /\ [Next]_vars => StreamInv'
    <2> SUFFICES ASSUME StreamInv, [Next]_vars PROVE StreamInv'
      OBVIOUS
    <2>1. ASSUME NEW n \in Capacities, BufferInit(n) PROVE StreamInv'
      BY <2>1, BufferInitInv
    <2>2. CASE WriterInit
      BY <2>2, WriterInitInv
    <2>3. ASSUME NEW f \in Frames, FrameStore(f) PROVE StreamInv'
      BY <2>3, FrameStoreInv
    <2>4. CASE FrameCount
      BY <2>4, FrameCountInv
    <2>5. CASE ReaderInit
      BY <2>5, ReaderInitInv
    <2>6. CASE FrameRead
      BY <2>6, FrameReadInv
    <2>7. CASE FrameReadGarbage
      BY <2>7, FrameReadGarbageInv
    <2>8. CASE UNCHANGED vars
      BY <2>8 DEF vars, StreamInv, TypeOK, Lifecycle, CoversPayload, EndOf,
                  FramesChained, OverflowIsFinal, HeaderTrailsStores, Pending,
                  ReaderInBounds, ReadsPrefix, ReaderAtBoundary
    <2> QED BY <2>1, <2>2, <2>3, <2>4, <2>5, <2>6, <2>7, <2>8 DEF Next
  <1> QED BY <1>1, <1>2, PTL DEF Spec

(* Type correctness of the stream. *)
THEOREM TypeCorrect == Spec => []TypeOK
  <1>1. StreamInv => TypeOK
    BY DEF StreamInv
  <1> QED BY <1>1, StreamInvariant, PTL

(* bun_frame_read never leaves the payload, even when the buffer is given  *)
(* to another writer under it, for every buffer size and width of size_t.  *)
THEOREM ReaderStaysInBounds == Spec => []ReaderInBounds
  <1>1. StreamInv => ReaderInBounds
    BY DEF StreamInv
  <1> QED BY <1>1, StreamInvariant, PTL

(* header->size never covers a frame bun_frame_write has not finished. *)
THEOREM HeaderNeverAhead == Spec => []HeaderTrailsStores
  <1>1. StreamInv => HeaderTrailsStores
    BY DEF StreamInv
  <1> QED BY <1>1, StreamInvariant, PTL

(* What bun_frame_read returns is a prefix of what bun_frame_write stored. *)
THEOREM ReaderGetsPrefix == Spec => []ReadsPrefix
  <1>1. StreamInv => ReadsPrefix
    BY DEF StreamInv
  <1> QED BY <1>1, StreamInvariant, PTL

-----------------------------------------------------------------------------
(* Without registers the two bytes that would_write misses are the 16-bit  *)
(* register count, whose store is checked: on a 64-bit build a writer that *)
(* stores no registers, as bun_libbacktrace.c does, stays in its payload.  *)
THEOREM PlainWriterInBounds ==
  ASSUME SizeT = 8, \A f \in Frames : f.regs = 0
  PROVE  Spec => []WriterInBounds
  <1>1. Init => WriterInBounds
    BY DEF Init, NoCursor, WriterInBounds
  <1>2. StreamInv /\ WriterInBounds /\ [Next]_vars => WriterInBounds'
    <2> SUFFICES ASSUME StreamInv, WriterInBounds, [Next]_vars
                 PROVE  WriterInBounds'
      OBVIOUS
    <2>1. CASE UNCHANGED writer
      BY <2>1 DEF WriterInBounds
    <2>2. CASE WriterInit
      <3>1. size \in Nat /\ size >= BufferHeaderSize
        BY <2>2, Types DEF StreamInv, Lifecycle, WriterInit
      <3> QED BY <2>2, <3>1, FreshCursorType DEF WriterInit, WriterInBounds
    <2>3. ASSUME NEW f \in Frames, FrameStore(f) PROVE WriterInBounds'
      <3>1. /\ writer \in Cursor /\ writer.live /\ Fits(writer, f)
            /\ writer.cursor \in Nat /\ writer.size \in Nat
            /\ writer' = Serialize(writer, f) /\ writer.cursor <= writer.size
        BY <2>3, Types DEF StreamInv, FrameStore, WriterInBounds
      <3>2. ~writer.overflow
        BY <3>1, FrameSizes, SizeTAssumption
           DEF StreamInv, OverflowIsFinal, Fits, UDiff, U64
      <3>3. f.regs = 0
        OBVIOUS
      <3> QED BY <3>1, <3>2, <3>3, StoreEffect DEF WriterInBounds
    <2> QED BY <2>1, <2>2, <2>3 DEF Next, vars, BufferInit, FrameCount,
               ReaderInit, FrameRead, FrameReadGarbage, Deliver
  <1> QED BY <1>1, <1>2, StreamInvariant, PTL DEF Spec

-----------------------------------------------------------------------------
(* How far header->size lags behind the cursor on a 64-bit build: two      *)
(* bytes for each frame, except for a last frame whose count was refused.  *)
LagBound ==
  /\ writer.live =>
       writer.cursor + (IF writer.overflow THEN 2 ELSE 0)
         <= hdr.size + 2 * Len(stored)
              + (IF Pending THEN WouldWrite(stored[Len(stored)].frame) ELSE 0)
  /\ \A i \in 1..Len(stored) :
       /\ stored[i].at # writer.size
       /\ \/ stored[i].next = stored[i].at + FrameLength(stored[i].frame)
          \/ /\ i = Len(stored) /\ writer.overflow
             /\ stored[i].next + 2 = stored[i].at + FrameLength(stored[i].frame)
  /\ Len(stored) <= MaxFrames

(* On a 64-bit build a frame is two bytes longer than what is reserved. *)
LEMMA WideFrames ==
  ASSUME SizeT = 8, NEW f \in Frames
  PROVE  /\ WouldWrite(f) \in Nat /\ WouldWrite(f) >= 26
         /\ FrameLength(f) = WouldWrite(f) + 2
  <1>1. f.symbol \in Nat /\ f.filename \in Nat /\ f.regs * RegisterSize \in Nat
    BY FrameSizes DEF RegisterSize, U16, U64
  <1> QED BY <1>1 DEF WouldWrite, FrameLength, U16, U64

LEMMA LagInvariant ==
  ASSUME SizeT = 8
  PROVE  StreamInv /\ LagBound /\ [Next]_vars => LagBound'
  <1> SUFFICES ASSUME StreamInv, LagBound, [Next]_vars PROVE LagBound'
    OBVIOUS
  <1> DEFINE n == Len(stored)
  <1>1. /\ writer \in Cursor /\ writer.cursor \in Nat /\ writer.size \in Nat
        /\ stored \in Seq(StoredFrame) /\ n \in Nat /\ hdr.size \in Nat
        /\ \A i \in 1..n : /\ stored[i] \in StoredFrame
                            /\ stored[i].frame \in Frames
                            /\ stored[i].at \in Nat /\ stored[i].next \in Nat
    BY Types DEF StreamInv
  <1>2. CASE UNCHANGED <<writer, stored, hdr>>
    BY <1>2 DEF LagBound, Pending
  <1>3. ASSUME NEW c \in Capacities, BufferInit(c) PROVE LagBound'
    <2>1. ~writer.live /\ stored = << >>
      BY <1>3 DEF StreamInv, Lifecycle, CoversPayload, BufferInit, BufferHeaderSize
    <2> QED BY <1>3, <2>1, BoundsAssumption DEF LagBound, BufferInit
  <1>4. CASE WriterInit
    <2>1. size \in Nat /\ size >= BufferHeaderSize
      BY <1>4, Types DEF StreamInv, Lifecycle, WriterInit
    <2>2. writer'.cursor = HeaderSize /\ ~writer'.overflow
      BY <1>4, <2>1, FreshCursorType DEF WriterInit
    <2>3. stored' = << >> /\ Len(stored') = 0 /\ hdr'.size = HeaderSize
      BY <1>4 DEF WriterInit
    <2>4. ~Pending'
      BY <2>3 DEF Pending
    <2> QED BY <2>2, <2>3, <2>4, BoundsAssumption DEF LagBound, HeaderSize
  <1>5. ASSUME NEW f \in Frames, FrameStore(f) PROVE LagBound'
    <2> DEFINE e == [frame |-> f, at |-> writer.cursor,
                     next |-> writer'.cursor, counted |-> FALSE]
    <2>1. /\ writer.live /\ ~Pending /\ Fits(writer, f) /\ n < MaxFrames
          /\ writer' = Serialize(writer, f) /\ stored' = Append(stored, e)
          /\ hdr' = hdr
      BY <1>5 DEF FrameStore
    <2>2. /\ WouldWrite(f) \in Nat /\ WouldWrite(f) >= 26
          /\ FrameLength(f) = WouldWrite(f) + 2
      BY WideFrames
    <2>3. ~writer.overflow
      BY <1>1, <2>1, <2>2 DEF StreamInv, OverflowIsFinal, Fits, UDiff, U64
    <2>4. /\ writer' \in Cursor /\ writer'.size = writer.size
          /\ IF writer'.overflow
             THEN writer'.cursor + 2 = writer.cursor + FrameLength(f)
             ELSE writer'.cursor = writer.cursor + FrameLength(f)
      BY <1>1, <2>1, <2>3, StoreEffect
    <2>5. writer'.cursor \in Nat /\ writer'.overflow \in BOOLEAN
      BY <2>4 DEF Cursor
    <2>6. e \in StoredFrame
      BY <1>1, <2>5 DEF StoredFrame
    <2>7. /\ stored' # << >> /\ Len(stored') = n + 1
          /\ \A i \in 1..n : stored'[i] = stored[i]
          /\ stored'[n + 1] = e
      BY <1>1, <2>1, <2>6, AppendProperties
    <2>8. /\ stored'[n + 1].frame = f /\ stored'[n + 1].at = writer.cursor
          /\ stored'[n + 1].next = writer'.cursor /\ ~stored'[n + 1].counted
      BY <2>7
    <2>10. writer.cursor # writer.size
      BY <1>1, <2>1, <2>2 DEF Fits, UDiff
    <2> HIDE DEF n, e
    <2>11. Pending'
      BY <2>7, <2>8 DEF Pending
    <2>12. writer'.cursor + (IF writer'.overflow THEN 2 ELSE 0)
             <= hdr'.size + 2 * (n + 1) + WouldWrite(f)
      <3>1. writer.cursor <= hdr.size + 2 * n
        BY <1>1, <2>1, <2>3 DEF LagBound, n
      <3>2. /\ hdr'.size = hdr.size /\ hdr.size \in Nat /\ n \in Nat
            /\ writer.cursor \in Nat
        BY <1>1, <2>1
      <3>3. CASE writer'.overflow
        <4>1. writer'.cursor + 2 = writer.cursor + (WouldWrite(f) + 2)
          BY <2>2, <2>4, <3>3
        <4> QED BY <2>2, <2>5, <3>1, <3>2, <3>3, <4>1
      <3>4. CASE ~writer'.overflow
        <4>1. writer'.cursor = writer.cursor + (WouldWrite(f) + 2)
          BY <2>2, <2>4, <3>4
        <4> QED BY <2>2, <2>5, <3>1, <3>2, <3>4, <4>1
      <3> QED BY <3>3, <3>4
    <2>13. ASSUME NEW i \in 1..(n + 1)
           PROVE  /\ stored'[i].at # writer'.size
                  /\ \/ stored'[i].next = stored'[i].at + FrameLength(stored'[i].frame)
                     \/ /\ i = n + 1 /\ writer'.overflow
                        /\ stored'[i].next + 2
                              = stored'[i].at + FrameLength(stored'[i].frame)
      <3>1. CASE i = n + 1
        BY <2>4, <2>8, <2>10, <3>1
      <3>2. CASE i \in 1..n
        BY <2>3, <2>4, <2>7, <3>2 DEF LagBound, n
      <3> QED BY <1>1, <3>1, <3>2
    <2>14. /\ Len(stored') = n + 1 /\ n + 1 <= MaxFrames
           /\ stored'[Len(stored')].frame = f
      BY <1>1, <2>1, <2>7, <2>8, BoundsAssumption DEF n
    <2> QED BY <2>11, <2>12, <2>13, <2>14 DEF LagBound
  <1>6. CASE FrameCount
    <2> DEFINE e == [stored[n] EXCEPT !.counted = TRUE]
    <2>1. /\ n \in 1..n /\ Pending /\ writer' = writer
          /\ hdr' = [hdr EXCEPT !.size = @ + WouldWrite(stored[n].frame)]
          /\ stored' = [stored EXCEPT ![n] = e]
      BY <1>1, <1>6 DEF FrameCount, Pending
    <2>2. e \in StoredFrame
      BY <1>1, <2>1 DEF StoredFrame
    <2>3. /\ e.frame = stored[n].frame /\ e.at = stored[n].at
          /\ e.next = stored[n].next /\ e.counted
      BY <1>1, <2>1 DEF StoredFrame
    <2>4. hdr'.size = hdr.size + WouldWrite(stored[n].frame)
      BY <2>1 DEF StreamInv, TypeOK
    <2>5. WouldWrite(stored[n].frame) \in Nat
      BY <1>1, <2>1, FrameSizes
    <2> HIDE DEF e
    <2>6. /\ Len(stored') = n
          /\ \A i \in 1..n : stored'[i] = IF i = n THEN e ELSE stored[i]
      BY <1>1, <2>1, <2>2, ExceptSeq
    <2> HIDE DEF n
    <2>7. \A i \in 1..n : /\ stored'[i].frame = stored[i].frame
                          /\ stored'[i].at = stored[i].at
                          /\ stored'[i].next = stored[i].next
      BY <2>3, <2>6
    <2>8. ~Pending'
      BY <2>1, <2>3, <2>6 DEF Pending
    <2>9. writer.live =>
            writer.cursor + (IF writer.overflow THEN 2 ELSE 0)
              <= hdr.size + 2 * n + WouldWrite(stored[n].frame)
      BY <2>1 DEF LagBound, n
    <2>10. \A i \in 1..n :
             /\ stored'[i].at # writer'.size
             /\ \/ stored'[i].next = stored'[i].at + FrameLength(stored'[i].frame)
                \/ /\ i = n /\ writer'.overflow
                   /\ stored'[i].next + 2 = stored'[i].at + FrameLength(stored'[i].frame)
      <3> SUFFICES ASSUME NEW i \in 1..n
                   PROVE  /\ stored'[i].at # writer'.size
                          /\ \/ stored'[i].next = stored'[i].at + FrameLength(stored'[i].frame)
                             \/ /\ i = n /\ writer'.overflow
                                /\ stored'[i].next + 2 = stored'[i].at + FrameLength(stored'[i].frame)
        OBVIOUS
      <3>1. /\ stored[i].at # writer.size
            /\ \/ stored[i].next = stored[i].at + FrameLength(stored[i].frame)
               \/ /\ i = n /\ writer.overflow
                  /\ stored[i].next + 2 = stored[i].at + FrameLength(stored[i].frame)
        BY DEF LagBound, n
      <3> QED BY <2>1, <2>7, <3>1
    <2>11. n <= MaxFrames
      BY DEF LagBound, n
    <2> QED BY <1>1, <2>1, <2>4, <2>5, <2>6, <2>8, <2>9, <2>10, <2>11 DEF LagBound
  <1> QED BY <1>2, <1>3, <1>4, <1>5, <1>6 DEF Next, vars, ReaderInit, FrameRead,
             FrameReadGarbage, Deliver

(* A reader of the current writer has its overflow flag set only because   *)
(* the next frame does not lie whole in the payload.                       *)
OverflowAtTorn ==
  reader.live /\ seen = epoch /\ reader.overflow =>
    Len(got) < Len(stored) /\ ~LiesWhole(Len(got) + 1)

LEMMA OverflowInvariant ==
  StreamInv /\ OverflowAtTorn /\ [Next]_vars => OverflowAtTorn'
  <1> SUFFICES ASSUME StreamInv, OverflowAtTorn, [Next]_vars PROVE OverflowAtTorn'
    OBVIOUS
  <1> DEFINE n == Len(stored)
             k == Len(got)
  <1>1. /\ writer \in Cursor /\ reader \in Cursor /\ stored \in Seq(StoredFrame)
        /\ n \in Nat /\ k \in Nat /\ epoch \in Nat /\ seen \in Nat
        /\ \A i \in 1..n : /\ stored[i] \in StoredFrame
                            /\ stored[i].frame \in Frames
                            /\ stored[i].at \in Nat /\ stored[i].next \in Nat
    BY Types DEF StreamInv
  <1>2. CASE UNCHANGED <<reader, got, stored, writer, epoch, seen>>
    BY <1>2 DEF OverflowAtTorn, LiesWhole
  <1>3. ASSUME NEW c \in Capacities, BufferInit(c) PROVE OverflowAtTorn'
    BY <1>2, <1>3 DEF BufferInit
  <1>4. CASE WriterInit
    <2>1. seen <= epoch /\ epoch' = epoch + 1 /\ seen' = seen
      BY <1>4 DEF WriterInit, StreamInv, Lifecycle
    <2> QED BY <1>1, <2>1 DEF OverflowAtTorn
  <1>5. ASSUME NEW f \in Frames, FrameStore(f) PROVE OverflowAtTorn'
    <2> DEFINE e == [frame |-> f, at |-> writer.cursor,
                     next |-> writer'.cursor, counted |-> FALSE]
    <2>1. /\ writer.live /\ Fits(writer, f)
          /\ writer' = Serialize(writer, f) /\ stored' = Append(stored, e)
          /\ UNCHANGED <<reader, got, epoch, seen>>
      BY <1>5 DEF FrameStore
    <2>2. ~writer.overflow
      BY <1>1, <2>1, FrameSizes, SizeTAssumption
         DEF StreamInv, OverflowIsFinal, Fits, UDiff, U64, Cursor
    <2>3. writer' \in Cursor /\ writer'.size = writer.size
      BY <1>1, <2>1, <2>2, StoreEffect
    <2>4. e \in StoredFrame
      BY <1>1, <2>3 DEF StoredFrame, Cursor
    <2>5. Len(stored') = n + 1 /\ \A i \in 1..n : stored'[i] = stored[i]
      BY <1>1, <2>1, <2>4, AppendProperties
    <2> QED BY <1>1, <2>1, <2>3, <2>5 DEF OverflowAtTorn, LiesWhole
  <1>6. CASE FrameCount
    <2> DEFINE e == [stored[n] EXCEPT !.counted = TRUE]
    <2>1. /\ n \in 1..n /\ UNCHANGED <<writer, reader, got, epoch, seen>>
          /\ stored' = [stored EXCEPT ![n] = e]
      BY <1>1, <1>6 DEF FrameCount, Pending
    <2>2. e \in StoredFrame /\ e.frame = stored[n].frame /\ e.at = stored[n].at
      BY <1>1, <2>1 DEF StoredFrame
    <2> HIDE DEF e
    <2>3. /\ Len(stored') = n
          /\ \A i \in 1..n : stored'[i] = IF i = n THEN e ELSE stored[i]
      BY <1>1, <2>1, <2>2, ExceptSeq
    <2>4. \A i \in 1..n : /\ stored'[i].frame = stored[i].frame
                          /\ stored'[i].at = stored[i].at
      BY <2>2, <2>3
    <2>5. \A i \in 1..n : LiesWhole(i)' <=> LiesWhole(i)
      BY <2>1, <2>4 DEF LiesWhole
    <2>6. ASSUME k < n PROVE k + 1 \in 1..n
      BY <1>1, <2>6
    <2> HIDE DEF n, k
    <2>7. Len(got') = k /\ Len(stored') = n
      BY <2>1, <2>3 DEF k
    <2>8. reader.live /\ seen = epoch /\ reader.overflow => k < n /\ ~LiesWhole(k + 1)
      BY DEF OverflowAtTorn, k, n
    <2> QED BY <2>1, <2>5, <2>6, <2>7, <2>8 DEF OverflowAtTorn
  <1>7. CASE ReaderInit
    BY <1>7 DEF ReaderInit, FreshCursor, OverflowAtTorn
  <1>8. CASE FrameRead
    <2> SUFFICES ASSUME seen = epoch, reader'.overflow
                 PROVE  got' = got /\ k < n /\ ~LiesWhole(k + 1)
      BY <1>8 DEF FrameRead, Deliver, OverflowAtTorn, LiesWhole
    <2>1. PICK i \in 1..n :
            /\ stored[i].at = reader.cursor
            /\ Deliver(Parse(reader, stored[i].frame), stored[i].frame)
      BY <1>8 DEF FrameRead
    <2>2. reader.live
      BY <1>8 DEF FrameRead, Readable
    <2>3. i = k + 1
      BY <2>1, <2>2, NextFrame
    <2>4. Parse(reader, stored[i].frame).overflow /\ got' = got
      BY <2>1 DEF Deliver
    <2>5. ~LiesWhole(i)
      <3>1. CASE reader.overflow
        BY <2>2, <2>3, <3>1 DEF OverflowAtTorn
      <3>2. CASE ~reader.overflow
        <4> SUFFICES ASSUME LiesWhole(i) PROVE FALSE
          OBVIOUS
        <4>1. reader.size = writer.size
          BY <2>2 DEF StreamInv, Lifecycle, CoversPayload
        <4>2. reader.cursor + FrameLength(stored[i].frame) <= reader.size
          BY <2>1, <4>1 DEF LiesWhole
        <4>3. stored[i].frame \in [symbol : Nat, filename : Nat, regs : Nat]
          BY <1>1, <2>1, FramesAssumption
        <4> QED BY <1>1, <2>4, <3>2, <4>2, <4>3, ParseWhole
      <3> QED BY <3>1, <3>2
    <2> QED BY <1>1, <2>1, <2>3, <2>4, <2>5
  <1>9. CASE FrameReadGarbage
    <2>1. seen # epoch /\ UNCHANGED <<seen, epoch>>
      BY <1>9, GarbageIsStale DEF FrameReadGarbage, Deliver
    <2> QED BY <2>1 DEF OverflowAtTorn
  <1> QED BY <1>2, <1>3, <1>4, <1>5, <1>6, <1>7, <1>8, <1>9 DEF Next, vars

(* On a 64-bit build with at most 13 frames in the buffer no frame is      *)
(* lost: the lag of header->size, 2 bytes a frame, stays below the 28      *)
(* bytes of the smallest frame, so that a reader to which bun_frame_read   *)
(* returned false has read every frame that lies whole in the payload.     *)
(* The 14th frame breaks it.                                               *)
THEOREM ShallowStacksComplete ==
  ASSUME SizeT = 8, MaxFrames <= 13
  PROVE  Spec => []NoFrameLost
  <1>1. Init => LagBound
    BY BoundsAssumption DEF Init, NoCursor, LagBound
  <1>2. StreamInv /\ LagBound /\ [Next]_vars => LagBound'
    BY LagInvariant
  <1>3. ASSUME StreamInv, LagBound, Drained, ~Readable
        PROVE  Len(got) = Len(stored)
    <2> SUFFICES ASSUME Len(got) # Len(stored) PROVE FALSE
      OBVIOUS
    <2> DEFINE n == Len(stored)
               k == Len(got)
               g == stored[k + 1]
    <2>1. /\ n \in Nat /\ k \in Nat /\ hdr.size \in Nat
          /\ reader.cursor \in Nat /\ reader.size \in Nat /\ writer.cursor \in Nat
          /\ writer.overflow \in BOOLEAN
          /\ \A i \in 1..n : /\ stored[i].frame \in Frames
                              /\ stored[i].at \in Nat /\ stored[i].next \in Nat
      BY <1>3, Types DEF StreamInv
    <2>2. reader.live /\ seen = epoch /\ ~Pending /\ ~Readable
      BY <1>3 DEF Drained
    <2>3. k < n /\ reader.cursor = EndOf(k)
      BY <1>3, <2>1, <2>2 DEF StreamInv, ReaderAtBoundary
    <2>4. k + 1 \in 1..n /\ n \in 1..n
      BY <2>1, <2>3
    <2>5. g.at = reader.cursor
      <3>1. g.at = EndOf((k + 1) - 1)
        BY <1>3, <2>4 DEF StreamInv, FramesChained
      <3> QED BY <2>1, <2>3, <3>1
    <2>6. /\ writer.live /\ writer.cursor = stored[n].next
          /\ reader.size = writer.size /\ reader.cursor <= reader.size
      BY <1>3, <2>1, <2>2, <2>4
         DEF StreamInv, Lifecycle, CoversPayload, EndOf, ReaderInBounds, HeaderSize
    <2>7. hdr.size <= g.at
      <3>1. g.at # writer.size
        BY <1>3, <2>4 DEF LagBound
      <3> QED BY <2>1, <2>2, <2>5, <2>6, <3>1 DEF Readable, UDiff
    <2>8. FrameLength(g.frame) \in Nat /\ FrameLength(g.frame) >= 28
      <3>1. g.frame \in Frames
        BY <2>1, <2>4
      <3> QED BY <3>1, FrameSizes
    <2>9. g.next <= writer.cursor
      <3>1. CASE k + 1 = n
        BY <2>1, <2>6, <3>1
      <3>2. CASE k + 1 < n
        <4>1. g.next <= stored[n].at
          BY <1>3, <2>4, <3>2 DEF StreamInv, FramesChained
        <4>2. stored[n].at + WouldWrite(stored[n].frame) <= stored[n].next
          BY <1>3, <2>4 DEF StreamInv, FramesChained
        <4>3. WouldWrite(stored[n].frame) \in Nat
          BY <2>1, <2>4, FrameSizes
        <4>4. /\ g.next \in Nat /\ stored[n].at \in Nat /\ stored[n].next \in Nat
              /\ writer.cursor = stored[n].next
          BY <2>1, <2>4, <2>6
        <4> HIDE DEF g, n
        <4> QED BY <4>1, <4>2, <4>3, <4>4
      <3> QED BY <2>1, <2>3, <3>1, <3>2
    <2>10. /\ writer.cursor + (IF writer.overflow THEN 2 ELSE 0)
                <= hdr.size + 2 * n
           /\ n <= 13
      BY <1>3, <2>1, <2>2, <2>6, BoundsAssumption DEF LagBound
    <2>11. \/ g.next = g.at + FrameLength(g.frame)
           \/ writer.overflow /\ g.next + 2 = g.at + FrameLength(g.frame)
      BY <1>3, <2>4 DEF LagBound
    <2>12. g.at \in Nat /\ g.next \in Nat
      BY <2>1, <2>4
    <2> DEFINE x == g.at
               y == g.next
               l == FrameLength(g.frame)
               c == writer.cursor
               h == hdr.size
    <2>13. /\ x \in Nat /\ y \in Nat /\ l \in Nat /\ c \in Nat /\ h \in Nat /\ n \in Nat
           /\ h <= x /\ l >= 28 /\ y <= c /\ n <= 13
      BY <2>1, <2>7, <2>8, <2>9, <2>10, <2>12
    <2>14. CASE writer.overflow
      <3>1. c + 2 <= h + 2 * n
        BY <2>10, <2>14
      <3>2. y = x + l \/ y + 2 = x + l
        BY <2>11
      <3> HIDE DEF n, k, g, x, y, l, c, h
      <3> QED BY <2>13, <3>1, <3>2
    <2>15. CASE ~writer.overflow
      <3>1. c <= h + 2 * n
        <4>1. c + 0 <= h + 2 * n
          BY <2>10, <2>15
        <4> HIDE DEF n, k, g, c, h
        <4> QED BY <2>13, <4>1
      <3>2. y = x + l
        BY <2>11, <2>15
      <3> HIDE DEF n, k, g, x, y, l, c, h
      <3> QED BY <2>13, <3>1, <3>2
    <2> QED BY <2>14, <2>15
  <1>4. ASSUME StreamInv, OverflowAtTorn, Drained, reader.overflow,
               NEW i \in 1..Len(stored), LiesWhole(i)
        PROVE  i <= Len(got)
    <2> DEFINE k == Len(got)
               g == stored[k + 1]
    <2>1. /\ k \in Nat /\ Len(stored) \in Nat /\ writer.size \in Nat
          /\ \A j \in 1..Len(stored) :
               /\ stored[j].frame \in Frames
               /\ stored[j].at \in Nat /\ stored[j].next \in Nat
      BY <1>4, Types DEF StreamInv
    <2>2. k < Len(stored) /\ ~LiesWhole(k + 1)
      BY <1>4 DEF Drained, OverflowAtTorn
    <2>3. k + 1 \in 1..Len(stored)
      BY <2>1, <2>2
    <2>4. \A f \in Frames : /\ WouldWrite(f) \in Nat
                            /\ FrameLength(f) = WouldWrite(f) + 2
                            /\ WouldWrite(f) >= 26
      BY WideFrames
    <2>5. i # k + 1
      BY <1>4, <2>2
    <2>6. ASSUME k + 1 < i PROVE FALSE
      <3>1. g.next <= stored[i].at
        BY <1>4, <2>3, <2>6 DEF StreamInv, FramesChained
      <3>2. g.at + WouldWrite(g.frame) <= g.next
        BY <1>4, <2>3 DEF StreamInv, FramesChained
      <3>3. stored[i].at + 28 <= writer.size
        BY <1>4, <2>1, <2>4 DEF LiesWhole
      <3>4. g.at + FrameLength(g.frame) > writer.size
        BY <2>1, <2>2, <2>3, <2>4 DEF LiesWhole
      <3>5. FrameLength(g.frame) = WouldWrite(g.frame) + 2 /\ WouldWrite(g.frame) \in Nat
        BY <2>1, <2>3, <2>4
      <3>6. /\ g.at \in Nat /\ g.next \in Nat /\ stored[i].at \in Nat
            /\ writer.size \in Nat
        BY <1>4, <2>1, <2>3
      <3> DEFINE x == g.at
                 y == g.next
                 z == stored[i].at
                 l == WouldWrite(g.frame)
                 m == writer.size
      <3>7. /\ x \in Nat /\ y \in Nat /\ z \in Nat /\ l \in Nat /\ m \in Nat
            /\ y <= z /\ x + l <= y /\ z + 28 <= m /\ x + (l + 2) > m
        BY <3>1, <3>2, <3>3, <3>4, <3>5, <3>6
      <3> HIDE DEF x, y, z, l, m
      <3> QED BY <3>7
    <2> QED BY <1>4, <2>1, <2>5, <2>6
  <1>5. StreamInv /\ LagBound /\ OverflowAtTorn => NoFrameLost
    BY <1>3, <1>4, Types DEF NoFrameLost, Drained, StreamInv
  <1>6. Init => OverflowAtTorn
    BY DEF Init, NoCursor, OverflowAtTorn
  <1> QED BY <1>1, <1>2, <1>5, <1>6, OverflowInvariant, StreamInvariant, PTL DEF Spec
=============================================================================
