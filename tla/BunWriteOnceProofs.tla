-------------------------- MODULE BunWriteOnceProofs --------------------------
(***************************************************************************)
(* bun_unwind on a shared buffer implements BunWriteOnce when every handle *)
(* is write-once: each step of a thread is a step of the abstract buffer   *)
(* or does not show in it.  The argument rests on UnwindInv.               *)
(***************************************************************************)
EXTENDS BunUnwindProofs

(* A step that stores nothing to the payload and decides nothing about its *)
(* owner does not show ...                                                 *)
LEMMA InvisibleStep ==
  ASSUME UNCHANGED <<hdr, slot, won, result, spoiled>>
  PROVE  UNCHANGED Buffer!vars
  <1>1. Reported' <=> Reported
    BY DEF Reported
  <1>2. ReportInBuffer' = ReportInBuffer
    BY <1>1 DEF ReportInBuffer
  <1> QED BY <1>2 DEF Buffer!vars

(* ... and nor does one before and after which there is no report. *)
LEMMA HiddenStep ==
  ASSUME UNCHANGED <<won, spoiled>>, ~Reported, ~Reported'
  PROVE  UNCHANGED Buffer!vars
  <1>1. ReportInBuffer = Null /\ ReportInBuffer' = Null
    BY DEF ReportInBuffer
  <1> QED BY <1>1 DEF Buffer!vars

(* The stores of the backend's loop do not show: the owner's because it    *)
(* has not returned, those of a refused call because they miss the payload *)
(* or the buffer is spoiled already.                                       *)
LEMMA LoopHidden ==
  ASSUME UnwindInv, NEW t \in Threads, pc[t] \in Writing,
         UNCHANGED <<won, result, spoiled>>,
         ~writer[t].header /\ ~writer[t].cursor => hdr' = hdr /\ slot' = slot
  PROVE  UNCHANGED Buffer!vars
  <1>1. CASE id[t] \in won
    <2>1. \A c \in won : ~(result[c] > 0)
      BY <1>1, OwnerAlone DEF Writing
    <2>2. ~Reported /\ ~Reported'
      BY <2>1 DEF Reported
    <2> QED BY <2>2, HiddenStep
  <1>2. CASE spoiled
    <2>1. ~Reported /\ ~Reported'
      BY <1>2 DEF Reported
    <2> QED BY <2>1, HiddenStep
  <1>3. CASE id[t] \notin won /\ ~spoiled
    <2>1. ~writer[t].header /\ ~writer[t].cursor
      BY <1>3 DEF UnwindInv, WritersPlaced
    <2> QED BY <2>1, InvisibleStep
  <1> QED BY <1>1, <1>2, <1>3

(* bun_writer_init returns true: the buffer is acquired. *)
LEMMA WriteHeaderAcquires ==
  ASSUME UnwindInv, NEW t \in Threads, WriteHeader(t)
  PROVE  Buffer!Acquire
  <1>1. /\ pc[t] = "header" /\ won = {} /\ won' = {id[t]}
        /\ UNCHANGED <<result, spoiled>>
    BY DEF WriteHeader, At, UnwindInv, SingleWriter, Opening
  <1>2. id[t] \in CallIds /\ result[id[t]] = -1
    BY <1>1, CallNumbered
  <1>3. ~Reported /\ ~Reported'
    BY <1>1, <1>2 DEF Reported
  <1>4. ReportInBuffer = Null /\ ReportInBuffer' = Null
    BY <1>3 DEF ReportInBuffer
  <1> QED BY <1>1, <1>2, <1>4 DEF Buffer!Acquire

(* A refused call ends the buffer's promise if its bun_writer points into  *)
(* the buffer; otherwise it does not show.                                 *)
LEMMA RefusedSpoils ==
  ASSUME UnwindInv, NEW t \in Threads, Refused(t)
  PROVE  Buffer!Spoil \/ UNCHANGED Buffer!vars
  <1>1. UNCHANGED <<hdr, slot, won, result>>
    BY DEF Refused, shared
  <1>2. spoiled => spoiled'
    BY DEF Refused
  <1>3. spoiled \in BOOLEAN /\ spoiled' \in BOOLEAN
    <2>1. spoiled \in BOOLEAN
      BY DEF UnwindInv, TypeOK
    <2>2. \/ UNCHANGED spoiled
          \/ \E w \in StaleWriters : spoiled' = (spoiled \/ w.header \/ w.cursor)
      BY DEF Refused
    <2>3. ASSUME NEW w, spoiled' = (spoiled \/ w.header \/ w.cursor)
          PROVE  spoiled' \in BOOLEAN
      BY <2>3, Zenon
    <2> QED BY <2>1, <2>2, <2>3
  <1>4. CASE spoiled' = spoiled
    BY <1>1, <1>4, InvisibleStep
  <1>5. CASE spoiled' # spoiled
    <2>1. ~spoiled /\ spoiled' = TRUE
      BY <1>2, <1>3, <1>5
    <2>2. ~Reported'
      BY <2>1 DEF Reported
    <2>3. ReportInBuffer' = Null
      BY <2>2 DEF ReportInBuffer
    <2> QED BY <1>1, <2>1, <2>3 DEF Buffer!Spoil
  <1> QED BY <1>4, <1>5

(* The owner returns a size: its report is published. *)
LEMMA OwnerPublishes ==
  ASSUME UnwindInv, NEW t \in Threads, pc[t] = "walk", id[t] \in won, ~spoiled,
         NEW n, n > 0, Return(t, n)
  PROVE  Buffer!Publish
  <1>1. /\ won' = won /\ hdr' = hdr /\ slot' = slot /\ spoiled' = spoiled
        /\ result' = [result EXCEPT ![id[t]] = n]
    BY DEF Return, shared
  <1>2. id[t] \in CallIds /\ Arg(t) \in Handles
    BY CallNumbered
  <1>3. ReportInBuffer = Null
    <2>1. ~Reported
      BY OwnerAlone DEF Reported
    <2> QED BY <2>1 DEF ReportInBuffer
  <1>4. Reported'
    BY <1>1, <1>2 DEF Reported, UnwindInv, TypeOK
  <1> DEFINE frames == {slot[i] : i \in {j \in 1..Slots : j < hdr.size}}
  <1>5. ReportInBuffer' = [size |-> hdr.size, tid |-> hdr.tid, backend |-> hdr.backend,
                           frames |-> frames]
    BY <1>1, <1>4 DEF ReportInBuffer
  <1>6. /\ hdr.size = writer[t].used + 1 /\ hdr.tid = t /\ hdr.backend = Arg(t)
        /\ \A i \in 1..Slots : i <= writer[t].used => slot[i] = id[t]
    BY OwnerPayload DEF OwnPayload, Writing
  <1>7. writer[t].used \in Nat /\ Slots \in Nat
    BY UnwindBoundsAssumption DEF UnwindInv, TypeOK, Writer
  <1>8. \A i \in 1..Slots : i < hdr.size <=> i <= writer[t].used
    BY <1>6, <1>7
  <1>9. frames = IF hdr.size = 1 \/ Slots = 0 THEN {} ELSE {id[t]}
    <2>1. CASE hdr.size = 1 \/ Slots = 0
      <3>1. {j \in 1..Slots : j < hdr.size} = {}
        BY <1>7, <2>1
      <3> QED BY <2>1, <3>1
    <2>2. CASE ~(hdr.size = 1 \/ Slots = 0)
      <3>1. 1 \in 1..Slots /\ 1 < hdr.size
        BY <1>6, <1>7, <2>2
      <3>2. \A i \in {j \in 1..Slots : j < hdr.size} : slot[i] = id[t]
        BY <1>6, <1>8
      <3> QED BY <2>2, <3>1, <3>2
    <2> QED BY <2>1, <2>2
  <1> HIDE DEF frames
  <1>10. ReportInBuffer' \in Buffer!ReportsOf(id[t])
    <2>1. hdr.size \in Nat \ {0} /\ frames \subseteq CallIds
      BY <1>2, <1>6, <1>7, <1>9
    <2> QED BY <1>2, <1>5, <1>6, <1>9, <2>1 DEF Buffer!ReportsOf
  <1> QED BY <1>1, <1>3, <1>10 DEF Buffer!Publish

(* Any other return does not show: neither a result of 0, nor the result   *)
(* of a call that was refused, nor anything once the buffer is spoiled.    *)
LEMMA OtherReturn ==
  ASSUME UnwindInv, NEW t \in Threads, pc[t] = "walk", NEW n,
         id[t] \notin won \/ ~(n > 0) \/ spoiled, Return(t, n)
  PROVE  UNCHANGED Buffer!vars
  <1>1. /\ UNCHANGED <<won, hdr, slot, spoiled>>
        /\ result' = [result EXCEPT ![id[t]] = n]
    BY DEF Return, shared
  <1>2. id[t] \in CallIds /\ result[id[t]] = -1
    BY CallNumbered
  <1>3. Reported' <=> Reported
    <2>1. CASE spoiled
      BY <1>1, <2>1 DEF Reported
    <2>2. CASE id[t] \notin won \/ ~(n > 0)
      <3>1. \A c \in won : c \in CallIds
        BY DEF UnwindInv, TypeOK
      <3>2. \A c \in won : result'[c] > 0 <=> result[c] > 0
        <4> SUFFICES ASSUME NEW c \in won PROVE result'[c] > 0 <=> result[c] > 0
          OBVIOUS
        <4>1. CASE c = id[t]
          BY <1>1, <1>2, <2>2, <4>1 DEF UnwindInv, TypeOK
        <4>2. CASE c # id[t]
          BY <1>1, <3>1, <4>2 DEF UnwindInv, TypeOK
        <4> QED BY <4>1, <4>2
      <3> QED BY <1>1, <3>2 DEF Reported
    <2> QED BY <2>1, <2>2
  <1>4. ReportInBuffer' = ReportInBuffer
    BY <1>1, <1>3 DEF ReportInBuffer
  <1> QED BY <1>1, <1>4 DEF Buffer!vars

(* Each step of a thread inside bun_unwind. *)
LEMMA StepRefines ==
  ASSUME UnwindInv, NEW t \in Threads, Step(t)
  PROVE  [Buffer!Next]_(Buffer!vars)
  <1>1. CASE CheckHandle(t) \/ BindHandle(t) \/ CheckFlags(t) \/ FetchAdd(t)
               \/ OverrunFaults(t)
    BY <1>1, InvisibleStep
       DEF CheckHandle, BindHandle, CheckFlags, FetchAdd, OverrunFaults, shared, history
  <1>2. CASE OpenWriter(t)
    <2>1. won = {} /\ UNCHANGED <<won, result, spoiled>>
      BY <1>2 DEF OpenWriter, At, history, UnwindInv, SingleWriter, Opening
    <2>2. ~Reported /\ ~Reported'
      BY <2>1 DEF Reported
    <2> QED BY <2>1, <2>2, HiddenStep
  <1>3. CASE WriteHeader(t)
    BY <1>3, WriteHeaderAcquires DEF Buffer!Next
  <1>4. CASE Refused(t)
    BY <1>4, RefusedSpoils DEF Buffer!Next
  <1>5. CASE SetBackend(t)
    BY <1>5, LoopHidden DEF SetBackend, At, Writing, history
  <1>6. CASE StoreFrame(t)
    BY <1>6, LoopHidden DEF StoreFrame, Store, At, Writing, history
  <1>7. CASE LoadSize(t)
    BY <1>7, InvisibleStep DEF LoadSize, shared, history
  <1>8. CASE StoreSize(t)
    BY <1>8, LoopHidden DEF StoreSize, At, Writing, history
  <1>9. ASSUME pc[t] = "walk", NEW n, Return(t, n) PROVE [Buffer!Next]_(Buffer!vars)
    <2>1. CASE id[t] \in won /\ n > 0 /\ ~spoiled
      BY <1>9, <2>1, OwnerPublishes DEF Buffer!Next
    <2>2. CASE ~(id[t] \in won /\ n > 0 /\ ~spoiled)
      BY <1>9, <2>2, OtherReturn
    <2> QED BY <2>1, <2>2
  <1> QED BY <1>1, <1>2, <1>3, <1>4, <1>5, <1>6, <1>7, <1>8, <1>9
             DEF Step, BufferFull, EndOfStack, BackendFails, At

-----------------------------------------------------------------------------
(* bun_unwind with write-once handles implements the abstract write-once   *)
(* buffer, for any number of threads, handles, frames and calls up to the  *)
(* 2^31 at which write_count looks negative: one call gets the buffer, and *)
(* what it reports is its own and stays, until a refused call goes on with *)
(* a pointer into the buffer.                                              *)
THEOREM UnwindImplementsWriteOnce ==
  ASSUME WriteOnce = Handles, MaxCalls <= SignLimit
  PROVE  Spec => ImplementsWriteOnce
  <1>1. Init => Buffer!Init
    BY DEF Init, Buffer!Init, ReportInBuffer, Reported
  <1>2. UnwindInv /\ [Next]_vars => [Buffer!Next]_(Buffer!vars)
    <2> SUFFICES ASSUME UnwindInv, [Next]_vars PROVE [Buffer!Next]_(Buffer!vars)
      OBVIOUS
    <2>1. ASSUME NEW t \in Threads, Step(t) PROVE [Buffer!Next]_(Buffer!vars)
      BY <2>1, StepRefines
    <2>2. ASSUME NEW t \in Threads, NEW h \in Handles, Call(t, h)
          PROVE  [Buffer!Next]_(Buffer!vars)
      BY <2>2, InvisibleStep DEF Call, shared, history
    <2>3. CASE UNCHANGED vars
      BY <2>3, InvisibleStep DEF vars, shared, history
    <2> QED BY <2>1, <2>2, <2>3 DEF Next
  <1> QED BY <1>1, <1>2, WriteOnceInvariant, PTL
          DEF Spec, ImplementsWriteOnce, Buffer!Spec
=============================================================================
