--------------------------- MODULE BunUnwindProofs ---------------------------
(***************************************************************************)
(* Proofs about BunUnwind, for any number of threads, handles and slots:   *)
(* what BUN_HANDLE_WRITE_ONCE guarantees when every handle carries it and  *)
(* the buffer is used for at most 2^31 calls.                              *)
(***************************************************************************)
EXTENDS BunUnwind, FiniteSetTheorems, TLAPS

(* The numbers of calls that passed write_count are finitely many. *)
LEMMA CountedFinite ==
  ASSUME TypeOK
  PROVE  /\ IsFiniteSet(Counted) /\ Cardinality(Counted) \in Nat
         /\ Counted \subseteq 1..calls
  <1>1. calls \in Int /\ Counted \subseteq 1..calls
    BY UnwindBoundsAssumption DEF TypeOK, Counted
  <1>2. IsFiniteSet(1..calls)
    BY <1>1, FS_Interval
  <1> QED BY <1>1, <1>2, FS_Subset, FS_CardinalityType

(* A step of one thread that does not go back before atomic_fetch_add      *)
(* leaves at least as many calls behind it.                                *)
LEMMA CountedGrows ==
  ASSUME TypeOK, TypeOK', NEW t \in Threads, NEW to, Goto(t, to),
         UNCHANGED locals,
         pc[t] \in BeforeCount \/ to \notin BeforeCount
  PROVE  /\ Counted \subseteq Counted'
         /\ IsFiniteSet(Counted') /\ Cardinality(Counted') \in Nat
         /\ Cardinality(Counted) <= Cardinality(Counted')
  <1>1. Counted \subseteq Counted'
    BY DEF TypeOK, Counted, Goto, locals
  <1>2. IsFiniteSet(Counted')
    <2>1. calls' \in Int /\ Counted' \subseteq 1..calls'
      BY UnwindBoundsAssumption DEF TypeOK, Counted
    <2>2. IsFiniteSet(1..calls')
      BY <2>1, FS_Interval
    <2> QED BY <2>1, <2>2, FS_Subset
  <1> QED BY <1>1, <1>2, FS_Subset, FS_CardinalityType

LEMMA InitUnwind == Init => UnwindInv
  <1> SUFFICES ASSUME Init PROVE UnwindInv
    OBVIOUS
  <1>1. TypeOK
    <2>1. /\ slot \in [1..Slots -> 0..MaxCalls]
          /\ result \in [CallIds -> Nat \cup {-1}]
          /\ id \in [Threads -> 0..MaxCalls]
      BY UnwindBoundsAssumption DEF Init
    <2>2. writeCount \in 0..(2 * SignLimit - 1) /\ calls \in 0..MaxCalls
      BY UnwindBoundsAssumption, LimitsAssumption DEF Init
    <2>3. writer \in [Threads -> Writer]
      BY UnwindBoundsAssumption DEF Init, NoWriter, Writer
    <2> QED BY <2>1, <2>2, <2>3 DEF Init, TypeOK
  <1>2. writeCount <= Cardinality(Counted)
    BY <1>1, CountedFinite DEF Init
  <1>3. CallsDistinct
    BY DEF Init, CallsDistinct
  <1>4. SingleWriter /\ WriteOnceExclusive
    BY DEF Init, SingleWriter, WriteOnceExclusive, Opening, Writing, BeforeCount
  <1>5. WritersPlaced /\ PayloadInOrder /\ ReportIntact
    BY DEF Init, WritersPlaced, PayloadInOrder, ReportIntact, Writing
  <1> QED BY <1>1, <1>2, <1>3, <1>4, <1>5 DEF Init, UnwindInv

(* A thread inside bun_unwind has the number of a call, its own. *)
LEMMA CallNumbered ==
  ASSUME UnwindInv, NEW t \in Threads, pc[t] # "idle"
  PROVE  /\ id[t] \in 1..calls /\ id[t] \in CallIds
         /\ result[id[t]] = -1
         /\ by[id[t]].thread = t /\ Arg(t) \in Handles
         /\ \A u \in Threads : u # t => id[u] # id[t]
  <1>1. id[t] \in 0..MaxCalls /\ calls \in 0..MaxCalls
    BY DEF UnwindInv, TypeOK
  <1>2. /\ id[t] <= calls /\ id[t] > 0 /\ result[id[t]] = -1
        /\ by[id[t]].thread = t /\ Arg(t) \in Handles
        /\ \A u \in Threads : u # t => id[u] # id[t]
    BY DEF UnwindInv, CallsDistinct
  <1> QED BY <1>1, <1>2, UnwindBoundsAssumption DEF CallIds

(* What a step of a thread that stays inside bun_unwind cannot disturb. *)
LEMMA InsideStep ==
  ASSUME UnwindInv, TypeOK', NEW t \in Threads, NEW to, to # "idle",
         pc[t] # "idle", Goto(t, to), UNCHANGED <<locals, result>>
  PROVE  /\ pc'[t] = to
         /\ \A u \in Threads : u # t => pc'[u] = pc[u]
         /\ \A u \in Threads : id'[u] = id[u] /\ Arg(u)' = Arg(u)
         /\ CallsDistinct'
  <1>1. /\ pc'[t] = to
        /\ \A u \in Threads : u # t => pc'[u] = pc[u]
    BY DEF UnwindInv, TypeOK, Goto
  <1>2. \A u \in Threads : id'[u] = id[u] /\ Arg(u)' = Arg(u)
    BY DEF locals, Arg
  <1>3. id' = id /\ by' = by /\ calls' = calls
    BY DEF locals
  <1>4. CallsDistinct'
    BY <1>1, <1>2, <1>3 DEF UnwindInv, CallsDistinct
  <1> QED BY <1>1, <1>2, <1>4

(* A step that does not touch write_count keeps it below the calls that    *)
(* have passed it.                                                         *)
LEMMA CountKept ==
  ASSUME UnwindInv, TypeOK', NEW t \in Threads, NEW to, Goto(t, to),
         UNCHANGED <<writeCount, locals>>,
         pc[t] \in BeforeCount \/ to \notin BeforeCount
  PROVE  writeCount' <= Cardinality(Counted')
  <1>1. /\ Cardinality(Counted) <= Cardinality(Counted')
        /\ Cardinality(Counted') \in Nat
    BY CountedGrows DEF UnwindInv
  <1>2. Cardinality(Counted) \in Nat /\ writeCount \in Nat
    BY CountedFinite, LimitsAssumption DEF UnwindInv, TypeOK
  <1> QED BY <1>1, <1>2 DEF UnwindInv

(* The payload and the report do not change under a thread that stores     *)
(* nothing to them and is not in the loop of their owner.                  *)
LEMMA PayloadKept ==
  ASSUME UnwindInv, NEW t \in Threads, pc'[t] \notin Writing \/ id'[t] \notin won',
         \A u \in Threads : u # t => /\ pc'[u] = pc[u] /\ id'[u] = id[u]
                                     /\ Arg(u)' = Arg(u) /\ writer'[u] = writer[u]
                                     /\ load'[u] = load[u],
         UNCHANGED <<hdr, slot, won>>, ~spoiled' => ~spoiled
  PROVE  PayloadInOrder'
  <1> SUFFICES ASSUME ~spoiled', NEW u \in Threads, pc'[u] \in Writing, id'[u] \in won'
               PROVE  OwnPayload(u)'
    BY DEF PayloadInOrder
  <1>1. /\ u # t /\ pc'[u] = pc[u] /\ id'[u] = id[u] /\ Arg(u)' = Arg(u)
        /\ writer'[u] = writer[u] /\ load'[u] = load[u]
    OBVIOUS
  <1>2. OwnPayload(u)
    BY <1>1 DEF UnwindInv, PayloadInOrder
  <1> QED BY <1>1, <1>2 DEF OwnPayload

(* The tests of bun_writer_init before atomic_fetch_add touch nothing that *)
(* a writer depends on.                                                    *)
LEMMA BeforeCountStep ==
  ASSUME UnwindInv, TypeOK', NEW t \in Threads,
         NEW to \in BeforeCount \cup {"refused"},
         pc[t] \in BeforeCount, Goto(t, to),
         to \in {"flags", "count"} => handle' # Null,
         handle # Null => handle' # Null,
         UNCHANGED <<writeCount, hdr, slot, locals, writer, load, history>>
  PROVE  UnwindInv'
  <1>1. /\ pc'[t] = to
        /\ \A u \in Threads : u # t => pc'[u] = pc[u]
        /\ \A u \in Threads : id'[u] = id[u] /\ Arg(u)' = Arg(u)
        /\ CallsDistinct'
    BY InsideStep DEF BeforeCount, history
  <1>2. /\ won' = won /\ refused' = refused /\ result' = result
        /\ spoiled' = spoiled /\ id' = id /\ by' = by /\ calls' = calls
    BY DEF history, locals
  <1>3. \A u \in Threads : pc'[u] \in {"flags", "count"} => handle' # Null
    BY <1>1 DEF UnwindInv
  <1>4. writeCount' <= Cardinality(Counted')
    BY CountKept
  <1>5. SingleWriter' /\ WriteOnceExclusive'
    BY <1>1, <1>2 DEF UnwindInv, SingleWriter, WriteOnceExclusive,
                      Opening, Writing, BeforeCount
  <1>6. WritersPlaced'
    BY <1>1, <1>2 DEF UnwindInv, WritersPlaced, Writing, BeforeCount
  <1>7. PayloadInOrder'
    BY <1>1, <1>2, PayloadKept DEF Writing, BeforeCount
  <1>8. ReportIntact'
    BY <1>2 DEF UnwindInv, ReportIntact
  <1> QED BY <1>1, <1>3, <1>4, <1>5, <1>6, <1>7, <1>8 DEF UnwindInv

LEMMA CheckHandleInv ==
  ASSUME UnwindInv, NEW t \in Threads, CheckHandle(t)
  PROVE  UnwindInv'
  <1> DEFINE to == CASE handle = Null -> "bind"
                     [] handle = Arg(t) -> "flags"
                     [] OTHER -> "refused"
  <1>1. /\ to \in {"bind", "flags", "refused"}
        /\ to = "flags" => handle # Null
    <2>0. Arg(t) # Null
      BY HandlesAssumption, CallNumbered DEF CheckHandle, At
    <2>1. CASE handle = Null
      BY <2>0, <2>1
    <2>2. CASE handle # Null /\ handle = Arg(t)
      BY <2>2
    <2>3. CASE handle # Null /\ handle # Arg(t)
      BY <2>3
    <2> QED BY <2>1, <2>2, <2>3
  <1>2. pc[t] = "check" /\ Goto(t, to)
          /\ UNCHANGED <<shared, locals, writer, load, history>>
    BY DEF CheckHandle, At
  <1> HIDE DEF to
  <1>3. TypeOK'
    BY <1>1, <1>2 DEF UnwindInv, TypeOK, Goto, shared, locals, history
  <1> QED BY <1>1, <1>2, <1>3, BeforeCountStep DEF BeforeCount, shared

LEMMA BindHandleInv ==
  ASSUME UnwindInv, NEW t \in Threads, BindHandle(t)
  PROVE  UnwindInv'
  <1>1. /\ pc[t] = "bind" /\ Goto(t, "flags") /\ handle' = Arg(t)
        /\ UNCHANGED <<writeCount, hdr, slot, locals, writer, load, history>>
    BY DEF BindHandle, At
  <1>2. Arg(t) \in Handles /\ Arg(t) # Null
    BY <1>1, HandlesAssumption, CallNumbered
  <1>3. TypeOK'
    BY <1>1, <1>2 DEF UnwindInv, TypeOK, Goto, locals, history
  <1> QED BY <1>1, <1>2, <1>3, BeforeCountStep DEF BeforeCount

(* Every handle is write-once, so the counter is always consulted. *)
LEMMA CheckFlagsInv ==
  ASSUME WriteOnce = Handles, UnwindInv, NEW t \in Threads, CheckFlags(t)
  PROVE  UnwindInv'
  <1>1. handle \in WriteOnce /\ handle # Null
    BY DEF UnwindInv, TypeOK, CheckFlags, At
  <1>2. /\ pc[t] = "flags" /\ Goto(t, "count")
        /\ UNCHANGED <<shared, locals, writer, load, history>>
    BY <1>1 DEF CheckFlags, At
  <1>3. TypeOK'
    BY <1>2 DEF UnwindInv, TypeOK, Goto, shared, locals, history
  <1> QED BY <1>1, <1>2, <1>3, BeforeCountStep DEF BeforeCount, shared

(* The first atomic_fetch_add finds 0 and opens the only writer; all the   *)
(* others find a count between 1 and INT_MAX and are refused.              *)
LEMMA FetchAddInv ==
  ASSUME MaxCalls <= SignLimit, UnwindInv, NEW t \in Threads, FetchAdd(t)
  PROVE  UnwindInv'
  <1> DEFINE to == IF Signed(writeCount) > 0 THEN "refused" ELSE "open"
  <1>1. /\ pc[t] = "count" /\ Goto(t, to)
        /\ writeCount' = (writeCount + 1) % (2 * SignLimit)
        /\ UNCHANGED <<handle, hdr, slot, locals, writer, load, history>>
    BY DEF FetchAdd, At
  <1>2. /\ calls \in 0..MaxCalls /\ id[t] \in 1..calls /\ writeCount \in Nat
        /\ SignLimit \in Nat /\ MaxCalls \in Nat
    <2>1. /\ id[t] \in 0..MaxCalls /\ calls \in 0..MaxCalls
          /\ writeCount \in 0..(2 * SignLimit - 1)
      BY DEF UnwindInv, TypeOK
    <2>2. id[t] <= calls /\ id[t] > 0
      BY <1>1 DEF UnwindInv, CallsDistinct
    <2> QED BY <2>1, <2>2, UnwindBoundsAssumption, LimitsAssumption
  <1>3. /\ IsFiniteSet(Counted) /\ Cardinality(Counted) \in Nat
        /\ Counted \subseteq 1..calls /\ id[t] \notin Counted
    BY <1>1, CountedFinite DEF UnwindInv, Counted, BeforeCount
  <1>4. IsFiniteSet(Counted \cup {id[t]})
          /\ Cardinality(Counted \cup {id[t]}) = Cardinality(Counted) + 1
    BY <1>3, FS_AddElement
  <1>5. writeCount < SignLimit
    <2>1. Counted \cup {id[t]} \subseteq 1..calls
      BY <1>2, <1>3
    <2>2. IsFiniteSet(1..calls) /\ Cardinality(1..calls) = calls
      BY <1>2, FS_Interval
    <2>3. Cardinality(Counted) + 1 <= calls
      BY <1>4, <2>1, <2>2, FS_Subset
    <2> QED BY <1>2, <1>3, <2>3 DEF UnwindInv
  <1>6. writeCount' = writeCount + 1
    BY <1>1, <1>2, <1>5
  <1>7. to = (IF writeCount > 0 THEN "refused" ELSE "open")
    BY <1>5 DEF Signed
  <1> HIDE DEF to
  <1>8. /\ pc'[t] = to /\ to \in {"refused", "open"}
        /\ \A u \in Threads : u # t => pc'[u] = pc[u]
    BY <1>1, <1>7 DEF UnwindInv, TypeOK, Goto
  <1>9. TypeOK'
    <2>1. writeCount' \in 0..(2 * SignLimit - 1)
      BY <1>2, <1>5, <1>6
    <2> QED BY <1>1, <1>8, <2>1 DEF UnwindInv, TypeOK, Goto, locals, history
  <1>10. /\ CallsDistinct'
         /\ \A u \in Threads : id'[u] = id[u] /\ Arg(u)' = Arg(u)
    BY <1>1, <1>8, <1>9, InsideStep DEF history
  <1>11. \A u \in Threads : pc'[u] \in {"flags", "count"} => handle' # Null
    BY <1>1, <1>8 DEF UnwindInv
  <1>15. /\ Counted \subseteq Counted'
         /\ IsFiniteSet(Counted') /\ Cardinality(Counted') \in Nat
    BY <1>1, <1>8, <1>9, CountedGrows DEF UnwindInv, BeforeCount
  <1>12. writeCount' <= Cardinality(Counted')
    <2>1. Counted \cup {id[t]} \subseteq Counted'
      <3>1. Counted \subseteq Counted'
        BY <1>15
      <3>2. id[t] \in Counted'
        BY <1>1, <1>2, <1>8 DEF UnwindInv, CallsDistinct, Counted, BeforeCount, locals
      <3> QED BY <3>1, <3>2
    <2>3. Cardinality(Counted) + 1 <= Cardinality(Counted')
      BY <1>4, <1>15, <2>1, FS_Subset
    <2> QED BY <1>2, <1>3, <1>6, <1>15, <2>3 DEF UnwindInv
  <1>16. /\ won' = won /\ refused' = refused /\ result' = result
         /\ spoiled' = spoiled /\ id' = id /\ by' = by /\ calls' = calls
    BY <1>1 DEF history, locals
  <1>13. SingleWriter'
    <2>1. CASE writeCount > 0
      <3>1. \A u \in Threads : pc'[u] \in Opening => pc[u] \in Opening
        BY <1>7, <1>8, <2>1 DEF Opening
      <3> QED BY <1>1, <1>2, <1>6, <1>7, <1>8, <1>16, <2>1, <3>1
                 DEF UnwindInv, SingleWriter, Opening, Writing, BeforeCount
    <2>2. CASE writeCount = 0
      <3>1. won' = {} /\ \A u \in Threads : pc[u] \notin Opening
        BY <1>16, <2>2 DEF UnwindInv, SingleWriter
      <3>2. \A u \in Threads : pc'[u] \in Opening => u = t
        BY <1>8, <3>1
      <3> QED BY <1>6, <1>8, <1>16, <2>2, <3>1, <3>2
                 DEF UnwindInv, SingleWriter, Opening, Writing, BeforeCount
    <2> QED BY <1>2, <2>1, <2>2
  <1>14. WriteOnceExclusive' /\ ReportIntact'
    BY <1>1, <1>16 DEF UnwindInv, WriteOnceExclusive, ReportIntact
  <1>17. WritersPlaced'
    BY <1>1, <1>8, <1>16 DEF UnwindInv, WritersPlaced, Writing
  <1>18. PayloadInOrder'
    BY <1>1, <1>8, <1>10, <1>16, PayloadKept DEF Writing
  <1> QED BY <1>9, <1>10, <1>11, <1>12, <1>13, <1>14, <1>17, <1>18 DEF UnwindInv

(* The owner of the payload is alone behind bun_writer_init's success. *)
LEMMA OwnerAlone ==
  ASSUME UnwindInv, NEW t \in Threads, pc[t] # "idle", id[t] \in won
  PROVE  /\ won = {id[t]}
         /\ \A u \in Threads : u # t => id[u] \notin won
         /\ \A c \in won : ~(result[c] > 0)
  <1>1. won = {id[t]}
    BY DEF UnwindInv, WriteOnceExclusive
  <1>2. result[id[t]] = -1 /\ \A u \in Threads : u # t => id[u] # id[t]
    BY CallNumbered
  <1> QED BY <1>1, <1>2

LEMMA OpenWriterInv ==
  ASSUME UnwindInv, NEW t \in Threads, OpenWriter(t)
  PROVE  UnwindInv'
  <1> DEFINE w == [header |-> TRUE, cursor |-> TRUE, used |-> 0]
  <1>1. /\ pc[t] = "open" /\ Goto(t, "header")
        /\ writer' = [writer EXCEPT ![t] = w]
        /\ hdr' = [hdr EXCEPT !.magic = TRUE]
        /\ UNCHANGED <<handle, writeCount, slot, locals, load, history>>
    BY DEF OpenWriter, At
  <1>2. w \in Writer
    BY UnwindBoundsAssumption DEF Writer
  <1>3. TypeOK'
    <2>1. writer' \in [Threads -> Writer]
      BY <1>1, <1>2 DEF UnwindInv, TypeOK
    <2> HIDE DEF w
    <2> QED BY <1>1, <2>1 DEF UnwindInv, TypeOK, Goto, locals, history
  <1>4. /\ pc'[t] = "header"
        /\ \A u \in Threads : u # t => pc'[u] = pc[u]
        /\ \A u \in Threads : id'[u] = id[u] /\ Arg(u)' = Arg(u)
        /\ CallsDistinct'
    BY <1>1, <1>3, InsideStep DEF history
  <1>5. /\ won' = won /\ refused' = refused /\ result' = result
        /\ spoiled' = spoiled /\ id' = id /\ by' = by /\ calls' = calls
    BY <1>1 DEF history, locals
  <1>6. won = {} /\ writeCount > 0
    BY <1>1 DEF UnwindInv, SingleWriter, Opening
  <1>7. \A u \in Threads : u # t => pc[u] \notin Opening
    BY <1>1 DEF UnwindInv, SingleWriter, Opening
  <1>8. /\ writer'[t].header /\ writer'[t].cursor /\ writer'[t].used = 0 /\ hdr'.magic
        /\ \A u \in Threads : u # t => writer'[u] = writer[u]
    BY <1>1 DEF UnwindInv, TypeOK
  <1> HIDE DEF w
  <1>9. writeCount' <= Cardinality(Counted')
    BY <1>1, <1>3, CountKept DEF BeforeCount
  <1>10. SingleWriter'
    BY <1>1, <1>4, <1>5, <1>6, <1>7 DEF UnwindInv, SingleWriter, Opening, Writing, BeforeCount
  <1>11. WriteOnceExclusive' /\ ReportIntact' /\ PayloadInOrder'
    BY <1>5, <1>6 DEF WriteOnceExclusive, ReportIntact, PayloadInOrder
  <1>12. WritersPlaced'
    BY <1>4, <1>5, <1>6, <1>7, <1>8 DEF UnwindInv, WritersPlaced, Opening, Writing
  <1>13. \A u \in Threads : pc'[u] \in {"flags", "count"} => handle' # Null
    BY <1>1, <1>4 DEF UnwindInv
  <1> QED BY <1>3, <1>4, <1>9, <1>10, <1>11, <1>12, <1>13 DEF UnwindInv

LEMMA WriteHeaderInv ==
  ASSUME UnwindInv, NEW t \in Threads, WriteHeader(t)
  PROVE  UnwindInv'
  <1>1. /\ pc[t] = "header" /\ Goto(t, "backend")
        /\ hdr' = [hdr EXCEPT !.size = 1, !.tid = t, !.backend = Null]
        /\ won' = won \cup {id[t]}
        /\ UNCHANGED <<handle, writeCount, slot, locals, writer, load,
                       refused, result, spoiled, crashed>>
    BY DEF WriteHeader, At
  <1>2. /\ id[t] \in 1..calls /\ id[t] \in CallIds /\ result[id[t]] = -1
        /\ \A u \in Threads : u # t => id[u] # id[t]
    BY <1>1, CallNumbered
  <1>3. won = {} /\ writeCount > 0 /\ won' = {id[t]}
    BY <1>1 DEF UnwindInv, SingleWriter, Opening
  <1>4. TypeOK'
    BY <1>1, <1>2, <1>3 DEF UnwindInv, TypeOK, Goto, locals
  <1>5. /\ pc'[t] = "backend"
        /\ \A u \in Threads : u # t => pc'[u] = pc[u]
        /\ \A u \in Threads : id'[u] = id[u] /\ Arg(u)' = Arg(u)
        /\ CallsDistinct'
    BY <1>1, <1>4, InsideStep
  <1>6. id' = id /\ by' = by /\ calls' = calls
    BY <1>1 DEF locals
  <1>7. \A u \in Threads : u # t => pc[u] \notin Opening
    BY <1>1 DEF UnwindInv, SingleWriter, Opening
  <1>8. writeCount' <= Cardinality(Counted')
    BY <1>1, <1>4, CountKept DEF BeforeCount
  <1>9. SingleWriter'
    BY <1>1, <1>2, <1>3, <1>5, <1>6, <1>7
       DEF UnwindInv, SingleWriter, Opening, Writing, BeforeCount
  <1>10. WriteOnceExclusive' /\ ReportIntact'
    BY <1>1, <1>2, <1>3 DEF WriteOnceExclusive, ReportIntact
  <1>11. /\ writer[t].header /\ writer[t].cursor /\ writer[t].used = 0 /\ hdr.magic
    BY <1>1 DEF UnwindInv, WritersPlaced
  <1>12. WritersPlaced'
    BY <1>1, <1>2, <1>3, <1>5, <1>6, <1>7, <1>11
       DEF UnwindInv, WritersPlaced, Opening, Writing
  <1>13. PayloadInOrder'
    <2> SUFFICES ASSUME NEW u \in Threads, id'[u] \in won' PROVE OwnPayload(u)'
      BY DEF PayloadInOrder
    <2>1. u = t
      BY <1>2, <1>3, <1>6
    <2>2. hdr'.magic /\ hdr'.tid = t /\ hdr'.size = 1
      BY <1>1, <1>11 DEF UnwindInv, TypeOK
    <2>3. pc'[t] = "backend" /\ writer'[t].used = 0
      BY <1>1, <1>5, <1>11
    <2>4. \A i \in 1..Slots : ~(i <= 0)
      BY UnwindBoundsAssumption
    <2> QED BY <2>1, <2>2, <2>3, <2>4 DEF OwnPayload
  <1>14. \A u \in Threads : pc'[u] \in {"flags", "count"} => handle' # Null
    BY <1>1, <1>5 DEF UnwindInv
  <1> QED BY <1>4, <1>5, <1>8, <1>9, <1>10, <1>12, <1>13, <1>14 DEF UnwindInv

(* A refused call either faults or goes on with whatever its bun_writer    *)
(* holds; if that points into the buffer, the buffer counts as spoiled.    *)
LEMMA RefusedInv ==
  ASSUME UnwindInv, NEW t \in Threads, Refused(t)
  PROVE  UnwindInv'
  <1>1. /\ pc[t] = "refused" /\ refused' = refused \cup {id[t]}
        /\ UNCHANGED <<shared, locals, load, won, result>>
    BY DEF Refused, At
  <1>2. id[t] \notin won /\ id[t] \in CallIds
    BY <1>1, CallNumbered DEF UnwindInv, SingleWriter
  <1>3. /\ won' = won /\ result' = result /\ id' = id /\ by' = by /\ calls' = calls
        /\ hdr' = hdr /\ slot' = slot /\ handle' = handle /\ writeCount' = writeCount
    BY <1>1 DEF locals, shared
  <1>4. ASSUME NEW w \in StaleWriters, writer' = [writer EXCEPT ![t] = w],
               spoiled' = (spoiled \/ w.header \/ w.cursor),
               Goto(t, "backend"), UNCHANGED crashed
        PROVE  UnwindInv'
    <2>1. w \in Writer
      BY <1>4 DEF StaleWriters
    <2>2. TypeOK'
      <3>1. writer' \in [Threads -> Writer]
        BY <1>4, <2>1 DEF UnwindInv, TypeOK
      <3>2. spoiled' \in BOOLEAN
        BY <1>4
      <3> QED BY <1>1, <1>2, <1>3, <1>4, <3>1, <3>2 DEF UnwindInv, TypeOK, Goto
    <2>3. /\ pc'[t] = "backend"
          /\ \A u \in Threads : u # t => pc'[u] = pc[u]
          /\ \A u \in Threads : id'[u] = id[u] /\ Arg(u)' = Arg(u)
          /\ CallsDistinct'
      BY <1>1, <1>4, <2>2, InsideStep
    <2>4. writeCount' <= Cardinality(Counted')
      BY <1>1, <1>3, <1>4, <2>2, CountKept DEF BeforeCount
    <2>5. writer'[t] = w /\ \A u \in Threads : u # t => writer'[u] = writer[u]
      BY <1>4 DEF UnwindInv, TypeOK
    <2>6. SingleWriter' /\ WriteOnceExclusive'
      BY <1>1, <1>2, <1>3, <2>3
         DEF UnwindInv, SingleWriter, WriteOnceExclusive, Opening, Writing, BeforeCount
    <2>7. WritersPlaced'
      <3>1. spoiled' \/ (~w.header /\ ~w.cursor)
        BY <1>4
      <3>2. spoiled => spoiled'
        BY <1>4
      <3>3. /\ pc'[t] # "header" /\ pc'[t] \in Writing /\ id'[t] \notin won'
        BY <1>2, <1>3, <2>3 DEF Writing
      <3>4. ASSUME NEW u \in Threads, u # t
            PROVE  /\ pc'[u] = pc[u] /\ id'[u] = id[u] /\ writer'[u] = writer[u]
        BY <2>3, <2>5, <3>4
      <3> HIDE <1>4
      <3> QED BY <1>3, <2>5, <3>1, <3>2, <3>3, <3>4 DEF UnwindInv, WritersPlaced
    <2>8. PayloadInOrder'
      BY <1>1, <1>2, <1>3, <1>4, <2>3, <2>5, PayloadKept
    <2>9. ReportIntact'
      BY <1>3, <1>4 DEF UnwindInv, ReportIntact
    <2>10. \A u \in Threads : pc'[u] \in {"flags", "count"} => handle' # Null
      BY <1>3, <2>3 DEF UnwindInv
    <2> QED BY <2>2, <2>3, <2>4, <2>6, <2>7, <2>8, <2>9, <2>10 DEF UnwindInv
  <1>5. ASSUME crashed' = TRUE, UNCHANGED <<pc, writer, spoiled>>
        PROVE  UnwindInv'
    <2>1. TypeOK'
      BY <1>1, <1>2, <1>3, <1>5 DEF UnwindInv, TypeOK
    <2>2. CallsDistinct' /\ Counted' = Counted
      BY <1>3, <1>5 DEF UnwindInv, CallsDistinct, Arg, Counted
    <2>3. SingleWriter' /\ WriteOnceExclusive'
      BY <1>1, <1>3, <1>5 DEF UnwindInv, SingleWriter, WriteOnceExclusive
    <2>4. WritersPlaced' /\ PayloadInOrder' /\ ReportIntact'
      BY <1>1, <1>3, <1>5
         DEF UnwindInv, WritersPlaced, PayloadInOrder, OwnPayload, Arg, ReportIntact
    <2> QED BY <1>3, <1>5, <2>1, <2>2, <2>3, <2>4 DEF UnwindInv
  <1> QED BY <1>4, <1>5 DEF Refused

(* A step of the backend's loop: the owner keeps its own payload in order, *)
(* and the writer of a refused call reaches the payload only once the      *)
(* buffer is spoiled.                                                      *)
LEMMA LoopStep ==
  ASSUME UnwindInv, TypeOK', NEW t \in Threads, NEW to \in Writing,
         pc[t] \in Writing, Goto(t, to),
         UNCHANGED <<handle, writeCount, locals, history>>,
         writer'[t].header = writer[t].header, writer'[t].cursor = writer[t].cursor,
         \A u \in Threads : u # t => writer'[u] = writer[u] /\ load'[u] = load[u],
         hdr'.magic = hdr.magic,
         ~writer[t].header /\ ~writer[t].cursor => hdr' = hdr /\ slot' = slot,
         ~spoiled /\ id[t] \in won => OwnPayload(t)'
  PROVE  UnwindInv'
  <1>1. /\ pc'[t] = to
        /\ \A u \in Threads : u # t => pc'[u] = pc[u]
        /\ \A u \in Threads : id'[u] = id[u] /\ Arg(u)' = Arg(u)
        /\ CallsDistinct'
    BY InsideStep DEF Writing, history
  <1>2. /\ won' = won /\ refused' = refused /\ result' = result
        /\ spoiled' = spoiled /\ id' = id /\ by' = by /\ calls' = calls
    BY DEF history, locals
  <1>3. writeCount' <= Cardinality(Counted')
    BY CountKept DEF BeforeCount, Writing
  <1>4. SingleWriter' /\ WriteOnceExclusive'
    BY <1>1, <1>2 DEF UnwindInv, SingleWriter, WriteOnceExclusive,
                      Opening, Writing, BeforeCount
  <1>5. WritersPlaced'
    BY <1>1, <1>2 DEF UnwindInv, WritersPlaced, Writing
  <1>6. pc[t] # "idle"
    BY DEF Writing
  <1>9. \A u \in Threads : pc'[u] \in {"flags", "count"} => handle' # Null
    BY <1>1 DEF UnwindInv, Writing
  <1>7. CASE id[t] \in won
    <2>1. /\ \A u \in Threads : u # t => id[u] \notin won
          /\ \A c \in won : ~(result[c] > 0)
      BY <1>6, <1>7, OwnerAlone
    <2>2. PayloadInOrder'
      BY <1>2, <1>7, <2>1 DEF PayloadInOrder
    <2>3. ReportIntact'
      BY <1>2, <2>1 DEF ReportIntact
    <2> QED BY <1>1, <1>3, <1>4, <1>5, <1>9, <2>2, <2>3 DEF UnwindInv
  <1>8. CASE id[t] \notin won
    <2>1. ~spoiled => hdr' = hdr /\ slot' = slot
      BY <1>8 DEF UnwindInv, WritersPlaced
    <2>2. PayloadInOrder'
      <3>1. CASE spoiled
        BY <1>2, <3>1 DEF PayloadInOrder
      <3>2. CASE ~spoiled
        BY <1>1, <1>2, <1>8, <2>1, <3>2, PayloadKept
      <3> QED BY <3>1, <3>2
    <2>3. ReportIntact'
      BY <1>2, <2>1 DEF UnwindInv, ReportIntact
    <2> QED BY <1>1, <1>3, <1>4, <1>5, <1>9, <2>2, <2>3 DEF UnwindInv
  <1> QED BY <1>7, <1>8

(* What LoopStep needs of the owner's payload before the step. *)
LEMMA OwnerPayload ==
  ASSUME UnwindInv, NEW t \in Threads, pc[t] \in Writing, ~spoiled, id[t] \in won
  PROVE  OwnPayload(t) /\ writer[t].header /\ writer[t].cursor
  BY DEF UnwindInv, PayloadInOrder, WritersPlaced

LEMMA SetBackendInv ==
  ASSUME UnwindInv, NEW t \in Threads, SetBackend(t)
  PROVE  UnwindInv'
  <1> DEFINE set == [hdr EXCEPT !.backend = Arg(t),
                                !.tid = IF Arg(t) \in SetsTid THEN t ELSE @]
  <1>1. /\ pc[t] = "backend" /\ Goto(t, "walk")
        /\ hdr' = IF writer[t].header THEN set ELSE hdr
        /\ UNCHANGED <<handle, writeCount, slot, locals, writer, load, history>>
    BY DEF SetBackend, At
  <1>2. Arg(t) \in Handles
    BY <1>1, CallNumbered
  <1>3. /\ set \in [magic : BOOLEAN, size : Nat, tid : Threads \cup {Null},
                    backend : Handles \cup {Null}]
        /\ set.magic = hdr.magic /\ set.size = hdr.size
        /\ set.backend = Arg(t) /\ (hdr.tid = t => set.tid = t)
    BY <1>2 DEF UnwindInv, TypeOK
  <1> HIDE DEF set
  <1>4. TypeOK'
    BY <1>1, <1>3 DEF UnwindInv, TypeOK, Goto, locals, history
  <1>5. hdr'.magic = hdr.magic
    BY <1>1, <1>3
  <1>6. ASSUME ~spoiled, id[t] \in won PROVE OwnPayload(t)'
    <2>1. OwnPayload(t) /\ writer[t].header
      BY <1>1, <1>6, OwnerPayload DEF Writing
    <2>2. pc'[t] = "walk" /\ id'[t] = id[t] /\ Arg(t)' = Arg(t)
      BY <1>1 DEF UnwindInv, TypeOK, Goto, locals, Arg
    <2>3. /\ hdr'.magic /\ hdr'.tid = t /\ hdr'.backend = Arg(t) /\ hdr'.size = 1
          /\ writer[t].used = 0
      BY <1>1, <1>3, <2>1 DEF OwnPayload
    <2>4. \A i \in 1..Slots : ~(i <= 0)
      BY UnwindBoundsAssumption
    <2> QED BY <1>1, <2>2, <2>3, <2>4 DEF OwnPayload
  <1> QED BY <1>1, <1>4, <1>5, <1>6, LoopStep DEF Writing

LEMMA StoreFrameInv ==
  ASSUME UnwindInv, NEW t \in Threads, StoreFrame(t)
  PROVE  UnwindInv'
  <1> DEFINE n == writer[t].used
             w == [writer[t] EXCEPT !.used = n + 1]
  <1>1. /\ pc[t] = "walk" /\ Goto(t, "load")
        /\ writer[t].used < Slots + MaxPast
        /\ slot' = IF writer[t].cursor /\ n < Slots
                   THEN [slot EXCEPT ![n + 1] = id[t]] ELSE slot
        /\ writer' = [writer EXCEPT ![t] = w]
        /\ UNCHANGED <<handle, writeCount, hdr, locals, load, history>>
    BY DEF StoreFrame, Store, At
  <1>2. /\ writer[t] \in Writer /\ n \in 0..(Slots + MaxPast) /\ n + 1 \in 0..(Slots + MaxPast)
        /\ Slots \in Nat /\ MaxPast \in Nat
    <2>1. writer[t] \in Writer
      BY DEF UnwindInv, TypeOK
    <2>2. n \in 0..(Slots + MaxPast)
      BY <2>1 DEF Writer
    <2> QED BY <1>1, <2>1, <2>2, UnwindBoundsAssumption
  <1>3. /\ w \in Writer /\ w.header = writer[t].header /\ w.cursor = writer[t].cursor
        /\ w.used = n + 1
    BY <1>2 DEF Writer
  <1>4. id[t] \in CallIds /\ id[t] \in 0..MaxCalls
    BY <1>1, CallNumbered DEF UnwindInv, TypeOK
  <1> HIDE DEF w
  <1>5. /\ writer' \in [Threads -> Writer] /\ writer'[t] = w
        /\ \A u \in Threads : u # t => writer'[u] = writer[u]
    BY <1>1, <1>3 DEF UnwindInv, TypeOK
  <1>6. slot' \in [1..Slots -> 0..MaxCalls]
    BY <1>1, <1>4 DEF UnwindInv, TypeOK
  <1>7. TypeOK'
    BY <1>1, <1>5, <1>6 DEF UnwindInv, TypeOK, Goto, locals, history
  <1>8. ASSUME ~spoiled, id[t] \in won PROVE OwnPayload(t)'
    <2>1. OwnPayload(t) /\ writer[t].cursor
      BY <1>1, <1>8, OwnerPayload DEF Writing
    <2>2. pc'[t] = "load" /\ id'[t] = id[t] /\ Arg(t)' = Arg(t)
      BY <1>1 DEF UnwindInv, TypeOK, Goto, locals, Arg
    <2>3. ASSUME NEW i \in 1..Slots, i <= n + 1 PROVE slot'[i] = id[t]
      <3>1. CASE i = n + 1
        <4>1. n < Slots
          BY <1>2, <3>1
        <4> QED BY <1>1, <2>1, <3>1, <4>1 DEF UnwindInv, TypeOK
      <3>2. CASE i # n + 1
        <4>1. i <= n
          BY <1>2, <2>3, <3>2
        <4>2. slot[i] = id[t]
          BY <2>1, <4>1 DEF OwnPayload
        <4>3. slot'[i] = slot[i]
          BY <1>1, <3>2 DEF UnwindInv, TypeOK
        <4> QED BY <4>2, <4>3
      <3> QED BY <3>1, <3>2
    <2>4. writer'[t].used = n + 1
      BY <1>3, <1>5
    <2>5. hdr'.size = n + 1 /\ hdr' = hdr
      BY <1>1, <2>1 DEF OwnPayload
    <2> HIDE DEF n
    <2> QED BY <1>1, <2>1, <2>2, <2>3, <2>4, <2>5 DEF OwnPayload
  <1> QED BY <1>1, <1>3, <1>5, <1>7, <1>8, LoopStep DEF Writing

LEMMA LoadSizeInv ==
  ASSUME UnwindInv, NEW t \in Threads, LoadSize(t)
  PROVE  UnwindInv'
  <1>1. /\ pc[t] = "load" /\ Goto(t, "store")
        /\ load' = IF writer[t].header THEN [load EXCEPT ![t] = hdr.size] ELSE load
        /\ UNCHANGED <<handle, writeCount, hdr, slot, locals, writer, history>>
    BY DEF LoadSize, At, shared
  <1>2. TypeOK'
    <2>1. load' \in [Threads -> Nat]
      BY <1>1 DEF UnwindInv, TypeOK
    <2> QED BY <1>1, <2>1 DEF UnwindInv, TypeOK, Goto, locals, history
  <1>3. \A u \in Threads : u # t => load'[u] = load[u]
    BY <1>1 DEF UnwindInv, TypeOK
  <1>4. ASSUME ~spoiled, id[t] \in won PROVE OwnPayload(t)'
    <2>1. OwnPayload(t) /\ writer[t].header
      BY <1>1, <1>4, OwnerPayload DEF Writing
    <2>2. pc'[t] = "store" /\ id'[t] = id[t] /\ Arg(t)' = Arg(t) /\ load'[t] = hdr.size
      BY <1>1, <2>1 DEF UnwindInv, TypeOK, Goto, locals, Arg
    <2> QED BY <1>1, <2>1, <2>2 DEF OwnPayload
  <1> QED BY <1>1, <1>2, <1>3, <1>4, LoopStep DEF Writing

LEMMA StoreSizeInv ==
  ASSUME UnwindInv, NEW t \in Threads, StoreSize(t)
  PROVE  UnwindInv'
  <1>1. /\ pc[t] = "store" /\ Goto(t, "walk")
        /\ hdr' = IF writer[t].header THEN [hdr EXCEPT !.size = load[t] + 1] ELSE hdr
        /\ UNCHANGED <<handle, writeCount, slot, locals, writer, load, history>>
    BY DEF StoreSize, At
  <1>2. TypeOK'
    <2>1. hdr' \in [magic : BOOLEAN, size : Nat, tid : Threads \cup {Null},
                    backend : Handles \cup {Null}]
      <3>1. load[t] + 1 \in Nat
        BY DEF UnwindInv, TypeOK
      <3> QED BY <1>1, <3>1 DEF UnwindInv, TypeOK
    <2> QED BY <1>1, <2>1 DEF UnwindInv, TypeOK, Goto, locals, history
  <1>3. hdr'.magic = hdr.magic
    BY <1>1 DEF UnwindInv, TypeOK
  <1>4. ASSUME ~spoiled, id[t] \in won PROVE OwnPayload(t)'
    <2>1. OwnPayload(t) /\ writer[t].header
      BY <1>1, <1>4, OwnerPayload DEF Writing
    <2>2. pc'[t] = "walk" /\ id'[t] = id[t] /\ Arg(t)' = Arg(t)
      BY <1>1 DEF UnwindInv, TypeOK, Goto, locals, Arg
    <2>3. /\ hdr'.size = load[t] + 1 /\ hdr'.tid = hdr.tid
          /\ hdr'.backend = hdr.backend /\ hdr'.magic = hdr.magic
      BY <1>1, <2>1 DEF UnwindInv, TypeOK
    <2> QED BY <1>1, <2>1, <2>2, <2>3 DEF OwnPayload
  <1> QED BY <1>1, <1>2, <1>3, <1>4, LoopStep DEF Writing

(* A store past the payload that faults changes nothing else. *)
LEMMA OverrunInv ==
  ASSUME UnwindInv, NEW t \in Threads, OverrunFaults(t)
  PROVE  UnwindInv'
  <1>1. /\ UNCHANGED <<handle, writeCount, hdr, slot, pc, id, by, calls, writer, load,
                       won, refused, result, spoiled>>
        /\ crashed' = TRUE
    BY DEF OverrunFaults, shared, locals
  <1>2. TypeOK'
    BY <1>1 DEF UnwindInv, TypeOK
  <1>3. CallsDistinct' /\ Counted' = Counted
    BY <1>1 DEF UnwindInv, CallsDistinct, Arg, Counted
  <1>4. SingleWriter' /\ WriteOnceExclusive'
    BY <1>1 DEF UnwindInv, SingleWriter, WriteOnceExclusive
  <1>5. WritersPlaced' /\ PayloadInOrder' /\ ReportIntact'
    BY <1>1 DEF UnwindInv, WritersPlaced, PayloadInOrder, OwnPayload, Arg, ReportIntact
  <1> QED BY <1>1, <1>2, <1>3, <1>4, <1>5 DEF UnwindInv

(* The call returns 0 or header->size; in the second case the payload is   *)
(* the one it wrote.                                                       *)
LEMMA ReturnInv ==
  ASSUME UnwindInv, NEW t \in Threads, NEW n \in {0, hdr.size}, pc[t] = "walk",
         Return(t, n)
  PROVE  UnwindInv'
  <1>1. /\ Goto(t, "idle") /\ result' = [result EXCEPT ![id[t]] = n]
        /\ writer' = [writer EXCEPT ![t] = NoWriter]
        /\ load' = [load EXCEPT ![t] = 0]
        /\ UNCHANGED <<handle, writeCount, hdr, slot, id, by, calls,
                       won, refused, spoiled, crashed>>
    BY DEF Return, shared, locals
  <1>2. /\ id[t] \in CallIds /\ by[id[t]].thread = t /\ Arg(t) \in Handles
        /\ \A u \in Threads : u # t => id[u] # id[t]
        /\ id[t] \in 1..calls
    BY CallNumbered
  <1>3. TypeOK'
    <2>1. NoWriter \in Writer
      BY UnwindBoundsAssumption DEF NoWriter, Writer
    <2>2. writer' \in [Threads -> Writer] /\ load' \in [Threads -> Nat]
      BY <1>1, <2>1 DEF UnwindInv, TypeOK
    <2>3. n \in Nat
      BY DEF UnwindInv, TypeOK
    <2>4. result' \in [CallIds -> Nat \cup {-1}]
      BY <1>1, <2>3 DEF UnwindInv, TypeOK
    <2> QED BY <1>1, <2>2, <2>4 DEF UnwindInv, TypeOK, Goto
  <1>4. /\ pc'[t] = "idle"
        /\ \A u \in Threads : u # t => /\ pc'[u] = pc[u] /\ writer'[u] = writer[u]
                                       /\ load'[u] = load[u]
        /\ result'[id[t]] = n
        /\ \A c \in CallIds : c # id[t] => result'[c] = result[c]
        /\ \A u \in Threads : Arg(u)' = Arg(u)
    BY <1>1, <1>2 DEF UnwindInv, TypeOK, Goto, Arg
  <1>5. \A u \in Threads : u # t /\ pc[u] # "idle" =>
          /\ id[u] \in CallIds /\ result'[id[u]] = -1
      <2> SUFFICES ASSUME NEW u \in Threads, u # t, pc[u] # "idle"
                   PROVE  id[u] \in CallIds /\ result'[id[u]] = -1
        OBVIOUS
      <2>1. id[u] \in CallIds /\ result[id[u]] = -1
        BY CallNumbered
      <2> QED BY <1>2, <1>4, <2>1
  <1>6. CallsDistinct'
    <2>1. \A c \in CallIds : c > calls' => result'[c] = -1
      <3> SUFFICES ASSUME NEW c \in CallIds, c > calls PROVE result'[c] = -1
        BY <1>1
      <3>1. calls \in Int /\ c \in Int /\ id[t] \in 1..calls
        BY <1>2, UnwindBoundsAssumption DEF UnwindInv, TypeOK, CallIds
      <3>2. c # id[t]
        BY <3>1
      <3> QED BY <1>4, <3>2 DEF UnwindInv, CallsDistinct
    <2> QED BY <1>1, <1>4, <1>5, <2>1 DEF UnwindInv, CallsDistinct
  <1>7. writeCount' <= Cardinality(Counted')
    BY <1>1, <1>3, CountKept DEF BeforeCount, locals
  <1>8. SingleWriter' /\ WriteOnceExclusive'
    BY <1>1, <1>4 DEF UnwindInv, SingleWriter, WriteOnceExclusive,
                      Opening, Writing, BeforeCount
  <1>9. WritersPlaced'
    BY <1>1, <1>4 DEF UnwindInv, WritersPlaced, Writing
  <1>10. PayloadInOrder'
    BY <1>1, <1>4, PayloadKept DEF Writing
  <1>11. ReportIntact'
    <2> SUFFICES ASSUME ~spoiled', NEW c \in won', result'[c] > 0
                 PROVE  /\ hdr'.magic /\ hdr'.tid = by'[c].thread
                        /\ hdr'.backend = by'[c].handle /\ hdr'.size = result'[c]
                        /\ \A i \in 1..Slots : i < hdr'.size => slot'[i] = c
      BY DEF ReportIntact
    <2>1. c \in CallIds
      BY <1>1 DEF UnwindInv, TypeOK
    <2>2. CASE c = id[t]
      <3>1. OwnPayload(t)
        BY <1>1, <2>2, OwnerPayload DEF Writing
      <3>2. n = hdr.size
        BY <1>4, <2>2
      <3>3. hdr.size = writer[t].used + 1 /\ hdr.tid = t /\ hdr.magic /\ hdr.backend = Arg(t)
        BY <3>1 DEF OwnPayload
      <3>4. writer[t].used \in Int
        BY UnwindBoundsAssumption DEF UnwindInv, TypeOK, Writer
      <3>5. \A i \in 1..Slots : i < hdr.size => slot[i] = id[t]
        <4> SUFFICES ASSUME NEW i \in 1..Slots, i < hdr.size PROVE slot[i] = id[t]
          OBVIOUS
        <4>1. i <= writer[t].used
          BY <3>3, <3>4, UnwindBoundsAssumption
        <4> QED BY <3>1, <4>1 DEF OwnPayload
      <3> QED BY <1>1, <1>2, <1>4, <2>2, <3>2, <3>3, <3>5 DEF Arg
    <2>3. CASE c # id[t]
      BY <1>1, <1>4, <2>1, <2>3 DEF UnwindInv, ReportIntact
    <2> QED BY <2>2, <2>3
  <1>12. \A u \in Threads : pc'[u] \in {"flags", "count"} => handle' # Null
    BY <1>1, <1>4 DEF UnwindInv
  <1> QED BY <1>3, <1>6, <1>7, <1>8, <1>9, <1>10, <1>11, <1>12 DEF UnwindInv

(* A new call gets a number nobody had. *)
LEMMA CallInv ==
  ASSUME UnwindInv, NEW t \in Threads, NEW h \in Handles, Call(t, h)
  PROVE  UnwindInv'
  <1> DEFINE b == [thread |-> t, handle |-> h]
  <1>1. /\ pc[t] = "idle" /\ Goto(t, "check") /\ calls < MaxCalls
        /\ calls' = calls + 1
        /\ id' = [id EXCEPT ![t] = calls + 1]
        /\ by' = [by EXCEPT ![calls + 1] = b]
        /\ UNCHANGED <<handle, writeCount, hdr, slot, writer, load,
                       won, refused, result, spoiled, crashed>>
    BY DEF Call, At, shared, history
  <1>2. calls \in Nat /\ calls + 1 \in 0..MaxCalls /\ calls + 1 \in CallIds
    BY <1>1, UnwindBoundsAssumption DEF UnwindInv, TypeOK, CallIds
  <1>3. TypeOK'
    <2>1. by' \in [CallIds -> [thread : Threads \cup {Null}, handle : Handles \cup {Null}]]
      BY <1>1 DEF UnwindInv, TypeOK
    <2>2. id' \in [Threads -> 0..MaxCalls] /\ calls' \in 0..MaxCalls
      BY <1>1, <1>2 DEF UnwindInv, TypeOK
    <2> HIDE DEF b
    <2> QED BY <1>1, <2>1, <2>2 DEF UnwindInv, TypeOK, Goto
  <1>4. /\ pc'[t] = "check" /\ id'[t] = calls + 1
        /\ \A u \in Threads : u # t => pc'[u] = pc[u] /\ id'[u] = id[u]
        /\ by'[calls + 1] = b
        /\ \A c \in CallIds : c # calls + 1 => by'[c] = by[c]
    BY <1>1, <1>2 DEF UnwindInv, TypeOK, Goto
  <1>5. \A u \in Threads : id[u] \in Nat /\ id[u] <= calls
    BY UnwindBoundsAssumption DEF UnwindInv, TypeOK, CallsDistinct
  <1>6. calls + 1 \notin won /\ \A u \in Threads : id[u] # calls + 1
    BY <1>2, <1>5 DEF UnwindInv, SingleWriter
  <1>7. \A u \in Threads : u # t /\ pc[u] # "idle" =>
          id[u] \in CallIds /\ by'[id[u]] = by[id[u]] /\ Arg(u)' = Arg(u)
    <2> SUFFICES ASSUME NEW u \in Threads, u # t, pc[u] # "idle"
                 PROVE  id[u] \in CallIds /\ by'[id[u]] = by[id[u]] /\ Arg(u)' = Arg(u)
      OBVIOUS
    <2>1. id[u] \in CallIds
      BY CallNumbered
    <2> QED BY <1>4, <1>6, <2>1 DEF Arg
  <1>8. CallsDistinct'
    <2>1. ASSUME NEW u \in Threads
          PROVE  /\ id'[u] <= calls'
                 /\ pc'[u] # "idle" => /\ id'[u] > 0 /\ result'[id'[u]] = -1
                                       /\ by'[id'[u]].thread = u /\ Arg(u)' \in Handles
      <3>1. CASE u = t
        <4>1. result[calls + 1] = -1
          BY <1>2 DEF UnwindInv, CallsDistinct
        <4>2. Arg(t)' = h /\ by'[id'[t]].thread = t
          BY <1>4 DEF Arg
        <4> HIDE DEF b
        <4> QED BY <1>1, <1>2, <1>4, <3>1, <4>1, <4>2
      <3>2. CASE u # t
        <4> HIDE DEF b
        <4> QED BY <1>1, <1>2, <1>4, <1>5, <1>7, <3>2 DEF UnwindInv, CallsDistinct
      <3> QED BY <3>1, <3>2
    <2>2. \A u, v \in Threads : id'[u] = id'[v] /\ id'[u] > 0 => u = v
      BY <1>4, <1>6 DEF UnwindInv, CallsDistinct
    <2>3. \A c \in CallIds : c > calls' => result'[c] = -1
      <3> SUFFICES ASSUME NEW c \in CallIds, c > calls + 1 PROVE result[c] = -1
        BY <1>1
      <3>1. c > calls
        BY <1>2, UnwindBoundsAssumption DEF CallIds
      <3> QED BY <3>1 DEF UnwindInv, CallsDistinct
    <2> QED BY <2>1, <2>2, <2>3 DEF CallsDistinct
  <1> HIDE DEF b
  <1>9. writeCount' <= Cardinality(Counted')
    <2>1. Counted' \subseteq 1..calls' /\ calls' \in Int
      BY <1>1, <1>2 DEF Counted
    <2>2. IsFiniteSet(Counted')
      <3>1. IsFiniteSet(1..calls')
        BY <2>1, FS_Interval
      <3> QED BY <2>1, <3>1, FS_Subset
    <2>3. Counted \subseteq Counted'
      BY <1>1, <1>2, <1>4, <1>5 DEF Counted
    <2>4. /\ Cardinality(Counted) <= Cardinality(Counted')
          /\ Cardinality(Counted') \in Nat
      BY <2>2, <2>3, FS_Subset, FS_CardinalityType
    <2>5. Cardinality(Counted) \in Nat /\ writeCount \in Nat
      BY CountedFinite, LimitsAssumption DEF UnwindInv, TypeOK
    <2> QED BY <1>1, <2>4, <2>5 DEF UnwindInv
  <1>10. \A u \in Threads : pc'[u] \in {"flags", "count"} => handle' # Null
    BY <1>1, <1>4 DEF UnwindInv
  <1>11. SingleWriter'
    <2>1. won' = won /\ won' \subseteq 1..calls'
      BY <1>1, <1>2 DEF UnwindInv, SingleWriter
    <2> QED BY <1>1, <1>4, <1>6, <2>1
               DEF UnwindInv, SingleWriter, Opening, Writing, BeforeCount
  <1>12. WriteOnceExclusive' /\ WritersPlaced'
    BY <1>1, <1>4 DEF UnwindInv, WriteOnceExclusive, WritersPlaced, Writing
  <1>13. PayloadInOrder'
    <2> SUFFICES ASSUME ~spoiled, NEW u \in Threads, pc'[u] \in Writing, id'[u] \in won
                 PROVE  OwnPayload(u)'
      BY <1>1 DEF PayloadInOrder
    <2>1. u # t /\ pc'[u] = pc[u] /\ id'[u] = id[u] /\ pc[u] # "idle"
      BY <1>4 DEF Writing
    <2>2. OwnPayload(u) /\ Arg(u)' = Arg(u)
      BY <1>7, <2>1 DEF UnwindInv, PayloadInOrder
    <2> QED BY <1>1, <2>1, <2>2 DEF OwnPayload
  <1>14. ReportIntact'
    <2>1. \A c \in won : c \in CallIds /\ by'[c] = by[c]
      BY <1>4, <1>6 DEF UnwindInv, TypeOK
    <2> QED BY <1>1, <2>1 DEF UnwindInv, ReportIntact
  <1> QED BY <1>3, <1>8, <1>9, <1>10, <1>11, <1>12, <1>13, <1>14 DEF UnwindInv

LEMMA StutterUnwind ==
  ASSUME UnwindInv, UNCHANGED vars
  PROVE  UnwindInv'
  <1>1. UNCHANGED <<handle, writeCount, hdr, slot, pc, id, by, calls, writer, load,
                    won, refused, result, spoiled, crashed>>
    BY DEF vars, shared, locals, history
  <1>2. TypeOK' /\ Counted' = Counted
    BY <1>1 DEF UnwindInv, TypeOK, Counted
  <1>3. CallsDistinct' /\ SingleWriter' /\ WriteOnceExclusive'
    BY <1>1 DEF UnwindInv, CallsDistinct, Arg, SingleWriter, WriteOnceExclusive
  <1>4. WritersPlaced' /\ PayloadInOrder' /\ ReportIntact'
    BY <1>1 DEF UnwindInv, WritersPlaced, PayloadInOrder, OwnPayload, Arg, ReportIntact
  <1> QED BY <1>1, <1>2, <1>3, <1>4 DEF UnwindInv

-----------------------------------------------------------------------------
(* When every handle used on the buffer carries BUN_HANDLE_WRITE_ONCE and  *)
(* the buffer sees at most INT_MAX + 1 calls, atomic_fetch_add of          *)
(* bun_writer_init lets one thread through, and for one call only.         *)
THEOREM WriteOnceInvariant ==
  ASSUME WriteOnce = Handles, MaxCalls <= SignLimit
  PROVE  Spec => []UnwindInv
  <1>1. Init => UnwindInv
    BY InitUnwind
  <1>2. UnwindInv /\ [Next]_vars => UnwindInv'
    <2> SUFFICES ASSUME UnwindInv, [Next]_vars PROVE UnwindInv'
      OBVIOUS
    <2>1. ASSUME NEW t \in Threads, Step(t) PROVE UnwindInv'
      <3>1. CASE CheckHandle(t) BY <3>1, CheckHandleInv
      <3>2. CASE BindHandle(t) BY <3>2, BindHandleInv
      <3>3. CASE CheckFlags(t) BY <3>3, CheckFlagsInv
      <3>4. CASE FetchAdd(t) BY <3>4, FetchAddInv
      <3>5. CASE OpenWriter(t) BY <3>5, OpenWriterInv
      <3>6. CASE WriteHeader(t) BY <3>6, WriteHeaderInv
      <3>7. CASE Refused(t) BY <3>7, RefusedInv
      <3>8. CASE SetBackend(t) BY <3>8, SetBackendInv
      <3>9. CASE StoreFrame(t) BY <3>9, StoreFrameInv
      <3>10. CASE LoadSize(t) BY <3>10, LoadSizeInv
      <3>11. CASE StoreSize(t) BY <3>11, StoreSizeInv
      <3>15. CASE OverrunFaults(t) BY <3>15, OverrunInv
      <3>12. CASE BufferFull(t) BY <3>12, ReturnInv DEF BufferFull, At
      <3>13. CASE EndOfStack(t) BY <3>13, ReturnInv DEF EndOfStack, At
      <3>14. CASE BackendFails(t) BY <3>14, ReturnInv DEF BackendFails, At
      <3> QED BY <2>1, <3>1, <3>2, <3>3, <3>4, <3>5, <3>6, <3>7, <3>8, <3>9,
                 <3>10, <3>11, <3>12, <3>13, <3>14, <3>15 DEF Step
    <2>2. ASSUME NEW t \in Threads, NEW h \in Handles, Call(t, h)
          PROVE  UnwindInv'
      BY <2>2, CallInv
    <2>3. CASE UNCHANGED vars
      BY <2>3, StutterUnwind
    <2> QED BY <2>1, <2>2, <2>3 DEF Next
  <1> QED BY <1>1, <1>2, PTL DEF Spec

(* write_count, the header, the frame slots and the bun_writers keep their *)
(* types through every interleaving.                                       *)
THEOREM UnwindTypeCorrect ==
  ASSUME WriteOnce = Handles, MaxCalls <= SignLimit
  PROVE  Spec => []TypeOK
  <1>1. UnwindInv => TypeOK
    BY DEF UnwindInv
  <1> QED BY <1>1, WriteOnceInvariant, PTL

(* Among calls with write-once handles bun_writer_init succeeds at most    *)
(* once, however many threads and nested signal handlers race for it.      *)
THEOREM WriteOnceHolds ==
  ASSUME WriteOnce = Handles, MaxCalls <= SignLimit
  PROVE  Spec => []WriteOnceExclusive
  <1>1. UnwindInv => WriteOnceExclusive
    BY DEF UnwindInv
  <1> QED BY <1>1, WriteOnceInvariant, PTL

(* The payload that the one successful bun_unwind reported stays as that   *)
(* call wrote it, until a refused call goes on with a pointer into the     *)
(* buffer in the bun_writer it never initialised.                          *)
THEOREM ReportStaysIntact ==
  ASSUME WriteOnce = Handles, MaxCalls <= SignLimit
  PROVE  Spec => []ReportIntact
  <1>1. UnwindInv => ReportIntact
    BY DEF UnwindInv
  <1> QED BY <1>1, WriteOnceInvariant, PTL
=============================================================================
