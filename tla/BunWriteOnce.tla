----------------------------- MODULE BunWriteOnce -----------------------------
(***************************************************************************)
(* What BUN_HANDLE_WRITE_ONCE promises of a buffer, seen by somebody who   *)
(* only looks at finished calls of bun_unwind: the buffer is given to one  *)
(* call, that call publishes one report made of its own frames, and the    *)
(* report does not change until a refused call, whose bun_writer was never *)
(* initialised, spoils the buffer.                                         *)
(***************************************************************************)
EXTENDS Naturals

CONSTANTS Calls,      (* the calls of bun_unwind on the buffer             *)
          Threads, Handles,
          Slots,      (* frames the payload has room for                   *)
          NoReport

VARIABLES owners,     (* the call that got the buffer, if any              *)
          report,     (* the report in the buffer, or NoReport             *)
          final       (* the buffer is spoiled: nothing is promised of it  *)

vars == <<owners, report, final>>

(* What a call reports: header->size, tid and backend, and the calls that  *)
(* stored the frames in the payload.                                       *)
ReportsOf(c) ==
  {r \in [size : Nat \ {0}, tid : Threads, backend : Handles, frames : SUBSET Calls] :
     r.frames = IF r.size = 1 \/ Slots = 0 THEN {} ELSE {c}}

Init == owners = {} /\ report = NoReport /\ final = FALSE

(* One call gets the buffer, once. *)
Acquire ==
  /\ owners = {}
  /\ \E c \in Calls : owners' = {c}
  /\ UNCHANGED <<report, final>>

(* It publishes its report, once. *)
Publish ==
  /\ ~final /\ report = NoReport
  /\ \E c \in owners : report' \in ReportsOf(c)
  /\ UNCHANGED <<owners, final>>

(* A refused call goes on with pointers into the buffer. *)
Spoil ==
  /\ ~final
  /\ final' = TRUE
  /\ report' = NoReport
  /\ UNCHANGED owners

Next == Acquire \/ Publish \/ Spoil

Spec == Init /\ [][Next]_vars
=============================================================================
