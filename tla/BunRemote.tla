------------------------------ MODULE BunRemote ------------------------------
(***************************************************************************)
(* bun_unwind_remote: a tracer attaches to a target thread with ptrace,    *)
(* waits for it to stop, reads its stack and detaches.  The tracer is the  *)
(* code of libunwind_unwind_remote, with bun_waitpid of src/bun_utils.c,   *)
(* and of libunwindstack_unwind_remote.  The target, the signals sent to   *)
(* it and the wait statuses are the kernel's, modelled from how this code  *)
(* uses ptrace(2) and waitpid(2) (external).                               *)
(*                                                                         *)
(* What the walk writes to the buffer is the subject of BunUnwind; here it *)
(* is one step, which reads the target and succeeds or fails.              *)
(***************************************************************************)
EXTENDS Integers

CONSTANTS Backends,     (* the backends the program calls                  *)
          Timeout,      (* msec_timeout of bun_waitpid                     *)
          HostReaps,    (* the host process collects children elsewhere:   *)
                        (* a SIGCHLD handler with waitpid(-1), or SIG_IGN  *)
          Interrupts,   (* a handler of the host interrupts waitpid        *)
          MaxSignals,   (* bound: signals others send to the target        *)
          MaxCalls      (* bound: calls of bun_unwind_remote               *)

ASSUME RemoteAssumption ==
  /\ Backends \subseteq {"libunwind", "libunwindstack"}
  /\ HostReaps \in BOOLEAN /\ Interrupts \in BOOLEAN
  /\ Timeout \in Int /\ MaxSignals \in Nat /\ MaxCalls \in Nat

VARIABLES
  target,    (* running, trapped (ptrace-stop), stopped (job control),     *)
             (* zombie, or gone (its exit status was collected)            *)
  traced,    (* the tracer is attached to it                               *)
  pending,   (* signals queued for it                                      *)
  trap,      (* the signal of its ptrace-stop, "group", or "none"          *)
  event,     (* the wait status the kernel holds for the tracer            *)
  pc,        (* where the tracer is                                        *)
  backend,   (* the backend of the current call                            *)
  msec,      (* msec_timeout, as bun_waitpid counts it down                *)
  odd,       (* loop & 1                                                   *)
  sawStop,   (* this call saw the target stop                              *)
  result,    (* what the call returns: 0, or 1 for a size                  *)
  calls,     (* number of calls so far                                     *)
  signals    (* number of signals others sent to the target                *)

kernel == <<target, traced, pending, trap, event>>
local == <<backend, msec, odd, sawStop, result>>
bounds == <<calls, signals>>
vars == <<kernel, pc, local, bounds>>

Init ==
  /\ target \in {"running", "stopped"}
  /\ traced = FALSE
  /\ pending = {}
  /\ trap = "none"
  /\ event = "none"
  /\ pc = "idle"
  /\ backend \in Backends
  /\ msec = Timeout
  /\ odd = FALSE
  /\ sawStop = FALSE
  /\ result = 0
  /\ calls = 0
  /\ signals = 0

-----------------------------------------------------------------------------
(* The target and the kernel. *)

(* A running target takes a queued signal: a traced one traps, otherwise   *)
(* SIGSTOP stops it and any other signal goes to its handler.              *)
TakeSignal(s) ==
  /\ target = "running" /\ s \in pending
  /\ pending' = pending \ {s}
  /\ IF traced
     THEN target' = "trapped" /\ trap' = s /\ event' = "stop"
     ELSE /\ target' = IF s = "SIGSTOP" THEN "stopped" ELSE "running"
          /\ UNCHANGED <<trap, event>>
  /\ UNCHANGED <<traced, pc, local, bounds>>

(* Somebody else sends the target a signal that does not stop it. *)
SendSignal ==
  /\ target \in {"running", "trapped", "stopped"} /\ signals < MaxSignals
  /\ signals' = signals + 1
  /\ pending' = pending \cup {"other"}
  /\ UNCHANGED <<target, traced, trap, event, pc, local, calls>>

(* The target is killed, stopped or not. *)
Kill ==
  /\ target \in {"running", "trapped", "stopped"}
  /\ target' = "zombie" /\ trap' = "none" /\ pending' = {}
  /\ event' = IF traced THEN "exit" ELSE "none"
  /\ UNCHANGED <<traced, pc, local, bounds>>

(* The kernel forgets a wait status once it was collected. *)
Collect ==
  /\ event' = "none"
  /\ IF event = "exit"
     THEN target' = "gone" /\ traced' = FALSE
     ELSE UNCHANGED <<target, traced>>
  /\ UNCHANGED <<pending, trap>>

(* The host collects the status the tracer is waiting for. *)
HostCollects ==
  /\ HostReaps /\ event # "none"
  /\ Collect
  /\ UNCHANGED <<pc, local, bounds>>

Environment ==
  (\E s \in {"SIGSTOP", "other"} : TakeSignal(s)) \/ SendSignal \/ Kill \/ HostCollects

-----------------------------------------------------------------------------
(* bun_unwind_remote *)
Call(b) ==
  /\ pc = "idle" /\ calls < MaxCalls
  /\ calls' = calls + 1
  /\ pc' = "attach"
  /\ backend' = b
  /\ msec' = Timeout /\ odd' = FALSE /\ sawStop' = FALSE /\ result' = 0
  /\ UNCHANGED <<kernel, signals>>

(* PTRACE_ATTACH queues SIGSTOP; a target that job control had stopped     *)
(* traps at once, with or without a status for waitpid.                    *)
Attach ==
  /\ pc = "attach" /\ ~traced /\ target \in {"running", "stopped"}
  /\ traced' = TRUE
  /\ IF target = "running"
     THEN pending' = pending \cup {"SIGSTOP"} /\ UNCHANGED <<target, trap, event>>
     ELSE /\ target' = "trapped" /\ trap' = "group" /\ UNCHANGED pending
          /\ event' \in {"stop", "none"}
  /\ pc' = "wait"
  /\ UNCHANGED <<local, bounds>>

(* Mutant of AttachFails: the result of PTRACE_ATTACH is not tested. *)
AttachFailsIgnored ==
  /\ pc = "attach"
  /\ pc' = "wait"
  /\ UNCHANGED <<kernel, local, bounds>>

(* PTRACE_ATTACH fails: no permission, no such thread, or attached already.*)
(* libunwind still goes to its error label, which detaches.                *)
AttachFails ==
  /\ pc = "attach"
  /\ pc' = IF backend = "libunwind" THEN "detach" ELSE "idle"
  /\ UNCHANGED <<kernel, local, bounds>>

-----------------------------------------------------------------------------
(* bun_waitpid *)

Waiting == pc = "wait" /\ backend = "libunwind"

(* waitpid reports the exit of the target: return -1. *)
WaitExited ==
  /\ Waiting /\ event = "exit"
  /\ Collect
  /\ pc' = "detach"
  /\ UNCHANGED <<local, bounds>>

(* waitpid reports a stop.  A signal that is not a job control signal is   *)
(* enough; SIGSTOP is looked into with PTRACE_GETSIGINFO.                  *)
WaitStopped ==
  /\ Waiting /\ event = "stop"
  /\ Collect
  /\ pc' = IF trap = "other" THEN "init" ELSE "siginfo"
  /\ sawStop' = (trap = "other")
  /\ UNCHANGED <<backend, msec, odd, result, bounds>>

(* PTRACE_GETSIGINFO: success and EINVAL both mean stopped; ESRCH that the *)
(* target was killed meanwhile.                                            *)
SigInfo ==
  /\ pc = "siginfo"
  /\ sawStop' = (target = "trapped")
  /\ pc' = IF target = "trapped" THEN "init" ELSE "detach"
  /\ UNCHANGED <<kernel, backend, msec, odd, result, bounds>>

(* Mutant of WaitNothing: the timeout is not counted down. *)
WaitNothingForever ==
  /\ Waiting /\ event = "none" /\ traced
  /\ odd' = ~odd
  /\ pc' = IF msec > 0 THEN "wait" ELSE "getregs"
  /\ UNCHANGED <<kernel, backend, msec, sawStop, result, bounds>>

(* No status: sleep half a millisecond and count it; out of time, the      *)
(* registers decide.                                                       *)
WaitNothing ==
  /\ Waiting /\ event = "none" /\ traced
  /\ odd' = ~odd
  /\ msec' = IF odd THEN msec - 1 ELSE msec
  /\ pc' = IF msec' > 0 THEN "wait" ELSE "getregs"
  /\ UNCHANGED <<kernel, backend, sawStop, result, bounds>>

(* Mutant of GetRegs: a timeout is taken for a target that was stopped     *)
(* already.                                                                *)
GetRegsUnchecked ==
  /\ pc = "getregs"
  /\ sawStop' = TRUE
  /\ pc' = "init"
  /\ UNCHANGED <<kernel, backend, msec, odd, result, bounds>>

(* getregs_success: PTRACE_GETREGS works on a stopped target only. *)
GetRegs ==
  /\ pc = "getregs"
  /\ sawStop' = (target = "trapped")
  /\ pc' = IF target = "trapped" THEN "init" ELSE "detach"
  /\ UNCHANGED <<kernel, backend, msec, odd, result, bounds>>

(* waitpid fails with ECHILD, the target being no child nor tracee of the  *)
(* tracer any more ...                                                     *)
WaitNoChild ==
  /\ Waiting /\ ~traced
  /\ pc' = "again"
  /\ UNCHANGED <<kernel, local, bounds>>

(* ... and is called again, without a look at the timeout.                 *)
WaitAgain ==
  /\ pc = "again"
  /\ pc' = "wait"
  /\ UNCHANGED <<kernel, local, bounds>>

-----------------------------------------------------------------------------
(* waitpid of libunwindstack_unwind_remote: it blocks; if the target has   *)
(* not stopped the call returns 0 and does not detach.                     *)
BlockingWait ==
  /\ pc = "wait" /\ backend = "libunwindstack" /\ event # "none"
  /\ Collect
  /\ sawStop' = (event = "stop")
  /\ pc' = IF event = "stop" THEN "init" ELSE "idle"
  /\ UNCHANGED <<backend, msec, odd, result, bounds>>

(* waitpid fails, with EINTR or ECHILD, and waitpid_status, which was      *)
(* never set, is tested all the same.                                      *)
BlockingWaitFails ==
  /\ pc = "wait" /\ backend = "libunwindstack"
  /\ Interrupts \/ ~traced
  /\ pc' \in {"init", "idle"}
  /\ UNCHANGED <<kernel, local, bounds>>

-----------------------------------------------------------------------------
(* unw_init_remote, or the maps, registers and memory of libunwindstack:   *)
(* they fail, or the walk begins, for libunwindstack with the registers of *)
(* a target in its ptrace-stop ...                                         *)
Prepare ==
  /\ pc = "init"
  /\ \/ pc' = "detach"
     \/ pc' = "walk" /\ (backend = "libunwind" \/ target = "trapped")
  /\ UNCHANGED <<kernel, local, bounds>>

(* ... or Regs::RemoteGet finds none and returns NULL, which nobody tests: *)
(* the tracer dies of it, and the kernel lets its target go.               *)
PrepareFaults ==
  /\ pc = "init" /\ backend = "libunwindstack" /\ target # "trapped"
  /\ pc' = "faulted"
  /\ traced' = FALSE /\ event' = "none"
  /\ UNCHANGED <<target, pending, trap, local, bounds>>

(* Mutant of Walk: a full buffer is reported as -1. *)
WalkNegative ==
  /\ pc = "walk"
  /\ result' \in {-1, 1}
  /\ pc' = "detach"
  /\ UNCHANGED <<kernel, backend, msec, odd, sawStop, bounds>>

(* Mutant of Walk: a full buffer returns at once. *)
WalkReturning ==
  /\ pc = "walk"
  /\ result' \in {0, 1}
  /\ pc' = IF result' = 0 THEN "idle" ELSE "detach"
  /\ UNCHANGED <<kernel, backend, msec, odd, sawStop, bounds>>

(* The frames are read from the target and written: the size, or 0 when    *)
(* the buffer is full.                                                     *)
Walk ==
  /\ pc = "walk"
  /\ result' \in {0, 1}
  /\ pc' = "detach"
  /\ UNCHANGED <<kernel, backend, msec, odd, sawStop, bounds>>

(* PTRACE_DETACH with signal 0.  It fails unless the target is trapped;    *)
(* else the signal that trapped it is discarded, and a group-stop resumed. *)
Detach ==
  /\ pc = "detach"
  /\ IF traced /\ target = "trapped"
     THEN /\ traced' = FALSE
          /\ target' = IF trap = "group" THEN "stopped" ELSE "running"
          /\ trap' = "none" /\ event' = "none"
     ELSE UNCHANGED <<traced, target, trap, event>>
  /\ pc' = "idle"
  /\ UNCHANGED <<pending, local, bounds>>

Tracer ==
  \/ Attach \/ AttachFails
  \/ WaitExited \/ WaitStopped \/ SigInfo \/ WaitNothing \/ GetRegs
  \/ WaitNoChild \/ WaitAgain \/ BlockingWait \/ BlockingWaitFails
  \/ Prepare \/ PrepareFaults \/ Walk \/ Detach

Next == Tracer \/ (\E b \in Backends : Call(b)) \/ Environment

(* The tracer runs; nothing is assumed of the target, which may take its   *)
(* SIGSTOP late or never.                                                  *)
Spec == Init /\ [][Next]_vars /\ WF_vars(Tracer)

-----------------------------------------------------------------------------
(* Every variable keeps the shape of its counterpart. *)
TypeOK ==
  /\ target \in {"running", "trapped", "stopped", "zombie", "gone"}
  /\ traced \in BOOLEAN
  /\ pending \subseteq {"SIGSTOP", "other"}
  /\ trap \in {"none", "SIGSTOP", "other", "group"}
  /\ event \in {"none", "stop", "exit"}
  /\ pc \in {"idle", "attach", "wait", "siginfo", "getregs", "again", "init",
             "walk", "detach", "faulted"}
  /\ backend \in Backends
  /\ msec \in Int /\ odd \in BOOLEAN
  /\ sawStop \in BOOLEAN /\ result \in {0, 1}
  /\ calls \in Nat /\ signals \in Nat

(* The stack of a target that runs is never walked: when bun_waitpid       *)
(* returns 0, by a stop status or by the register test after a timeout,    *)
(* the target is in a ptrace-stop, and leaves it only by dying.            *)
StoppedWhileRead ==
  pc \in {"init", "walk"} => target \notin {"running", "stopped"}

(* A remote unwind that saw its target stop does not return with the       *)
(* target still attached, and unless others sent signals to the target it  *)
(* leaves no SIGSTOP of PTRACE_ATTACH behind that would stop it later.     *)
TargetReleased ==
  pc = "idle" /\ sawStop =>
    /\ traced => target = "zombie"
    /\ signals = 0 => "SIGSTOP" \notin pending

(* A wait status, a trap and the tracing relation agree. *)
KernelAgrees ==
  /\ event = "stop" => target = "trapped"
  /\ event = "exit" => target = "zombie"
  /\ target = "trapped" => traced
  /\ target = "gone" => ~traced
  /\ "other" \in pending => signals > 0
  /\ signals = 0 /\ "SIGSTOP" \in pending => traced /\ target = "running"

(* A tracer loses its target while it waits only if the host collected the *)
(* target's exit, a target it saw stop can only die, and it faults only    *)
(* over a target that died.                                                *)
TracerAgrees ==
  /\ pc \in {"wait", "again"} /\ ~traced => target = "gone"
  /\ pc \in {"init", "walk", "detach"} /\ sawStop =>
       target \in {"trapped", "zombie", "gone"}
  /\ pc \in {"attach", "wait", "again", "siginfo", "getregs"} => ~sawStop
  /\ pc = "faulted" => target \in {"zombie", "gone"}

(* The inductive invariant behind StoppedWhileRead and TargetReleased. *)
RemoteInv ==
  TypeOK /\ KernelAgrees /\ TracerAgrees /\ StoppedWhileRead /\ TargetReleased

(* bun_waitpid, and with it the libunwind backend, returns whatever the    *)
(* target does: its timeout bounds the wait.                               *)
RemoteReturns == pc # "idle" ~> pc = "idle"

(* It does so unless the exit status of the target was collected: no       *)
(* target that stops late or never, dies at any point or is sent other     *)
(* signals keeps bun_unwind_remote of libunwind from returning.            *)
PollingReturns ==
  pc # "idle" /\ backend = "libunwind" ~> pc = "idle" \/ target = "gone"
=============================================================================
