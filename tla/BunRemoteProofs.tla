--------------------------- MODULE BunRemoteProofs ---------------------------
(***************************************************************************)
(* Proofs about BunRemote for every timeout, number of calls and number of *)
(* signals, and both backends, as long as no handler interrupts waitpid.   *)
(***************************************************************************)
EXTENDS BunRemote, TLAPS

LEMMA InitRemote == Init => RemoteInv
  <1> SUFFICES ASSUME Init PROVE RemoteInv
    OBVIOUS
  <1>1. TypeOK
    BY RemoteAssumption DEF Init, TypeOK
  <1>2. KernelAgrees /\ TracerAgrees /\ StoppedWhileRead /\ TargetReleased
    BY DEF Init, KernelAgrees, TracerAgrees, StoppedWhileRead, TargetReleased
  <1> QED BY <1>1, <1>2 DEF RemoteInv

LEMMA EnvironmentInv ==
  ASSUME RemoteInv, Environment
  PROVE  RemoteInv'
  <1> USE DEF RemoteInv, TypeOK, KernelAgrees, TracerAgrees, StoppedWhileRead,
              TargetReleased, local, bounds
  <1>1. ASSUME NEW s \in {"SIGSTOP", "other"}, TakeSignal(s) PROVE RemoteInv'
    <2>1. CASE traced
      BY <1>1, <2>1 DEF TakeSignal
    <2>2. CASE ~traced /\ s = "SIGSTOP"
      BY <1>1, <2>2 DEF TakeSignal
    <2>3. CASE ~traced /\ s = "other"
      BY <1>1, <2>3 DEF TakeSignal
    <2> QED BY <1>1, <2>1, <2>2, <2>3
  <1>2. CASE SendSignal
    BY <1>2, RemoteAssumption DEF SendSignal
  <1>3. CASE Kill
    BY <1>3 DEF Kill
  <1>4. CASE HostCollects
    <2>1. CASE event = "exit"
      BY <1>4, <2>1 DEF HostCollects, Collect
    <2>2. CASE event # "exit"
      BY <1>4, <2>2 DEF HostCollects, Collect
    <2> QED BY <2>1, <2>2
  <1> QED BY <1>1, <1>2, <1>3, <1>4 DEF Environment

(* The steps of the tracer from PTRACE_ATTACH to PTRACE_DETACH. *)
LEMMA TracerInv ==
  ASSUME Interrupts = FALSE, RemoteInv, Tracer
  PROVE  RemoteInv'
  <1> USE DEF RemoteInv, TypeOK, KernelAgrees, TracerAgrees, StoppedWhileRead,
              TargetReleased, local, bounds, kernel
  <1>1. CASE Attach
    BY <1>1 DEF Attach
  <1>2. CASE AttachFails
    BY <1>2 DEF AttachFails
  <1>3. CASE WaitExited
    BY <1>3 DEF WaitExited, Waiting, Collect
  <1>4. CASE WaitStopped
    BY <1>4 DEF WaitStopped, Waiting, Collect
  <1>5. CASE SigInfo
    BY <1>5 DEF SigInfo
  <1>6. CASE WaitNothing
    BY <1>6 DEF WaitNothing, Waiting
  <1>7. CASE GetRegs
    BY <1>7 DEF GetRegs
  <1>8. CASE WaitNoChild
    BY <1>8 DEF WaitNoChild, Waiting
  <1>9. CASE WaitAgain
    BY <1>9 DEF WaitAgain
  <1>10. CASE BlockingWait
    BY <1>10 DEF BlockingWait, Collect
  <1>11. CASE BlockingWaitFails
    BY <1>11 DEF BlockingWaitFails
  <1>12. CASE Prepare
    BY <1>12 DEF Prepare
  <1>13. CASE Walk
    BY <1>13 DEF Walk
  <1>14. CASE Detach
    BY <1>14 DEF Detach
  <1>15. CASE PrepareFaults
    BY <1>15 DEF PrepareFaults
  <1> QED BY <1>1, <1>2, <1>3, <1>4, <1>5, <1>6, <1>7, <1>8, <1>9, <1>10,
             <1>11, <1>12, <1>13, <1>14, <1>15 DEF Tracer

LEMMA RemoteCallInv ==
  ASSUME RemoteInv, NEW b \in Backends, Call(b)
  PROVE  RemoteInv'
  <1>1. TypeOK'
    <2>1. calls' \in Nat /\ msec' \in Int
      BY RemoteAssumption DEF Call, RemoteInv, TypeOK
    <2> QED BY <2>1 DEF Call, RemoteInv, TypeOK, kernel
  <1>2. KernelAgrees' /\ TracerAgrees' /\ StoppedWhileRead' /\ TargetReleased'
    BY DEF Call, RemoteInv, TypeOK, KernelAgrees, TracerAgrees,
           StoppedWhileRead, TargetReleased, kernel
  <1> QED BY <1>1, <1>2 DEF RemoteInv

-----------------------------------------------------------------------------
(* How the target, its wait statuses and the tracer's place in             *)
(* bun_waitpid fit together at every step.                                 *)
THEOREM RemoteInvariant ==
  ASSUME Interrupts = FALSE
  PROVE  Spec => []RemoteInv
  <1>1. Init => RemoteInv
    BY InitRemote
  <1>2. RemoteInv /\ [Next]_vars => RemoteInv'
    <2> SUFFICES ASSUME RemoteInv, [Next]_vars PROVE RemoteInv'
      OBVIOUS
    <2>1. CASE Tracer
      BY <2>1, TracerInv
    <2>2. ASSUME NEW b \in Backends, Call(b) PROVE RemoteInv'
      BY <2>2, RemoteCallInv
    <2>3. CASE Environment
      BY <2>3, EnvironmentInv
    <2>4. CASE UNCHANGED vars
      BY <2>4 DEF vars, kernel, local, bounds, RemoteInv, TypeOK, KernelAgrees,
           TracerAgrees, StoppedWhileRead, TargetReleased
    <2> QED BY <2>1, <2>2, <2>3, <2>4 DEF Next
  <1> QED BY <1>1, <1>2, PTL DEF Spec

(* Target, wait statuses, tracer and result keep their types: no call      *)
(* returns a negative size, none waits past the timeout.                   *)
THEOREM RemoteTypeCorrect ==
  ASSUME Interrupts = FALSE
  PROVE  Spec => []TypeOK
  <1>1. RemoteInv => TypeOK
    BY DEF RemoteInv
  <1> QED BY <1>1, RemoteInvariant, PTL

(* No backend walks the stack of a target that runs, whether the stop was  *)
(* reported by waitpid or inferred after bun_waitpid's timeout.            *)
THEOREM TargetStoppedWhileRead ==
  ASSUME Interrupts = FALSE
  PROVE  Spec => []StoppedWhileRead
  <1>1. RemoteInv => StoppedWhileRead
    BY DEF RemoteInv
  <1> QED BY <1>1, RemoteInvariant, PTL

(* A remote unwind that saw its target stop lets it go when it returns. *)
THEOREM TargetIsReleased ==
  ASSUME Interrupts = FALSE
  PROVE  Spec => []TargetReleased
  <1>1. RemoteInv => TargetReleased
    BY DEF RemoteInv
  <1> QED BY <1>1, RemoteInvariant, PTL
=============================================================================
