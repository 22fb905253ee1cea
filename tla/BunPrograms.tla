----------------------------- MODULE BunPrograms -----------------------------
(***************************************************************************)
(* The programs of examples/ with the BCD monitor that three of them use   *)
(* to be unwound from another process.  The client and the monitor it      *)
(* forks share the buffer of a memory file; the client sends requests over *)
(* a socket and waits for each answer with a timeout, the monitor answers  *)
(* when its unwind of the client returned, which ptrace stops meanwhile,   *)
(* and Crashpad (external) copies the buffer into a minidump.              *)
(*                                                                         *)
(* The remote unwind has the steps at which it may fail and those that the *)
(* client can meet; BunRemote has it in detail, with a target that gets    *)
(* other signals too and a tracer that is interrupted.  BunStream and      *)
(* BunUnwind have the buffer.                                              *)
(***************************************************************************)
EXTENDS Naturals, Sequences

CONSTANTS Programs,    (* the programs considered, a subset of AllPrograms *)
          CallsFail,   (* TRUE if system and library calls may fail        *)
          Kills        (* TRUE if somebody may kill client and monitor     *)

(* The programs whose monitor unwinds the client. *)
BcdPrograms == {"bcd", "bcd_poison", "bcd_dumpwithoutcrash"}
AllPrograms == BcdPrograms \cup {"crashpad_remote", "crashpad"}

(* The backends that a build or an edit of the programs can choose.        *)
Backends == {"libunwind", "libunwindstack", "libbacktrace"}

ASSUME ProgramsAssumption ==
  /\ Programs \subseteq AllPrograms
  /\ CallsFail \in BOOLEAN /\ Kills \in BOOLEAN

VARIABLES
  program,   (* which one runs                                             *)
  backend,   (* BUN_BACKEND_DEFAULT of its build, or the one it names      *)
  main,      (* where its only thread is                                   *)
  outcome,   (* how it ended, or "running"                                 *)
  handlers,  (* cf holds request_handler and monitor_init                  *)
  ptracer,   (* the pid given to PR_SET_PTRACER                            *)
  flag,      (* `thread_local bool flag` of bcd-dumpwithoutcrash           *)
  monitor,   (* where the monitor is                                       *)
  trace,     (* the SIGSTOP of PTRACE_ATTACH: none, pending at the client, *)
             (* or the client is stopped by it                             *)
  word,      (* the first bytes of the buffer                              *)
  stream,    (* the report in the buffer                                   *)
  cf,        (* BCD_OP_CF is in the pipe to the client                     *)
  requests,  (* the packets under way to the monitor                       *)
  acks,      (* the acknowledgements under way to the client               *)
  served,    (* who performed each trace request                           *)
  unwound,   (* bun_unwind or bun_unwind_remote returned a size            *)
  emits,     (* what each bcd_emit came to                                 *)
  dumps      (* the report in each minidump                                *)

build == <<program, backend>>
client == <<build, main, outcome, handlers, ptracer, flag>>
buffer == <<word, stream>>
channel == <<cf, requests, acks>>
history == <<served, unwound, emits, dumps>>
vars == <<client, monitor, trace, buffer, channel, history>>

(* What main does before it crashes, in the order of each program's code.  *)
BcdStages == <<"buffer_create", "bcd_config_init", "set_handlers", "bcd_init",
               "bcd_attach", "ptracer", "crashpad">>
PoisonStages == BcdStages
DumpWithoutCrashStages == BcdStages
RemoteStages == <<"handle_init", "buffer_create", "buffer_init", "set_handlers",
                  "bcd_config_init", "bcd_init", "bcd_attach", "crashpad">>
LocalStages == <<"handle_init", "crashpad", "buffer_init">>

Stages == [bcd |-> BcdStages, bcd_poison |-> PoisonStages,
           bcd_dumpwithoutcrash |-> DumpWithoutCrashStages,
           crashpad_remote |-> RemoteStages, crashpad |-> LocalStages]

(* The stage after s; after the last one the program traps.                *)
After(s) ==
  LET st == Stages[program]
      i == CHOOSE j \in DOMAIN st : st[j] = s
  IN  IF i = Len(st) THEN "trap" ELSE st[i + 1]

Init ==
  /\ program \in Programs /\ backend \in Backends
  /\ main = Stages[program][1]
  /\ outcome = "running" /\ handlers = FALSE /\ ptracer = "none" /\ flag = FALSE
  /\ monitor = "none" /\ trace = "none"
  /\ word = "zero" /\ stream = "none"
  /\ cf = FALSE /\ requests = <<>> /\ acks = 0
  /\ served = <<>> /\ unwound = FALSE /\ emits = <<>> /\ dumps = <<>>

-----------------------------------------------------------------------------
(* The client.  It takes no step while it is stopped.                      *)
At(s) == main = s /\ trace # "stopped"

Goto(s) == main' = s /\ UNCHANGED outcome

Exit(how) == main' = "gone" /\ outcome' = how

(* A stage is done, or the program gives up. *)
Done(s) == Goto(After(s))
DoneOrExit(s) == Done(s) \/ (CallsFail /\ Exit("gave_up"))

HandleInit ==
  /\ At("handle_init")
  /\ DoneOrExit("handle_init")
  /\ UNCHANGED <<build, handlers, ptracer, flag, monitor, trace, buffer, channel, history>>

(* bun_memfd_create, ftruncate and mmap, which make a buffer of zeros.     *)
BufferCreate ==
  /\ At("buffer_create")
  /\ DoneOrExit("buffer_create")
  /\ word' = "zero" /\ stream' = "none"
  /\ UNCHANGED <<build, handlers, ptracer, flag, monitor, trace, channel, history>>

BufferInit ==
  /\ At("buffer_init")
  /\ DoneOrExit("buffer_init")
  /\ word' = "zero" /\ stream' = "none"
  /\ UNCHANGED <<build, handlers, ptracer, flag, monitor, trace, channel, history>>

(* bcd_config_init sets every member of cf, the two handlers to NULL.      *)
ConfigInit ==
  /\ At("bcd_config_init")
  /\ Done("bcd_config_init")
  /\ handlers' = FALSE
  /\ UNCHANGED <<build, ptracer, flag, monitor, trace, buffer, channel, history>>

SetHandlers ==
  /\ At("set_handlers")
  /\ Done("set_handlers")
  /\ handlers' = TRUE
  /\ UNCHANGED <<build, ptracer, flag, monitor, trace, buffer, channel, history>>

(* bcd_init forks the monitor and waits for BCD_OP_CF ...                  *)
BcdInit ==
  /\ At("bcd_init")
  /\ \/ Goto("await_cf") /\ monitor' = "born"
     \/ CallsFail /\ Exit("gave_up") /\ UNCHANGED monitor
  /\ UNCHANGED <<build, handlers, ptracer, flag, trace, buffer, channel, history>>

(* ... until it comes, the monitor is gone or the time is over.  Then      *)
(* mprotect locks the control page.                                        *)
AwaitCf ==
  /\ At("await_cf")
  /\ IF cf THEN DoneOrExit("bcd_init") /\ cf' = FALSE
           ELSE Exit("gave_up") /\ UNCHANGED cf
  /\ UNCHANGED <<build, handlers, ptracer, flag, monitor, trace, buffer, requests,
                 acks, history>>

(* bcd_attach connects, sends the thread id and waits for the answer ...   *)
BcdAttach ==
  /\ At("bcd_attach")
  /\ IF monitor = "gone"
     THEN Exit("gave_up") /\ UNCHANGED requests
     ELSE Goto("await_tid") /\ requests' = Append(requests, "tid")
  /\ UNCHANGED <<build, handlers, ptracer, flag, monitor, trace, buffer, cf, acks,
                 history>>

(* Mutant of AwaitTid: the answer is seen, and left in the socket. *)
AwaitTidPeeking ==
  /\ At("await_tid")
  /\ IF acks > 0 THEN Done("bcd_attach") ELSE Exit("gave_up")
  /\ UNCHANGED <<build, handlers, ptracer, flag, monitor, trace, buffer, channel,
                 history>>

(* ... in the same way.                                                    *)
AwaitTid ==
  /\ At("await_tid")
  /\ IF acks > 0 THEN Done("bcd_attach") /\ acks' = acks - 1
                 ELSE Exit("gave_up") /\ UNCHANGED acks
  /\ UNCHANGED <<build, handlers, ptracer, flag, monitor, trace, buffer, cf, requests,
                 history>>

(* Mutant of SetPtracer: main initialises the buffer where it sets         *)
(* buf.data, and then reads the pid.                                       *)
SetPtracerClearing ==
  /\ At("ptracer")
  /\ Done("ptracer")
  /\ word' = "zero" /\ stream' = "none"
  /\ ptracer' = word'
  /\ UNCHANGED <<build, handlers, flag, monitor, trace, channel, history>>

(* memcpy(&child_pid, buffer, ...); prctl(PR_SET_PTRACER, child_pid, ...)  *)
SetPtracer ==
  /\ At("ptracer")
  /\ Done("ptracer")
  /\ ptracer' = word
  /\ UNCHANGED <<build, handlers, flag, monitor, trace, buffer, channel, history>>

(* startCrashHandler, and the user stream and FirstChanceHandler are set.  *)
InitCrashpad ==
  /\ At("crashpad")
  /\ DoneOrExit("crashpad")
  /\ UNCHANGED <<build, handlers, ptracer, flag, monitor, trace, buffer, channel, history>>

(* IamDummy traps and Crashpad calls FirstChanceHandler.                   *)
Trap ==
  /\ At("trap")
  /\ Goto("handler")
  /\ UNCHANGED <<build, handlers, ptracer, flag, monitor, trace, buffer, channel, history>>

(* FirstChanceHandler of example_crashpad.cpp unwinds in the process and   *)
(* ignores the result of bun_unwind: 0 if a frame was refused, or if       *)
(* libunwindstack could not read its maps after it stored the header.      *)
HandlerUnwinds ==
  /\ program = "crashpad" /\ At("handler")
  /\ \/ stream' = "full" /\ unwound' = TRUE
     \/ stream' = "cut" /\ UNCHANGED unwound
     \/ /\ CallsFail /\ backend = "libunwindstack"
        /\ stream' = "begun" /\ UNCHANGED unwound
  /\ Goto("dump")
  /\ UNCHANGED <<build, handlers, ptracer, flag, monitor, trace, word, channel,
                 served, emits, dumps>>

(* Mutant of HandlerEmits: flag is not set, and the trap is taken again    *)
(* and again.                                                              *)
HandlerEmitsUnflagged ==
  /\ program # "crashpad" /\ ~flag /\ At("handler")
  /\ IF monitor = "gone"
     THEN Exit("sigpipe") /\ UNCHANGED requests
     ELSE Goto("emit") /\ requests' = Append(requests, "trace")
  /\ UNCHANGED <<build, handlers, ptracer, flag, monitor, trace, buffer, cf, acks,
                 history>>

(* FirstChanceHandler calls bcd_emit, except in the second call of         *)
(* bcd-dumpwithoutcrash.  Nothing ignores or blocks SIGPIPE: a write to a  *)
(* monitor that is gone ends the program.                                  *)
HandlerEmits ==
  /\ program # "crashpad" /\ ~flag /\ At("handler")
  /\ flag' = (program = "bcd_dumpwithoutcrash")
  /\ IF monitor = "gone"
     THEN Exit("sigpipe") /\ UNCHANGED requests
     ELSE Goto("emit") /\ requests' = Append(requests, "trace")
  /\ UNCHANGED <<build, handlers, ptracer, monitor, trace, buffer, cf, acks, history>>

HandlerDeclines ==
  /\ flag /\ At("handler")
  /\ Goto("dump")
  /\ UNCHANGED <<build, handlers, ptracer, flag, monitor, trace, buffer, channel, history>>

(* bcd_channel_read_ack takes an acknowledgement ...                       *)
EmitAnswered ==
  /\ At("emit") /\ acks > 0
  /\ acks' = acks - 1
  /\ emits' = Append(emits, "answered")
  /\ Goto("emitted")
  /\ UNCHANGED <<build, handlers, ptracer, flag, monitor, trace, buffer, cf, requests,
                 served, unwound, dumps>>

(* Mutant of EmitUnanswered: the client waits for an answer for ever.      *)
EmitUnansweredEof ==
  /\ At("emit") /\ acks = 0 /\ monitor = "gone"
  /\ emits' = Append(emits, "unanswered")
  /\ Goto("emitted")
  /\ UNCHANGED <<build, handlers, ptracer, flag, monitor, trace, buffer, channel,
                 served, unwound, dumps>>

(* ... or the time is over, or the monitor is gone.  bcd_emit ignores it.  *)
EmitUnanswered ==
  /\ At("emit") /\ acks = 0
  /\ emits' = Append(emits, "unanswered")
  /\ Goto("emitted")
  /\ UNCHANGED <<build, handlers, ptracer, flag, monitor, trace, buffer, channel,
                 served, unwound, dumps>>

(* bcd-dumpwithoutcrash dumps and returns true, so that the trap is taken  *)
(* again; the others return false.                                         *)
AfterEmit ==
  /\ At("emitted")
  /\ IF program = "bcd_dumpwithoutcrash"
     THEN dumps' = Append(dumps, stream) /\ Goto("trap")
     ELSE Goto("dump") /\ UNCHANGED dumps
  /\ UNCHANGED <<build, handlers, ptracer, flag, monitor, trace, buffer, channel,
                 served, unwound, emits>>

(* Crashpad writes the minidump and the program dies of its signal.        *)
Dump ==
  /\ At("dump")
  /\ dumps' = Append(dumps, stream)
  /\ Exit("dumped")
  /\ UNCHANGED <<build, handlers, ptracer, flag, monitor, trace, buffer, channel,
                 served, unwound, emits>>

Client ==
  \/ HandleInit \/ BufferCreate \/ BufferInit \/ ConfigInit \/ SetHandlers
  \/ BcdInit \/ AwaitCf \/ BcdAttach \/ AwaitTid \/ SetPtracer \/ InitCrashpad
  \/ Trap \/ HandlerUnwinds \/ HandlerEmits \/ HandlerDeclines
  \/ EmitAnswered \/ EmitUnanswered \/ AfterEmit \/ Dump

-----------------------------------------------------------------------------
(* The monitor.  bcd_child calls monitor_init first, which maps the buffer *)
(* and stores the monitor's pid at its start ...                           *)
MonitorInit ==
  /\ monitor = "born"
  /\ \/ monitor' = "mapped" /\ word' = IF handlers THEN "pid" ELSE word
     \/ CallsFail /\ monitor' = "gone" /\ UNCHANGED word
  /\ UNCHANGED <<client, trace, stream, channel, history>>

(* ... opens the listener and reports its path.                            *)
Listen ==
  /\ monitor = "mapped"
  /\ \/ main # "gone" /\ monitor' = "ready" /\ cf' = TRUE
     \/ (CallsFail \/ main = "gone") /\ monitor' = "gone" /\ UNCHANGED cf
  /\ UNCHANGED <<client, trace, buffer, requests, acks, history>>

(* Mutant of Receive: the request is acknowledged when it is read.         *)
ReceiveAcknowledging ==
  /\ monitor = "ready" /\ requests # <<>>
  /\ requests' = Tail(requests)
  /\ acks' = acks + 1
  /\ monitor' = IF Head(requests) = "tid" THEN "ready"
                ELSE IF handlers THEN "handler" ELSE "tracer"
  /\ served' = IF Head(requests) = "tid" THEN served ELSE Append(served, monitor')
  /\ UNCHANGED <<client, trace, buffer, cf, unwound, emits, dumps>>

(* bcd_read_request and bcd_perform_request: without a request_handler the *)
(* monitor executes a tracer of its own.                                   *)
Receive ==
  /\ monitor = "ready" /\ requests # <<>>
  /\ requests' = Tail(requests)
  /\ monitor' = IF Head(requests) = "tid" THEN "answer"
                ELSE IF handlers THEN "handler" ELSE "tracer"
  /\ served' = IF Head(requests) = "tid" THEN served ELSE Append(served, monitor')
  /\ UNCHANGED <<client, trace, buffer, cf, acks, unwound, emits, dumps>>

(* request_handler.  bun_handle_init may fail, and the handler returns -1  *)
(* as always ...                                                           *)
HandlerFails ==
  /\ monitor = "handler" /\ CallsFail
  /\ monitor' = "answer"
  /\ UNCHANGED <<client, trace, buffer, channel, history>>

(* ... or bun_unwind_remote is called: a null pointer in the handle of     *)
(* libbacktrace; libunwindstack_unwind_remote stores the header of the     *)
(* report before it attaches, libunwind_unwind_remote nothing.             *)
CallRemote ==
  /\ monitor = "handler"
  /\ monitor' = IF backend = "libbacktrace" THEN "gone" ELSE "attach"
  /\ stream' = IF backend = "libunwindstack" THEN "begun" ELSE stream
  /\ UNCHANGED <<client, trace, word, channel, history>>

(* Mutant of AttachToClient: the client is traced but not stopped, as with *)
(* PTRACE_SEIZE.                                                           *)
AttachToClientSeizing ==
  /\ monitor = "attach" /\ main # "gone" /\ ptracer = "pid"
  /\ monitor' = "attached"
  /\ UNCHANGED <<client, trace, buffer, channel, history>>

(* PTRACE_ATTACH sends a SIGSTOP.  The kernel lets a child trace its       *)
(* parent only if the parent named it.                                     *)
AttachToClient ==
  /\ monitor = "attach" /\ main # "gone" /\ ptracer = "pid"
  /\ trace' = "pending"
  /\ monitor' = "waiting"
  /\ UNCHANGED <<client, buffer, channel, history>>

(* It fails, and the unwind returns 0; the header of libunwindstack stays. *)
AttachFails ==
  /\ monitor = "attach" /\ (CallsFail \/ main = "gone" \/ ptracer # "pid")
  /\ monitor' = "answer"
  /\ UNCHANGED <<client, trace, buffer, channel, history>>

(* bun_waitpid and waitpid see the stop of the client ...                  *)
SeeStop ==
  /\ monitor = "waiting" /\ trace = "stopped"
  /\ monitor' = "attached"
  /\ UNCHANGED <<client, trace, buffer, channel, history>>

(* ... or its end, which leaves nothing to detach from ...                 *)
SeeEnd ==
  /\ monitor = "waiting" /\ main = "gone"
  /\ monitor' = "answer"
  /\ UNCHANGED <<client, trace, buffer, channel, history>>

(* ... or bun_waitpid gives up, PTRACE_GETREGS having failed on a client   *)
(* that still runs: the wait of libunwindstack has no timeout.             *)
TimeOut ==
  /\ monitor = "waiting" /\ backend = "libunwind" /\ trace = "pending"
  /\ monitor' = "timed_out"
  /\ UNCHANGED <<client, trace, buffer, channel, history>>

(* PTRACE_DETACH fails on a client that runs: the SIGSTOP stays pending,   *)
(* and nobody waits for the stop any more.                                 *)
GiveUp ==
  /\ monitor = "timed_out"
  /\ trace' = IF trace = "stopped" THEN "none" ELSE trace
  /\ monitor' = "answer"
  /\ UNCHANGED <<client, buffer, channel, history>>

(* unw_init_remote or RemoteMaps::Parse fails, PTRACE_DETACH lets the      *)
(* client go.                                                              *)
PrepareFails ==
  /\ monitor = "attached" /\ CallsFail
  /\ trace' = "none"
  /\ monitor' = "answer"
  /\ UNCHANGED <<client, buffer, channel, history>>

(* The frames are written while the client is stopped, with libunwind the  *)
(* header, too ...                                                         *)
StartReport ==
  /\ monitor = "attached"
  /\ stream' = "partial"
  /\ monitor' = "writing"
  /\ UNCHANGED <<client, trace, word, channel, history>>

(* ... all of them, or a frame is refused and the unwind returns 0, and    *)
(* PTRACE_DETACH lets the client go.                                       *)
FinishReport ==
  /\ monitor = "writing"
  /\ \/ stream' = "full" /\ unwound' = TRUE
     \/ stream' = "cut" /\ UNCHANGED unwound
  /\ trace' = "none"
  /\ monitor' = "answer"
  /\ UNCHANGED <<client, word, channel, served, emits, dumps>>

(* bcd_execve returns when the tracer ended or its alarm came.  It aborts  *)
(* the monitor if no signal comes for a second, as it exits on SIGTERM.    *)
TracerReturns ==
  /\ monitor = "tracer"
  /\ monitor' \in {"answer", "gone"}
  /\ UNCHANGED <<client, trace, buffer, channel, history>>

(* bcd_write_ack, whatever the request came to; the write fails if the     *)
(* client is gone.                                                         *)
Answer ==
  /\ monitor = "answer"
  /\ IF main = "gone" THEN monitor' = "gone" /\ UNCHANGED acks
                      ELSE monitor' = "ready" /\ acks' = acks + 1
  /\ UNCHANGED <<client, trace, buffer, cf, requests, history>>

(* Mutant of Leave: only a detached session ends the monitor. *)
LeaveDetached ==
  /\ monitor = "ready" /\ main = "detached"
  /\ monitor' = "gone"
  /\ UNCHANGED <<client, trace, buffer, channel, history>>

(* The client's socket and pipes are closed: bcd_read_request and          *)
(* bcd_handler_sb end the monitor.                                         *)
Leave ==
  /\ monitor = "ready" /\ main = "gone"
  /\ monitor' = "gone"
  /\ UNCHANGED <<client, trace, buffer, channel, history>>

Monitor ==
  \/ MonitorInit \/ Listen \/ Receive \/ HandlerFails \/ CallRemote
  \/ AttachToClient \/ AttachFails \/ SeeStop \/ SeeEnd \/ TimeOut \/ GiveUp
  \/ PrepareFails \/ StartReport \/ FinishReport \/ TracerReturns \/ Answer \/ Leave

-----------------------------------------------------------------------------
(* The kernel and others.  The client takes the SIGSTOP, whether or not    *)
(* its tracer still waits or lives.                                        *)
TakeStop ==
  /\ trace = "pending" /\ main # "gone"
  /\ trace' = "stopped"
  /\ UNCHANGED <<client, monitor, buffer, channel, history>>

(* Somebody kills the monitor, or it faults over the registers of a client *)
(* that was killed (libunwindstack).  The kernel detaches the client and   *)
(* lets it go on if the monitor has seen its stop; a SIGSTOP that it has   *)
(* not seen takes its effect.                                              *)
Die ==
  /\ Kills
  /\ monitor \notin {"none", "gone"}
  /\ monitor' = "gone"
  /\ trace' = IF monitor \in {"attached", "writing"} THEN "none" ELSE trace
  /\ UNCHANGED <<client, buffer, channel, history>>

(* Somebody kills the client, stopped or not. *)
Killed ==
  /\ Kills
  /\ main # "gone"
  /\ Exit("killed")
  /\ trace' = "none"
  /\ UNCHANGED <<build, handlers, ptracer, flag, monitor, buffer, channel, history>>

Next == Client \/ Monitor \/ TakeStop \/ Die \/ Killed

(* The client is scheduled.  Of a monitor as slow as can be, no more is    *)
(* assumed than that it does not stop for good while the client is         *)
(* stopped, or once the client is gone; of the kernel, nothing.            *)
Fairness ==
  /\ WF_vars(Client)
  /\ WF_vars(trace = "stopped" /\ Monitor)
  /\ WF_vars(main = "gone" /\ Monitor)

Spec == Init /\ [][Next]_vars /\ Fairness

-----------------------------------------------------------------------------
ClientLabels == {"handle_init", "buffer_create", "buffer_init", "bcd_config_init",
                 "set_handlers", "bcd_init", "await_cf", "bcd_attach", "await_tid",
                 "ptracer", "crashpad", "trap", "handler", "emit", "emitted", "dump",
                 "gone"}
MonitorLabels == {"none", "born", "mapped", "ready", "handler", "attach", "waiting",
                  "timed_out", "attached", "writing", "tracer", "answer", "gone"}

(* Nothing; a header without frames; frames being stored; the frames up to *)
(* a refused one; all of them.                                             *)
Reports == {"none", "begun", "partial", "cut", "full"}

(* Every variable keeps its type; no program has more than one request and *)
(* one acknowledgement under way, or takes more than two dumps.            *)
TypeOK ==
  /\ program \in Programs /\ backend \in Backends
  /\ main \in ClientLabels
  /\ outcome \in {"running", "gave_up", "sigpipe", "dumped", "killed"}
  /\ handlers \in BOOLEAN /\ flag \in BOOLEAN
  /\ trace \in {"none", "pending", "stopped"}
  /\ ptracer \in {"none", "zero", "pid"}
  /\ monitor \in MonitorLabels
  /\ word \in {"zero", "pid"} /\ stream \in Reports
  /\ cf \in BOOLEAN /\ acks \in 0..1
  /\ requests \in {<<>>, <<"tid">>, <<"trace">>}
  /\ served \in {<<>>, <<"handler">>, <<"tracer">>}
  /\ unwound \in BOOLEAN
  /\ emits \in {<<>>, <<"answered">>, <<"unanswered">>}
  /\ dumps \in Seq(Reports) /\ Len(dumps) <= 2

(* Once a bcd program can crash, it has named its own monitor to           *)
(* PR_SET_PTRACER: it never reads the start of the buffer before the       *)
(* monitor stored its pid there, nor after something else was stored.      *)
TracerAuthorised ==
  program \in BcdPrograms /\ main \in {"trap", "handler", "emit", "emitted", "dump"}
    => ptracer = "pid"

(* "Synchronously generates a backtrace": an answered emit has been        *)
(* performed by the request handler, and what every dump after it holds is *)
(* final: the whole report if the unwind returned a size, and if it        *)
(* returned 0 what it left, which is never taken for the whole.  The same  *)
(* holds for the local unwind of example_crashpad.cpp.                     *)
DumpHoldsReport ==
  \A i \in 1..Len(dumps) :
    /\ program = "crashpad" => dumps[i] # "none" /\ (dumps[i] = "full" <=> unwound)
    /\ program \in BcdPrograms /\ emits = <<"answered">> =>
         /\ served = <<"handler">>
         /\ dumps[i] # "partial" /\ (dumps[i] = "full" <=> unwound)

(* A client whose timeout ends while the monitor still unwinds it does not *)
(* dump half-written frames: ptrace stops it until the last is stored, so  *)
(* that only the death of the monitor leaves such a report.  A dump may    *)
(* hold a header without frames only with libunwindstack, which stores it  *)
(* before it stops the client.                                             *)
DumpNotTorn ==
  \A i \in 1..Len(dumps) :
    /\ dumps[i] = "partial" => monitor = "gone"
    /\ dumps[i] = "begun" => backend = "libunwindstack"

(* Once the client has seen the answer to its emit the report is final:    *)
(* the two dumps of bcd-dumpwithoutcrash hold the same one, and nobody     *)
(* writes to the buffer that Crashpad copies.                              *)
AnsweredReportFinal ==
  [][emits = <<"answered">> => UNCHANGED stream]_vars

(* The client is stopped by a SIGSTOP that its monitor did not wait for:   *)
(* bun_waitpid gave up first, or the monitor died.                         *)
Stranded == trace = "stopped" /\ monitor \in {"answer", "ready", "gone"}

(* However slow or dead the monitor is, a crash ends in a minidump, with   *)
(* these exceptions: somebody killed the client, the monitor was gone when *)
(* the client wrote its request, or the client is stranded.                *)
CrashIsDumped ==
  main = "trap" ~> \/ outcome \in {"dumped", "killed"}
                   \/ outcome = "sigpipe" /\ monitor = "gone"
                   \/ Stranded

(* A monitor does not outlive its client, whatever it was doing. *)
MonitorFollows == main = "gone" ~> monitor \in {"none", "gone"}

(* The comment in main of example_crashpad_remote.cpp: request_handler is  *)
(* the "Request handler to be called when processing errors by BCD         *)
(* worker".  A request that is performed is performed by it.               *)
RequestsReachHandler ==
  \A i \in 1..Len(served) : served[i] = "handler"

-----------------------------------------------------------------------------
(* The stages before bcd_init forks the monitor, and the labels each       *)
(* program can be at.                                                      *)
Early == {"handle_init", "buffer_create", "buffer_init", "set_handlers",
          "bcd_config_init", "bcd_init"}
Attaching == {"await_cf", "bcd_attach", "await_tid"}
Crashing == {"trap", "handler", "emit", "emitted", "dump"}

OnCourse ==
  /\ program \in BcdPrograms =>
       main \in {"buffer_create", "bcd_config_init", "set_handlers", "bcd_init",
                "ptracer", "crashpad", "gone"} \cup Attaching \cup Crashing
  /\ program = "crashpad_remote" =>
       main \in {"crashpad", "gone"} \cup Early \cup Attaching \cup Crashing
  /\ program = "crashpad" =>
       main \in {"handle_init", "crashpad", "buffer_init", "trap", "handler", "dump",
                "gone"}
  /\ flag => /\ program = "bcd_dumpwithoutcrash"
             /\ main \in Crashing \cup {"gone"}
  /\ program = "bcd_dumpwithoutcrash" /\ main \in {"emit", "emitted"} => flag

(* The monitor is forked by bcd_init, with the handlers that a bcd program *)
(* has set by then, and stores its pid before it reports to the client.    *)
MonitorForked ==
  /\ main \in Early \/ program = "crashpad" => monitor = "none" /\ ~cf
  /\ program \in BcdPrograms =>
       /\ main \notin {"buffer_create", "bcd_config_init", "set_handlers", "gone"}
            => handlers
       /\ monitor # "none" => handlers
       /\ monitor \notin {"none", "born", "gone"} \/ cf => word = "pid"
       /\ main \in {"bcd_attach", "await_tid", "ptracer", "crashpad"} \cup Crashing
            => word = "pid"
       /\ main \in {"crashpad"} \cup Crashing => ptracer = "pid"

(* The client has not sent its trace request. *)
BeforeEmit == main \notin {"emit", "emitted", "dump", "gone"} /\ ~flag

(* The monitor is in its request_handler, or has a request that it did not *)
(* answer.                                                                 *)
Unwinding ==
  monitor \in {"handler", "attach", "waiting", "timed_out", "attached", "writing"}
Busy == Unwinding \/ monitor \in {"tracer", "answer"}

Quiet == requests = <<>> /\ acks = 0 /\ ~Busy

(* One request is under way at a time: in the socket, at the monitor, or   *)
(* answered.  An answer that the client finds while it waits for the trace *)
(* is the answer to the trace.                                             *)
OneRequest ==
  /\ requests # <<>> => acks = 0 /\ ~Busy
  /\ acks = 1 => ~Busy
  /\ requests = <<"trace">> => served = <<>>
  /\ program = "crashpad" => Quiet /\ served = <<>>
  /\ BeforeEmit => /\ served = <<>> /\ emits = <<>> /\ requests # <<"trace">>
                   /\ main # "await_tid" => Quiet
  /\ main = "emit" => /\ emits = <<>> /\ requests # <<"tid">>
                      /\ Busy \/ acks = 1 => served # <<>>

(* The client is stopped for as long as the monitor stores frames.  The    *)
(* SIGSTOP stays with a client that its monitor left only after a timeout, *)
(* which libunwind has, or a death.                                        *)
ClientHeld ==
  /\ monitor \in {"attached", "writing"} /\ main # "gone" => trace = "stopped"
  /\ monitor \in {"none", "born", "mapped", "handler", "attach", "tracer"} => trace = "none"
  /\ trace = "stopped" => main # "gone"
  /\ trace # "none" => served = <<"handler">>
  /\ trace # "none" /\ main # "gone" /\ monitor \in {"timed_out", "answer", "ready"}
       => backend = "libunwind"
  /\ stream = "partial" => monitor \in {"writing", "gone"}

(* The report changes only while the monitor serves the trace request, and *)
(* is whole exactly if the unwind returned a size.                         *)
ReportSettles ==
  /\ stream = "full" <=> unwound
  /\ stream = "begun" => backend = "libunwindstack"
  /\ BeforeEmit => stream = "none"
  /\ program # "crashpad" =>
       /\ served = <<>> => stream = "none"
       /\ Unwinding => served = <<"handler">>
       /\ Unwinding /\ monitor # "writing" => stream \in {"none", "begun"}
       /\ monitor = "writing" => stream = "partial"
       /\ acks = 1 \/ emits = <<"answered">> => stream # "partial"
       /\ emits = <<"answered">> => Quiet /\ served # <<>>
       /\ program \in BcdPrograms => served # <<"tracer">> /\ monitor # "tracer"

(* How many minidumps the client has taken so far. *)
DumpsSoFar ==
  /\ main # "gone" =>
       Len(dumps) <= IF flag /\ main \in {"trap", "handler", "dump"} THEN 1 ELSE 0
  /\ program = "crashpad" /\ main = "dump" => stream # "none"

(* The inductive invariant behind the safety properties of the programs.   *)
ProgramsInv ==
  /\ TypeOK
  /\ OnCourse
  /\ MonitorForked
  /\ OneRequest
  /\ ReportSettles
  /\ ClientHeld
  /\ DumpsSoFar
  /\ DumpHoldsReport
  /\ DumpNotTorn
=============================================================================
