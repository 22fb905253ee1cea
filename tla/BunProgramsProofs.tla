--------------------------- MODULE BunProgramsProofs ---------------------------
(***************************************************************************)
(* Proofs about BunPrograms, for every selection of the programs, and      *)
(* whether or not calls fail and client or monitor may be killed.          *)
(***************************************************************************)
EXTENDS BunPrograms, TLAPS

(* Sequences of at most one element, as the channels and histories are.    *)
LEMMA ShortSequences ==
  ASSUME NEW x, NEW y
  PROVE  /\ Append(<<>>, x) = <<x>> /\ <<x>> # <<>>
         /\ Head(<<x>>) = x /\ Tail(<<x>>) = <<>>
         /\ <<x>> = <<y>> => x = y
         /\ Len(<<>>) = 0
  OBVIOUS

LEMMA ProgramCases ==
  ASSUME TypeOK
  PROVE  /\ program \in AllPrograms
         /\ program \in {"bcd", "bcd_poison", "bcd_dumpwithoutcrash", "crashpad_remote",
                         "crashpad"}
         /\ program \in BcdPrograms <=> program \notin {"crashpad_remote", "crashpad"}
  BY ProgramsAssumption DEF TypeOK, AllPrograms, BcdPrograms

(* The stage after the i-th one of a program whose stages differ.          *)
LEMMA NextStage ==
  ASSUME NEW n \in Nat, DOMAIN Stages[program] = 1..n, Len(Stages[program]) = n,
         \A i, j \in 1..n : Stages[program][i] = Stages[program][j] => i = j,
         NEW k \in 1..n
  PROVE  After(Stages[program][k]) = IF k = n THEN "trap" ELSE Stages[program][k + 1]
  <1> DEFINE st == Stages[program]
             c == CHOOSE j \in DOMAIN st : st[j] = st[k]
  <1>1. c \in DOMAIN st /\ st[c] = st[k]
    OBVIOUS
  <1>2. c = k
    BY <1>1
  <1>3. After(st[k]) = IF c = Len(st) THEN "trap" ELSE st[c + 1]
    BY DEF After
  <1> QED BY <1>2, <1>3

(* The order of the start-up in the main of each program. *)
LEMMA StageOrder ==
  ASSUME TypeOK
  PROVE  /\ program \in BcdPrograms =>
              /\ After("buffer_create") = "bcd_config_init"
              /\ After("bcd_config_init") = "set_handlers"
              /\ After("set_handlers") = "bcd_init"
              /\ After("bcd_init") = "bcd_attach"
              /\ After("bcd_attach") = "ptracer"
              /\ After("ptracer") = "crashpad"
              /\ After("crashpad") = "trap"
         /\ program = "crashpad_remote" =>
              /\ After("handle_init") = "buffer_create"
              /\ After("buffer_create") = "buffer_init"
              /\ After("buffer_init") = "set_handlers"
              /\ After("set_handlers") = "bcd_config_init"
              /\ After("bcd_config_init") = "bcd_init"
              /\ After("bcd_init") = "bcd_attach"
              /\ After("bcd_attach") = "crashpad"
              /\ After("crashpad") = "trap"
         /\ program = "crashpad" =>
              /\ After("handle_init") = "crashpad"
              /\ After("crashpad") = "buffer_init"
              /\ After("buffer_init") = "trap"
  <1>1. ASSUME program \in BcdPrograms
        PROVE  /\ After("buffer_create") = "bcd_config_init"
               /\ After("bcd_config_init") = "set_handlers"
               /\ After("set_handlers") = "bcd_init"
               /\ After("bcd_init") = "bcd_attach"
               /\ After("bcd_attach") = "ptracer"
               /\ After("ptracer") = "crashpad"
               /\ After("crashpad") = "trap"
    <2> DEFINE st == Stages[program]
    <2>1. st = BcdStages
      BY <1>1 DEF Stages, BcdPrograms, PoisonStages, DumpWithoutCrashStages
    <2>2. /\ DOMAIN st = 1..7 /\ Len(st) = 7
          /\ st[1] = "buffer_create"
          /\ st[2] = "bcd_config_init"
          /\ st[3] = "set_handlers"
          /\ st[4] = "bcd_init"
          /\ st[5] = "bcd_attach"
          /\ st[6] = "ptracer"
          /\ st[7] = "crashpad"
      BY <2>1 DEF BcdStages
    <2> HIDE DEF st
    <2>3. \A i, j \in 1..7 : st[i] = st[j] => i = j
      BY <2>2
    <2>4. ASSUME NEW k \in 1..7
          PROVE  After(st[k]) = IF k = 7 THEN "trap" ELSE st[k + 1]
      BY <2>2, <2>3, NextStage DEF st
    <2> QED BY <2>2, <2>4
  <1>2. ASSUME program = "crashpad_remote"
        PROVE  /\ After("handle_init") = "buffer_create"
               /\ After("buffer_create") = "buffer_init"
               /\ After("buffer_init") = "set_handlers"
               /\ After("set_handlers") = "bcd_config_init"
               /\ After("bcd_config_init") = "bcd_init"
               /\ After("bcd_init") = "bcd_attach"
               /\ After("bcd_attach") = "crashpad"
               /\ After("crashpad") = "trap"
    <2> DEFINE st == Stages[program]
    <2>1. st = RemoteStages
      BY <1>2 DEF Stages
    <2>2. /\ DOMAIN st = 1..8 /\ Len(st) = 8
          /\ st[1] = "handle_init"
          /\ st[2] = "buffer_create"
          /\ st[3] = "buffer_init"
          /\ st[4] = "set_handlers"
          /\ st[5] = "bcd_config_init"
          /\ st[6] = "bcd_init"
          /\ st[7] = "bcd_attach"
          /\ st[8] = "crashpad"
      BY <2>1 DEF RemoteStages
    <2> HIDE DEF st
    <2>3. \A i, j \in 1..8 : st[i] = st[j] => i = j
      BY <2>2
    <2>4. ASSUME NEW k \in 1..8
          PROVE  After(st[k]) = IF k = 8 THEN "trap" ELSE st[k + 1]
      BY <2>2, <2>3, NextStage DEF st
    <2> QED BY <2>2, <2>4
  <1>3. ASSUME program = "crashpad"
        PROVE  /\ After("handle_init") = "crashpad"
               /\ After("crashpad") = "buffer_init"
               /\ After("buffer_init") = "trap"
    <2> DEFINE st == Stages[program]
    <2>1. st = LocalStages
      BY <1>3 DEF Stages
    <2>2. /\ DOMAIN st = 1..3 /\ Len(st) = 3
          /\ st[1] = "handle_init"
          /\ st[2] = "crashpad"
          /\ st[3] = "buffer_init"
      BY <2>1 DEF LocalStages
    <2> HIDE DEF st
    <2>3. \A i, j \in 1..3 : st[i] = st[j] => i = j
      BY <2>2
    <2>4. ASSUME NEW k \in 1..3
          PROVE  After(st[k]) = IF k = 3 THEN "trap" ELSE st[k + 1]
      BY <2>2, <2>3, NextStage DEF st
    <2> QED BY <2>2, <2>4
  <1> QED BY <1>1, <1>2, <1>3

-----------------------------------------------------------------------------
(* The types of the variables that are neither sequences nor labels of the *)
(* client, and those of the ones that a step of the client's start-up or   *)
(* of the monitor changes.                                                 *)
FlagsTyped ==
  /\ handlers \in BOOLEAN /\ flag \in BOOLEAN /\ cf \in BOOLEAN /\ unwound \in BOOLEAN
  /\ acks \in 0..1

LabelsTyped ==
  /\ backend \in Backends
  /\ outcome \in {"running", "gave_up", "sigpipe", "dumped", "killed"}
  /\ trace \in {"none", "pending", "stopped"}
  /\ ptracer \in {"none", "zero", "pid"}
  /\ monitor \in MonitorLabels
  /\ word \in {"zero", "pid"} /\ stream \in Reports

ScalarsTyped == FlagsTyped /\ LabelsTyped

LEMMA ScalarTypes == TypeOK => FlagsTyped /\ LabelsTyped
  BY DEF TypeOK, FlagsTyped, LabelsTyped

(* The labels of a program are labels of the model.                        *)
LEMMA CourseLabels ==
  ASSUME TypeOK, program' = program, OnCourse'
  PROVE  main' \in ClientLabels
  BY ProgramCases DEF OnCourse, ClientLabels, Early, Attaching, Crashing

(* A step that neither sends, receives nor answers a request, nor dumps.   *)
LEMMA TypeKept ==
  ASSUME TypeOK, UNCHANGED <<program, requests, served, emits, dumps>>,
         OnCourse', ScalarsTyped'
  PROVE  TypeOK'
  <1>1. main' \in ClientLabels
    BY CourseLabels
  <1> QED BY <1>1 DEF TypeOK, ScalarsTyped, FlagsTyped, LabelsTyped

LEMMA InitPrograms == Init => ProgramsInv
  <1> SUFFICES ASSUME Init PROVE ProgramsInv
    OBVIOUS
  <1>1. /\ program \in {"bcd", "bcd_poison", "bcd_dumpwithoutcrash", "crashpad_remote",
                        "crashpad"}
        /\ program \in BcdPrograms <=> program \notin {"crashpad_remote", "crashpad"}
    BY ProgramsAssumption DEF Init, AllPrograms, BcdPrograms
  <1>2. main = IF program \in BcdPrograms THEN "buffer_create" ELSE "handle_init"
    <2>1. CASE program \in BcdPrograms
      <3>1. Stages[program] = BcdStages
        BY <2>1 DEF Stages, BcdPrograms, PoisonStages, DumpWithoutCrashStages
      <3>2. BcdStages[1] = "buffer_create"
        BY DEF BcdStages
      <3> QED BY <2>1, <3>1, <3>2 DEF Init
    <2>2. CASE program = "crashpad_remote"
      BY <1>1, <2>2 DEF Init, Stages, RemoteStages
    <2>3. CASE program = "crashpad"
      BY <1>1, <2>3 DEF Init, Stages, LocalStages
    <2> QED BY <1>1, <2>1, <2>2, <2>3
  <1>3. TypeOK
    <2>1. main \in ClientLabels
      BY <1>2 DEF ClientLabels
    <2>2. acks = 0 /\ dumps = <<>>
      BY DEF Init
    <2>3. acks \in 0..1
      BY <2>2
    <2>4. dumps \in Seq(Reports)
      BY <2>2
    <2>5. Len(dumps) <= 2
      BY <2>2, ShortSequences
    <2> QED BY <2>1, <2>3, <2>4, <2>5 DEF Init, TypeOK, MonitorLabels, Reports
  <1>4. OnCourse
    BY <1>1, <1>2 DEF Init, OnCourse, Early
  <1>5. MonitorForked
    BY <1>1, <1>2 DEF Init, MonitorForked, Crashing
  <1>6. OneRequest
    BY <1>2 DEF Init, OneRequest, Quiet, Busy, Unwinding, BeforeEmit
  <1>7. ReportSettles /\ ClientHeld
    BY DEF Init, ReportSettles, Quiet, Busy, Unwinding, ClientHeld
  <1>8. DumpsSoFar /\ DumpHoldsReport /\ DumpNotTorn
    <2>1. dumps = <<>> /\ flag = FALSE
      BY DEF Init
    <2>2. Len(dumps) = 0
      BY <2>1, ShortSequences
    <2> QED BY <1>2, <2>1, <2>2 DEF DumpsSoFar, DumpHoldsReport, DumpNotTorn
  <1> QED BY <1>3, <1>4, <1>5, <1>6, <1>7, <1>8 DEF ProgramsInv

-----------------------------------------------------------------------------
(* What the dumps say does not change with a step that takes no dump and   *)
(* leaves the monitor and its service alone.                               *)
LEMMA DumpsKept ==
  ASSUME ProgramsInv, UNCHANGED <<program, backend, emits, served, unwound, dumps>>,
         monitor' = monitor \/ monitor # "gone"
  PROVE  DumpHoldsReport' /\ DumpNotTorn'
  BY DEF ProgramsInv, DumpHoldsReport, DumpNotTorn

(* A step that takes no dump while the trace request is unanswered.        *)
LEMMA DumpsKeptUnanswered ==
  ASSUME ProgramsInv, UNCHANGED <<program, backend, emits, dumps>>,
         program # "crashpad", emits # <<"answered">>, monitor # "gone"
  PROVE  DumpHoldsReport' /\ DumpNotTorn'
  BY DEF ProgramsInv, DumpHoldsReport, DumpNotTorn

(* Before the first dump there is nothing to say.                          *)
LEMMA NoDumps ==
  ASSUME dumps' = dumps, Len(dumps) = 0
  PROVE  DumpHoldsReport' /\ DumpNotTorn'
  BY DEF DumpHoldsReport, DumpNotTorn

LEMMA DumpTaken ==
  ASSUME NEW d \in Seq(Reports), NEW r \in Reports
  PROVE  /\ Append(d, r) \in Seq(Reports)
         /\ Len(Append(d, r)) = Len(d) + 1 /\ Len(d) \in Nat
         /\ \A i \in 1..Len(d) : Append(d, r)[i] = d[i]
         /\ Append(d, r)[Len(d) + 1] = r
  OBVIOUS

(* A dump is taken by a client that is not stopped: the monitor does not   *)
(* write then, and what it wrote for an answered request is settled.       *)
LEMMA DumpKeeps ==
  ASSUME ProgramsInv, trace # "stopped", main # "gone",
         program = "crashpad" => stream # "none",
         dumps' = Append(dumps, stream), Len(dumps) <= 1,
         UNCHANGED <<build, emits, served, unwound, monitor>>
  PROVE  /\ dumps' \in Seq(Reports) /\ Len(dumps') = Len(dumps) + 1 /\ Len(dumps') <= 2
         /\ DumpHoldsReport' /\ DumpNotTorn'
  <1>1. dumps \in Seq(Reports) /\ stream \in Reports
    BY DEF ProgramsInv, TypeOK
  <1>2. /\ Len(dumps') = Len(dumps) + 1 /\ Len(dumps) \in Nat /\ dumps' \in Seq(Reports)
        /\ \A i \in 1..Len(dumps) : dumps'[i] = dumps[i]
        /\ dumps'[Len(dumps) + 1] = stream
    BY <1>1, DumpTaken
  <1>3. \A i \in 1..Len(dumps') : i \in 1..Len(dumps) \/ i = Len(dumps) + 1
    BY <1>2
  <1>4. /\ stream = "partial" => monitor = "gone"
        /\ stream = "begun" => backend = "libunwindstack"
    BY DEF ProgramsInv, ClientHeld, ReportSettles
  <1>5. DumpNotTorn'
    BY <1>2, <1>3, <1>4 DEF ProgramsInv, DumpNotTorn, build
  <1>6. program \in BcdPrograms /\ emits = <<"answered">> =>
          served = <<"handler">> /\ stream # "partial"
    BY ProgramCases DEF ProgramsInv, TypeOK, ReportSettles
  <1>7. DumpHoldsReport'
    <2>1. stream = "full" <=> unwound
      BY DEF ProgramsInv, ReportSettles
    <2> QED BY <1>2, <1>3, <1>6, <2>1 DEF ProgramsInv, DumpHoldsReport, build
  <1> QED BY <1>2, <1>5, <1>7

(* Before the client sends its trace request there is nothing in the       *)
(* buffer and nobody is at work, except on the thread id.                  *)
LEMMA BeforeTrace ==
  ASSUME ProgramsInv, main \notin {"emit", "emitted", "dump", "gone"}, ~flag
  PROVE  /\ served = <<>> /\ emits = <<>> /\ requests # <<"trace">> /\ Len(dumps) = 0
         /\ main # "await_tid" => requests = <<>> /\ acks = 0 /\ ~Busy
         /\ stream = "none" /\ ~unwound /\ trace = "none"
  <1>1. dumps \in Seq(Reports)
    BY DEF ProgramsInv, TypeOK
  <1>2. Len(dumps) = 0
    <2>1. Len(dumps) \in Nat
      BY <1>1
    <2> QED BY <2>1 DEF ProgramsInv, DumpsSoFar
  <1>3. served = <<>> /\ stream = "none" /\ ~unwound
    BY DEF ProgramsInv, OneRequest, BeforeEmit, ReportSettles
  <1>4. trace = "none"
    BY <1>3 DEF ProgramsInv, ClientHeld
  <1> QED BY <1>2, <1>3, <1>4 DEF ProgramsInv, OneRequest, BeforeEmit, Quiet

(* A step of the start-up that neither forks the monitor nor talks to it.  *)
LEMMA StartUpStep ==
  ASSUME ProgramsInv,
         main \notin {"await_tid", "gone"} \cup Crashing,
         main' \notin {"await_tid", "emit", "emitted", "dump"},
         stream' \in {stream, "none"},
         UNCHANGED <<build, flag, monitor, trace, requests, acks, history>>,
         TypeOK', OnCourse', MonitorForked'
  PROVE  ProgramsInv'
  <1>1. /\ ~flag /\ UNCHANGED <<program, backend, served, unwound, emits, dumps>>
    BY DEF ProgramsInv, OnCourse, build, history
  <1>2. /\ Quiet /\ served = <<>> /\ emits = <<>> /\ requests # <<"trace">>
        /\ stream' = "none" /\ ~unwound /\ trace = "none"
    BY <1>1, BeforeTrace DEF ProgramsInv, OneRequest, BeforeEmit, Crashing
  <1>3. OneRequest'
    BY <1>1, <1>2 DEF OneRequest, Quiet, Busy, Unwinding, BeforeEmit
  <1>4. ReportSettles'
    BY <1>1, <1>2 DEF ProgramsInv, ReportSettles, Quiet, Busy, Unwinding
  <1>5. ClientHeld'
    BY <1>1, <1>2 DEF ProgramsInv, ClientHeld, Quiet, Busy, Unwinding
  <1>6. DumpsSoFar'
    BY <1>1 DEF ProgramsInv, DumpsSoFar, Crashing
  <1>7. DumpHoldsReport' /\ DumpNotTorn'
    BY <1>1, DumpsKept
  <1> QED BY <1>3, <1>4, <1>5, <1>6, <1>7 DEF ProgramsInv

-----------------------------------------------------------------------------
(* One lemma for each action of the client ...                             *)

(* The start-up: its calls only move the client along its course.          *)
LEMMA HandleInitInv ==
  ASSUME ProgramsInv, HandleInit
  PROVE  ProgramsInv'
  <1> USE DEF ProgramsInv, HandleInit, At, DoneOrExit, Done, Goto, Exit, build,
              buffer, channel, history
  <1>1. OnCourse'
    BY ProgramCases, StageOrder DEF OnCourse, Early, Attaching, Crashing
  <1>2. TypeOK'
    <2>1. ScalarsTyped'
      <3>1. FlagsTyped'
        BY ScalarTypes DEF FlagsTyped
      <3>2. LabelsTyped'
        BY ScalarTypes DEF LabelsTyped, MonitorLabels, Reports
      <3> QED BY <3>1, <3>2 DEF ScalarsTyped
    <2> QED BY <1>1, <2>1, TypeKept
  <1>3. MonitorForked'
    BY ProgramCases, StageOrder
       DEF TypeOK, MonitorForked, OnCourse, Early, Attaching, Crashing
  <1> QED BY <1>1, <1>2, <1>3, ProgramCases, StageOrder, StartUpStep
             DEF OnCourse, Early, Attaching, Crashing

(* The buffer is filled with zeros before the monitor exists.              *)
LEMMA BufferCreateInv ==
  ASSUME ProgramsInv, BufferCreate
  PROVE  ProgramsInv'
  <1> USE DEF ProgramsInv, BufferCreate, At, DoneOrExit, Done, Goto, Exit, build,
              buffer, channel, history
  <1>1. OnCourse'
    BY ProgramCases, StageOrder DEF OnCourse, Early, Attaching, Crashing
  <1>2. TypeOK'
    <2>1. ScalarsTyped'
      <3>1. FlagsTyped'
        BY ScalarTypes DEF FlagsTyped
      <3>2. LabelsTyped'
        BY ScalarTypes DEF LabelsTyped, MonitorLabels, Reports
      <3> QED BY <3>1, <3>2 DEF ScalarsTyped
    <2> QED BY <1>1, <2>1, TypeKept
  <1>3. MonitorForked'
    BY ProgramCases, StageOrder
       DEF TypeOK, MonitorForked, OnCourse, Early, Attaching, Crashing
  <1> QED BY <1>1, <1>2, <1>3, ProgramCases, StageOrder, StartUpStep
             DEF OnCourse, Early, Attaching, Crashing

(* bun_buffer_init, too, finds no report to lose.                          *)
LEMMA BufferInitInv ==
  ASSUME ProgramsInv, BufferInit
  PROVE  ProgramsInv'
  <1> USE DEF ProgramsInv, BufferInit, At, DoneOrExit, Done, Goto, Exit, build,
              buffer, channel, history
  <1>1. OnCourse'
    BY ProgramCases, StageOrder DEF OnCourse, Early, Attaching, Crashing
  <1>2. TypeOK'
    <2>1. ScalarsTyped'
      <3>1. FlagsTyped'
        BY ScalarTypes DEF FlagsTyped
      <3>2. LabelsTyped'
        BY ScalarTypes DEF LabelsTyped, MonitorLabels, Reports
      <3> QED BY <3>1, <3>2 DEF ScalarsTyped
    <2> QED BY <1>1, <2>1, TypeKept
  <1>3. MonitorForked'
    BY ProgramCases, StageOrder
       DEF TypeOK, MonitorForked, OnCourse, Early, Attaching, Crashing
  <1> QED BY <1>1, <1>2, <1>3, ProgramCases, StageOrder, StartUpStep
             DEF OnCourse, Early, Attaching, Crashing

(* The handlers are taken back where nobody was forked yet.                *)
LEMMA ConfigInitInv ==
  ASSUME ProgramsInv, ConfigInit
  PROVE  ProgramsInv'
  <1> USE DEF ProgramsInv, ConfigInit, At, Done, Goto, build, buffer, channel, history
  <1>1. OnCourse'
    BY ProgramCases, StageOrder DEF OnCourse, Early, Attaching, Crashing
  <1>2. TypeOK'
    <2>1. ScalarsTyped'
      <3>1. FlagsTyped'
        BY ScalarTypes DEF FlagsTyped
      <3>2. LabelsTyped'
        BY ScalarTypes DEF LabelsTyped, MonitorLabels, Reports
      <3> QED BY <3>1, <3>2 DEF ScalarsTyped
    <2> QED BY <1>1, <2>1, TypeKept
  <1>3. MonitorForked'
    BY ProgramCases, StageOrder
       DEF TypeOK, MonitorForked, OnCourse, Early, Attaching, Crashing
  <1> QED BY <1>1, <1>2, <1>3, ProgramCases, StageOrder, StartUpStep
             DEF OnCourse, Early, Attaching, Crashing

(* They are set before the fork in the bcd programs.                       *)
LEMMA SetHandlersInv ==
  ASSUME ProgramsInv, SetHandlers
  PROVE  ProgramsInv'
  <1> USE DEF ProgramsInv, SetHandlers, At, Done, Goto, build, buffer, channel, history
  <1>1. OnCourse'
    BY ProgramCases, StageOrder DEF OnCourse, Early, Attaching, Crashing
  <1>2. TypeOK'
    <2>1. ScalarsTyped'
      <3>1. FlagsTyped'
        BY ScalarTypes DEF FlagsTyped
      <3>2. LabelsTyped'
        BY ScalarTypes DEF LabelsTyped, MonitorLabels, Reports
      <3> QED BY <3>1, <3>2 DEF ScalarsTyped
    <2> QED BY <1>1, <2>1, TypeKept
  <1>3. MonitorForked'
    BY ProgramCases, StageOrder
       DEF TypeOK, MonitorForked, OnCourse, Early, Attaching, Crashing
  <1> QED BY <1>1, <1>2, <1>3, ProgramCases, StageOrder, StartUpStep
             DEF OnCourse, Early, Attaching, Crashing

(* bcd_init forks the monitor with the handlers that main has set so far.  *)
LEMMA BcdInitInv ==
  ASSUME ProgramsInv, BcdInit
  PROVE  ProgramsInv'
  <1> USE DEF ProgramsInv, BcdInit, At, Goto, Exit, build, buffer, channel, history
  <1>1. OnCourse'
    BY ProgramCases DEF OnCourse, Early, Attaching, Crashing
  <1>2. TypeOK'
    <2>1. ScalarsTyped'
      <3>1. FlagsTyped'
        BY ScalarTypes DEF FlagsTyped
      <3>2. LabelsTyped'
        BY ScalarTypes DEF LabelsTyped, MonitorLabels, Reports
      <3> QED BY <3>1, <3>2 DEF ScalarsTyped
    <2> QED BY <1>1, <2>1, TypeKept
  <1>3. MonitorForked'
    BY ProgramCases DEF TypeOK, MonitorForked, OnCourse, Early, Attaching, Crashing
  <1>4. /\ requests = <<>> /\ acks = 0 /\ served = <<>> /\ emits = <<>> /\ ~flag
        /\ monitor = "none" /\ Len(dumps) = 0 /\ program # "crashpad"
        /\ stream = "none" /\ ~unwound
    BY BeforeTrace, ProgramCases
       DEF OnCourse, MonitorForked, Early, Attaching, Crashing
  <1>5. OneRequest'
    BY <1>4, ShortSequences DEF OneRequest, Quiet, Busy, Unwinding, BeforeEmit
  <1>6. ReportSettles'
    BY <1>4, ShortSequences
       DEF ReportSettles, Quiet, Busy, Unwinding, BeforeEmit, OnCourse
  <1>7. ClientHeld'
    BY <1>4 DEF ClientHeld
  <1>8. DumpsSoFar'
    BY <1>4 DEF DumpsSoFar
  <1>9. DumpHoldsReport' /\ DumpNotTorn'
    BY <1>4, NoDumps
  <1> QED BY <1>1, <1>2, <1>3, <1>4, <1>5, <1>6, <1>7, <1>8, <1>9

(* BCD_OP_CF says that the monitor has stored its pid.                     *)
LEMMA AwaitCfInv ==
  ASSUME ProgramsInv, AwaitCf
  PROVE  ProgramsInv'
  <1> USE DEF ProgramsInv, AwaitCf, At, DoneOrExit, Done, Goto, Exit, build, buffer,
              channel, history
  <1>1. OnCourse'
    BY ProgramCases, StageOrder DEF OnCourse, Early, Attaching, Crashing
  <1>2. TypeOK'
    <2>1. ScalarsTyped'
      <3>1. FlagsTyped'
        BY ScalarTypes DEF FlagsTyped
      <3>2. LabelsTyped'
        BY ScalarTypes DEF LabelsTyped, MonitorLabels, Reports
      <3> QED BY <3>1, <3>2 DEF ScalarsTyped
    <2> QED BY <1>1, <2>1, TypeKept
  <1>3. MonitorForked'
    BY ProgramCases, StageOrder
       DEF TypeOK, MonitorForked, OnCourse, Early, Attaching, Crashing
  <1> QED BY <1>1, <1>2, <1>3, ProgramCases, StageOrder, StartUpStep
             DEF OnCourse, Early, Attaching, Crashing

(* The thread id is the only packet under way.                             *)
LEMMA BcdAttachInv ==
  ASSUME ProgramsInv, BcdAttach
  PROVE  ProgramsInv'
  <1> USE DEF ProgramsInv, BcdAttach, At, Goto, Exit, build, buffer, channel, history
  <1>1. OnCourse'
    BY ProgramCases DEF OnCourse, Early, Attaching, Crashing
  <1>2. TypeOK'
    <2>1. main' \in ClientLabels
      BY <1>1, CourseLabels
    <2>2. requests = <<>>
      BY BeforeTrace DEF OnCourse, Crashing
    <2>3. requests' \in {<<>>, <<"tid">>}
      BY <2>2, ShortSequences
    <2> QED BY <2>1, <2>3 DEF TypeOK
  <1>3. MonitorForked'
    BY ProgramCases DEF TypeOK, MonitorForked, OnCourse, Early, Attaching, Crashing
  <1>4. /\ requests = <<>> /\ acks = 0 /\ ~Busy /\ served = <<>> /\ emits = <<>> /\ ~flag
        /\ Len(dumps) = 0 /\ program # "crashpad" /\ stream = "none" /\ ~unwound
    BY BeforeTrace, ProgramCases DEF OnCourse, Crashing
  <1>5. OneRequest'
    <2>1. requests' \in {<<>>, <<"tid">>}
      BY <1>4, ShortSequences
    <2> QED BY <1>4, <2>1, ShortSequences
               DEF OneRequest, Quiet, Busy, Unwinding, BeforeEmit
  <1>6. ReportSettles'
    BY <1>4, ShortSequences
       DEF ReportSettles, Quiet, Busy, Unwinding, BeforeEmit, OnCourse
  <1>7. ClientHeld'
    BY DEF ClientHeld
  <1>8. DumpsSoFar'
    BY <1>4 DEF DumpsSoFar
  <1>9. DumpHoldsReport' /\ DumpNotTorn'
    BY <1>4, NoDumps
  <1> QED BY <1>1, <1>2, <1>3, <1>4, <1>5, <1>6, <1>7, <1>8, <1>9

(* The acknowledgement is that of the thread id, and nothing is left over. *)
LEMMA AwaitTidInv ==
  ASSUME ProgramsInv, AwaitTid
  PROVE  ProgramsInv'
  <1> USE DEF ProgramsInv, AwaitTid, At, Done, Goto, Exit, build, buffer, channel, history
  <1>1. OnCourse'
    BY ProgramCases, StageOrder DEF OnCourse, Early, Attaching, Crashing
  <1>2. \/ main' = "gone" /\ acks' = acks
        \/ main' = After("bcd_attach") /\ acks = 1 /\ acks' = 0
    <2>1. acks \in 0..1
      BY DEF TypeOK
    <2>2. acks > 0 => acks = 1 /\ acks - 1 = 0
      BY <2>1
    <2> QED BY <2>2
  <1>3. TypeOK'
    <2>1. acks' \in 0..1
      <3>1. acks \in 0..1
        BY DEF TypeOK
      <3> HIDE DEF AwaitTid
      <3> QED BY <1>2, <3>1
    <2>2. ScalarsTyped'
      BY <2>1, ScalarTypes DEF ScalarsTyped, FlagsTyped, LabelsTyped
    <2> QED BY <1>1, <2>2, TypeKept
  <1>4. MonitorForked'
    BY ProgramCases, StageOrder
       DEF TypeOK, MonitorForked, OnCourse, Early, Attaching, Crashing
  <1>5. /\ served = <<>> /\ emits = <<>> /\ requests # <<"trace">> /\ ~flag
        /\ Len(dumps) = 0 /\ program # "crashpad" /\ stream = "none" /\ ~unwound
    BY BeforeTrace, ProgramCases DEF OnCourse, Crashing
  <1>6. /\ main' \in {"ptracer", "crashpad", "gone"}
        /\ main' # "gone" => acks = 1 /\ acks' = 0 /\ requests = <<>> /\ ~Busy
        /\ main' = "gone" => acks' = acks
    <2>1. After("bcd_attach") \in {"ptracer", "crashpad"}
      BY <1>5, ProgramCases, StageOrder
    <2>2. acks = 1 => requests = <<>> /\ ~Busy
      BY DEF OneRequest
    <2> QED BY <1>2, <2>1, <2>2
  <1>7. OneRequest'
    BY <1>5, <1>6, ShortSequences DEF OneRequest, Quiet, Busy, Unwinding, BeforeEmit
  <1>8. ReportSettles'
    BY <1>5, <1>6, ShortSequences
       DEF ReportSettles, Quiet, Busy, Unwinding, BeforeEmit, OnCourse
  <1>9. ClientHeld'
    BY DEF ClientHeld
  <1>10. DumpsSoFar'
    BY <1>5 DEF DumpsSoFar
  <1>11. DumpHoldsReport' /\ DumpNotTorn'
    BY <1>5, NoDumps
  <1> QED BY <1>1, <1>3, <1>4, <1>5, <1>6, <1>7, <1>8, <1>9, <1>10, <1>11

(* The pid that main reads is the monitor's.                               *)
LEMMA SetPtracerInv ==
  ASSUME ProgramsInv, SetPtracer
  PROVE  ProgramsInv'
  <1> USE DEF ProgramsInv, SetPtracer, At, Done, Goto, build, buffer, channel, history
  <1>1. OnCourse'
    BY ProgramCases, StageOrder DEF OnCourse, Early, Attaching, Crashing
  <1>2. TypeOK'
    <2>1. ScalarsTyped'
      <3>1. FlagsTyped'
        BY ScalarTypes DEF FlagsTyped
      <3>2. LabelsTyped'
        BY ScalarTypes DEF LabelsTyped, MonitorLabels, Reports
      <3> QED BY <3>1, <3>2 DEF ScalarsTyped
    <2> QED BY <1>1, <2>1, TypeKept
  <1>3. MonitorForked'
    BY ProgramCases, StageOrder
       DEF TypeOK, MonitorForked, OnCourse, Early, Attaching, Crashing
  <1> QED BY <1>1, <1>2, <1>3, ProgramCases, StageOrder, StartUpStep
             DEF OnCourse, Early, Attaching, Crashing

(* Crashpad is the last stage but in example_crashpad.cpp.                 *)
LEMMA InitCrashpadInv ==
  ASSUME ProgramsInv, InitCrashpad
  PROVE  ProgramsInv'
  <1> USE DEF ProgramsInv, InitCrashpad, At, DoneOrExit, Done, Goto, Exit, build,
              buffer, channel, history
  <1>1. OnCourse'
    BY ProgramCases, StageOrder DEF OnCourse, Early, Attaching, Crashing
  <1>2. TypeOK'
    <2>1. ScalarsTyped'
      <3>1. FlagsTyped'
        BY ScalarTypes DEF FlagsTyped
      <3>2. LabelsTyped'
        BY ScalarTypes DEF LabelsTyped, MonitorLabels, Reports
      <3> QED BY <3>1, <3>2 DEF ScalarsTyped
    <2> QED BY <1>1, <2>1, TypeKept
  <1>3. MonitorForked'
    BY ProgramCases, StageOrder
       DEF TypeOK, MonitorForked, OnCourse, Early, Attaching, Crashing
  <1> QED BY <1>1, <1>2, <1>3, ProgramCases, StageOrder, StartUpStep
             DEF OnCourse, Early, Attaching, Crashing

(* The trap is taken, for the second time if flag is set.                  *)
LEMMA TrapInv ==
  ASSUME ProgramsInv, Trap
  PROVE  ProgramsInv'
  <1> USE DEF ProgramsInv, Trap, At, Goto, build, buffer, channel, history
  <1>1. OnCourse'
    BY ProgramCases DEF OnCourse, Early, Attaching, Crashing
  <1>2. TypeOK'
    <2>1. ScalarsTyped'
      <3>1. FlagsTyped'
        BY ScalarTypes DEF FlagsTyped
      <3>2. LabelsTyped'
        BY ScalarTypes DEF LabelsTyped, MonitorLabels, Reports
      <3> QED BY <3>1, <3>2 DEF ScalarsTyped
    <2> QED BY <1>1, <2>1, TypeKept
  <1>3. MonitorForked'
    BY ProgramCases DEF TypeOK, MonitorForked, OnCourse, Early, Attaching, Crashing
  <1>4. OneRequest'
    BY ProgramCases, ShortSequences
       DEF TypeOK, OneRequest, Quiet, Busy, Unwinding, BeforeEmit, OnCourse, Crashing,
           Early, Attaching
  <1>5. ReportSettles'
    BY ProgramCases, ShortSequences
       DEF TypeOK, ReportSettles, Quiet, Busy, Unwinding, OneRequest, BeforeEmit
  <1>6. ClientHeld'
    BY DEF TypeOK, ClientHeld, MonitorForked, Early, ReportSettles, OneRequest, Quiet,
           Busy, Unwinding
  <1>7. DumpsSoFar'
    BY ProgramCases DEF TypeOK, DumpsSoFar, OnCourse, Crashing
  <1>8. DumpHoldsReport' /\ DumpNotTorn'
    BY DumpsKept
  <1> QED BY <1>1, <1>2, <1>3, <1>4, <1>5, <1>6, <1>7, <1>8

(* The local unwind fills the buffer of the program that has no monitor.   *)
LEMMA HandlerUnwindsInv ==
  ASSUME ProgramsInv, HandlerUnwinds
  PROVE  ProgramsInv'
  <1> USE DEF ProgramsInv, HandlerUnwinds, At, Goto, build, buffer, channel, history
  <1>1. OnCourse'
    BY ProgramCases DEF OnCourse, Early, Attaching, Crashing
  <1>2. TypeOK'
    <2>1. ScalarsTyped'
      <3>1. FlagsTyped'
        BY ScalarTypes DEF FlagsTyped
      <3>2. LabelsTyped'
        BY ScalarTypes DEF LabelsTyped, MonitorLabels, Reports
      <3> QED BY <3>1, <3>2 DEF ScalarsTyped
    <2> QED BY <1>1, <2>1, TypeKept
  <1>3. MonitorForked'
    BY ProgramCases DEF TypeOK, MonitorForked, OnCourse, Early, Attaching, Crashing
  <1>4. OneRequest'
    BY ProgramCases, ShortSequences
       DEF TypeOK, OneRequest, Quiet, Busy, Unwinding, BeforeEmit, OnCourse, Crashing,
           Early, Attaching
  <1>5. /\ ~unwound /\ stream = "none" /\ Len(dumps) = 0
        /\ stream' = "full" => unwound'
        /\ unwound' => stream' = "full"
        /\ stream' = "begun" => backend' = "libunwindstack"
        /\ stream' # "none"
    <2>1. ~flag
      BY DEF OnCourse
    <2>2. ~unwound /\ stream = "none" /\ Len(dumps) = 0
      BY <2>1, BeforeTrace
    <2> QED BY <2>2
  <1>6. ReportSettles'
    BY <1>5 DEF ReportSettles, BeforeEmit
  <1>7. ClientHeld'
    BY DEF TypeOK, ClientHeld, MonitorForked, Early, ReportSettles, OneRequest, Quiet,
           Busy, Unwinding
  <1>8. DumpsSoFar'
    BY <1>5, ProgramCases DEF TypeOK, DumpsSoFar, OnCourse, Crashing
  <1>9. DumpHoldsReport' /\ DumpNotTorn'
    BY <1>5, NoDumps
  <1> QED BY <1>1, <1>2, <1>3, <1>4, <1>5, <1>6, <1>7, <1>8, <1>9

(* The trace request is sent when nothing is under way.                    *)
LEMMA HandlerEmitsInv ==
  ASSUME ProgramsInv, HandlerEmits
  PROVE  ProgramsInv'
  <1> USE DEF ProgramsInv, HandlerEmits, At, Goto, Exit, build, buffer, channel, history
  <1>1. OnCourse'
    BY ProgramCases DEF OnCourse, Early, Attaching, Crashing
  <1>2. TypeOK'
    <2>1. main' \in ClientLabels
      BY <1>1, CourseLabels
    <2>2. requests = <<>>
      BY BeforeTrace
    <2>3. requests' \in {<<>>, <<"trace">>}
      BY <2>2, ShortSequences
    <2> QED BY <2>1, <2>3 DEF TypeOK
  <1>3. MonitorForked'
    BY ProgramCases DEF TypeOK, MonitorForked, OnCourse, Early, Attaching, Crashing
  <1>4. /\ requests = <<>> /\ acks = 0 /\ ~Busy /\ served = <<>> /\ emits = <<>>
        /\ Len(dumps) = 0 /\ stream = "none" /\ ~unwound
    BY BeforeTrace
  <1>5. OneRequest'
    <2>1. /\ main' \in {"emit", "gone"}
          /\ requests' \in {<<>>, <<"trace">>}
      BY <1>4, ShortSequences
    <2> QED BY <1>4, <2>1, ShortSequences
               DEF OneRequest, Quiet, Busy, Unwinding, BeforeEmit
  <1>6. ReportSettles'
    BY <1>4, ShortSequences
       DEF ReportSettles, Quiet, Busy, Unwinding, BeforeEmit, OnCourse
  <1>7. ClientHeld'
    BY DEF ClientHeld
  <1>8. DumpsSoFar'
    BY <1>4 DEF DumpsSoFar
  <1>9. DumpHoldsReport' /\ DumpNotTorn'
    BY <1>4, NoDumps
  <1> QED BY <1>1, <1>2, <1>3, <1>4, <1>5, <1>6, <1>7, <1>8, <1>9

(* The second call of FirstChanceHandler goes straight to the dump.        *)
LEMMA HandlerDeclinesInv ==
  ASSUME ProgramsInv, HandlerDeclines
  PROVE  ProgramsInv'
  <1> USE DEF ProgramsInv, HandlerDeclines, At, Goto, build, buffer, channel, history
  <1>1. OnCourse'
    BY ProgramCases DEF OnCourse, Early, Attaching, Crashing
  <1>2. TypeOK'
    <2>1. ScalarsTyped'
      <3>1. FlagsTyped'
        BY ScalarTypes DEF FlagsTyped
      <3>2. LabelsTyped'
        BY ScalarTypes DEF LabelsTyped, MonitorLabels, Reports
      <3> QED BY <3>1, <3>2 DEF ScalarsTyped
    <2> QED BY <1>1, <2>1, TypeKept
  <1>3. MonitorForked'
    BY ProgramCases DEF TypeOK, MonitorForked, OnCourse, Early, Attaching, Crashing
  <1>4. OneRequest'
    BY ProgramCases, ShortSequences
       DEF TypeOK, OneRequest, Quiet, Busy, Unwinding, BeforeEmit, OnCourse, Crashing,
           Early, Attaching
  <1>5. ReportSettles'
    BY ProgramCases, ShortSequences
       DEF TypeOK, ReportSettles, Quiet, Busy, Unwinding, OneRequest, BeforeEmit
  <1>6. ClientHeld'
    BY DEF TypeOK, ClientHeld, MonitorForked, Early, ReportSettles, OneRequest, Quiet,
           Busy, Unwinding
  <1>7. DumpsSoFar'
    BY ProgramCases DEF TypeOK, DumpsSoFar, OnCourse, Crashing
  <1>8. DumpHoldsReport' /\ DumpNotTorn'
    BY DumpsKept
  <1> QED BY <1>1, <1>2, <1>3, <1>4, <1>5, <1>6, <1>7, <1>8

(* The acknowledgement is that of the trace request: its report is settled.*)
LEMMA EmitAnsweredInv ==
  ASSUME ProgramsInv, EmitAnswered
  PROVE  ProgramsInv'
  <1> USE DEF ProgramsInv, EmitAnswered, At, Goto, build, buffer, channel, history
  <1>1. OnCourse'
    BY ProgramCases DEF OnCourse, Early, Attaching, Crashing
  <1>2. acks = 1 /\ acks' = 0
    <2>1. acks \in 0..1
      BY DEF TypeOK
    <2> QED BY <2>1
  <1>3. TypeOK'
    <2>1. main' \in ClientLabels
      BY <1>1, CourseLabels
    <2>2. emits' = <<"answered">>
      BY ShortSequences DEF OneRequest
    <2>3. ScalarsTyped'
      <3>1. acks' \in 0..1
        BY <1>2
      <3> QED BY <3>1, ScalarTypes DEF ScalarsTyped, FlagsTyped, LabelsTyped
    <2> QED BY <2>1, <2>2, <2>3 DEF TypeOK, ScalarsTyped, FlagsTyped, LabelsTyped
  <1>4. MonitorForked'
    BY ProgramCases DEF TypeOK, MonitorForked, OnCourse, Early, Attaching, Crashing
  <1>5. /\ acks = 1 /\ acks' = 0 /\ requests = <<>> /\ ~Busy /\ served # <<>>
        /\ emits' = <<"answered">> /\ program # "crashpad"
    BY <1>2, ShortSequences DEF OneRequest, Quiet
  <1>6. Len(dumps) = 0
    <2>1. dumps \in Seq(Reports)
      BY DEF TypeOK
    <2>2. Len(dumps) \in Nat
      BY <2>1
    <2> QED BY <2>2 DEF DumpsSoFar
  <1>7. OneRequest'
    BY <1>5, ShortSequences DEF OneRequest, Quiet, Busy, Unwinding, BeforeEmit
  <1>8. ReportSettles'
    BY <1>5, ShortSequences
       DEF ReportSettles, Quiet, Busy, Unwinding, BeforeEmit, OnCourse
  <1>9. ClientHeld'
    BY DEF ClientHeld
  <1>10. DumpsSoFar'
    BY <1>5, <1>6 DEF DumpsSoFar
  <1>11. DumpHoldsReport' /\ DumpNotTorn'
    BY <1>6, NoDumps
  <1> QED BY <1>1, <1>3, <1>4, <1>5, <1>6, <1>7, <1>8, <1>9, <1>10, <1>11

(* The client gives up and the request stays with the monitor.             *)
LEMMA EmitUnansweredInv ==
  ASSUME ProgramsInv, EmitUnanswered
  PROVE  ProgramsInv'
  <1> USE DEF ProgramsInv, EmitUnanswered, At, Goto, build, buffer, channel, history
  <1>1. OnCourse'
    BY ProgramCases DEF OnCourse, Early, Attaching, Crashing
  <1>2. TypeOK'
    <2>1. main' \in ClientLabels
      BY <1>1, CourseLabels
    <2>2. emits' = <<"unanswered">>
      BY ShortSequences DEF OneRequest
    <2>3. ScalarsTyped'
      BY ScalarTypes DEF ScalarsTyped, FlagsTyped, LabelsTyped
    <2> QED BY <2>1, <2>2, <2>3 DEF TypeOK, ScalarsTyped, FlagsTyped, LabelsTyped
  <1>3. MonitorForked'
    BY ProgramCases DEF TypeOK, MonitorForked, OnCourse, Early, Attaching, Crashing
  <1>4. emits' = <<"unanswered">> /\ emits' # <<"answered">> /\ program # "crashpad"
    BY ShortSequences DEF OneRequest, OnCourse
  <1>5. Len(dumps) = 0
    <2>1. dumps \in Seq(Reports)
      BY DEF TypeOK
    <2>2. Len(dumps) \in Nat
      BY <2>1
    <2> QED BY <2>2 DEF DumpsSoFar
  <1>6. OneRequest'
    BY <1>4 DEF OneRequest, Quiet, Busy, Unwinding, BeforeEmit
  <1>7. ReportSettles'
    BY <1>4 DEF ReportSettles, Quiet, Busy, Unwinding, BeforeEmit, OnCourse
  <1>8. ClientHeld'
    BY DEF ClientHeld
  <1>9. DumpsSoFar'
    BY <1>4, <1>5 DEF DumpsSoFar
  <1>10. DumpHoldsReport' /\ DumpNotTorn'
    BY <1>5, NoDumps
  <1> QED BY <1>1, <1>2, <1>3, <1>4, <1>5, <1>6, <1>7, <1>8, <1>9, <1>10

(* bcd-dumpwithoutcrash takes its first dump here.                         *)
LEMMA AfterEmitInv ==
  ASSUME ProgramsInv, AfterEmit
  PROVE  ProgramsInv'
  <1> USE DEF ProgramsInv, AfterEmit, At, Goto, build, buffer, channel, history
  <1>1. OnCourse'
    BY ProgramCases DEF OnCourse, Early, Attaching, Crashing
  <1>2. /\ dumps' \in Seq(Reports) /\ Len(dumps') <= IF flag THEN 1 ELSE 0
        /\ DumpHoldsReport' /\ DumpNotTorn' /\ program # "crashpad"
    <2>1. Len(dumps) = 0 /\ dumps \in Seq(Reports) /\ program # "crashpad"
      <3>1. dumps \in Seq(Reports)
        BY DEF TypeOK
      <3>2. Len(dumps) \in Nat
        BY <3>1
      <3> QED BY <3>1, <3>2 DEF DumpsSoFar, OnCourse
    <2>2. CASE program = "bcd_dumpwithoutcrash"
      <3>1. flag /\ dumps' = Append(dumps, stream)
        BY <2>2 DEF OnCourse
      <3> QED BY <2>1, <3>1, DumpKeeps
    <2>3. CASE program # "bcd_dumpwithoutcrash"
      <3>1. UNCHANGED <<dumps, monitor, emits, served, unwound, program, backend>>
        BY <2>3
      <3>2. DumpHoldsReport' /\ DumpNotTorn'
        BY <3>1, DumpsKept
      <3>3. flag \in BOOLEAN /\ Len(dumps') = 0
        BY <2>1, <3>1 DEF TypeOK
      <3> QED BY <2>1, <3>1, <3>2, <3>3
    <2> QED BY <2>2, <2>3
  <1>3. TypeOK'
    <2>1. main' \in ClientLabels
      BY <1>1, CourseLabels
    <2>2. Len(dumps') <= 2
      <3>1. Len(dumps') \in Nat
        BY <1>2
      <3> QED BY <1>2, <3>1
    <2>3. ScalarsTyped'
      BY ScalarTypes DEF ScalarsTyped, FlagsTyped, LabelsTyped
    <2>4. dumps' \in Seq(Reports)
      BY <1>2
    <2> QED BY <2>1, <2>2, <2>3, <2>4 DEF TypeOK, ScalarsTyped, FlagsTyped, LabelsTyped
  <1>4. MonitorForked'
    BY ProgramCases DEF TypeOK, MonitorForked, OnCourse, Early, Attaching, Crashing
  <1>5. OneRequest'
    BY ShortSequences, ProgramCases
       DEF OneRequest, Quiet, Busy, Unwinding, BeforeEmit, OnCourse
  <1>6. ReportSettles'
    BY DEF ReportSettles, Quiet, Busy, Unwinding, BeforeEmit, OnCourse
  <1>7. ClientHeld'
    BY DEF ClientHeld
  <1>8. DumpsSoFar'
    BY <1>2 DEF DumpsSoFar, OnCourse
  <1>9. DumpHoldsReport' /\ DumpNotTorn'
    BY <1>2
  <1> QED BY <1>1, <1>3, <1>4, <1>5, <1>6, <1>7, <1>8, <1>9

(* The last dump.                                                          *)
LEMMA DumpInv ==
  ASSUME ProgramsInv, Dump
  PROVE  ProgramsInv'
  <1> USE DEF ProgramsInv, Dump, At, Exit, build, buffer, channel, history
  <1>1. OnCourse'
    BY ProgramCases DEF OnCourse, Early, Attaching, Crashing
  <1>2. TypeOK'
    <2>1. main' \in ClientLabels
      BY <1>1, CourseLabels
    <2>2. dumps' \in Seq(Reports) /\ Len(dumps') <= 2 /\ DumpHoldsReport' /\ DumpNotTorn'
      BY DumpKeeps DEF DumpsSoFar
    <2> QED BY <2>1, <2>2 DEF TypeOK
  <1>3. MonitorForked'
    BY ProgramCases DEF TypeOK, MonitorForked, OnCourse, Early, Attaching, Crashing
  <1>4. OneRequest'
    BY ShortSequences DEF OneRequest, Quiet, Busy, Unwinding, BeforeEmit
  <1>5. ReportSettles'
    BY DEF ReportSettles, Quiet, Busy, Unwinding, BeforeEmit, OnCourse
  <1>6. ClientHeld'
    BY DEF ClientHeld
  <1>7. DumpsSoFar'
    BY DEF DumpsSoFar
  <1>8. DumpHoldsReport' /\ DumpNotTorn'
    BY DumpKeeps DEF DumpsSoFar
  <1> QED BY <1>1, <1>2, <1>3, <1>4, <1>5, <1>6, <1>7, <1>8

-----------------------------------------------------------------------------
(* ... and of the monitor.                                                 *)

(* monitor_init stores the pid, the handlers being set by then.            *)
LEMMA MonitorInitInv ==
  ASSUME ProgramsInv, MonitorInit
  PROVE  ProgramsInv'
  <1> USE DEF ProgramsInv, MonitorInit, client, build, buffer, channel, history
  <1>1. OnCourse'
    BY ProgramCases DEF OnCourse, Early, Attaching, Crashing
  <1>2. TypeOK'
    <2>1. ScalarsTyped'
      <3>1. FlagsTyped'
        BY ScalarTypes DEF FlagsTyped
      <3>2. LabelsTyped'
        BY ScalarTypes DEF LabelsTyped, MonitorLabels, Reports
      <3> QED BY <3>1, <3>2 DEF ScalarsTyped
    <2> QED BY <1>1, <2>1, TypeKept
  <1>3. MonitorForked'
    BY ProgramCases DEF TypeOK, MonitorForked, OnCourse, Early, Attaching, Crashing
  <1>4. OneRequest'
    BY ProgramCases, ShortSequences
       DEF TypeOK, OneRequest, Quiet, Busy, Unwinding, BeforeEmit, OnCourse, Crashing,
           Early, Attaching
  <1>5. ReportSettles'
    BY ProgramCases, ShortSequences
       DEF TypeOK, ReportSettles, Quiet, Busy, Unwinding, OneRequest, BeforeEmit
  <1>6. ClientHeld'
    BY DEF TypeOK, ClientHeld, MonitorForked, Early, ReportSettles, OneRequest, Quiet,
           Busy, Unwinding
  <1>7. DumpsSoFar'
    BY ProgramCases DEF TypeOK, DumpsSoFar, OnCourse, Crashing
  <1>8. DumpHoldsReport' /\ DumpNotTorn'
    BY DumpsKept
  <1> QED BY <1>1, <1>2, <1>3, <1>4, <1>5, <1>6, <1>7, <1>8

(* The monitor reports itself after monitor_init.                          *)
LEMMA ListenInv ==
  ASSUME ProgramsInv, Listen
  PROVE  ProgramsInv'
  <1> USE DEF ProgramsInv, Listen, client, build, buffer, channel, history
  <1>1. OnCourse'
    BY ProgramCases DEF OnCourse, Early, Attaching, Crashing
  <1>2. TypeOK'
    <2>1. ScalarsTyped'
      <3>1. FlagsTyped'
        BY ScalarTypes DEF FlagsTyped
      <3>2. LabelsTyped'
        BY ScalarTypes DEF LabelsTyped, MonitorLabels, Reports
      <3> QED BY <3>1, <3>2 DEF ScalarsTyped
    <2> QED BY <1>1, <2>1, TypeKept
  <1>3. MonitorForked'
    BY ProgramCases DEF TypeOK, MonitorForked, OnCourse, Early, Attaching, Crashing
  <1>4. OneRequest'
    BY ProgramCases, ShortSequences
       DEF TypeOK, OneRequest, Quiet, Busy, Unwinding, BeforeEmit, OnCourse, Crashing,
           Early, Attaching
  <1>5. ReportSettles'
    BY ProgramCases, ShortSequences
       DEF TypeOK, ReportSettles, Quiet, Busy, Unwinding, OneRequest, BeforeEmit
  <1>6. ClientHeld'
    BY DEF TypeOK, ClientHeld, MonitorForked, Early, ReportSettles, OneRequest, Quiet,
           Busy, Unwinding
  <1>7. DumpsSoFar'
    BY ProgramCases DEF TypeOK, DumpsSoFar, OnCourse, Crashing
  <1>8. DumpHoldsReport' /\ DumpNotTorn'
    BY DumpsKept
  <1> QED BY <1>1, <1>2, <1>3, <1>4, <1>5, <1>6, <1>7, <1>8

(* The only packet passes from the socket to the monitor.                  *)
LEMMA ReceiveInv ==
  ASSUME ProgramsInv, Receive
  PROVE  ProgramsInv'
  <1> USE DEF ProgramsInv, Receive, client, build, buffer, channel, history
  <1>1. OnCourse'
    BY ProgramCases DEF OnCourse, Early, Attaching, Crashing
  <1>2. /\ requests' = <<>> /\ acks = 0 /\ program # "crashpad"
        /\ emits # <<"answered">> /\ monitor = "ready" /\ stream # "partial"
        /\ \/ /\ requests = <<"tid">> /\ monitor' = "answer" /\ served' = served
           \/ /\ requests = <<"trace">> /\ served = <<>> /\ stream = "none" /\ ~unwound
              /\ monitor' = IF handlers THEN "handler" ELSE "tracer"
              /\ served' = <<monitor'>>
    <2>1. requests \in {<<"tid">>, <<"trace">>}
      BY DEF TypeOK
    <2>2. /\ acks = 0 /\ program # "crashpad"
      BY DEF OneRequest, Quiet
    <2>3. emits # <<"answered">> /\ stream # "partial"
      BY <2>2 DEF ReportSettles, ClientHeld, Quiet
    <2>4. CASE requests = <<"tid">>
      <3>1. Head(requests) = "tid" /\ Tail(requests) = <<>>
        BY <2>4, ShortSequences
      <3> QED BY <2>2, <2>3, <2>4, <3>1
    <2>5. CASE requests = <<"trace">>
      <3>1. Head(requests) = "trace" /\ Tail(requests) = <<>> /\ served = <<>>
        BY <2>5, ShortSequences DEF OneRequest
      <3>2. stream = "none" /\ ~unwound
        BY <2>2, <3>1 DEF ReportSettles
      <3>3. served' = <<monitor'>>
        BY <3>1, ShortSequences
      <3> QED BY <2>2, <2>3, <2>5, <3>1, <3>2, <3>3
    <2> QED BY <2>1, <2>4, <2>5
  <1>3. TypeOK'
    <2>1. main' \in ClientLabels
      BY <1>1, CourseLabels
    <2>2. monitor' \in MonitorLabels /\ served' \in {<<>>, <<"handler">>, <<"tracer">>}
      BY <1>2 DEF TypeOK, MonitorLabels
    <2> QED BY <1>2, <2>1, <2>2 DEF TypeOK
  <1>4. MonitorForked'
    BY ProgramCases DEF TypeOK, MonitorForked, OnCourse, Early, Attaching, Crashing
  <1>5. OneRequest' /\ ReportSettles'
    <2>1. CASE requests = <<"tid">>
      <3>1. monitor' = "answer" /\ served' = served /\ main # "emit"
        BY <1>2, <2>1, ShortSequences DEF OneRequest
      <3>2. OneRequest'
        BY <1>2, <2>1, <3>1, ShortSequences DEF OneRequest, Quiet, Busy, BeforeEmit
      <3>3. ReportSettles'
        BY <1>2, <2>1, <3>1 DEF ReportSettles, Quiet, Unwinding, BeforeEmit
      <3> QED BY <3>2, <3>3
    <2>2. CASE requests = <<"trace">>
      <3>1. /\ monitor' \in {"handler", "tracer"} /\ served' = <<monitor'>>
            /\ stream = "none" /\ ~unwound /\ ~BeforeEmit
            /\ program \in BcdPrograms => monitor' = "handler"
        BY <1>2, <2>2, ShortSequences DEF OneRequest, MonitorForked
      <3>2. OneRequest'
        BY <1>2, <3>1, ShortSequences DEF OneRequest, Quiet, Busy, Unwinding, BeforeEmit
      <3>3. ReportSettles'
        BY <1>2, <3>1, ShortSequences DEF ReportSettles, Quiet, Unwinding, BeforeEmit
      <3> QED BY <3>2, <3>3
    <2> QED BY <1>2, <2>1, <2>2
  <1>6. ClientHeld'
    BY <1>2 DEF ClientHeld
  <1>7. DumpsSoFar'
    BY DEF DumpsSoFar
  <1>8. DumpHoldsReport' /\ DumpNotTorn'
    BY <1>2, DumpsKeptUnanswered
  <1> QED BY <1>1, <1>3, <1>4, <1>5, <1>6, <1>7, <1>8

(* A failed bun_handle_init leaves the buffer untouched.                   *)
LEMMA HandlerFailsInv ==
  ASSUME ProgramsInv, HandlerFails
  PROVE  ProgramsInv'
  <1> USE DEF ProgramsInv, HandlerFails, client, build, buffer, channel, history
  <1>1. OnCourse'
    BY ProgramCases DEF OnCourse, Early, Attaching, Crashing
  <1>2. TypeOK'
    <2>1. ScalarsTyped'
      <3>1. FlagsTyped'
        BY ScalarTypes DEF FlagsTyped
      <3>2. LabelsTyped'
        BY ScalarTypes DEF LabelsTyped, MonitorLabels, Reports
      <3> QED BY <3>1, <3>2 DEF ScalarsTyped
    <2> QED BY <1>1, <2>1, TypeKept
  <1>3. MonitorForked'
    BY ProgramCases DEF TypeOK, MonitorForked, OnCourse, Early, Attaching, Crashing
  <1>4. OneRequest'
    BY ProgramCases, ShortSequences
       DEF TypeOK, OneRequest, Quiet, Busy, Unwinding, BeforeEmit, OnCourse, Crashing,
           Early, Attaching
  <1>5. ReportSettles'
    BY ProgramCases, ShortSequences
       DEF TypeOK, ReportSettles, Quiet, Busy, Unwinding, OneRequest, BeforeEmit
  <1>6. ClientHeld'
    BY DEF TypeOK, ClientHeld, MonitorForked, Early, ReportSettles, OneRequest, Quiet,
           Busy, Unwinding
  <1>7. DumpsSoFar'
    BY ProgramCases DEF TypeOK, DumpsSoFar, OnCourse, Crashing
  <1>8. DumpHoldsReport' /\ DumpNotTorn'
    BY DumpsKept
  <1> QED BY <1>1, <1>2, <1>3, <1>4, <1>5, <1>6, <1>7, <1>8

(* Only the header of libunwindstack is stored before the client is stopped.*)
LEMMA CallRemoteInv ==
  ASSUME ProgramsInv, CallRemote
  PROVE  ProgramsInv'
  <1> USE DEF ProgramsInv, CallRemote, client, build, buffer, channel, history
  <1>1. OnCourse'
    BY ProgramCases DEF OnCourse, Early, Attaching, Crashing
  <1>2. TypeOK'
    <2>1. ScalarsTyped'
      <3>1. FlagsTyped'
        BY ScalarTypes DEF FlagsTyped
      <3>2. LabelsTyped'
        BY ScalarTypes DEF LabelsTyped, MonitorLabels, Reports
      <3> QED BY <3>1, <3>2 DEF ScalarsTyped
    <2> QED BY <1>1, <2>1, TypeKept
  <1>3. MonitorForked'
    BY ProgramCases DEF TypeOK, MonitorForked, OnCourse, Early, Attaching, Crashing
  <1>4. OneRequest'
    BY ProgramCases, ShortSequences
       DEF TypeOK, OneRequest, Quiet, Busy, Unwinding, BeforeEmit, OnCourse, Crashing,
           Early, Attaching
  <1>5. ReportSettles'
    BY ProgramCases, ShortSequences
       DEF TypeOK, ReportSettles, Quiet, Busy, Unwinding, OneRequest, BeforeEmit
  <1>6. ClientHeld'
    BY DEF TypeOK, ClientHeld, MonitorForked, Early, ReportSettles, OneRequest, Quiet,
           Busy, Unwinding
  <1>7. DumpsSoFar'
    BY ProgramCases DEF TypeOK, DumpsSoFar, OnCourse, Crashing
  <1>8. DumpHoldsReport' /\ DumpNotTorn'
    BY DumpsKept
  <1> QED BY <1>1, <1>2, <1>3, <1>4, <1>5, <1>6, <1>7, <1>8

(* A SIGSTOP is under way to the client.                                   *)
LEMMA AttachToClientInv ==
  ASSUME ProgramsInv, AttachToClient
  PROVE  ProgramsInv'
  <1> USE DEF ProgramsInv, AttachToClient, client, build, buffer, channel, history
  <1>1. OnCourse'
    BY ProgramCases DEF OnCourse, Early, Attaching, Crashing
  <1>2. TypeOK'
    <2>1. ScalarsTyped'
      <3>1. FlagsTyped'
        BY ScalarTypes DEF FlagsTyped
      <3>2. LabelsTyped'
        BY ScalarTypes DEF LabelsTyped, MonitorLabels, Reports
      <3> QED BY <3>1, <3>2 DEF ScalarsTyped
    <2> QED BY <1>1, <2>1, TypeKept
  <1>3. MonitorForked'
    BY ProgramCases DEF TypeOK, MonitorForked, OnCourse, Early, Attaching, Crashing
  <1>4. OneRequest'
    BY ProgramCases, ShortSequences
       DEF TypeOK, OneRequest, Quiet, Busy, Unwinding, BeforeEmit, OnCourse, Crashing,
           Early, Attaching
  <1>5. ReportSettles'
    BY ProgramCases, ShortSequences
       DEF TypeOK, ReportSettles, Quiet, Busy, Unwinding, OneRequest, BeforeEmit
  <1>6. ClientHeld'
    BY DEF TypeOK, ClientHeld, MonitorForked, Early, ReportSettles, OneRequest, Quiet,
           Busy, Unwinding
  <1>7. DumpsSoFar'
    BY ProgramCases DEF TypeOK, DumpsSoFar, OnCourse, Crashing
  <1>8. DumpHoldsReport' /\ DumpNotTorn'
    BY DumpsKept
  <1> QED BY <1>1, <1>2, <1>3, <1>4, <1>5, <1>6, <1>7, <1>8

(* A failed attach leaves at most that header.                             *)
LEMMA AttachFailsInv ==
  ASSUME ProgramsInv, AttachFails
  PROVE  ProgramsInv'
  <1> USE DEF ProgramsInv, AttachFails, client, build, buffer, channel, history
  <1>1. OnCourse'
    BY ProgramCases DEF OnCourse, Early, Attaching, Crashing
  <1>2. TypeOK'
    <2>1. ScalarsTyped'
      <3>1. FlagsTyped'
        BY ScalarTypes DEF FlagsTyped
      <3>2. LabelsTyped'
        BY ScalarTypes DEF LabelsTyped, MonitorLabels, Reports
      <3> QED BY <3>1, <3>2 DEF ScalarsTyped
    <2> QED BY <1>1, <2>1, TypeKept
  <1>3. MonitorForked'
    BY ProgramCases DEF TypeOK, MonitorForked, OnCourse, Early, Attaching, Crashing
  <1>4. OneRequest'
    BY ProgramCases, ShortSequences
       DEF TypeOK, OneRequest, Quiet, Busy, Unwinding, BeforeEmit, OnCourse, Crashing,
           Early, Attaching
  <1>5. ReportSettles'
    BY ProgramCases, ShortSequences
       DEF TypeOK, ReportSettles, Quiet, Busy, Unwinding, OneRequest, BeforeEmit
  <1>6. ClientHeld'
    BY DEF TypeOK, ClientHeld, MonitorForked, Early, ReportSettles, OneRequest, Quiet,
           Busy, Unwinding
  <1>7. DumpsSoFar'
    BY ProgramCases DEF TypeOK, DumpsSoFar, OnCourse, Crashing
  <1>8. DumpHoldsReport' /\ DumpNotTorn'
    BY DumpsKept
  <1> QED BY <1>1, <1>2, <1>3, <1>4, <1>5, <1>6, <1>7, <1>8

(* From here on the client takes no step.                                  *)
LEMMA SeeStopInv ==
  ASSUME ProgramsInv, SeeStop
  PROVE  ProgramsInv'
  <1> USE DEF ProgramsInv, SeeStop, client, build, buffer, channel, history
  <1>1. OnCourse'
    BY ProgramCases DEF OnCourse, Early, Attaching, Crashing
  <1>2. TypeOK'
    <2>1. ScalarsTyped'
      <3>1. FlagsTyped'
        BY ScalarTypes DEF FlagsTyped
      <3>2. LabelsTyped'
        BY ScalarTypes DEF LabelsTyped, MonitorLabels, Reports
      <3> QED BY <3>1, <3>2 DEF ScalarsTyped
    <2> QED BY <1>1, <2>1, TypeKept
  <1>3. MonitorForked'
    BY ProgramCases DEF TypeOK, MonitorForked, OnCourse, Early, Attaching, Crashing
  <1>4. OneRequest'
    BY ProgramCases, ShortSequences
       DEF TypeOK, OneRequest, Quiet, Busy, Unwinding, BeforeEmit, OnCourse, Crashing,
           Early, Attaching
  <1>5. ReportSettles'
    BY ProgramCases, ShortSequences
       DEF TypeOK, ReportSettles, Quiet, Busy, Unwinding, OneRequest, BeforeEmit
  <1>6. ClientHeld'
    BY DEF TypeOK, ClientHeld, MonitorForked, Early, ReportSettles, OneRequest, Quiet,
           Busy, Unwinding
  <1>7. DumpsSoFar'
    BY ProgramCases DEF TypeOK, DumpsSoFar, OnCourse, Crashing
  <1>8. DumpHoldsReport' /\ DumpNotTorn'
    BY DumpsKept
  <1> QED BY <1>1, <1>2, <1>3, <1>4, <1>5, <1>6, <1>7, <1>8

(* The client is gone.                                                     *)
LEMMA SeeEndInv ==
  ASSUME ProgramsInv, SeeEnd
  PROVE  ProgramsInv'
  <1> USE DEF ProgramsInv, SeeEnd, client, build, buffer, channel, history
  <1>1. OnCourse'
    BY ProgramCases DEF OnCourse, Early, Attaching, Crashing
  <1>2. TypeOK'
    <2>1. ScalarsTyped'
      <3>1. FlagsTyped'
        BY ScalarTypes DEF FlagsTyped
      <3>2. LabelsTyped'
        BY ScalarTypes DEF LabelsTyped, MonitorLabels, Reports
      <3> QED BY <3>1, <3>2 DEF ScalarsTyped
    <2> QED BY <1>1, <2>1, TypeKept
  <1>3. MonitorForked'
    BY ProgramCases DEF TypeOK, MonitorForked, OnCourse, Early, Attaching, Crashing
  <1>4. OneRequest'
    BY ProgramCases, ShortSequences
       DEF TypeOK, OneRequest, Quiet, Busy, Unwinding, BeforeEmit, OnCourse, Crashing,
           Early, Attaching
  <1>5. ReportSettles'
    BY ProgramCases, ShortSequences
       DEF TypeOK, ReportSettles, Quiet, Busy, Unwinding, OneRequest, BeforeEmit
  <1>6. ClientHeld'
    BY DEF TypeOK, ClientHeld, MonitorForked, Early, ReportSettles, OneRequest, Quiet,
           Busy, Unwinding
  <1>7. DumpsSoFar'
    BY ProgramCases DEF TypeOK, DumpsSoFar, OnCourse, Crashing
  <1>8. DumpHoldsReport' /\ DumpNotTorn'
    BY DumpsKept
  <1> QED BY <1>1, <1>2, <1>3, <1>4, <1>5, <1>6, <1>7, <1>8

(* Only libunwind gives up its wait.                                       *)
LEMMA TimeOutInv ==
  ASSUME ProgramsInv, TimeOut
  PROVE  ProgramsInv'
  <1> USE DEF ProgramsInv, TimeOut, client, build, buffer, channel, history
  <1>1. OnCourse'
    BY ProgramCases DEF OnCourse, Early, Attaching, Crashing
  <1>2. TypeOK'
    <2>1. ScalarsTyped'
      <3>1. FlagsTyped'
        BY ScalarTypes DEF FlagsTyped
      <3>2. LabelsTyped'
        BY ScalarTypes DEF LabelsTyped, MonitorLabels, Reports
      <3> QED BY <3>1, <3>2 DEF ScalarsTyped
    <2> QED BY <1>1, <2>1, TypeKept
  <1>3. MonitorForked'
    BY ProgramCases DEF TypeOK, MonitorForked, OnCourse, Early, Attaching, Crashing
  <1>4. OneRequest'
    BY ProgramCases, ShortSequences
       DEF TypeOK, OneRequest, Quiet, Busy, Unwinding, BeforeEmit, OnCourse, Crashing,
           Early, Attaching
  <1>5. ReportSettles'
    BY ProgramCases, ShortSequences
       DEF TypeOK, ReportSettles, Quiet, Busy, Unwinding, OneRequest, BeforeEmit
  <1>6. ClientHeld'
    BY DEF TypeOK, ClientHeld, MonitorForked, Early, ReportSettles, OneRequest, Quiet,
           Busy, Unwinding
  <1>7. DumpsSoFar'
    BY ProgramCases DEF TypeOK, DumpsSoFar, OnCourse, Crashing
  <1>8. DumpHoldsReport' /\ DumpNotTorn'
    BY DumpsKept
  <1> QED BY <1>1, <1>2, <1>3, <1>4, <1>5, <1>6, <1>7, <1>8

(* The SIGSTOP may stay with the client, the report is as it was.          *)
LEMMA GiveUpInv ==
  ASSUME ProgramsInv, GiveUp
  PROVE  ProgramsInv'
  <1> USE DEF ProgramsInv, GiveUp, client, build, buffer, channel, history
  <1>1. OnCourse'
    BY ProgramCases DEF OnCourse, Early, Attaching, Crashing
  <1>2. TypeOK'
    <2>1. ScalarsTyped'
      <3>1. FlagsTyped'
        BY ScalarTypes DEF FlagsTyped
      <3>2. LabelsTyped'
        BY ScalarTypes DEF LabelsTyped, MonitorLabels, Reports
      <3> QED BY <3>1, <3>2 DEF ScalarsTyped
    <2> QED BY <1>1, <2>1, TypeKept
  <1>3. MonitorForked'
    BY ProgramCases DEF TypeOK, MonitorForked, OnCourse, Early, Attaching, Crashing
  <1>4. OneRequest'
    BY ProgramCases, ShortSequences
       DEF TypeOK, OneRequest, Quiet, Busy, Unwinding, BeforeEmit, OnCourse, Crashing,
           Early, Attaching
  <1>5. ReportSettles'
    BY ProgramCases, ShortSequences
       DEF TypeOK, ReportSettles, Quiet, Busy, Unwinding, OneRequest, BeforeEmit
  <1>6. ClientHeld'
    BY DEF TypeOK, ClientHeld, MonitorForked, Early, ReportSettles, OneRequest, Quiet,
           Busy, Unwinding
  <1>7. DumpsSoFar'
    BY ProgramCases DEF TypeOK, DumpsSoFar, OnCourse, Crashing
  <1>8. DumpHoldsReport' /\ DumpNotTorn'
    BY DumpsKept
  <1> QED BY <1>1, <1>2, <1>3, <1>4, <1>5, <1>6, <1>7, <1>8

(* The client is let go without a frame.                                   *)
LEMMA PrepareFailsInv ==
  ASSUME ProgramsInv, PrepareFails
  PROVE  ProgramsInv'
  <1> USE DEF ProgramsInv, PrepareFails, client, build, buffer, channel, history
  <1>1. OnCourse'
    BY ProgramCases DEF OnCourse, Early, Attaching, Crashing
  <1>2. TypeOK'
    <2>1. ScalarsTyped'
      <3>1. FlagsTyped'
        BY ScalarTypes DEF FlagsTyped
      <3>2. LabelsTyped'
        BY ScalarTypes DEF LabelsTyped, MonitorLabels, Reports
      <3> QED BY <3>1, <3>2 DEF ScalarsTyped
    <2> QED BY <1>1, <2>1, TypeKept
  <1>3. MonitorForked'
    BY ProgramCases DEF TypeOK, MonitorForked, OnCourse, Early, Attaching, Crashing
  <1>4. OneRequest'
    BY ProgramCases, ShortSequences
       DEF TypeOK, OneRequest, Quiet, Busy, Unwinding, BeforeEmit, OnCourse, Crashing,
           Early, Attaching
  <1>5. ReportSettles'
    BY ProgramCases, ShortSequences
       DEF TypeOK, ReportSettles, Quiet, Busy, Unwinding, OneRequest, BeforeEmit
  <1>6. ClientHeld'
    BY DEF TypeOK, ClientHeld, MonitorForked, Early, ReportSettles, OneRequest, Quiet,
           Busy, Unwinding
  <1>7. DumpsSoFar'
    BY ProgramCases DEF TypeOK, DumpsSoFar, OnCourse, Crashing
  <1>8. DumpHoldsReport' /\ DumpNotTorn'
    BY DumpsKept
  <1> QED BY <1>1, <1>2, <1>3, <1>4, <1>5, <1>6, <1>7, <1>8

(* The report is torn while the client is stopped and no emit was answered.*)
LEMMA StartReportInv ==
  ASSUME ProgramsInv, StartReport
  PROVE  ProgramsInv'
  <1> USE DEF ProgramsInv, StartReport, client, build, buffer, channel, history
  <1>1. OnCourse'
    BY ProgramCases DEF OnCourse, Early, Attaching, Crashing
  <1>2. TypeOK'
    <2>1. ScalarsTyped'
      <3>1. FlagsTyped'
        BY ScalarTypes DEF FlagsTyped
      <3>2. LabelsTyped'
        BY ScalarTypes DEF LabelsTyped, MonitorLabels, Reports
      <3> QED BY <3>1, <3>2 DEF ScalarsTyped
    <2> QED BY <1>1, <2>1, TypeKept
  <1>3. MonitorForked'
    BY ProgramCases DEF TypeOK, MonitorForked, OnCourse, Early, Attaching, Crashing
  <1>4. program # "crashpad" /\ acks # 1 /\ emits # <<"answered">>
    BY DEF OneRequest, ReportSettles, Quiet, Busy, Unwinding
  <1>5. OneRequest'
    BY DEF OneRequest, Quiet, Busy, Unwinding, BeforeEmit
  <1>6. ReportSettles'
    BY <1>4, ShortSequences
       DEF ReportSettles, OneRequest, Quiet, Busy, Unwinding, BeforeEmit
  <1>7. ClientHeld'
    BY DEF ClientHeld
  <1>8. DumpsSoFar'
    BY <1>4 DEF DumpsSoFar
  <1>9. DumpHoldsReport' /\ DumpNotTorn'
    BY DumpsKept
  <1> QED BY <1>1, <1>2, <1>3, <1>4, <1>5, <1>6, <1>7, <1>8, <1>9

(* The report is whole or cut before the client is let go.                 *)
LEMMA FinishReportInv ==
  ASSUME ProgramsInv, FinishReport
  PROVE  ProgramsInv'
  <1> USE DEF ProgramsInv, FinishReport, client, build, buffer, channel, history
  <1>1. OnCourse'
    BY ProgramCases DEF OnCourse, Early, Attaching, Crashing
  <1>2. TypeOK'
    <2>1. ScalarsTyped'
      <3>1. FlagsTyped'
        BY ScalarTypes DEF FlagsTyped
      <3>2. LabelsTyped'
        BY ScalarTypes DEF LabelsTyped, MonitorLabels, Reports
      <3> QED BY <3>1, <3>2 DEF ScalarsTyped
    <2> QED BY <1>1, <2>1, TypeKept
  <1>3. MonitorForked'
    BY ProgramCases DEF TypeOK, MonitorForked, OnCourse, Early, Attaching, Crashing
  <1>4. /\ program # "crashpad" /\ emits # <<"answered">> /\ acks # 1
        /\ served = <<"handler">> /\ ~unwound
    BY DEF OneRequest, ReportSettles, ClientHeld, Quiet, Busy, Unwinding
  <1>5. OneRequest'
    BY DEF OneRequest, Quiet, Busy, Unwinding, BeforeEmit
  <1>6. ReportSettles'
    <2>1. ~BeforeEmit /\ served # <<>>
      BY <1>4, ShortSequences DEF OneRequest
    <2>2. /\ stream' = "full" => unwound'
          /\ unwound' => stream' = "full"
          /\ stream' \in {"full", "cut"}
      BY <1>4
    <2> QED BY <1>4, <2>1, <2>2 DEF ReportSettles, BeforeEmit, Unwinding
  <1>7. ClientHeld'
    BY DEF ClientHeld
  <1>8. DumpsSoFar'
    BY <1>4 DEF DumpsSoFar
  <1>9. DumpHoldsReport' /\ DumpNotTorn'
    BY <1>4, DumpsKeptUnanswered
  <1> QED BY <1>1, <1>2, <1>3, <1>4, <1>5, <1>6, <1>7, <1>8, <1>9

(* The tracer of BCD's own does not touch the buffer, nor does an abort.   *)
LEMMA TracerReturnsInv ==
  ASSUME ProgramsInv, TracerReturns
  PROVE  ProgramsInv'
  <1> USE DEF ProgramsInv, TracerReturns, client, build, buffer, channel, history
  <1>1. OnCourse'
    BY ProgramCases DEF OnCourse, Early, Attaching, Crashing
  <1>2. TypeOK'
    <2>1. ScalarsTyped'
      <3>1. FlagsTyped'
        BY ScalarTypes DEF FlagsTyped
      <3>2. LabelsTyped'
        BY ScalarTypes DEF LabelsTyped, MonitorLabels, Reports
      <3> QED BY <3>1, <3>2 DEF ScalarsTyped
    <2> QED BY <1>1, <2>1, TypeKept
  <1>3. MonitorForked'
    BY ProgramCases DEF TypeOK, MonitorForked, OnCourse, Early, Attaching, Crashing
  <1>4. OneRequest'
    BY ProgramCases, ShortSequences
       DEF TypeOK, OneRequest, Quiet, Busy, Unwinding, BeforeEmit, OnCourse, Crashing,
           Early, Attaching
  <1>5. ReportSettles'
    BY ProgramCases, ShortSequences
       DEF TypeOK, ReportSettles, Quiet, Busy, Unwinding, OneRequest, BeforeEmit
  <1>6. ClientHeld'
    BY DEF TypeOK, ClientHeld, MonitorForked, Early, ReportSettles, OneRequest, Quiet,
           Busy, Unwinding
  <1>7. DumpsSoFar'
    BY ProgramCases DEF TypeOK, DumpsSoFar, OnCourse, Crashing
  <1>8. DumpHoldsReport' /\ DumpNotTorn'
    BY DumpsKept
  <1> QED BY <1>1, <1>2, <1>3, <1>4, <1>5, <1>6, <1>7, <1>8

(* The request becomes an acknowledgement: there was none before.          *)
LEMMA AnswerInv ==
  ASSUME ProgramsInv, Answer
  PROVE  ProgramsInv'
  <1> USE DEF ProgramsInv, Answer, client, build, buffer, channel, history
  <1>1. OnCourse'
    BY ProgramCases DEF OnCourse, Early, Attaching, Crashing
  <1>2. acks = 0 /\ acks' = IF main = "gone" THEN 0 ELSE 1
    <2>1. acks \in 0..1 /\ acks # 1
      BY DEF TypeOK, OneRequest, Busy, Unwinding
    <2> QED BY <2>1
  <1>3. TypeOK'
    <2>1. ScalarsTyped'
      <3>1. acks' \in 0..1
        <4> HIDE DEF Answer
        <4> QED BY <1>2
      <3> QED BY <3>1, ScalarTypes
                 DEF ScalarsTyped, FlagsTyped, LabelsTyped, MonitorLabels
    <2> QED BY <1>1, <2>1, TypeKept
  <1>4. MonitorForked'
    BY ProgramCases DEF TypeOK, MonitorForked, OnCourse, Early, Attaching, Crashing
  <1>5. OneRequest'
    BY ProgramCases, ShortSequences
       DEF TypeOK, OneRequest, Quiet, Busy, Unwinding, BeforeEmit, OnCourse, Crashing,
           Early, Attaching
  <1>6. ReportSettles'
    BY ProgramCases, ShortSequences
       DEF TypeOK, ClientHeld, ReportSettles, Quiet, Busy, Unwinding, OneRequest, BeforeEmit
  <1>7. ClientHeld'
    BY DEF TypeOK, ClientHeld, MonitorForked, Early, ReportSettles, OneRequest, Quiet,
           Busy, Unwinding
  <1>8. DumpsSoFar'
    BY ProgramCases DEF TypeOK, DumpsSoFar, OnCourse, Crashing
  <1>9. DumpHoldsReport' /\ DumpNotTorn'
    BY DumpsKept
  <1> QED BY <1>1, <1>3, <1>4, <1>5, <1>6, <1>7, <1>8, <1>9

(* The monitor leaves a client that is gone.                               *)
LEMMA LeaveInv ==
  ASSUME ProgramsInv, Leave
  PROVE  ProgramsInv'
  <1> USE DEF ProgramsInv, Leave, client, build, buffer, channel, history
  <1>1. OnCourse'
    BY ProgramCases DEF OnCourse, Early, Attaching, Crashing
  <1>2. TypeOK'
    <2>1. ScalarsTyped'
      <3>1. FlagsTyped'
        BY ScalarTypes DEF FlagsTyped
      <3>2. LabelsTyped'
        BY ScalarTypes DEF LabelsTyped, MonitorLabels, Reports
      <3> QED BY <3>1, <3>2 DEF ScalarsTyped
    <2> QED BY <1>1, <2>1, TypeKept
  <1>3. MonitorForked'
    BY ProgramCases DEF TypeOK, MonitorForked, OnCourse, Early, Attaching, Crashing
  <1>4. OneRequest'
    BY ProgramCases, ShortSequences
       DEF TypeOK, OneRequest, Quiet, Busy, Unwinding, BeforeEmit, OnCourse, Crashing,
           Early, Attaching
  <1>5. ReportSettles'
    BY ProgramCases, ShortSequences
       DEF TypeOK, ReportSettles, Quiet, Busy, Unwinding, OneRequest, BeforeEmit
  <1>6. ClientHeld'
    BY DEF TypeOK, ClientHeld, MonitorForked, Early, ReportSettles, OneRequest, Quiet,
           Busy, Unwinding
  <1>7. DumpsSoFar'
    BY ProgramCases DEF TypeOK, DumpsSoFar, OnCourse, Crashing
  <1>8. DumpHoldsReport' /\ DumpNotTorn'
    BY DumpsKept
  <1> QED BY <1>1, <1>2, <1>3, <1>4, <1>5, <1>6, <1>7, <1>8

-----------------------------------------------------------------------------
(* The kernel and others.                                                  *)

(* The client is stopped, by a tracer that waits for it or by one that left.*)
LEMMA TakeStopInv ==
  ASSUME ProgramsInv, TakeStop
  PROVE  ProgramsInv'
  <1> USE DEF ProgramsInv, TakeStop, client, build, buffer, channel, history
  <1>1. OnCourse'
    BY ProgramCases DEF OnCourse, Early, Attaching, Crashing
  <1>2. TypeOK'
    <2>1. ScalarsTyped'
      <3>1. FlagsTyped'
        BY ScalarTypes DEF FlagsTyped
      <3>2. LabelsTyped'
        BY ScalarTypes DEF LabelsTyped, MonitorLabels, Reports
      <3> QED BY <3>1, <3>2 DEF ScalarsTyped
    <2> QED BY <1>1, <2>1, TypeKept
  <1>3. MonitorForked'
    BY ProgramCases DEF TypeOK, MonitorForked, OnCourse, Early, Attaching, Crashing
  <1>4. OneRequest'
    BY ProgramCases, ShortSequences
       DEF TypeOK, OneRequest, Quiet, Busy, Unwinding, BeforeEmit, OnCourse, Crashing,
           Early, Attaching
  <1>5. ReportSettles'
    BY ProgramCases, ShortSequences
       DEF TypeOK, ReportSettles, Quiet, Busy, Unwinding, OneRequest, BeforeEmit
  <1>6. ClientHeld'
    BY DEF TypeOK, ClientHeld, MonitorForked, Early, ReportSettles, OneRequest, Quiet,
           Busy, Unwinding
  <1>7. DumpsSoFar'
    BY ProgramCases DEF TypeOK, DumpsSoFar, OnCourse, Crashing
  <1>8. DumpHoldsReport' /\ DumpNotTorn'
    BY DumpsKept
  <1> QED BY <1>1, <1>2, <1>3, <1>4, <1>5, <1>6, <1>7, <1>8

(* A death may tear the report, and lets a client go whose stop was seen.  *)
LEMMA DieInv ==
  ASSUME ProgramsInv, Die
  PROVE  ProgramsInv'
  <1> USE DEF ProgramsInv, Die, client, build, buffer, channel, history
  <1>1. OnCourse'
    BY ProgramCases DEF OnCourse, Early, Attaching, Crashing
  <1>2. TypeOK'
    <2>1. ScalarsTyped'
      <3>1. FlagsTyped'
        BY ScalarTypes DEF FlagsTyped
      <3>2. LabelsTyped'
        BY ScalarTypes DEF LabelsTyped, MonitorLabels, Reports
      <3> QED BY <3>1, <3>2 DEF ScalarsTyped
    <2> QED BY <1>1, <2>1, TypeKept
  <1>3. MonitorForked'
    BY ProgramCases DEF TypeOK, MonitorForked, OnCourse, Early, Attaching, Crashing
  <1>4. OneRequest'
    BY ProgramCases, ShortSequences
       DEF TypeOK, OneRequest, Quiet, Busy, Unwinding, BeforeEmit, OnCourse, Crashing,
           Early, Attaching
  <1>5. ReportSettles'
    BY ProgramCases, ShortSequences
       DEF TypeOK, ReportSettles, Quiet, Busy, Unwinding, OneRequest, BeforeEmit
  <1>6. ClientHeld'
    BY DEF TypeOK, ClientHeld, MonitorForked, Early, ReportSettles, OneRequest, Quiet,
           Busy, Unwinding
  <1>7. DumpsSoFar'
    BY ProgramCases DEF TypeOK, DumpsSoFar, OnCourse, Crashing
  <1>8. DumpHoldsReport' /\ DumpNotTorn'
    BY DumpsKept
  <1> QED BY <1>1, <1>2, <1>3, <1>4, <1>5, <1>6, <1>7, <1>8

(* A client that is killed takes its SIGSTOP with it.                      *)
LEMMA KilledInv ==
  ASSUME ProgramsInv, Killed
  PROVE  ProgramsInv'
  <1> USE DEF ProgramsInv, Killed, Exit, build, buffer, channel, history
  <1>1. OnCourse'
    BY ProgramCases DEF OnCourse, Early, Attaching, Crashing
  <1>2. TypeOK'
    <2>1. ScalarsTyped'
      <3>1. FlagsTyped'
        BY ScalarTypes DEF FlagsTyped
      <3>2. LabelsTyped'
        BY ScalarTypes DEF LabelsTyped, MonitorLabels, Reports
      <3> QED BY <3>1, <3>2 DEF ScalarsTyped
    <2> QED BY <1>1, <2>1, TypeKept
  <1>3. MonitorForked'
    BY ProgramCases DEF TypeOK, MonitorForked, OnCourse, Early, Attaching, Crashing
  <1>4. OneRequest'
    BY ProgramCases, ShortSequences
       DEF TypeOK, OneRequest, Quiet, Busy, Unwinding, BeforeEmit, OnCourse, Crashing,
           Early, Attaching
  <1>5. ReportSettles'
    BY ProgramCases, ShortSequences
       DEF TypeOK, ReportSettles, Quiet, Busy, Unwinding, OneRequest, BeforeEmit
  <1>6. ClientHeld'
    BY DEF TypeOK, ClientHeld, MonitorForked, Early, ReportSettles, OneRequest, Quiet,
           Busy, Unwinding
  <1>7. DumpsSoFar'
    BY ProgramCases DEF TypeOK, DumpsSoFar, OnCourse, Crashing
  <1>8. DumpHoldsReport' /\ DumpNotTorn'
    BY DumpsKept
  <1> QED BY <1>1, <1>2, <1>3, <1>4, <1>5, <1>6, <1>7, <1>8

-----------------------------------------------------------------------------
LEMMA StutterPrograms ==
  ASSUME ProgramsInv, UNCHANGED vars
  PROVE  ProgramsInv'
  <1> USE DEF ProgramsInv, vars, client, build, buffer, channel, history
  <1>1. OnCourse' /\ MonitorForked'
    BY DEF OnCourse, MonitorForked
  <1>2. TypeOK'
    <2>1. ScalarsTyped'
      <3>1. FlagsTyped'
        BY ScalarTypes DEF FlagsTyped
      <3>2. LabelsTyped'
        BY ScalarTypes DEF LabelsTyped, MonitorLabels, Reports
      <3> QED BY <3>1, <3>2 DEF ScalarsTyped
    <2> QED BY <1>1, <2>1, TypeKept
  <1>3. OneRequest' /\ ReportSettles' /\ ClientHeld'
    BY DEF OneRequest, ReportSettles, Quiet, Busy, Unwinding, BeforeEmit, ClientHeld
  <1>4. DumpsSoFar' /\ DumpHoldsReport' /\ DumpNotTorn'
    BY DEF DumpsSoFar, DumpHoldsReport, DumpNotTorn
  <1> QED BY <1>1, <1>2, <1>3, <1>4

LEMMA NextPrograms ==
  ASSUME ProgramsInv, [Next]_vars
  PROVE  ProgramsInv'
  <1>1. CASE Client
    BY <1>1, HandleInitInv, BufferCreateInv, BufferInitInv, ConfigInitInv,
       SetHandlersInv, BcdInitInv, AwaitCfInv, BcdAttachInv, AwaitTidInv,
       SetPtracerInv, InitCrashpadInv, TrapInv, HandlerUnwindsInv,
       HandlerEmitsInv, HandlerDeclinesInv, EmitAnsweredInv,
       EmitUnansweredInv, AfterEmitInv, DumpInv
       DEF Client
  <1>2. CASE Monitor
    BY <1>2, MonitorInitInv, ListenInv, ReceiveInv, HandlerFailsInv, CallRemoteInv,
       AttachToClientInv, AttachFailsInv, SeeStopInv, SeeEndInv, TimeOutInv,
       GiveUpInv, PrepareFailsInv, StartReportInv, FinishReportInv,
       TracerReturnsInv, AnswerInv, LeaveInv
       DEF Monitor
  <1>3. CASE TakeStop \/ Die \/ Killed
    BY <1>3, TakeStopInv, DieInv, KilledInv
  <1>4. CASE UNCHANGED vars
    BY <1>4, StutterPrograms
  <1> QED BY <1>1, <1>2, <1>3, <1>4 DEF Next

(* What the example programs and the BCD monitor keep true of each other   *)
(* while the client starts up, sends its requests, is stopped, unwound and *)
(* let go or left, and dumps, whichever call fails, however slow the       *)
(* monitor is and whenever it or the client dies: the inductive invariant  *)
(* behind the properties below.                                            *)
THEOREM ProgramsInvariant == Spec => []ProgramsInv
  BY InitPrograms, NextPrograms, PTL DEF Spec

(* Every variable keeps its type: no program has more than one packet and  *)
(* one acknowledgement under way, or takes more than two dumps.            *)
THEOREM ProgramsTypeCorrect == Spec => []TypeOK
  <1>1. ProgramsInv => TypeOK
    BY DEF ProgramsInv
  <1> QED BY <1>1, ProgramsInvariant, PTL

(* A bcd program that can crash has named its own monitor to               *)
(* PR_SET_PTRACER: main reads the pid only after monitor_init stored it.   *)
THEOREM TracerIsAuthorised == Spec => []TracerAuthorised
  <1>1. ProgramsInv => TracerAuthorised
    BY DEF ProgramsInv, MonitorForked, TracerAuthorised, Crashing
  <1> QED BY <1>1, ProgramsInvariant, PTL

(* A dump after an answered bcd_emit was taken when the unwind had         *)
(* returned, and holds a whole report exactly if it returned a size: the   *)
(* answer was not that of an earlier request, and the request handler      *)
(* served the trace request before it was answered.                        *)
THEOREM DumpsHoldReports == Spec => []DumpHoldsReport
  <1>1. ProgramsInv => DumpHoldsReport
    BY DEF ProgramsInv
  <1> QED BY <1>1, ProgramsInvariant, PTL

(* A client whose timeout ends while the monitor still unwinds it does not *)
(* dump half-written frames, only the death of the monitor leaves such a   *)
(* report; a header without frames is dumped only with libunwindstack.     *)
THEOREM DumpsAreNotTorn == Spec => []DumpNotTorn
  <1>1. ProgramsInv => DumpNotTorn
    BY DEF ProgramsInv
  <1> QED BY <1>1, ProgramsInvariant, PTL

(* The trace request of a program that sets its handlers after             *)
(* bcd_config_init is served by them and never by a tracer of BCD's own;   *)
(* the programs of examples/ do so but for example_crashpad_remote.cpp.    *)
THEOREM HandlersAreReached ==
  ASSUME "crashpad_remote" \notin Programs
  PROVE  Spec => []RequestsReachHandler
  <1>1. ProgramsInv => RequestsReachHandler
    <2> SUFFICES ASSUME ProgramsInv PROVE RequestsReachHandler
      OBVIOUS
    <2>1. served \in {<<>>, <<"handler">>}
      BY ProgramCases DEF ProgramsInv, TypeOK, OneRequest, ReportSettles
    <2>2. CASE served = <<>>
      BY <2>2, ShortSequences DEF RequestsReachHandler
    <2>3. CASE served = <<"handler">>
      BY <2>3 DEF RequestsReachHandler
    <2> QED BY <2>1, <2>2, <2>3
  <1> QED BY <1>1, ProgramsInvariant, PTL

(* A step that changes the report finds no answered emit: the buffer is    *)
(* created before the first request, and the monitor writes while it has   *)
(* the request.                                                            *)
LEMMA AnsweredReportKept ==
  ASSUME ProgramsInv, [Next]_vars, emits = <<"answered">>
  PROVE  UNCHANGED stream
  <1>1. CASE BufferCreate \/ BufferInit
    <2>1. emits = <<>>
      BY <1>1, BeforeTrace
         DEF ProgramsInv, OnCourse, Crashing, BufferCreate, BufferInit, At
    <2> QED BY <2>1, ShortSequences
  <1>2. CASE HandlerUnwinds
    <2>1. emits = <<>>
      BY <1>2, BeforeTrace DEF ProgramsInv, OnCourse, HandlerUnwinds, At
    <2> QED BY <2>1, ShortSequences
  <1>3. CASE CallRemote \/ StartReport \/ FinishReport
    BY <1>3 DEF ProgramsInv, OneRequest, ReportSettles, Quiet, Busy, Unwinding,
                CallRemote, StartReport, FinishReport
  <1>4. CASE HandleInit \/ ConfigInit \/ SetHandlers \/ BcdInit \/ AwaitCf \/ BcdAttach
             \/ AwaitTid \/ SetPtracer \/ InitCrashpad
    BY <1>4
       DEF HandleInit, ConfigInit, SetHandlers, BcdInit, AwaitCf, BcdAttach, AwaitTid,
                SetPtracer, InitCrashpad, buffer
  <1>5. CASE Trap \/ HandlerEmits \/ HandlerDeclines \/ EmitAnswered \/ EmitUnanswered
             \/ AfterEmit \/ Dump
    BY <1>5 DEF Trap, HandlerEmits, HandlerDeclines, EmitAnswered, EmitUnanswered,
                AfterEmit, Dump, buffer
  <1>6. CASE MonitorInit \/ Listen \/ Receive \/ HandlerFails \/ AttachToClient
             \/ AttachFails \/ SeeStop \/ SeeEnd \/ TimeOut \/ GiveUp \/ PrepareFails
             \/ TracerReturns \/ Answer \/ Leave \/ TakeStop \/ Die \/ Killed
    BY <1>6 DEF MonitorInit, Listen, Receive, HandlerFails, AttachToClient, AttachFails,
                SeeStop, SeeEnd, TimeOut, GiveUp, PrepareFails, TracerReturns, Answer,
                Leave, TakeStop, Die, Killed, buffer
  <1>7. CASE UNCHANGED vars
    BY <1>7 DEF vars, buffer
  <1> QED BY <1>1, <1>2, <1>3, <1>4, <1>5, <1>6, <1>7 DEF Next, Client, Monitor

(* Once a client has read the acknowledgement of its bcd_emit, the report  *)
(* that its minidumps copy does not change any more.                       *)
THEOREM AnsweredReportIsFinal == Spec => AnsweredReportFinal
  <1>1. ProgramsInv /\ [Next]_vars
          => [emits = <<"answered">> => UNCHANGED stream]_vars
    BY AnsweredReportKept
  <1> QED BY <1>1, ProgramsInvariant, PTL DEF Spec, AnsweredReportFinal
=============================================================================
