CONSTANTS
  Programs <- AllPrograms
  CallsFail = TRUE
  Kills = TRUE
SPECIFICATION Spec
INVARIANTS TypeOK TracerAuthorised DumpHoldsReport DumpNotTorn ProgramsInv
PROPERTIES AnsweredReportFinal CrashIsDumped MonitorFollows
CHECK_DEADLOCK FALSE
