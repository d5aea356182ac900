CONSTANTS
  Services <- MCServices
  EnvLen = 1
  Multiline <- NoMultiline
  PIPE_CAP = 7
  PIPE_BUF = 4
  BUF_CAP = 6
  WithJob = FALSE
  Parallel = FALSE
  MayDie = FALSE
  MAX_SERVICES = 3
SPECIFICATION FairSpec
INVARIANTS
  NoPhantomEntry
  NobodyMissed
  ExecAfterRecord
PROPERTIES
  GuardianPhaseComes
  EveryLaunchRuns
  ImplementsRegister
