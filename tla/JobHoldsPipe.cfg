CONSTANTS
  Services <- TwoServices
  EnvLen = 1
  Multiline <- NoMultiline
  PIPE_CAP = 11
  PIPE_BUF = 5
  BUF_CAP = 8
  WithJob = TRUE
  Parallel = FALSE
  MayDie = FALSE
  MAX_SERVICES = 3
SPECIFICATION FairSpec
PROPERTIES
  GuardianPhaseComes
