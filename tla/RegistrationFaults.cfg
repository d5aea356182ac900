CONSTANTS
  Services <- MCServices
  EnvLen = 1
  Multiline <- NoMultiline
  PIPE_CAP = 11
  PIPE_BUF = 5
  BUF_CAP = 8
  WithJob = TRUE
  Parallel = TRUE
  MayDie = TRUE
  MAX_SERVICES = 2
SPECIFICATION Spec
INVARIANTS
  TypeOK
  NoPhantomEntry
  NobodyMissed
