CONSTANTS
  s1 = s1  s2 = s2  p1 = p1  p2 = p2  p3 = p3  p4 = p4
  Services <- MCServices
  Pids <- MCPids
  NoService = NoService
  NoPid = NoPid
  MAX_SERVICES = 2
  MAX_RESTARTS = 1
  RestartPolicy = "failed"
  Reinitialize = FALSE
  TerminateAll = TRUE
  Faults <- PidReuseFault
  MaxOrphans = 1
SPECIFICATION FairSpec
PROPERTIES
  EventuallyRestarted
