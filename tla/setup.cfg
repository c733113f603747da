SPECIFICATION FairSpec
CONSTANTS
  opt = opt
  tmp = tmp
  etc = etc
  Preferred <- MCPreferred
  Fallback = tmp
  Dirs = {opt, tmp, etc}
  Configs <- MCConfigs
  ServiceLimits <- MCServiceLimits
  Priorities = {0, 5, 6, 10}
  Timeouts = {1, 3600}
INVARIANTS Inv QuietStartLeavesProfile RunsAreConfined RefusalsHaveCause MainStartsTheMock
PROPERTIES StartsEnd
