SPECIFICATION MCFairSpec
CONSTANTS
  j1 = j1 j2 = j2 j3 = j3 sweeper = sweeper parser = parser extractor = extractor
  parse = parse extract = extract NoJob = NoJob
  Jobs <- MCJobs Workers <- MCWorkers Stages <- MCStages Standing <- MCStanding
  StageOf <- MCStageOf ClaimStages <- MCClaimStages Handlers <- MCHandlers
  Malformed = {j3} Overrunning = {j1} MaxAttempts = 2 MaxMishaps = 2
  p1 = p1 p2 = p2 p3 = p3
  Callers = {p1, p2, p3} MinDelay = 2 MaxRetries = 2 MaxRetryAfter = 3 RetryAfters = {0, 1, 3, 4} NoHeader = none
  Servers = {p1, p2} Clerks = {p1, p2} MaxFlips = 2 MaxFaults = 2
INVARIANTS FlipsChain
PROPERTIES EveryJobSettles HostIsSpared EveryRequestIsMade CachesConverge
CHECK_DEADLOCK FALSE
