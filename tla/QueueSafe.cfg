SPECIFICATION Spec
CONSTANTS
  j1 = j1 j2 = j2 j3 = j3 sweeper = sweeper parser = parser extractor = extractor
  parse = parse extract = extract NoJob = NoJob
  Jobs <- MCJobs Workers <- MCWorkers Stages <- MCStages Standing <- MCStanding
  StageOf <- MCStageOf ClaimStages <- MCClaimStages Handlers <- MCHandlers
  Malformed = {} Overrunning = {j1} MaxAttempts = 2 MaxMishaps = 1
INVARIANTS TypeOK OneHolder HolderOwnsRow AttemptsAccounted
PROPERTIES DoneStaysDone ImplementsLease
CHECK_DEADLOCK FALSE
