SPECIFICATION MCSpec
CONSTANTS
  meeting = meeting claim = claim anomaly = anomaly p1 = p1 p2 = p2
  Meetings = {meeting} Items = {claim, anomaly} Claims = {claim} MeetingOf <- MCMeetingOf
  Drains = {p1, p2} BatchSize = 2 Poison = {anomaly}
  MaxEvents = 3 MaxMishaps = 1
  grave = grave mild = mild reader = reader digest = digest
  AlertRules = {grave, mild} Grave = {grave} Policies <- MCPolicies Subscribers = {reader}
  Detections = {p1, p2} Digests = {digest} MaxFindings <- MCMaxFindings MaxLosses = 1
  command = command Loops = {p1, p2} Command = command Entries = {meeting} Datasets = 2
  DayLength = 2 LastMoment = 2 MaxSnapshots = 2 MaxBreaks = 1
  official = official private = private router = router served = served
  Workers = {p1, p2} MinuteClaims = {official, private} Officials = {official} Earlier = {private}
  Chunks = 2 Models = {router, served} Requested = router Nobody = nobody
  MaxJobs = 2 MaxAttempts = 2 MaxHalts = 1
SYMMETRY AnyServer
INVARIANT SnapshotsAreWhole
CHECK_DEADLOCK FALSE
