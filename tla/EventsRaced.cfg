SPECIFICATION FairSpec
CONSTANTS
  meeting = meeting claim = claim anomaly = anomaly p1 = p1 p2 = p2
  Meetings = {meeting} Items = {anomaly} Claims = {} MeetingOf <- MCMeetingOf
  Drains = {p1} BatchSize = 1 Poison = {}
  MaxEvents = 2 MaxMishaps = 0
PROPERTIES EmittedIsPublic
