SPECIFICATION DeliveryFairSpec
CONSTANTS
  meeting = meeting p1 = p1 p2 = p2 webhook = webhook phone = phone
  Meetings = {meeting} Items = {} Claims = {} MeetingOf <- MCMeetingOf
  Drains = {p1} BatchSize = 1 Poison = {}
  Channels = {webhook} Digest = {} ClientTries = 1
  MaxEvents = 1 MaxMishaps = 1 MaxTroubles = 1
PROPERTIES MarkedReaches
