SPECIFICATION MCFairSpec
CONSTANTS
  meeting = meeting p1 = p1 p2 = p2 webhook = webhook phone = phone
  Meetings = {meeting} Items = {} Claims = {} MeetingOf <- MCMeetingOf
  Drains = {p1, p2} BatchSize = 2 Poison = {}
  Channels = {webhook, phone} Digest = {phone} ClientTries = 2
  MaxEvents = 2 MaxMishaps = 1 MaxTroubles = 2
  claim = claim site = site loop = loop nobody = nobody
PROPERTIES EveryNoticeSettles RunsClose PoisonHoldsNoneUp
CHECK_DEADLOCK FALSE
