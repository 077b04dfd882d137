SPECIFICATION MCSpec
CONSTANTS
  meeting = meeting p1 = p1 p2 = p2 webhook = webhook phone = phone
  Meetings = {meeting} Items = {} Claims = {} MeetingOf <- MCMeetingOf
  Drains = {p1, p2} BatchSize = 2 Poison = {}
  Channels = {webhook, phone} Digest = {phone} ClientTries = 2
  MaxEvents = 3 MaxMishaps = 1 MaxTroubles = 2
  c1 = c1 c2 = c2 c3 = c3 rec = rec
  Contests = {c1, c2, c3} ContestedBy <- MCContestedBy Repliable = {c1}
  Deciders = {p1, p2} Mailers = {p1, p2} OpenCap = 1 Requests = 2 MaxSetbacks = 1
SYMMETRY MCSymmetry
INVARIANTS NoNoticeTwice NothingStranded OneOutcome ReplyMailedOnce
CHECK_DEADLOCK FALSE
