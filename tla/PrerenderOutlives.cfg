SPECIFICATION MCSpec
CONSTANTS
  p1 = p1 p2 = p2 meeting = meeting claim = claim finding = finding
  link = link lead = lead pair = pair a = a b = b
  first = first second = second s1 = s1 s2 = s2
  Servers = {first, second} Sources = {s1, s2} Sweeps <- MCSweeps Fetches = {f1} Loop = loop Nobody = nobody
  MaxRuns = 2 MaxMishaps = 1
  Operators = {p1, p2} Sentences = {claim} Findings = {finding} Pins = {link, lead} Inferred = {lead}
  Pairs = {pair} Meeting = meeting Wordings = {a, b} Nothing = nothing
  MaxBuilds = 2 MaxAudit = 2
  Records = {meeting} Quotes = {claim} RecordOf <- MCRecordOf EventId <- MCEventId
  Renderers = {p1, p2} PageBatch = 1 Grain = 2 MaxTime = 2
SYMMETRY MCSymmetry
INVARIANT NothingOutlives
CHECK_DEADLOCK FALSE
