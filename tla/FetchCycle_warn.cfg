SPECIFICATION FairSpec
CONSTANTS
  tick = tick
  Tick = tick
  Subs = {s1}
  Ends = {1, 2}
  Warn = 2
  Horizon = 1
  Workers = {w1}
  Requests = {r1}
  Attempts = 2
  SendAttempts = 2
  MaxJobs = 1
  Budget = 2
INVARIANTS
  TypeOK
  MarkTruthful
  SerialWarnedOnce
PROPERTIES
  Refreshed
  SoonWarned
