\* One rule, two handlers at a time, one restart; no more entries are made.
SPECIFICATION FairSpec
CONSTANTS
  Schedules = {s1}
  Requests = {q1, q2}
  MaxEntries = 2
  MaxRestarts = 1
PROPERTY ScheduleFires
CHECK_DEADLOCK FALSE
