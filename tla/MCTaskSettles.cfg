\* No faults: one task, three dispatching requests, two agents.
SPECIFICATION FairSpec
CONSTANTS
  Tasks = {t1}
  Agents = {a1, a2}
  Requests = {r1, r2, r3}
  NoIP = NoIP
  None = None
  MaxFaults = 0
INVARIANT RunsOnOwnAgent
 
CHECK_DEADLOCK FALSE
