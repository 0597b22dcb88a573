SPECIFICATION FairSpec
CONSTANTS
  Tasks = {t1}
  Agents = {a1}
  Requests = {r1}
  NoIP = NoIP
  None = None
  MaxFaults = 1
PROPERTY RunningSettles
CHECK_DEADLOCK FALSE
