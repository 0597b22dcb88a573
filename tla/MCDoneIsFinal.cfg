SPECIFICATION Spec
CONSTANTS
  Tasks = {t1}
  Agents = {a1}
  Requests = {r1, r2}
  NoIP = NoIP
  None = None
  MaxFaults = 1
PROPERTY DoneIsFinal
CHECK_DEADLOCK FALSE
