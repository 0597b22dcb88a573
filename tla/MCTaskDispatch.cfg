\* One task, two dispatching requests, one agent, two faults.
SPECIFICATION Spec
CONSTANTS
  Tasks = {t1}
  Agents = {a1}
  Requests = {r1, r2}
  NoIP = NoIP
  None = None
  MaxFaults = 2
SYMMETRY RequestSymmetry
INVARIANTS   DoneHasObject CosKeyHasObject DispatchRunsAtMostOnce CopiesInv
 
CHECK_DEADLOCK FALSE
