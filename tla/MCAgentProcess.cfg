\* Two servers, two dispatches of two tasks, a signal, one lost call, crash or restart.
SPECIFICATION FairSpec
CONSTANTS
  Tasks = {t1, t2}
  Servers = 2
  None = None
  MaxDispatches = 2
  MaxFaults = 1
  MaxSignals = 1
INVARIANTS ProcessInv AtMostOneLeftBehind
PROPERTIES SignalEndsAgent QueuedTaskRuns FindsRunningServer
CHECK_DEADLOCK FALSE
