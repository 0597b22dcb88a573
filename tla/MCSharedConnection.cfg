\* Two gRPC threads, two tasks, and no statement fails.
SPECIFICATION Spec
CONSTANTS
  Threads = {h1, h2}
  Tasks = {t1, t2}
  MaxFaults = 0
INVARIANT TransitionsAreAtomic
CHECK_DEADLOCK FALSE
