\* Two tasks, any two failing statements or transfers, killed scripts, crashes.
SPECIFICATION FairSpec
CONSTANTS
  Tasks = {t1, t2}
  Nobody = Nobody
  MaxFaults = 2
INVARIANTS TypeOK SuccessHasResults AnalysedOnce AnalysisInv
PROPERTY AnalysisSettles
CHECK_DEADLOCK FALSE
