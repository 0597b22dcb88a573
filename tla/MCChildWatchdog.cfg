SPECIFICATION FairSpec
CONSTANT Descendants = {d1, d2}
INVARIANTS TypeOK SuccessIsGenuine  WatchdogInv
PROPERTIES NoLateSignal RecordReturns
CHECK_DEADLOCK FALSE
