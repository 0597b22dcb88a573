\* Two agents with a silence each, two gRPC threads, one failing statement, one crash.
SPECIFICATION FairSpec
CONSTANTS
  Agents = {a1, a2}
  Threads = {t1, t2}
  Nobody = Nobody
  MaxLapses = 1
  MaxErrors = 1
  MaxCrashes = 1
INVARIANTS TypeOK NeverSilentNeverAudited OneOfflineRowPerSilence PresenceInv
PROPERTY PresenceConverges
CHECK_DEADLOCK FALSE
