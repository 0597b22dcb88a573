\* Two CPUs, three switches, two keys and a cache of two processes.
SPECIFICATION Spec
CONSTANTS
  p0 = p0  p1 = p1  p2 = p2  p3 = p3
  u1 = u1  u2 = u2  k1 = k1
  None = None
  CPUs = {c1, c2}
  Samples <- SomeSamples
  IdlePid = p0
  OtherPids = {p1, p3}
  Bucket <- SomeHash
  MaxEntries = 2
  MaxCache = 2
  MaxSwitches = 3
  MaxReads = 2
INVARIANTS SamplerInv CountsExact FileIsFaithful NothingLeftLoaded CacheBounded
CHECK_DEADLOCK FALSE
