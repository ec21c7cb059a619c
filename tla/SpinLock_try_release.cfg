\* TryAcquire followed by Release, as spinlock.h documents the pair.
SPECIFICATION Spec
CONSTANTS
  CPUs = {c1, c2}
  NoCpu = NoCpu
INVARIANTS ReleaseAfterTry
CHECK_DEADLOCK FALSE
