\* Three CPUs, each taking the lock with Acquire or TryAcquire at any time.
\* A CPU stops for good when an ASSERT fails, and the others then wait.
SPECIFICATION FairSpec
CONSTANTS
  CPUs = {c1, c2, c3}
  NoCpu = NoCpu
INVARIANTS MutualExclusion NoAssertFails IntrOffInside
PROPERTIES ImplementsMutex SomeCpuGetsIt
CHECK_DEADLOCK FALSE
