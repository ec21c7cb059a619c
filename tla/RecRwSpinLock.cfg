\* Three CPUs nest exclusive acquisitions to the depth of the dump lock and
\* share the lock.
SPECIFICATION RecFairSpec
CONSTANTS
  CPUs = {c1, c2, c3}
  NoCpu = NoCpu
  MaxRecursivityDepth = 2
INVARIANTS IInv RecIInv DepthIsOutstanding IntrRestored
PROPERTIES WritersHavePriority ImplementsReadersWriter SomeWriterGetsIn
