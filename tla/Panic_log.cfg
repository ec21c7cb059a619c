\* An ASSERT fails inside a LOG.
SPECIFICATION Spec
CONSTANTS
  CPUs = {c1, c2}
  NoCpu = NoCpu
  AssertInLog = TRUE
  MaxNmis = 0
INVARIANTS PanicDoesNotRecurse
CHECK_DEADLOCK FALSE
