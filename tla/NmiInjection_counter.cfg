\* Two NMIs, in different exits.
SPECIFICATION Spec
CONSTANTS
  CPUs = {c1, c2}
  NoCpu = NoCpu
  MaxNmis = 2
  GuestFaults = FALSE
INVARIANTS AssertMeansTwoEvents
CHECK_DEADLOCK FALSE
