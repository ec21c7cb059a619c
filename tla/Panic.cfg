\* Three CPUs, in their guests or waiting for a SIPI, any of which may fail
\* an ASSERT outside of LOG.  The machine ends with every CPU halted.
SPECIFICATION FairSpec
CONSTANTS
  CPUs = {c1, c2, c3}
  NoCpu = NoCpu
  AssertInLog = FALSE
  MaxNmis = 1
INVARIANTS NoGuestAfterIpi
PROPERTIES PanicStopsEveryGuest EveryPanicHalts
CHECK_DEADLOCK FALSE
