\* Two CPUs, two NMIs each.  A CPU stops for good when an ASSERT fails.
SPECIFICATION FairSpec
CONSTANTS
  CPUs = {c1, c2}
  NoCpu = NoCpu
  MaxNmis = 2
  GuestFaults = TRUE
INVARIANTS LockAssertHolds NmiIsDelivered
PROPERTIES LogGoesOn
CHECK_DEADLOCK FALSE
