\* An NMI before the launch of an AP.
SPECIFICATION Spec
CONSTANTS
  CPUs = {c1, c2}
  NoCpu = NoCpu
  MaxNmis = 1
  GuestFaults = FALSE
INVARIANTS EntrySucceeds
CHECK_DEADLOCK FALSE
