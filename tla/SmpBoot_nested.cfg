\* Nested: an AP starts from __vector.
SPECIFICATION Spec
CONSTANTS
  bsp = bsp
  ap1 = ap1
  ap2 = ap2
  CPUs <- MCCpus
  Bsp = bsp
  PhysCpuList <- MCPhysCpuList
  RunningNested = TRUE
  SipiSleepSuffices = TRUE
INVARIANTS StartsAtGuestVector
CHECK_DEADLOCK FALSE
