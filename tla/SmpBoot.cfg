\* Any guest, not nested.  The processors stop once all run their guests.
SPECIFICATION FairSpec
CONSTANTS
  bsp = bsp
  ap1 = ap1
  ap2 = ap2
  CPUs <- MCCpus
  Bsp = bsp
  PhysCpuList <- MCPhysCpuList
  RunningNested = FALSE
  SipiSleepSuffices = TRUE
INVARIANTS InitialStackAlone NoAssertFails IdentityMapStaysLongEnough StartsAtGuestVector
PROPERTIES EveryGuestStarts
CHECK_DEADLOCK FALSE
