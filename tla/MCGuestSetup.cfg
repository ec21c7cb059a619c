\* The map: up to three firmware entries in five units of memory.  The types: three
\* bytes of fixed registers, two variable registers, three types, twelve pages.
\* The controls: two processors, 480 contents of the MSRs.
SPECIFICATION MCSpec
CONSTANTS
  Programs = {loader, kernel}
  HighestAddress = 5
  KernelBase = 1
  FixedLength = 1
  HeapDivisor = 4
  MaxEntries = 3
  MemoryTypes = {0, 4, 6}
  FixedEntries = 3
  RegionSize <- MCRegionSize
  FixedBase <- MCFixedBase
  VariableRegisters = 2
  VariableContents <- MCVariableContents
  MtrrTop = 12
  MapCalls <- MCMapCalls
  Processors = {bsp, ap}
  Bits = {"timer", "secondary", "msr", "tsc", "rdtsc", "ept", "ug", "rdtscp", "vpid", "host64", "saveTimer", "efer", "PE", "PG", "NE", "VMXE"}
  MsrContents <- MCMsrContents
  Wanted <- MCWanted
  Unprepared <- MCUnprepared
  TscOffseting = "tsc"
  RdtscExit = "rdtsc"
  ActivateSecondary = "secondary"
  EnableEpt = "ept"
  UnrestrictedGuest = "ug"
  PreemptTimer = "timer"
  SaveTimer = "saveTimer"
  CR0_PE = "PE"
  CR0_PG = "PG"
INVARIANTS GuestIsToldTheTruth EptMatchesTheMap EveryWalkFollowsTheMap
INVARIANTS MtrrInv WriteBackIsWriteBack GuestCanStart
CHECK_DEADLOCK FALSE
