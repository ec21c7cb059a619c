\* Two processors, two pages of the guest, one exit of each before the operating system and one after.
SPECIFICATION FairServicesSpec
CONSTANTS
  CPUs <- MCCpus
  NoCpu = NoCpu
  Frames <- MCFrames
  Region <- MCRegion
  BootTables <- MCBootTables
  BootMapped <- MCBootMapped
  Bsp = 0
  Aps <- MCAps
  Lapic <- MCLapic
  Page0 <- MCPage0
  Page1 <- MCPage1
  Screen <- MCScreen
  OtherLow <- MCOtherLow
  Vmcs <- MCVmcs
  GuestTables <- MCGuestTables
  GuestPages <- MCGuestPages
  Layouts <- MCLayouts
  SearchPages = 2
  GuestCalls = 1
INVARIANTS StaleTranslationsAreHarmless LowMemoryIsGivenBack
PROPERTIES MappedPagesAreFound ServicesEnd
CHECK_DEADLOCK FALSE
