SPECIFICATION FairSpec
CONSTANTS
  a1 = a1
  a2 = a2
  b1 = b1
  b2 = b2
  BootSectors = 2
  SmallPages = 1
  AppSectors = 2
  LargePages = 2
  AppImages = {a1, a2}
  BootImages = {b1, b2}
  Uploads = {a1, a2, b2}
  Length <- MCLength
  Reserved = 2
  MaxCuts = 2
INVARIANTS Recoverable BootAtRiskOnlyInSelfUpdate BootInv
PROPERTIES InstallsWhatWasStaged NoInstallLeftBehind UpdateIsInstalled ImplementsSafeInstall
CHECK_DEADLOCK FALSE
