SPECIFICATION FwSpec
CHECK_DEADLOCK FALSE
CONSTANTS
  a1 = a1
  a2 = a2
  b1 = b1
  BootSectors = 1
  SmallPages = 1
  AppSectors = 2
  LargePages = 2
  AppImages = {a1, a2}
  BootImages = {b1}
  Uploads = {a1}
  Length <- MCLength
  Reserved = 2
  MaxCuts = 1
  Sessions = {1, 2}
  MaxAnswers = 2
  Stalls = FALSE
  HostFinishes = FALSE
INVARIANTS MagicMeansNewFirmware
