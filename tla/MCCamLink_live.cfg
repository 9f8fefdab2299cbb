SPECIFICATION FairSpec
CONSTANTS
  DevSeq <- FlashDevs
  PD <- FlashPD
  Asks <- FlashAsks
  NumSlots = 6
  MaxReq = 2
  MaxOpen = 2
  MaxTasks = 1
  MaxErrs = 1
  Refuses = "never"
  Timely = TRUE
  QuietStop = TRUE
  Unmarked = TRUE
PROPERTY RequestSent
