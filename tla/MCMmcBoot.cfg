CONSTANTS
  Kinds = {"none", "mmc", "sd1", "sd2", "sdhc"}
  OpTries = 2
  ImageSectors = 3
  FirstSector = 1
  CardSectors = 4
  BMax = 2
SPECIFICATION FairSpec
INVARIANTS
  TypeOK
  JumpMeansLoaded
  CardIsAsBelieved
PROPERTY BootEnds
CHECK_DEADLOCK FALSE
