\* A card of five sectors, the ones the test reads, with two words to a sector.
SPECIFICATION Spec
CONSTANTS
  NSECTORS = 5
  BLKWORDS = 2
  RSPLEN = 5
  BLKDLY = 2
CHECK_DEADLOCK FALSE
INVARIANTS CardAssertionsHold ReadIsSector WriteIsAccepted
PROPERTY TestEnds
