SPECIFICATION Spec
CONSTANTS
  NULL = NULL
  Hdr = 1
  MinBlk = 2
  SmallBlk = 3
  Bucket = 6
  LastBlk = 16
  Sizes = {1, 2, 5}
INVARIANTS TypeOK
PROPERTIES RoomIsUsed ImplementsSpace
