SPECIFICATION Spec
CONSTANTS
  a = a
  b = b
  v = v
  w = w
  Null = Null
  Ids = {a, b}
  Values = {v, w}
  HotIds = {b}
  LastPage = 3
  PageCap = 6
  MaxFaults = 1
CONSTANT ItemSize <- MCItemSize
SYMMETRY Symmetry
INVARIANTS TypeOK ReadsStoredUntilFault PagesSound
PROPERTIES ImplementsStore
