SPECIFICATION Spec
CONSTANTS
  a = a
  b = b
  v = v
  w = w
  Null = Null
  Ids = {a, b}
  Values = {v, w}
  HotIds = {b}
  LastPage = 3
  PageCap = 7
  MaxFaults = 0
CONSTANT ItemSize <- MCItemSize
SYMMETRY Symmetry
PROPERTY EraseKeepsItems
