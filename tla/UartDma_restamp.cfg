SPECIFICATION Spec
CONSTANTS
  TxMax = 3
  TxTick = 1
  TxMaxGap = 1
  RxMax = 7
  RxHigh = 4
  RxFull = 6
  RxIdle = 3
  RxMaxGap = 3
  ReadMax = 5
  FrameMax = 4
  Wrap = 5
PROPERTY QueuedIsSent
