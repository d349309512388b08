CONSTANTS
  Conns = {c1}
  Listener = lst
  NumQueues = 1
  KoutLen = 2
  RxqLen = 5
  TxqLen = 2
  RxbLen = 2
  TxbLen = 2
  Nums = {5}
  MaxRxBytes = 3
  MaxTxBytes = 0
  MaxMoves = 0
SPECIFICATION Spec
INVARIANTS RxEventsMatchStream
PROPERTIES BumpsEventuallySent UpdatesEventuallyHandled
