CONSTANTS
  Conns = {c1}
  Listener = lst
  NumQueues = 1
  KoutLen = 2
  RxqLen = 2
  TxqLen = 2
  RxbLen = 2
  TxbLen = 2
  Nums = {2}
  MaxRxBytes = 2
  MaxTxBytes = 1
  MaxMoves = 0
SPECIFICATION Spec
INVARIANT ConnClosedWhenKernelClosed
