\* The bounds of libtas_poll: two fast-path cores and one move of the connection.
CONSTANTS
  Conns = {c1}
  Listener = lst
  NumQueues = 2
  KoutLen = 2
  RxqLen = 2
  TxqLen = 2
  RxbLen = 2
  TxbLen = 2
  Nums = {2}
  MaxRxBytes = 2
  MaxTxBytes = 1
  MaxMoves = 1
SPECIFICATION Spec
PROPERTY ConnEventsRefined
