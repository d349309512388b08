CONSTANTS
  s1 = s1  s2 = s2  s3 = s3
  Socks <- MCSocks
  None = None
  MaxFds = 3
  ListenArgs = {1}
  MaxCalls = 5
SPECIFICATION Spec
INVARIANTS TypeOK CloseFinishesOnce AcceptWakeup
PROPERTIES BlockingCallsReturn
