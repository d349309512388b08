CONSTANTS
  TimestampBits = 3
  Apps = {0, 1}
  NumFlows = 1
  BadFlowIds = {}
  Levels = 2
  RateScale = 2
  Rates = {0, 1}
  MaxChunks = {1}
  AddAvails = {1, 2}
  SetAvails = {0}
  SetInputs <- MCSetInputs
  Batches = {1, 2}
  Elapsed = {1}
  MaxSetCalls = 2
SPECIFICATION Spec
INVARIANTS
  ListsWellFormed
  AppAvailIsFlowSum
PROPERTIES
  PollReturns
