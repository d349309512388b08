CONSTANTS
  TimestampBits = 3
  Apps = {0}
  NumFlows = 1
  BadFlowIds = {}
  Levels = 2
  RateScale = 2
  Rates = {0, 1}
  MaxChunks = {1}
  AddAvails = {1, 2}
  SetAvails = {0}
  SetInputs <- MCSetInputs
  Batches = {1, 2}
  Elapsed = {1, 5}
  MaxSetCalls = 2
SPECIFICATION Spec
PROPERTIES
  VirtualTimeMonotone
