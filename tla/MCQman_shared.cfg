CONSTANTS
  TimestampBits = 3
  Apps = {0, 1}
  NumFlows = 2
  BadFlowIds = {}
  Levels = 1
  RateScale = 2
  Rates = {1}
  MaxChunks = {1}
  AddAvails = {2}
  SetAvails = {0}
  SetInputs <- MCSetInputs
  Batches = {1}
  Elapsed = {1}
  MaxSetCalls = 4
SPECIFICATION Spec
PROPERTIES
  VirtualTimeMonotone
