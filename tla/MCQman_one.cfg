CONSTANTS
  TimestampBits = 3
  Apps = {0}
  NumFlows = 2
  BadFlowIds = {2}
  Levels = 2
  RateScale = 2
  Rates = {0, 2}
  MaxChunks = {2}
  AddAvails = {1, 3}
  SetAvails = {0}
  SetInputs <- MCSetInputs
  Batches = {2}
  Elapsed = {1, 3}
  MaxSetCalls = 3
SPECIFICATION Spec
INVARIANTS
  TypeOK
  ListsWellFormed
  BackloggedIsScheduled
  AppAvailCoversFlows
  SkiplistOrdered
  SkiplistWithinHorizon
  RelTimeIsWrappedDistance
PROPERTIES
  VirtualTimeMonotone
