SPECIFICATION Spec
CONSTANTS
  Client = {c1, c2}
  Setting = {1, 2}
  Content <- MCContent
  Room = 5
  Scenarios <- MCScenarios
INVARIANTS OwnBytes UsedIsStored
PROPERTIES EveryoneServed ImplementsConfigStore FittingUploadLeads
CHECK_DEADLOCK FALSE
