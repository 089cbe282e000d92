CONSTANTS
  MaxClients = 4
  Models <- MCModels
  Size <- MCSize
  Budget = 2
  Scenarios <- MCScenarios
  Faults = {"load", "stop", "cancel", "shutdown"}
SPECIFICATION Spec
INVARIANTS CommittedBounded EnginesFitUnlessPreempted LeasesHonoured
PROPERTIES AcquireEnds ShutdownReturns
CHECK_DEADLOCK FALSE
