CONSTANTS
  c1 = c1  c2 = c2  c3 = c3
  Clients = {c1, c2, c3}
  Tasks = {1, 2, 3, 4, 5, 6}
  StopAwaits = TRUE
  Shutdowns = TRUE
SPECIFICATION Safety
SYMMETRY AnyClient
INVARIANTS ResidencyTypeOK SingleEngine EngineInUse WaitersCounted ResidentConsistent
PROPERTIES CancelledAlone
CHECK_DEADLOCK FALSE
