CONSTANTS
  c1 = c1  c2 = c2  c3 = c3
  Clients = {c1, c2}
  Tasks = {1, 2, 3, 4, 5}
  StopAwaits = FALSE
  Shutdowns = FALSE
SPECIFICATION Spec
INVARIANTS LoadUnwinds
PROPERTIES RequestAnswered
CHECK_DEADLOCK FALSE
