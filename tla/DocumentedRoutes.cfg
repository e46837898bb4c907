\* Two goroutines, two clients with a browser each, one task.
SPECIFICATION Spec
CONSTANTS
  Requests = {r1, r2}
  Clients = {1, 2}
  Tasks = {"123"}
  MaxPuts = 2
  MaxRequests = 3
  MaxTime = 2
  URLDuration = 1
  MaxAge = 2
SYMMETRY RequestSymmetry
INVARIANTS DocumentedRoutesServed
\* The system rests once MaxRequests requests are served.
CHECK_DEADLOCK FALSE
