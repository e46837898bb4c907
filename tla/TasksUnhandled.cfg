\* No failure: three calls of InitDB and one request.
SPECIFICATION Spec
CONSTANTS
  MaxRequests = 1
  MaxFaults = 0
INVARIANTS TasksHandled
\* The program ends, or waits for ever.
CHECK_DEADLOCK FALSE
