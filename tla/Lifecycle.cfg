\* Start to end with two API requests and two failures anywhere.
SPECIFICATION FairSpec
CONSTANTS
  MaxRequests = 2
  MaxFaults = 2
INVARIANTS TypeOK HookedWhenSettled
PROPERTIES StopsListening AllServe
\* The program ends, or waits for ever.
CHECK_DEADLOCK FALSE
