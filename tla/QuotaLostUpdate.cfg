\* Two requests charge one client.
SPECIFICATION Spec
CONSTANTS
  c1 = c1
  Clients = {c1}
  Workers = {w1}
  NoWorker = NoWorker
  Owner <- MCOwner
  InitialQuota <- MCInitialQuota
  Tasks = {t1, t2}
  Requests = {r1, r2}
  MaxImages = 2
  MaxQuota = 2
  Settable <- PhaseStatuses
  Operations <- WorkerOperations
  MaxRequests = 4
  MaxFaults = 0
  Stalls = FALSE
INVARIANTS QuotaAccounting
\* The system rests once MaxRequests requests are served.
CHECK_DEADLOCK FALSE
