\* Two requests of users, workers and administrators interleave over one task
\* whose images may overdraw the quota.
SPECIFICATION FairSpec
CONSTANTS
  c1 = c1
  Clients = {c1}
  Workers = {w1}
  NoWorker = NoWorker
  Owner <- MCOwner
  InitialQuota <- LowQuota
  Tasks = {t1}
  Requests = {r1, r2}
  MaxImages = 2
  MaxQuota = 1
  Settable <- PhaseStatuses
  Operations <- TaskOperations
  MaxRequests = 4
  MaxFaults = 0
  Stalls = FALSE
INVARIANTS PaidBeforeRecognition PendingAnnounced QuotaFloor NeverOvercharged
PROPERTIES RequestsEnd
\* The system rests once MaxRequests requests are served.
CHECK_DEADLOCK FALSE
