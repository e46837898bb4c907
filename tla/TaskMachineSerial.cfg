\* One request at a time, every operation and status, one crash or failed
\* statement anywhere, saves that may outlast the timeouts.
SPECIFICATION Spec
CONSTANTS
  c1 = c1
  Clients = {c1}
  Workers = {w1}
  NoWorker = NoWorker
  Owner <- MCOwner
  InitialQuota <- MCInitialQuota
  Tasks = {t1}
  Requests = {r1}
  MaxImages = 2
  MaxQuota = 1
  Settable <- AllStatuses
  Operations <- AllOperations
  MaxRequests = 4
  MaxFaults = 1
  Stalls = TRUE
INVARIANTS TypeOK QuotaAccounting SingleCharge
PROPERTIES TerminalStays ImplementsLedger
\* The system rests once MaxRequests requests are served.
CHECK_DEADLOCK FALSE
