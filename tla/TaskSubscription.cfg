\* Two workers, either of which may stop taking tasks at any point, subscribe while
\* two requests save and announce a task twice; each channel holds one task, so that
\* it overflows.
SPECIFICATION FairSpec
CONSTANTS
  Tasks = {t1}
  Publishers = {p1, p2}
  Streams = {s1, s2}
  NoOne = NoOne
  Capacity = 1
  MaxRequests = 2
INVARIANTS TypeOK SendsOnOpen SubscribersServed NoneMissed
PROPERTIES NobodyWaits PendingDelivered
\* The system rests once MaxRequests requests are served and every worker is gone.
CHECK_DEADLOCK FALSE
