\* Two programs seed one database, with three failures or restarts anywhere.
SPECIFICATION Spec
CONSTANTS
  Programs = {p1, p2}
  Files = 2
  MaxFaults = 3
INVARIANTS TypeOK SeededOnce AdminBeforeServing ListedStored
\* The programs serve, or have failed.
CHECK_DEADLOCK FALSE
