\* Two goroutines, an API request and a form, or two of either, over a seeded
\* database.
SPECIFICATION Spec
CONSTANTS
  Requests = {r1, r2}
  Emails = {e1, e2}
  MaxId = 3
  TokenDuration = 1
  MaxTime = 2
  MaxRequests = 5
SYMMETRY AccountsSymmetry
INVARIANTS TablesConsistent TokensLapse CollidesOnce
PROPERTIES OnlyCopiesReturn LoginKept PanicsOnlyWhenMoved
\* The system rests once MaxRequests requests are served.
CHECK_DEADLOCK FALSE
