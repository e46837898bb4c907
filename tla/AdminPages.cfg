\* Two browsers of administrators over a seeded database.
SPECIFICATION Spec
CONSTANTS
  Browsers = {b1, b2}
  MaxUser = 2
  MaxClient = 2
  MaxRequests = 7
  MaxFaults = 1
  MaxExpiries = 1
SYMMETRY BrowserSymmetry
 
PROPERTIES MismatchExplained
\* The system rests once MaxRequests requests are served.
CHECK_DEADLOCK FALSE
