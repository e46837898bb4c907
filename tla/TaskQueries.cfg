\* Two callers of the generated functions and a reader of the API.
SPECIFICATION Spec
CONSTANTS
  Callers = {c1, c2}
  MaxId = 2
  Values = {1, 2}
  Inputs <- MCInputs
  Masks <- MCMasks
  MaxOperations = 2
  MaxFaults = 1
  Pages = {0, 1, 2}
  PageSizes <- MCPageSizes
SYMMETRY CallerSymmetry
INVARIANTS OutcomesTell PageAgreesWithTotal
PROPERTIES PatchKeeps
\* The system rests once MaxOperations operations are done.
CHECK_DEADLOCK FALSE
