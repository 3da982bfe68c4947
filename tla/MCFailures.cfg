\* Two checks, one subscription and the system tasks, and a page limit the
\* failures can exceed.
SPECIFICATION Spec
CONSTANTS
  Workflow = {validate_stp, validate_sdp}
  Subscription = {sub1}
  PageLimit = 3
  MaxProcesses = 4
INVARIANTS
  OneRowPerProblem
  NewFailuresSurface
  NewProblemsAbove
