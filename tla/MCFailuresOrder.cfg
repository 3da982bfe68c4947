\* Interleaved failures of two checks.
SPECIFICATION Spec
CONSTANTS
  Workflow = {validate_stp, validate_sdp}
  Subscription = {sub1}
  PageLimit = 3
  MaxProcesses = 3
INVARIANTS
  NewestFirst
