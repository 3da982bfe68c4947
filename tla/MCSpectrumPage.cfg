\* Two SDP subscriptions for the same pair of STPs.
SPECIFICATION Spec
CONSTANTS
  Path <- MCPath
  SdpStps <- MCSdpStps
  Bandwidth = {3}
  CircuitLimit = 1
  SdpLimit = 2
  MaxCircuits = 1
  MaxReservations = 1
  MaxSdps = 2
  MaxEdits = 0
INVARIANTS
  RowsHaveTheirPage
