\* A circuit and an SDP of no use and two of each after them, one more than the
\* queries answer, with two reservations and up to two changes of a source between
\* the three legs.
SPECIFICATION MCSpec
CONSTANTS
  Path <- MCPath
  SdpStps <- MCSdpStps
  Bandwidth = {3}
  CircuitLimit = 2
  SdpLimit = 2
  MaxCircuits = 3
  MaxReservations = 2
  MaxSdps = 3
  MaxEdits = 2
INVARIANTS
  StableCircuitsPlaced
  OnlyOpenCircuitsShown
  ReservedOnce
  VlanOfTheSdp
  FullLinkReadsFull
