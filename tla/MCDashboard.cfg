\* Two circuits and one from before, of which one answer has two; two reservations,
\* one of which may be of a retry or of another requester; one SDP subscription,
\* which may lack an end, and one or the other link in the DDS; one change of a source between the legs.
SPECIFICATION Spec
CONSTANTS
  Path <- MCPath
  SdpStps <- MCSdpStps
  Document <- MCDocument
  StpSub <- MCStpSub
  History <- MCHistory
  CircuitLimit = 2
  MaxCircuits = 2
  MaxReservations = 2
  MaxSdps = 1
  MaxEdits = 1
INVARIANTS
  CardsOfOneSnapshot
  CardsMatchTheirPages
  PathAndSdpsAgree
  PathEndsLinked
