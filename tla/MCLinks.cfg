\* Two circuits, one of them retried, and a reservation; an STP whose network two
\* providers may serve.  STP 3 is used by no circuit, and STP 2, the source of every
\* circuit, is in another domain.
SPECIFICATION MCSpec
CONSTANTS
  Page = {"provider", "stp"}
  Stp = {1, 3}
  Network = {1, 2}
  NetworkOf <- MCNetworkOf
  Ends <- MCEnds
  Nsa = {1, 2}
  Name = {3}
  CircuitLimit = 2
  StpLimit = 1
  MaxCircuits <- MCMaxCircuits
  MaxTries <- MCMaxTries
  MaxReservations <- MCMaxReservations
  MaxStps <- MCMaxStps
  MaxPeers <- MCMaxPeers
  MaxNames <- MCMaxNames
  MaxEdits <- MCMaxEdits
INVARIANTS
  ReservationsLinkTheirCircuit
  ReservationsOnTheirTabs
  EndsLinkTheirStp
  CircuitsOfTheStp
  ProviderServesTheNetwork
