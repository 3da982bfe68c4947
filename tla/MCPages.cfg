\* Every page, with at most two failing legs and one upstream changing while the
\* page is being fetched; the dashboard's eleven legs read sources at rest.
SPECIFICATION MCSpec
CONSTANTS
  Version = {full, empty}
  Listed = {full}
  Connected = {full}
  AskedPages = {"home", "circuits", "circuit", "topologies", "switching_services", "stps", "stp",
                "sdps", "sdp", "spectrum", "providers", "provider"}
  MaxFailures = 2
  MaxChanged = 1
  StillPages = {"home"}
INVARIANTS
  TypeOK
  NoServerError
  RefusalReported
  SectionsDegradeAlone
PROPERTIES
  ImplementsContract
  RequestAnswered
