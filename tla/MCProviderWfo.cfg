\* The detail page of a provider, whose WFO legs only supply links.
SPECIFICATION MCSpec
CONSTANTS
  Version = {full, empty}
  Listed = {full}
  Connected = {full}
  AskedPages = {"provider"}
  MaxFailures = 1
  MaxChanged = 0
  StillPages = {}
INVARIANTS
  ProviderSurvivesWfo
