\* Two fetches to the page's own origin and one elsewhere; the clock is set back
\* or forward twice, by more than the guard.
SPECIFICATION BrowserSpec
CONSTANTS
  Fetch = {f, g, h}
  SameOrigin = {f, g}
  GUARD_MS = 3
  MaxStep = 4
  MaxSteps = 2
INVARIANTS
  ReloadsSpaced
  SwallowedWhileReloading
PROPERTIES
  SessionRenewed
