SPECIFICATION Spec
CONSTANTS
  Profile = "directional"
  Topology = "dual"
  AssertedEnd = "Closed"
  CustomRules = FALSE
  Http = http
  Callers = {http}
  NoCaller = none
  QueueLength = 1
  Impatient = {}
  SampledFirst = TRUE
INVARIANTS ContradictionInterlockEnds
