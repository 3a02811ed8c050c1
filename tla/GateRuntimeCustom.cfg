SPECIFICATION Spec
CONSTANTS
  Profile = "sequential"
  Topology = "single"
  AssertedEnd = "Closed"
  CustomRules = TRUE
  Http = http
  Callers = {http}
  NoCaller = none
  QueueLength = 1
  Impatient = {}
  SampledFirst = FALSE
INVARIANTS TravelSupervised MotionCoherent
PROPERTIES ClaimsAreEarned
