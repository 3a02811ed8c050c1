SPECIFICATION MCSpec
CONSTANTS
  Profile = "directional"
  Topology = "dual"
  AssertedEnd = "Closed"
  CustomRules = FALSE
  Http = http
  Callers = {http}
  NoCaller = none
  QueueLength = 1
  Impatient = {http}
  SampledFirst = TRUE
INVARIANTS PulseSupervised TravelSupervised FeedbackFollowed
PROPERTIES ContradictionBlocksPulses PulsePromised
