SPECIFICATION Spec
CONSTANTS
  Profile = "sequential"
  Topology = "single"
  AssertedEnd = "Closed"
  CustomRules = FALSE
  Http = http
  Callers = {http}
  NoCaller = none
  QueueLength = 1
  Impatient = {http}
  SampledFirst = FALSE
PROPERTIES OnlyAwaitedRequestsActuate
