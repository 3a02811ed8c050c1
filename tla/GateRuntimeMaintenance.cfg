SPECIFICATION Spec
CONSTANTS
  Profile = "sequential"
  Topology = "single"
  AssertedEnd = "Closed"
  CustomRules = FALSE
  Http = http
  Callers = {http, homekit}
  NoCaller = none
  QueueLength = 1
  Impatient = {}
  SampledFirst = TRUE
INVARIANTS MaintenanceQuiet
