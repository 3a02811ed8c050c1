SPECIFICATION FairSpec
CONSTANTS
  Profile = "directional"
  Topology = "single"
  AssertedEnd = "Closed"
  CustomRules = FALSE
  Http = http
  Callers = {http}
  NoCaller = none
  QueueLength = 1
  Impatient = {}
  SampledFirst = FALSE
INVARIANTS MaintenanceQuiet
PROPERTIES PulseEnds TravelEnds RequestsAnswered ChangesPublished
