CONSTANTS
  c1 = c1
  c2 = c2
  Channels = {c1, c2}
  MaxBuffers = 2
  MaxOutputs = 5
  Threshold = 0
SPECIFICATION FairSpec
INVARIANTS Acyclic MixesRoutes
PROPERTIES SilenceSleeps
