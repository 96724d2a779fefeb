CONSTANTS
  c1 = c1
  b1 = b1
  b2 = b2
  b3 = b3
  Channels = {c1}
  Names = {b1, b2, b3}
  MaxBuffers = 3
  MaxOutputs = 5
  Threshold = 0
SPECIFICATION NamedSpec
PROPERTIES RoutesKept
