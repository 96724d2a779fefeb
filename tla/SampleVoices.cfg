SPECIFICATION FairSpec
CONSTANTS
  p = p
  k = k
  nobody = nobody
  Players = {p}
  Keyboard = k
  Nobody = nobody
  Unit = 2
  MixFreq = 2
  Freqs = {3}
  MaxSize = 3
  Sizes = {3}
  Blocks = {3}
  Offsets = {0}
  Selections <- Parts
  Clips = {1}
  Commands = {"copy", "key", "loop", "load", "cut", "paste", "effect"}
INVARIANTS LoopsBack OrderKept
PROPERTIES LoopInSample KeepsTime BlocksEnd
CHECK_DEADLOCK FALSE
