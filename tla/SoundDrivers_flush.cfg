CONSTANTS
  gui = gui
  audio = audio
  notifier = notifier
  c1 = c1
  c2 = c2
  oss = oss
  rtaudio = rtaudio
  jack = jack
  dummy = dummy
  nobody = nobody
  Gui = gui
  Audio = audio
  Notifier = notifier
  Nobody = nobody
  Clients = {c1}
  Drivers = {oss, rtaudio, jack, dummy}
  Kind <- MCKind
  Builds <- MCBuilds
  MaxMixers = 1
SPECIFICATION Spec
INVARIANTS FlushesOpenDevice
CHECK_DEADLOCK FALSE
