CONSTANTS
  NumChannels = 1
  NumLayers = 1
  NumSlots = 2
  v1 = v1
  v2 = v2
  v3 = v3
  v4 = v4
  VoiceIds = {v1, v2, v3}
  null = null
  NoVoice = null
  keyboard = keyboard
  Keyboard = keyboard
  c5 = c5
  d5 = d5
  Notes = {c5}
  short = short
  loop = loop
  Samples = {loop}
  nosample = nosample
  NoSample = nosample
  LoopedSamples = {loop}
  drum = drum
  bell = bell
  Instruments = {bell}
  noinst = noinst
  NoInst = noinst
  Patch <- Fading
  Cells <- EffectStrokes
  KeyCells <- KeyStrokes
  Speed = 2
  MaxDelay = 2
  MaxRetrig = 2
  FullFade = 2
  EnvEnd = 1
SPECIFICATION FairSpec
PROPERTIES NotesHeard FadesEnd
