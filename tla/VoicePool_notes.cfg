CONSTANTS
  NumChannels = 1
  NumLayers = 2
  NumSlots = 2
  v1 = v1
  v2 = v2
  v3 = v3
  v4 = v4
  VoiceIds = {v1, v2, v3, v4}
  null = null
  NoVoice = null
  keyboard = keyboard
  Keyboard = keyboard
  c5 = c5
  d5 = d5
  Notes = {c5, d5}
  short = short
  loop = loop
  Samples = {short, loop}
  nosample = nosample
  NoSample = nosample
  LoopedSamples = {loop}
  drum = drum
  bell = bell
  Instruments = {drum, bell}
  noinst = noinst
  NoInst = noinst
  Patch <- Layered
  Cells <- LayeredRows
  KeyCells <- KeyNotes
  Speed = 2
  MaxDelay = 1
  MaxRetrig = 1
  FullFade = 2
  EnvEnd = 1
SYMMETRY Heap
SPECIFICATION Spec
INVARIANTS PointersLive OneSlotEach ListBounded OldNotesEnd DuplicatesCut
PROPERTIES KeyboardKept BackgroundFirst
