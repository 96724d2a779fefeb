CONSTANTS
  none = none
  empty = empty
  break = break
  MaxOrders = 3
  Patterns <- MCPatterns
  Rows <- MCRows
  NumChannels = 2
  Empty = empty
  Break = break
  Commands <- MCCommands
  NoCommand = none
  InitialSpeed = 2
  MaxSpeed = 2
  Songs <- PlaySongs
  EditValues <- NoEdits
  LiveCommands <- Live
  StartArgs <- Starts
SPECIFICATION Spec
INVARIANTS TypeOK PatternExists PlaysTheOrder LoopWins RowExists
PROPERTIES BreakGoesOn
CHECK_DEADLOCK FALSE
