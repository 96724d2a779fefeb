CONSTANTS
  none = none
  empty = empty
  break = break
  MaxOrders = 3
  Patterns <- MCPatterns
  Rows <- MCRows
  NumChannels = 2
  Empty = empty
  Break = break
  Commands <- MCCommands
  NoCommand = none
  InitialSpeed = 2
  MaxSpeed = 2
  Songs <- LiveSongs
  EditValues <- ToEmpty
  LiveCommands <- NoLive
  StartArgs <- AnyOrder
SPECIFICATION FairSpec
PROPERTIES PreviousReturns SongGoesOn
CHECK_DEADLOCK FALSE
