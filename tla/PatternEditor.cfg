SPECIFICATION EditSpec
CONSTANTS
  none = none
  c5 = c5
  Width = 2
  MaxLength = 5
  DefaultLength = 5
  ByteValues = 6
  MaxNotes = 2
  NoNote = none
  Notes <- TheNotes
  Edits <- Wiped
  Spots <- TheSpots
  Blocks <- TheBlocks
  Lengths <- TheLengths
INVARIANTS EmptyExact FewBelow
PROPERTIES ShowsSheet
