---------------------------- MODULE PatternStore ----------------------------
(***************************************************************************)
(* A pattern of the song (trackercore/pattern.cpp): columns of notes, each *)
(* column a map from rows to the notes that are not empty.                 *)
(*                                                                         *)
(* A note is changed through a reference to a note kept aside.  It goes    *)
(* into its column only when the next reference is asked for, so the       *)
(* pattern shows what is stored with the note kept aside laid over it.     *)
(***************************************************************************)
EXTENDS Naturals, FiniteSets

CONSTANTS
  Width,          \* PATTERN_WIDTH: columns of a pattern
  MaxLength,      \* MAX_PATTERN_LENGTH: rows a pattern may have
  DefaultLength,  \* rows of a new pattern
  Notes,          \* what a cell may hold
  NoNote          \* the empty note

ASSUME BoundsPositive ==
  /\ Width \in Nat \ {0}
  /\ MaxLength \in Nat \ {0}
  /\ DefaultLength \in 1 .. MaxLength

ASSUME NoNoteIsNote == NoNote \in Notes

Columns == 0 .. Width - 1
Rows == 0 .. MaxLength - 1
Cells == Columns \X Rows

(* stored is what the columns hold, empty the pattern's own flag.  While   *)
(* valid, note is the note kept aside and cell its place.                  *)
Pattern == [stored : [Cells -> Notes], empty : BOOLEAN, length : 1 .. MaxLength,
            valid : BOOLEAN, cell : Cells, note : Notes]

Inside(p) == Columns \X (0 .. p.length - 1)

Blank == [stored |-> [c \in Cells |-> NoNote], empty |-> TRUE, length |-> DefaultLength,
          valid |-> FALSE, cell |-> <<0, 0>>, note |-> NoNote]

-----------------------------------------------------------------------------
(* Fault: nobody looks whether the note taken out was the last one.        *)
FaultyInsert(p, c, n) ==
  IF n = NoNote /\ p.empty THEN p
  ELSE [p EXCEPT !.stored = [p.stored EXCEPT ![c] = n], !.empty = FALSE]

(* A note into its column, or the row out of it when the note is empty.    *)
Insert(p, c, n) ==
  LET stored == [p.stored EXCEPT ![c] = n]
  IN  IF n = NoNote /\ p.empty THEN p
      ELSE [p EXCEPT !.stored = stored,
                     !.empty = n = NoNote /\ \A d \in Cells : stored[d] = NoNote]

Retrieve(p, c) == IF p.empty THEN NoNote ELSE p.stored[c]

GetNote(p, c) == IF p.valid /\ p.cell = c THEN p.note ELSE Retrieve(p, c)

Shown(p) == [c \in Cells |-> GetNote(p, c)]

Flush(p) == IF p.valid THEN Insert(p, p.cell, p.note) ELSE p

(* get_note_ref and the assignment to what it returns.  Outside of the     *)
(* pattern the note kept aside belongs to no cell and what is assigned to  *)
(* it is lost.                                                             *)
Assign(p, c, n) ==
  IF c \in Inside(p)
  THEN [Flush(p) EXCEPT !.valid = TRUE, !.cell = c, !.note = n]
  ELSE [Flush(p) EXCEPT !.valid = FALSE, !.cell = <<0, 0>>, !.note = NoNote]

(* The loops of set_length leave a column when they have stepped on to its *)
(* end, before they have looked at its last note.                          *)
LastOfColumn(stored, c) == \A r \in Rows : r > c[2] => stored[<<c[1], r>>] = NoNote

(* Fault: the notes of the rows that fall away stay in their columns.      *)
CarelessSetLength(p, length) ==
  IF length \notin 1 .. MaxLength THEN p ELSE [p EXCEPT !.length = length]

SetLength(p, length) ==
  LET limit == IF p.length < length THEN p.length ELSE length
      kept == [c \in Cells |-> IF c[2] >= limit /\ ~ LastOfColumn(p.stored, c)
                               THEN NoNote ELSE p.stored[c]]
  IN  IF length \notin 1 .. MaxLength THEN p
      ELSE IF p.empty \/ length = p.length THEN [p EXCEPT !.length = length]
      ELSE [p EXCEPT !.length = length, !.stored = kept]

Clear(p) == [Blank EXCEPT !.length = p.length]

-----------------------------------------------------------------------------
VARIABLE pattern

Init == pattern = Blank

Write(c, n) == pattern' = Assign(pattern, c, n)

Resize(length) == pattern' = SetLength(pattern, length)

Erase == pattern' = Clear(pattern)

Next ==
  \/ \E c \in Cells, n \in Notes : Write(c, n)
  \/ \E length \in 0 .. MaxLength : Resize(length)
  \/ Erase

Spec == Init /\ [][Next]_pattern

-----------------------------------------------------------------------------
TypeOK == pattern \in Pattern

(* A pattern takes itself for empty exactly when its columns hold nothing, *)
(* so what the savers leave out with a pattern that is not in use is at    *)
(* most the note kept aside.  set_length does not touch the flag, and need *)
(* not, only because it never takes the last note of a column.             *)
EmptyExact == pattern.empty <=> \A c \in Cells : pattern.stored[c] = NoNote

(* Notes below the end of the pattern come back when it grows.  However    *)
(* often it has been resized, a column has two of them at most.            *)
Below(c) == {r \in pattern.length .. MaxLength - 1 : Shown(pattern)[<<c, r>>] # NoNote}

FewBelow == \A c \in Columns : Cardinality(Below(c)) <= 2
=============================================================================
