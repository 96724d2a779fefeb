---------------------------- MODULE PatternEditor ---------------------------
(***************************************************************************)
(* The commands of the pattern editor (interface_binds/editor*.cpp) on one *)
(* pattern and on the clipboard, which is a pattern too.  A command walks  *)
(* over cells in an order of its own and reads cells it may have changed.  *)
(*                                                                         *)
(* Where the cursor stands and what is selected are inputs: shortening a   *)
(* pattern moves neither, so both may lie below its end, and going to a    *)
(* shorter pattern may leave a selection that ends above its beginning.    *)
(***************************************************************************)
EXTENDS PatternStore, Integers, Sequences

CONSTANTS
  Edits,      \* what a command over the selection makes of notes: of those in
              \* .on it makes .becomes, the others it leaves alone
  ByteValues, \* the values of the byte that set_length takes
  Spots,      \* bound: the cells where the cursor is put
  Blocks,     \* bound: the selections that are made
  Lengths,    \* bound: the lengths that are set
  MaxNotes    \* bound: the notes of a pattern

ASSUME LengthsFitBytes == ByteValues \in Nat /\ MaxLength < ByteValues

ASSUME EditsChangeNotes == Edits \subseteq [on : SUBSET Notes, becomes : [Notes -> Notes]]

ASSUME BoundsMeet ==
  /\ Spots \subseteq Cells
  /\ Blocks \subseteq {s \in [x : Columns, y : Rows, ex : Columns, ey : Rows] : s.x <= s.ex}
  /\ Lengths \subseteq Nat

VARIABLES
  clipboard,       \* a pattern
  clipboard_width  \* and how many of its columns count

editor == <<pattern, clipboard, clipboard_width>>

-----------------------------------------------------------------------------
(* The walks.                                                              *)
Up(a, b) == IF a > b THEN << >> ELSE [k \in 1 .. b - a + 1 |-> a + k - 1]
Down(b, a) == IF a > b THEN << >> ELSE [k \in 1 .. b - a + 1 |-> b - k + 1]

ByColumns(x, ex, rows) ==
  IF x > ex THEN << >> ELSE
  [k \in 1 .. (ex - x + 1) * Len(rows) |->
     <<x + (k - 1) \div Len(rows), rows[((k - 1) % Len(rows)) + 1]>>]

ByRows(s) ==
  LET w == s.ex - s.x + 1
  IN  IF s.y > s.ey THEN << >> ELSE
      [k \in 1 .. w * (s.ey - s.y + 1) |-> <<s.x + ((k - 1) % w), s.y + (k - 1) \div w>>]

(* Takes one cell after the other and makes of the pattern, as it is by    *)
(* then, what step says.                                                   *)
Walk(p, cells, step) ==
  LET walked[k \in 0 .. Len(cells)] ==
        IF k = 0 THEN p ELSE step[walked[k - 1]][cells[k]]
  IN  walked[Len(cells)]

(* The steps that assign a value to every cell, and to those of some notes. *)
Put(value(_, _)) == [q \in Pattern |-> [c \in Cells |-> Assign(q, c, value(q, c))]]

PutOn(notes, value(_, _)) ==
  [q \in Pattern |-> [c \in Cells |->
     IF GetNote(q, c) \in notes THEN Assign(q, c, value(q, c)) ELSE q]]

Above(c, n) == <<c[1], c[2] - n>>
Under(c) == <<c[1], c[2] + 1>>

LastRow(p) == p.length - 1
Least(a, b) == IF a < b THEN a ELSE b

-----------------------------------------------------------------------------
(* Typing at the cursor: a command assigns to the fields of the note one   *)
(* by one, each through a reference of its own; two stand for all.         *)
TypeNote(at, first, n) ==
  /\ pattern' = Assign(Assign(pattern, at, first), at, n)
  /\ UNCHANGED <<clipboard, clipboard_width>>

TypeField(at, n) ==
  /\ Write(at, n)
  /\ UNCHANGED <<clipboard, clipboard_width>>

(* Fault: the rows are walked from the cursor on, so one note fills them.   *)
FaultyCursorInsert(at) ==
  /\ pattern' = Assign(Walk(pattern, ByColumns(at[1], at[1], Up(at[2] + 1, LastRow(pattern))),
                            Put(LAMBDA q, c : GetNote(q, Above(c, 1)))),
                       at, NoNote)
  /\ UNCHANGED <<clipboard, clipboard_width>>

CursorInsert(at) ==
  /\ pattern' = Assign(Walk(pattern, ByColumns(at[1], at[1], Down(LastRow(pattern), at[2] + 1)),
                            Put(LAMBDA q, c : GetNote(q, Above(c, 1)))),
                       at, NoNote)
  /\ UNCHANGED <<clipboard, clipboard_width>>

CursorDelete(at) ==
  /\ pattern' = Assign(Walk(pattern, ByColumns(at[1], at[1], Up(at[2], LastRow(pattern) - 1)),
                            Put(LAMBDA q, c : GetNote(q, Under(c)))),
                       <<at[1], LastRow(pattern)>>, NoNote)
  /\ UNCHANGED <<clipboard, clipboard_width>>

(* The number of rows goes to set_length as a byte.  *)
Copy(s) ==
  /\ clipboard_width' = s.ex - s.x + 1
  /\ clipboard' =
       Walk(SetLength(clipboard, (s.ey - s.y + 1) % ByteValues),
            ByColumns(0, s.ex - s.x, Up(0, s.ey - s.y)),
            Put(LAMBDA q, c : GetNote(pattern, <<s.x + c[1], s.y + c[2]>>)))

SelectionCopy(s) == Copy(s) /\ UNCHANGED pattern

SelectionZap(s) ==
  /\ Copy(s)
  /\ pattern' = Walk(pattern, ByRows(s), Put(LAMBDA q, c : NoNote))

(* The cells from the cursor on that a paste reaches, and what it brings.  *)
LimitX(at) == Least(at[1] + clipboard_width, Width) - 1
LimitY(at) == Least(at[2] + clipboard.length, pattern.length) - 1

Brought(at, c) == GetNote(clipboard, <<c[1] - at[1], c[2] - at[2]>>)

PasteOverwrite(at) ==
  /\ pattern' = Walk(pattern, ByColumns(at[1], LimitX(at), Up(at[2], LimitY(at))),
                     Put(LAMBDA q, c : Brought(at, c)))
  /\ UNCHANGED <<clipboard, clipboard_width>>

PasteMix(at) ==
  /\ pattern' = Walk(pattern, ByColumns(at[1], LimitX(at), Up(at[2], LimitY(at))),
                     PutOn({NoNote}, LAMBDA q, c : Brought(at, c)))
  /\ UNCHANGED <<clipboard, clipboard_width>>

PasteInsert(at) ==
  /\ pattern' = Walk(pattern,
                     ByColumns(at[1], LimitX(at),
                               Down(LastRow(pattern), LimitY(at) + 1) \o Up(at[2], LimitY(at))),
                     Put(LAMBDA q, c : IF c[2] > LimitY(at)
                                       THEN GetNote(q, Above(c, clipboard.length))
                                       ELSE Brought(at, c)))
  /\ UNCHANGED <<clipboard, clipboard_width>>

(* Raising and lowering take every note of the selection by reference; the *)
(* commands on volumes and instruments only those that they are to change, *)
(* and nothing at all of a single row.                                     *)
Edited(e, n) == IF n \in e.on THEN e.becomes[n] ELSE n

SelectionRaise(s, e) ==
  /\ pattern' = Walk(pattern, ByRows(s), Put(LAMBDA q, c : Edited(e, GetNote(q, c))))
  /\ UNCHANGED <<clipboard, clipboard_width>>

SelectionEdit(s, e) ==
  /\ s.y < s.ey
  /\ pattern' = Walk(pattern, ByColumns(s.x, s.ex, Up(s.y, s.ey)),
                     PutOn(e.on, LAMBDA q, c : e.becomes[GetNote(q, c)]))
  /\ UNCHANGED <<clipboard, clipboard_width>>

SelectionExpand(s) ==
  /\ s.y < s.ey
  /\ pattern' = Walk(pattern,
                     ByColumns(s.x, s.ex, Down(Least(2 * s.ey - s.y, LastRow(pattern)), s.y)),
                     Put(LAMBDA q, c : IF (c[2] - s.y) % 2 = 0
                                       THEN GetNote(q, <<c[1], s.y + (c[2] - s.y) \div 2>>)
                                       ELSE NoNote))
  /\ UNCHANGED <<clipboard, clipboard_width>>

SelectionShrink(s) ==
  /\ s.y < s.ey
  /\ pattern' = Walk(pattern, ByColumns(s.x, s.ex, Up(s.y, s.ey)),
                     Put(LAMBDA q, c : IF c[2] - s.y >= (s.ey - s.y) \div 2 THEN NoNote
                                       ELSE GetNote(q, <<c[1], s.y + 2 * (c[2] - s.y)>>)))
  /\ UNCHANGED <<clipboard, clipboard_width>>

SetPatternLength(length) == Resize(length) /\ UNCHANGED <<clipboard, clipboard_width>>

ClearPattern == Erase /\ UNCHANGED <<clipboard, clipboard_width>>

-----------------------------------------------------------------------------
(* The width of the clipboard is read uninitialized before the first copy. *)
EditInit ==
  /\ Init
  /\ clipboard = Blank
  /\ clipboard_width \in 0 .. Width

(* Bound: notes come into a pattern that has few of them above its end.    *)
Few == Cardinality({c \in Inside(pattern) : Shown(pattern)[c] # NoNote}) <= MaxNotes

EditNext ==
  \/ \E at \in Spots :
       /\ Few
       /\ \/ \E n \in Notes : TypeField(at, n) \/ \E first \in Notes \ {NoNote} : TypeNote(at, first, n)
          \/ CursorInsert(at) \/ CursorDelete(at)
          \/ PasteOverwrite(at) \/ PasteMix(at) \/ PasteInsert(at)
  \/ \E s \in Blocks :
       /\ Few
       /\ \/ SelectionCopy(s) \/ SelectionZap(s) \/ SelectionExpand(s) \/ SelectionShrink(s)
          \/ \E e \in Edits : SelectionRaise(s, e) \/ SelectionEdit(s, e)
  \/ \E length \in Lengths : SetPatternLength(length)
  \/ ClearPattern

EditSpec == EditInit /\ [][EditNext]_editor

-----------------------------------------------------------------------------
Seen == INSTANCE Sheet WITH
          sheet <- Shown(pattern), length <- pattern.length,
          clip <- [width |-> clipboard_width, length |-> clipboard.length,
                   notes |-> Shown(clipboard)]

(* The editor shows a sheet that every command changes at once, although   *)
(* it walks over the cells and writes them one behind, in the same columns *)
(* it reads.  One command falls short of its name: shrinking may lose the  *)
(* last of the rows it should keep (see Shrink of Sheet).                  *)
ShowsSheet == Seen!Spec
=============================================================================
